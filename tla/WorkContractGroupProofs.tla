---------------------- MODULE WorkContractGroupProofs ----------------------
(***************************************************************************)
(* Proofs about WorkContractGroup for any number of slots, threads and     *)
(* incarnations: what the arithmetic on the flag word does to its flags;   *)
(* the inductive invariant IInv, which says, part by part, who may hold a  *)
(* slot while it has no contract, why nobody can reach it then, and which  *)
(* thread owes which slot a visit; and that the contract protocol          *)
(* implements ContractLifecycle.                                           *)
(***************************************************************************)
EXTENDS WorkContractGroup, TLAPS

-----------------------------------------------------------------------------
(* What the arithmetic on the flag word does to its three flags.           *)

(* The flags of a word are its binary digits. *)
LEMMA FlagBits ==
  ASSUME NEW f \in FlagWord
  PROVE  /\ Has(f, schedule_flag) <=> f \in {1, 3, 5, 7}
         /\ Has(f, execute_flag)  <=> f \in {2, 3, 6, 7}
         /\ Has(f, release_flag)  <=> f \in {4, 5, 6, 7}
<1>1. f \in {0, 1, 2, 3, 4, 5, 6, 7}
  BY DEF FlagWord
<1>2. QED
  BY <1>1 DEF Has, schedule_flag, execute_flag, release_flag

(* fetch_or(schedule_flag) sets that flag and touches no other. *)
LEMMA ScheduleSetsFlag ==
  ASSUME NEW f \in FlagWord
  PROVE  LET g == With(f, schedule_flag) IN
         /\ g \in FlagWord
         /\ Has(g, schedule_flag)
         /\ Has(g, execute_flag) <=> Has(f, execute_flag)
         /\ Has(g, release_flag) <=> Has(f, release_flag)
<1> DEFINE g == With(f, schedule_flag)
<1>1. f \in 0 .. 7
  BY DEF FlagWord
<1>2. g = IF f \in {1, 3, 5, 7} THEN f ELSE f + 1
  BY FlagBits DEF With, schedule_flag
<1>3. g \in FlagWord
  BY <1>1, <1>2 DEF FlagWord
<1> HIDE DEF g
<1>4. QED
  BY <1>1, <1>2, <1>3, FlagBits DEF g

(* fetch_or(release_flag | schedule_flag) sets both and leaves execute_flag. *)
LEMMA ReleaseSetsFlags ==
  ASSUME NEW f \in FlagWord
  PROVE  LET g == With(With(f, schedule_flag), release_flag) IN
         /\ g \in FlagWord
         /\ Has(g, schedule_flag)
         /\ Has(g, release_flag)
         /\ Has(g, execute_flag) <=> Has(f, execute_flag)
<1> DEFINE e == With(f, schedule_flag)
           g == With(e, release_flag)
<1>1. /\ e \in FlagWord
      /\ Has(e, schedule_flag)
      /\ Has(e, execute_flag) <=> Has(f, execute_flag)
  BY ScheduleSetsFlag
<1> HIDE DEF e
<1>2. g = IF e \in {4, 5, 6, 7} THEN e ELSE e + 4
  BY <1>1, FlagBits DEF With, release_flag
<1>3. e \in 0 .. 7
  BY <1>1 DEF FlagWord
<1>4. g \in FlagWord
  BY <1>2, <1>3 DEF FlagWord
<1> HIDE DEF g
<1>5. /\ Has(g, schedule_flag) /\ Has(g, release_flag)
      /\ Has(g, execute_flag) <=> Has(f, execute_flag)
  BY <1>1, <1>2, <1>3, <1>4, FlagBits
<1>6. QED
  BY <1>4, <1>5 DEF e, g

(* Adding one to the word of a pending contract carries from the schedule  *)
(* flag into the execute flag and no further.                              *)
LEMMA BeginCarries ==
  ASSUME NEW f \in FlagWord, Pending(f)
  PROVE  /\ f + 1 \in FlagWord
         /\ ~Has(f + 1, schedule_flag)
         /\ Has(f + 1, execute_flag)
         /\ Has(f + 1, release_flag) <=> Has(f, release_flag)
<1>1. f \in {1, 5}
  BY FlagBits DEF Pending, FlagWord
<1>2. f + 1 \in FlagWord
  BY <1>1 DEF FlagWord
<1>3. QED
  BY <1>1, <1>2, FlagBits

(* Subtracting execute_flag from the word of an executing contract clears  *)
(* that flag and borrows from no other.                                    *)
LEMMA ClearBorrowsNothing ==
  ASSUME NEW f \in FlagWord, Has(f, execute_flag)
  PROVE  /\ f - execute_flag \in FlagWord
         /\ ~Has(f - execute_flag, execute_flag)
         /\ Has(f - execute_flag, schedule_flag) <=> Has(f, schedule_flag)
         /\ Has(f - execute_flag, release_flag) <=> Has(f, release_flag)
<1>1. f \in {2, 3, 6, 7}
  BY FlagBits
<1>2. f - execute_flag = f - 2
  BY DEF execute_flag
<1>3. f - 2 \in FlagWord
  BY <1>1 DEF FlagWord
<1>4. QED
  BY <1>1, <1>2, <1>3, FlagBits

(* A word of zero has no flag. *)
LEMMA ZeroHasNoFlag ==
  0 \in FlagWord /\ ~Has(0, schedule_flag) /\ ~Has(0, execute_flag)
<1>1. 0 \in FlagWord
  BY DEF FlagWord
<1>2. QED
  BY <1>1, FlagBits

-----------------------------------------------------------------------------
(* The inductive invariant.                                                *)

Resetting(t, c) == pc[t] = "create_reset" /\ cur[t] = c

(* Steps at which a thread works on the slot cur[t]. *)
SlotSteps ==
  {"create_reset", "create_install", "create_publish",
   "release_lock", "release_or", "release_unlock",
   "selected", "work", "release", "orphan", "free", "stop_orphan"}

(* Steps at which a thread works on the contract <<cur[t], tok[t]>>. *)
HandleSteps ==
  {"create_install", "create_publish",
   "release_lock", "release_or", "release_unlock"}

(* The g-th contract of slot c has been born: the slot was handed out for  *)
(* it, and if the slot is being handed out now, that is for a later one.   *)
Born(c, g) ==
  /\ g \in 1 .. MaxGen
  /\ g <= gen[c]
  /\ \A t \in Threads : Resetting(t, c) => g < gen[c]

(* Threads and objects refer to slots, and to contracts that were born.    *)
HandlesInv ==
  /\ \A t \in Threads : pc[t] \in SlotSteps => cur[t] \in Contracts
  /\ \A t \in Threads : pc[t] \in HandleSteps => Born(cur[t], tok[t])
  /\ \A t \in Threads : pc[t] = "create_reset" => tok[t] = gen[cur[t]]
  /\ \A h \in owner \cup held : Born(h[1], h[2])

(* A slot without a contract is in nobody's hands: either it had none yet, *)
(* and no object leads to it, or its flag word still says that it is       *)
(* executing, so that a late request through an old object is ignored.     *)
UnbornInv ==
  /\ \A c \in available :
       /\ Has(flags[c], execute_flag) \/ gen[c] = 0
       /\ ~Pending(flags[c])
       /\ \A t \in Threads : ~Running(t, c) /\ ~Resetting(t, c)
  /\ \A c \in Contracts : \A t \in Threads : Resetting(t, c) =>
       /\ Has(flags[c], execute_flag) \/ gen[c] = 1
       /\ gen[c] >= 1
       /\ ~Pending(flags[c])
       /\ \A u \in Threads : ~Running(u, c)
       /\ \A u \in Threads : Resetting(u, c) => u = t

(* A visit owns the execute flag.                                          *)
VisitsInv ==
  \A c \in Contracts : \A t \in Threads : Running(t, c) =>
    /\ Has(flags[c], execute_flag)
    /\ \A u \in Threads : Running(u, c) => u = t

(* The schedule flag without the execute flag is one ticket to a visit.    *)
TicketsInv ==
  /\ \A t \in Threads : owes[t] # None => pc[t] \in {"idle", "release_unlock"}
  /\ \A c \in signal : Pending(flags[c]) /\ \A t \in Threads : ~HasTicket(t, c)
  /\ \A c \in Contracts : \A t \in Threads : HasTicket(t, c) =>
       /\ Pending(flags[c])
       /\ \A u \in Threads : HasTicket(u, c) => u = t
  /\ \A c \in Contracts : Pending(flags[c]) =>
       c \in signal \/ \E t \in Threads : HasTicket(t, c)

IInv ==
  TypeOK /\ HandlesInv /\ UnbornInv /\ VisitsInv /\ TicketsInv
-----------------------------------------------------------------------------
(* set_contract_signal() turns the thread's ticket into the leaf.          *)
LEMMA SetSignalStep ==
  ASSUME IInv, NEW t \in Threads, SetSignal(t)
  PROVE  IInv'
<1> TypeOK /\ HandlesInv /\ UnbornInv /\ VisitsInv /\ TicketsInv
  BY DEF IInv
<1> USE DEF SetSignal, slotVars, tokenVars, stopVars, threadVars
<1>1. TypeOK'
  BY SMTT(20) DEF TypeOK
<1>2. HandlesInv'
  BY SMTT(20) DEF HandlesInv, Born, Resetting
<1>3. UnbornInv'
  BY SMTT(20) DEF UnbornInv, Resetting, Running
<1>4. VisitsInv'
  BY SMTT(20) DEF VisitsInv, Running
<1>5. TicketsInv'
  BY GroupAssumption, SMTT(20) DEF TicketsInv, HasTicket, TypeOK
<1>. QED
  BY <1>1, <1>2, <1>3, <1>4, <1>5 DEF IInv

(* A slot that is handed out passes from available to its creator.         *)
LEMMA GetAvailableContractStep ==
  ASSUME IInv, NEW t \in Threads, NEW c \in Contracts, GetAvailableContract(t, c)
  PROVE  IInv'
<1> TypeOK /\ HandlesInv /\ UnbornInv /\ VisitsInv /\ TicketsInv
  BY DEF IInv
<1> USE DEF GetAvailableContract, At, Enter, tokenVars, stopVars
<1>1. TypeOK'
  BY GroupAssumption, SMTT(20) DEF TypeOK, Steps
<1>2. HandlesInv'
  BY SMTT(20) DEF HandlesInv, Born, Resetting, HandleSteps, TypeOK, UnbornInv
<1>3. UnbornInv'
  BY SMTT(20) DEF UnbornInv, Resetting, Running, TypeOK
<1>4. VisitsInv'
  BY SMTT(20) DEF VisitsInv, Running
<1>5. TicketsInv'
  BY SMTT(20) DEF TicketsInv, HasTicket
<1>. QED
  BY <1>1, <1>2, <1>3, <1>4, <1>5 DEF IInv

(* The reset drops execute_flag while no one else is at the slot.          *)
LEMMA ResetFlagsStep ==
  ASSUME IInv, NEW t \in Threads, ResetFlags(t)
  PROVE  IInv'
<1> TypeOK /\ HandlesInv /\ UnbornInv /\ VisitsInv /\ TicketsInv
  BY DEF IInv
<1> USE DEF ResetFlags, At, Goto, slotVars, tokenVars, stopVars
<1>1. TypeOK'
  BY ZeroHasNoFlag, SMTT(20) DEF TypeOK, Steps, HandlesInv, SlotSteps
<1>2. HandlesInv'
  BY SMTT(20) DEF HandlesInv, Born, Resetting, SlotSteps, TypeOK, UnbornInv
<1>3. UnbornInv'
  BY SMTT(20) DEF UnbornInv, Resetting, Running, TypeOK
<1>4. VisitsInv'
  BY SMTT(20) DEF VisitsInv, Running, Resetting, UnbornInv
<1>5. TicketsInv'
  BY ZeroHasNoFlag, SMTT(20)
     DEF TicketsInv, HasTicket, Pending, HandlesInv, Resetting, SlotSteps,
         UnbornInv
<1>. QED
  BY <1>1, <1>2, <1>3, <1>4, <1>5 DEF IInv

(* Installing the callbacks touches the creator's slot alone.              *)
LEMMA InstallCallbacksStep ==
  ASSUME IInv, NEW t \in Threads, InstallCallbacks(t)
  PROVE  IInv'
<1> TypeOK /\ HandlesInv /\ UnbornInv /\ VisitsInv /\ TicketsInv
  BY DEF IInv
<1> USE DEF InstallCallbacks, At, Goto, tokenVars, stopVars
<1>1. TypeOK'
  BY SMTT(20) DEF TypeOK, Steps, HandlesInv, SlotSteps
<1>2. HandlesInv'
  BY SMTT(20) DEF HandlesInv, Born, Resetting, SlotSteps, HandleSteps
<1>3. UnbornInv'
  BY SMTT(20) DEF UnbornInv, Resetting, Running
<1>4. VisitsInv'
  BY SMTT(20) DEF VisitsInv, Running
<1>5. TicketsInv'
  BY SMTT(20) DEF TicketsInv, HasTicket
<1>. QED
  BY <1>1, <1>2, <1>3, <1>4, <1>5 DEF IInv

(* The new contract's object and token are born; it may start scheduled.   *)
LEMMA PublishStep ==
  ASSUME IInv, NEW t \in Threads, NEW scheduled \in BOOLEAN, Publish(t, scheduled)
  PROVE  IInv'
<1> TypeOK /\ HandlesInv /\ UnbornInv /\ VisitsInv /\ TicketsInv
  BY DEF IInv
<1> USE DEF Publish, At, Return, Schedule, stopVars, Enter, FetchOr
<1>1. TypeOK'
  BY GroupAssumption, ScheduleSetsFlag, SMTT(20)
     DEF TypeOK, Incarnations, Steps, HandlesInv, Born, SlotSteps, HandleSteps
<1>2. HandlesInv'
  BY SMTT(20) DEF HandlesInv, Born, Resetting, SlotSteps, HandleSteps, TypeOK
<1>3. UnbornInv'
  BY ScheduleSetsFlag, SMTT(20)
     DEF UnbornInv, Resetting, Running, Pending, TypeOK, HandlesInv, Born,
         HandleSteps
<1>4. VisitsInv'
  BY ScheduleSetsFlag, SMTT(20) DEF VisitsInv, Running, TypeOK
<1>5. TicketsInv'
  BY GroupAssumption, ScheduleSetsFlag, SMTT(20)
     DEF TicketsInv, HasTicket, Pending, NotScheduledNorExecuting, TypeOK,
         HandlesInv, SlotSteps
<1>. QED
  BY <1>1, <1>2, <1>3, <1>4, <1>5 DEF IInv

(* schedule() through an object, possibly a stale one: it either raises    *)
(* the first schedule, and owes the signal, or finds the flag or a visit.  *)
LEMMA HandleScheduleStep ==
  ASSUME IInv, NEW t \in Threads, NEW h \in Incarnations, HandleSchedule(t, h)
  PROVE  IInv'
<1> TypeOK /\ HandlesInv /\ UnbornInv /\ VisitsInv /\ TicketsInv
  BY DEF IInv
<1> USE DEF HandleSchedule, At, Schedule, AskedThrough, slotVars, tokenVars,
            stopVars, threadVars, FetchOr
<1>1. TypeOK'
  BY ScheduleSetsFlag, SMTT(20) DEF TypeOK, Incarnations
<1>2. HandlesInv'
  BY SMTT(20) DEF HandlesInv, Born, Resetting
<1>3. UnbornInv'
  BY ScheduleSetsFlag, SMTT(20)
     DEF UnbornInv, Resetting, Running, Pending, TypeOK, HandlesInv, Born
<1>4. VisitsInv'
  BY ScheduleSetsFlag, SMTT(20) DEF VisitsInv, Running, TypeOK
<1>5. TicketsInv'
  BY GroupAssumption, ScheduleSetsFlag, SMTT(20)
     DEF TicketsInv, HasTicket, Pending, NotScheduledNorExecuting, TypeOK
<1>. QED
  BY <1>1, <1>2, <1>3, <1>4, <1>5 DEF IInv

(* The exchange of the object's token decides who releases.                *)
LEMMA HandleReleaseStep ==
  ASSUME IInv, NEW t \in Threads, NEW h \in Incarnations, HandleRelease(t, h)
  PROVE  IInv'
<1> TypeOK /\ HandlesInv /\ UnbornInv /\ VisitsInv /\ TicketsInv
  BY DEF IInv
<1> USE DEF HandleRelease, At, Enter, slotVars, stopVars
<1>1. TypeOK'
  BY SMTT(20) DEF TypeOK, Incarnations, Steps
<1>2. HandlesInv'
  BY SMTT(20) DEF HandlesInv, Born, Resetting, TypeOK, Incarnations
<1>3. UnbornInv'
  BY SMTT(20) DEF UnbornInv, Resetting, Running
<1>4. VisitsInv'
  BY SMTT(20) DEF VisitsInv, Running
<1>5. TicketsInv'
  BY SMTT(20) DEF TicketsInv, HasTicket
<1>. QED
  BY <1>1, <1>2, <1>3, <1>4, <1>5 DEF IInv

(* Going for the token moves no flag and no signal.                        *)
LEMMA LockTokenStep ==
  ASSUME IInv, NEW t \in Threads, LockToken(t)
  PROVE  IInv'
<1> TypeOK /\ HandlesInv /\ UnbornInv /\ VisitsInv /\ TicketsInv
  BY DEF IInv
<1> USE DEF LockToken, At, Goto, TokenLocked, slotVars, stopVars
<1>1. TypeOK'
  BY SMTT(20) DEF TypeOK, Steps
<1>2. HandlesInv'
  BY SMTT(20) DEF HandlesInv, Born, Resetting, SlotSteps, HandleSteps
<1>3. UnbornInv'
  BY SMTT(20) DEF UnbornInv, Resetting, Running
<1>4. VisitsInv'
  BY SMTT(20) DEF VisitsInv, Running
<1>5. TicketsInv'
  BY SMTT(20) DEF TicketsInv, HasTicket
<1>. QED
  BY <1>1, <1>2, <1>3, <1>4, <1>5 DEF IInv

(* release() through the token is a schedule with the release flag.        *)
LEMMA TokenReleaseStep ==
  ASSUME IInv, NEW t \in Threads, TokenRelease(t)
  PROVE  IInv'
<1> TypeOK /\ HandlesInv /\ UnbornInv /\ VisitsInv /\ TicketsInv
  BY DEF IInv
<1> USE DEF TokenRelease, At, Goto, Release, AskedThrough, slotVars,
            tokenVars, stopVars, FetchOr
<1>1. TypeOK'
  BY ReleaseSetsFlags, SMTT(20) DEF TypeOK, Steps, HandlesInv, SlotSteps
<1>2. HandlesInv'
  BY SMTT(20) DEF HandlesInv, Born, Resetting, SlotSteps, HandleSteps
<1>3. UnbornInv'
  BY ReleaseSetsFlags, SMTT(20)
     DEF UnbornInv, Resetting, Running, Pending, TypeOK, HandlesInv, Born,
         HandleSteps
<1>4. VisitsInv'
  BY ReleaseSetsFlags, SMTT(20) DEF VisitsInv, Running, TypeOK
<1>5. TicketsInv'
  BY GroupAssumption, ReleaseSetsFlags, SMTT(20)
     DEF TicketsInv, HasTicket, Pending, NotScheduledNorExecuting, TypeOK
<1>. QED
  BY <1>1, <1>2, <1>3, <1>4, <1>5 DEF IInv

(* Unlocking moves no flag and no signal.                                  *)
LEMMA UnlockTokenStep ==
  ASSUME IInv, NEW t \in Threads, UnlockToken(t)
  PROVE  IInv'
<1> TypeOK /\ HandlesInv /\ UnbornInv /\ VisitsInv /\ TicketsInv
  BY DEF IInv
<1> USE DEF UnlockToken, At, Return, slotVars, stopVars, Enter
<1>1. TypeOK'
  BY GroupAssumption, SMTT(20) DEF TypeOK, Steps
<1>2. HandlesInv'
  BY SMTT(20) DEF HandlesInv, Born, Resetting, SlotSteps, HandleSteps, TypeOK
<1>3. UnbornInv'
  BY SMTT(20) DEF UnbornInv, Resetting, Running
<1>4. VisitsInv'
  BY SMTT(20) DEF VisitsInv, Running
<1>5. TicketsInv'
  BY SMTT(20) DEF TicketsInv, HasTicket
<1>. QED
  BY <1>1, <1>2, <1>3, <1>4, <1>5 DEF IInv

(* Selecting turns the leaf into the worker's ticket.                      *)
LEMMA SelectStep ==
  ASSUME IInv, NEW t \in Threads, NEW c \in Contracts, Select(t, c)
  PROVE  IInv'
<1> TypeOK /\ HandlesInv /\ UnbornInv /\ VisitsInv /\ TicketsInv
  BY DEF IInv
<1> USE DEF Select, At, Enter, slotVars, tokenVars, stopVars
<1>1. TypeOK'
  BY GroupAssumption, SMTT(20) DEF TypeOK, Steps
<1>2. HandlesInv'
  BY SMTT(20) DEF HandlesInv, Born, Resetting, HandleSteps, TypeOK
<1>3. UnbornInv'
  BY SMTT(20) DEF UnbornInv, Resetting, Running
<1>4. VisitsInv'
  BY SMTT(20) DEF VisitsInv, Running
<1>5. TicketsInv'
  BY SMTT(20) DEF TicketsInv, HasTicket, TypeOK
<1>. QED
  BY <1>1, <1>2, <1>3, <1>4, <1>5 DEF IInv

(* ++flags_ turns the ticket into the visit.                               *)
LEMMA BeginContractStep ==
  ASSUME IInv, NEW t \in Threads, BeginContract(t)
  PROVE  IInv'
<1> TypeOK /\ HandlesInv /\ UnbornInv /\ VisitsInv /\ TicketsInv
  BY DEF IInv
<1> USE DEF BeginContract, At, Goto, slotVars, tokenVars, stopVars
<1>1. TypeOK'
  BY BeginCarries, SMTT(20)
     DEF TypeOK, Steps, HandlesInv, SlotSteps, TicketsInv, HasTicket
<1>2. HandlesInv'
  BY SMTT(20) DEF HandlesInv, Born, Resetting, SlotSteps, HandleSteps
<1>3. UnbornInv'
  BY SMTT(20)
     DEF UnbornInv, Resetting, Running, HandlesInv, SlotSteps, TicketsInv,
         HasTicket
<1>4. VisitsInv'
  BY BeginCarries, SMTT(20)
     DEF VisitsInv, Running, TypeOK, Pending, TicketsInv, HasTicket
<1>5. TicketsInv'
  BY GroupAssumption, BeginCarries, SMTT(20)
     DEF TicketsInv, HasTicket, Pending, TypeOK
<1>. QED
  BY <1>1, <1>2, <1>3, <1>4, <1>5 DEF IInv

(* this_contract::schedule(): inside a visit it owes no signal.            *)
LEMMA ThisScheduleStep ==
  ASSUME IInv, NEW t \in Threads, ThisSchedule(t)
  PROVE  IInv'
<1> TypeOK /\ HandlesInv /\ UnbornInv /\ VisitsInv /\ TicketsInv
  BY DEF IInv
<1> USE DEF ThisSchedule, At, Schedule, slotVars, tokenVars, stopVars,
            threadVars, FetchOr
<1>1. TypeOK'
  BY ScheduleSetsFlag, SMTT(20) DEF TypeOK, HandlesInv, SlotSteps
<1>2. HandlesInv'
  BY SMTT(20) DEF HandlesInv, Born, Resetting
<1>3. UnbornInv'
  BY SMTT(20) DEF UnbornInv, Resetting, Running
<1>4. VisitsInv'
  BY ScheduleSetsFlag, SMTT(20) DEF VisitsInv, Running, TypeOK
<1>5. TicketsInv'
  BY ScheduleSetsFlag, SMTT(20)
     DEF TicketsInv, HasTicket, Pending, NotScheduledNorExecuting, TypeOK,
         Running, VisitsInv
<1>. QED
  BY <1>1, <1>2, <1>3, <1>4, <1>5 DEF IInv

(* this_contract::release(): inside a visit it owes no signal.             *)
LEMMA ThisReleaseStep ==
  ASSUME IInv, NEW t \in Threads, ThisRelease(t)
  PROVE  IInv'
<1> TypeOK /\ HandlesInv /\ UnbornInv /\ VisitsInv /\ TicketsInv
  BY DEF IInv
<1> USE DEF ThisRelease, At, Release, slotVars, tokenVars, stopVars,
            threadVars, FetchOr
<1>1. TypeOK'
  BY ReleaseSetsFlags, SMTT(20) DEF TypeOK, HandlesInv, SlotSteps
<1>2. HandlesInv'
  BY SMTT(20) DEF HandlesInv, Born, Resetting
<1>3. UnbornInv'
  BY SMTT(20) DEF UnbornInv, Resetting, Running
<1>4. VisitsInv'
  BY ReleaseSetsFlags, SMTT(20) DEF VisitsInv, Running, TypeOK
<1>5. TicketsInv'
  BY ReleaseSetsFlags, SMTT(20)
     DEF TicketsInv, HasTicket, Pending, NotScheduledNorExecuting, TypeOK,
         Running, VisitsInv
<1>. QED
  BY <1>1, <1>2, <1>3, <1>4, <1>5 DEF IInv

(* The end of a visit gives a schedule made meanwhile its ticket.          *)
LEMMA ClearExecuteFlagStep ==
  ASSUME IInv, NEW t \in Threads, ClearExecuteFlag(t)
  PROVE  IInv'
<1> TypeOK /\ HandlesInv /\ UnbornInv /\ VisitsInv /\ TicketsInv
  BY DEF IInv
<1> USE DEF ClearExecuteFlag, At, Return, slotVars, tokenVars, stopVars, Enter
<1>1. TypeOK'
  BY GroupAssumption, ClearBorrowsNothing, SMTT(20)
     DEF TypeOK, Steps, HandlesInv, SlotSteps, Running, VisitsInv
<1>2. HandlesInv'
  BY SMTT(20) DEF HandlesInv, Born, Resetting, SlotSteps, HandleSteps, TypeOK
<1>3. UnbornInv'
  BY SMTT(20) DEF UnbornInv, Resetting, Running, TypeOK
<1>4. VisitsInv'
  BY SMTT(20) DEF VisitsInv, Running, TypeOK
<1>5. TicketsInv'
  BY GroupAssumption, ClearBorrowsNothing, SMTT(20)
     DEF TicketsInv, HasTicket, Pending, TypeOK, Running, VisitsInv
<1>. QED
  BY <1>1, <1>2, <1>3, <1>4, <1>5 DEF IInv

(* Erasing goes on holding the execute flag.                               *)
LEMMA EraseContractStep ==
  ASSUME IInv, NEW t \in Threads, EraseContract(t)
  PROVE  IInv'
<1> TypeOK /\ HandlesInv /\ UnbornInv /\ VisitsInv /\ TicketsInv
  BY DEF IInv
<1> USE DEF EraseContract, At, Enter, tokenVars, stopVars
<1>1. TypeOK'
  BY GroupAssumption, SMTT(20) DEF TypeOK, Steps, HandlesInv, SlotSteps
<1>2. HandlesInv'
  BY SMTT(20) DEF HandlesInv, Born, Resetting, SlotSteps, HandleSteps
<1>3. UnbornInv'
  BY SMTT(20) DEF UnbornInv, Resetting, Running
<1>4. VisitsInv'
  BY SMTT(20) DEF VisitsInv, Running
<1>5. TicketsInv'
  BY SMTT(20) DEF TicketsInv, HasTicket
<1>. QED
  BY <1>1, <1>2, <1>3, <1>4, <1>5 DEF IInv

(* Orphaning goes on holding the execute flag.                             *)
LEMMA OrphanTokenStep ==
  ASSUME IInv, NEW t \in Threads, OrphanToken(t)
  PROVE  IInv'
<1> TypeOK /\ HandlesInv /\ UnbornInv /\ VisitsInv /\ TicketsInv
  BY DEF IInv
<1> USE DEF OrphanToken, At, Goto, TokenLocked, slotVars, stopVars
<1>1. TypeOK'
  BY SMTT(20) DEF TypeOK, Steps
<1>2. HandlesInv'
  BY SMTT(20) DEF HandlesInv, Born, Resetting, SlotSteps, HandleSteps
<1>3. UnbornInv'
  BY SMTT(20) DEF UnbornInv, Resetting, Running
<1>4. VisitsInv'
  BY SMTT(20) DEF VisitsInv, Running
<1>5. TicketsInv'
  BY SMTT(20) DEF TicketsInv, HasTicket
<1>. QED
  BY <1>1, <1>2, <1>3, <1>4, <1>5 DEF IInv

(* The slot is freed with its execute flag still set.                      *)
LEMMA FreeSlotStep ==
  ASSUME IInv, NEW t \in Threads, FreeSlot(t)
  PROVE  IInv'
<1> TypeOK /\ HandlesInv /\ UnbornInv /\ VisitsInv /\ TicketsInv
  BY DEF IInv
<1> USE DEF FreeSlot, At, Return, tokenVars, stopVars, Enter
<1>1. TypeOK'
  BY GroupAssumption, SMTT(20) DEF TypeOK, Steps, HandlesInv, SlotSteps
<1>2. HandlesInv'
  BY SMTT(20) DEF HandlesInv, Born, Resetting, SlotSteps, HandleSteps, TypeOK
<1>3. UnbornInv'
  BY SMTT(20)
     DEF UnbornInv, Resetting, Running, Pending, TypeOK, HandlesInv,
         SlotSteps, VisitsInv
<1>4. VisitsInv'
  BY GroupAssumption, SMTT(20) DEF VisitsInv, Running
<1>5. TicketsInv'
  BY SMTT(20) DEF TicketsInv, HasTicket
<1>. QED
  BY <1>1, <1>2, <1>3, <1>4, <1>5 DEF IInv

(* stop() moves no flag and no signal.                                     *)
LEMMA StopBeginStep ==
  ASSUME IInv, NEW t \in Threads, StopBegin(t)
  PROVE  IInv'
<1> TypeOK /\ HandlesInv /\ UnbornInv /\ VisitsInv /\ TicketsInv
  BY DEF IInv
<1> USE DEF StopBegin, At, Goto, slotVars, tokenVars
<1>1. TypeOK'
  BY SMTT(20) DEF TypeOK, Steps
<1>2. HandlesInv'
  BY SMTT(20) DEF HandlesInv, Born, Resetting, SlotSteps, HandleSteps
<1>3. UnbornInv'
  BY SMTT(20) DEF UnbornInv, Resetting, Running
<1>4. VisitsInv'
  BY SMTT(20) DEF VisitsInv, Running
<1>5. TicketsInv'
  BY SMTT(20) DEF TicketsInv, HasTicket
<1>. QED
  BY <1>1, <1>2, <1>3, <1>4, <1>5 DEF IInv

(* stop() moves no flag and no signal.                                     *)
LEMMA StopScanStep ==
  ASSUME IInv, NEW t \in Threads, NEW c \in Contracts, StopScan(t, c)
  PROVE  IInv'
<1> TypeOK /\ HandlesInv /\ UnbornInv /\ VisitsInv /\ TicketsInv
  BY DEF IInv
<1> USE DEF StopScan, At, Enter, slotVars, tokenVars, threadVars
<1>1. TypeOK'
  BY GroupAssumption, SMTT(20) DEF TypeOK, Steps
<1>2. HandlesInv'
  BY SMTT(20) DEF HandlesInv, Born, Resetting, SlotSteps, HandleSteps, TypeOK
<1>3. UnbornInv'
  BY SMTT(20) DEF UnbornInv, Resetting, Running, TypeOK
<1>4. VisitsInv'
  BY SMTT(20) DEF VisitsInv, Running, TypeOK
<1>5. TicketsInv'
  BY SMTT(20) DEF TicketsInv, HasTicket, TypeOK
<1>. QED
  BY <1>1, <1>2, <1>3, <1>4, <1>5 DEF IInv

(* stop() moves no flag and no signal.                                     *)
LEMMA StopOrphanStep ==
  ASSUME IInv, NEW t \in Threads, StopOrphan(t)
  PROVE  IInv'
<1> TypeOK /\ HandlesInv /\ UnbornInv /\ VisitsInv /\ TicketsInv
  BY DEF IInv
<1> USE DEF StopOrphan, At, Goto, Enter, TokenLocked, slotVars, stopVars
<1>1. TypeOK'
  BY GroupAssumption, SMTT(20) DEF TypeOK, Steps
<1>2. HandlesInv'
  BY SMTT(20) DEF HandlesInv, Born, Resetting, SlotSteps, HandleSteps, TypeOK
<1>3. UnbornInv'
  BY SMTT(20) DEF UnbornInv, Resetting, Running, TypeOK
<1>4. VisitsInv'
  BY SMTT(20) DEF VisitsInv, Running, TypeOK
<1>5. TicketsInv'
  BY SMTT(20) DEF TicketsInv, HasTicket, TypeOK
<1>. QED
  BY <1>1, <1>2, <1>3, <1>4, <1>5 DEF IInv

(* stop() moves no flag and no signal.                                     *)
LEMMA StopReturnStep ==
  ASSUME IInv, NEW t \in Threads, StopReturn(t)
  PROVE  IInv'
<1> TypeOK /\ HandlesInv /\ UnbornInv /\ VisitsInv /\ TicketsInv
  BY DEF IInv
<1> USE DEF StopReturn, At, Goto, slotVars, tokenVars, stopVars
<1>1. TypeOK'
  BY SMTT(20) DEF TypeOK, Steps
<1>2. HandlesInv'
  BY SMTT(20) DEF HandlesInv, Born, Resetting, SlotSteps, HandleSteps
<1>3. UnbornInv'
  BY SMTT(20) DEF UnbornInv, Resetting, Running
<1>4. VisitsInv'
  BY SMTT(20) DEF VisitsInv, Running
<1>5. TicketsInv'
  BY SMTT(20) DEF TicketsInv, HasTicket
<1>. QED
  BY <1>1, <1>2, <1>3, <1>4, <1>5 DEF IInv
-----------------------------------------------------------------------------
(* At first every slot is free and was never handed out. *)
LEMMA InitIInv == Init => IInv
<1> SUFFICES ASSUME Init PROVE IInv
  OBVIOUS
<1> USE DEF Init
<1>1. TypeOK
  <2>1. flags \in [Contracts -> FlagWord]
    BY ZeroHasNoFlag
  <2>2. /\ work \in [Contracts -> 0 .. MaxGen]
        /\ releaseToken \in [Contracts -> 0 .. MaxGen]
        /\ gen \in [Contracts -> 0 .. MaxGen]
        /\ tok \in [Threads -> 0 .. MaxGen]
    BY GroupAssumption
  <2>3. /\ pc \in [Threads -> Steps]
        /\ cur \in [Threads -> Contracts \cup {None}]
        /\ owes \in [Threads -> Contracts \cup {None}]
    BY DEF Steps
  <2> QED
    BY <2>1, <2>2, <2>3 DEF TypeOK
<1>2. HandlesInv
  BY DEF HandlesInv, SlotSteps, HandleSteps
<1>3. UnbornInv
  BY ZeroHasNoFlag DEF UnbornInv, Resetting, Running, Pending
<1>4. VisitsInv
  BY DEF VisitsInv, Running
<1>5. TicketsInv
  BY GroupAssumption, ZeroHasNoFlag DEF TicketsInv, HasTicket, Pending
<1>. QED
  BY <1>1, <1>2, <1>3, <1>4, <1>5 DEF IInv

(* No step, of whichever thread, breaks the inductive invariant.           *)
LEMMA NextIInv == IInv /\ [Next]_vars => IInv'
<1> SUFFICES ASSUME IInv, [Next]_vars PROVE IInv'
  OBVIOUS
<1>1. ASSUME NEW t \in Threads, SetSignal(t) PROVE IInv'
  BY <1>1, SetSignalStep
<1>2. ASSUME NEW t \in Clients, Client(t) PROVE IInv'
  <2> t \in Threads
    BY DEF Threads
  <2> QED
    BY <1>2, GetAvailableContractStep, ResetFlagsStep, InstallCallbacksStep,
       PublishStep, HandleScheduleStep, HandleReleaseStep, LockTokenStep,
       TokenReleaseStep, UnlockTokenStep
       DEF Client, Create, FinishRelease
<1>3. ASSUME NEW t \in Workers, Worker(t) PROVE IInv'
  <2> t \in Threads
    BY DEF Threads
  <2> QED
    BY <1>3, SelectStep, BeginContractStep, ThisScheduleStep, ThisReleaseStep,
       ClearExecuteFlagStep, EraseContractStep, OrphanTokenStep, FreeSlotStep
       DEF Worker, FinishContract
<1>4. ASSUME NEW t \in Stoppers, Stopper(t) PROVE IInv'
  <2> t \in Threads
    BY DEF Threads
  <2> QED
    BY <1>4, StopBeginStep, StopScanStep, StopOrphanStep, StopReturnStep
       DEF Stopper
<1>5. CASE UNCHANGED vars
  <2> USE <1>5 DEF vars
  <2>1. TypeOK'
    BY DEF IInv, TypeOK
  <2>2. HandlesInv'
    BY DEF IInv, HandlesInv, Born, Resetting
  <2>3. UnbornInv'
    BY DEF IInv, UnbornInv, Resetting, Running
  <2>4. VisitsInv'
    BY DEF IInv, VisitsInv, Running
  <2>5. TicketsInv'
    BY DEF IInv, TicketsInv, HasTicket
  <2> QED
    BY <2>1, <2>2, <2>3, <2>4, <2>5 DEF IInv
<1>. QED
  BY <1>1, <1>2, <1>3, <1>4, <1>5 DEF Next

(* The inductive invariant holds at every step of every behaviour.         *)
THEOREM Invariant == Spec => []IInv
  BY InitIInv, NextIInv, PTL DEF Spec

(* The variables keep their types for any number of slots and threads: in  *)
(* particular ++flags_ and -= execute_flag stay within the three flags.    *)
THEOREM TypeCorrect == Spec => []TypeOK
<1>1. IInv => TypeOK
  BY DEF IInv
<1>. QED
  BY <1>1, Invariant, PTL

(* Two threads never execute, release or erase one contract at once,       *)
(* whoever schedules it how often meanwhile.                               *)
THEOREM Exclusion == Spec => []MutualExclusion
<1>1. IInv => MutualExclusion
  BY DEF IInv, VisitsInv, MutualExclusion, TypeOK, Running
<1>. QED
  BY <1>1, Invariant, PTL

(* No schedule is lost and none is executed twice: a contract that is      *)
(* scheduled and not executing has one ticket, any other has none.         *)
THEOREM OneTicket == Spec => []OneTicketPerSchedule
<1>1. IInv => OneTicketPerSchedule
  BY DEF IInv, TicketsInv, OneTicketPerSchedule
<1>. QED
  BY <1>1, Invariant, PTL

(* A slot that has no contract is out of the workers' reach, although old  *)
(* objects may still call schedule() on it.                                *)
THEOREM FreeIsQuiet == Spec => []FreeSlotIsQuiet
<1>1. IInv => FreeSlotIsQuiet
  BY DEF IInv, UnbornInv, TicketsInv, FreeSlotIsQuiet, Unborn, Resetting,
         HasTicket
<1>. QED
  BY <1>1, Invariant, PTL

-----------------------------------------------------------------------------
(* That the contract protocol implements ContractLifecycle, however long   *)
(* slots are reused: each step is an atomic step in the life of one slot,  *)
(* or changes nothing there.                                               *)
(*                                                                         *)
(* The life of a slot is read off its flag word and off where threads are. *)
(* Most steps leave both as they are (Stutters); schedule() and release()  *)
(* change the flag word alone (Requests); the four that remain are Create, *)
(* Start or StartRelease, Finish and Free.                                 *)

ReleaseSteps == {"release", "orphan", "free"}

(* To PhaseOf, the threads are where they were. *)
Stays(c) ==
  /\ Unborn(c)' <=> Unborn(c)
  /\ Inside(ReleaseSteps, c)' <=> Inside(ReleaseSteps, c)
  /\ Inside({"work"}, c)' <=> Inside({"work"}, c)

(* What the abstract state keeps of a slot. *)
SameLife(c) ==
  /\ PhaseOf(c)' = PhaseOf(c)
  /\ againBar'[c] = againBar[c]
  /\ dyingBar'[c] = dyingBar[c]

AbstractStep == [Lifecycle!Next]_(Lifecycle!vars)

LEMMA SlotKeepsItsLife ==
  ASSUME NEW c \in Contracts, Stays(c), flags'[c] = flags[c]
  PROVE  SameLife(c)
<1>1. PhaseOf(c)' = PhaseOf(c)
  BY DEF Stays, PhaseOf, ReleaseSteps
<1>. QED
  BY <1>1 DEF SameLife, againBar, dyingBar

LEMMA Stutters ==
  ASSUME UNCHANGED flags, \A c \in Contracts : Stays(c)
  PROVE  AbstractStep
<1>1. \A c \in Contracts : SameLife(c)
  BY SlotKeepsItsLife
<1>2. UNCHANGED Lifecycle!vars
  BY <1>1 DEF SameLife, Lifecycle!vars, phaseBar, againBar, dyingBar
<1>. QED
  BY <1>2 DEF AbstractStep

(* A slot that has no contract, or whose contract is being released, takes *)
(* no notice of a request; any other is queued now or after its run.       *)
LEMMA Requests ==
  ASSUME NEW c \in Contracts,
         \A d \in Contracts : Stays(d),
         \A d \in Contracts \ {c} : flags'[d] = flags[d],
         Has(flags'[c], schedule_flag),
         \/ Has(flags'[c], release_flag) <=> Has(flags[c], release_flag)
         \/ Has(flags'[c], release_flag)
  PROVE  AbstractStep
<1>1. \A d \in Contracts \ {c} : SameLife(d)
  BY SlotKeepsItsLife
<1>2. CASE PhaseOf(c) \in {"free", "releasing"}
  <2>1. PhaseOf(c)' = PhaseOf(c)
    BY <1>2 DEF Stays, PhaseOf, ReleaseSteps
  <2>2. SameLife(c)
    BY <1>2, <2>1 DEF SameLife, againBar, dyingBar
  <2>3. UNCHANGED Lifecycle!vars
    BY <1>1, <2>2 DEF SameLife, Lifecycle!vars, phaseBar, againBar, dyingBar
  <2>. QED
    BY <2>3 DEF AbstractStep
<1>3. CASE PhaseOf(c) \in {"idle", "queued", "running"}
  <2>1. PhaseOf(c)' = IF PhaseOf(c) = "running" THEN "running" ELSE "queued"
    BY <1>3 DEF Stays, PhaseOf, ReleaseSteps
  <2>2. phaseBar' = [phaseBar EXCEPT ![c] = IF @ = "running" THEN @ ELSE "queued"]
    BY <1>1, <2>1 DEF SameLife, phaseBar
  <2>3. againBar' = [againBar EXCEPT ![c] = (PhaseOf(c) = "running")]
    BY <1>1, <2>1 DEF SameLife, againBar
  <2>4. PhaseOf(c) = "queued" => againBar[c] = FALSE
    BY DEF againBar
  <2>5. PhaseOf(c) = "idle" => againBar[c] = FALSE
    BY DEF againBar
  <2>6. Lifecycle!Enqueue(c)
    BY <1>3, <2>2, <2>3, <2>4, <2>5 DEF Lifecycle!Enqueue, phaseBar, againBar
  <2>7. dyingBar'[c] = Has(flags'[c], release_flag)
    BY <1>3, <2>1 DEF dyingBar, Has
  <2>8. CASE Has(flags'[c], release_flag) <=> Has(flags[c], release_flag)
    <3>1. dyingBar'[c] = dyingBar[c]
      BY <1>3, <2>7, <2>8 DEF dyingBar
    <3>2. dyingBar' = dyingBar
      BY <1>1, <3>1 DEF SameLife, dyingBar
    <3>. QED
      BY <2>6, <3>2 DEF AbstractStep, Lifecycle!Next, Lifecycle!Schedule
  <2>9. CASE Has(flags'[c], release_flag)
    <3>1. dyingBar' = [dyingBar EXCEPT ![c] = TRUE]
      BY <1>1, <2>7, <2>9 DEF SameLife, dyingBar
    <3>. QED
      BY <2>6, <3>1 DEF AbstractStep, Lifecycle!Next, Lifecycle!Release
  <2>. QED
    BY <2>8, <2>9
<1>. QED
  BY <1>2, <1>3 DEF PhaseOf

-----------------------------------------------------------------------------
(* Steps that leave slots and flag words as they are. *)

LEMMA SetSignalStutters ==
  ASSUME IInv, NEW t \in Threads, SetSignal(t)
  PROVE  AbstractStep
<1>1. TypeOK /\ UnbornInv /\ HandlesInv
  BY DEF IInv
<1>2. flags' = flags
  BY DEF SetSignal
<1>3. \A d \in Contracts : Stays(d)
  BY <1>1, SMTT(20)
     DEF SetSignal, At, Goto, Enter, Return, Stays, Unborn, Inside, ReleaseSteps, TypeOK, slotVars,
         threadVars
<1>. QED
  BY <1>2, <1>3, Stutters

LEMMA GetAvailableContractStutters ==
  ASSUME IInv, NEW t \in Threads, NEW c \in Contracts, GetAvailableContract(t, c)
  PROVE  AbstractStep
<1>1. TypeOK /\ UnbornInv /\ HandlesInv
  BY DEF IInv
<1>2. flags' = flags
  BY DEF GetAvailableContract
<1>3. \A d \in Contracts : Stays(d)
  BY <1>1, SMTT(20)
     DEF GetAvailableContract, At, Goto, Enter, Return, Stays, Unborn, Inside, ReleaseSteps, TypeOK, slotVars,
         threadVars
<1>. QED
  BY <1>2, <1>3, Stutters

LEMMA InstallCallbacksStutters ==
  ASSUME IInv, NEW t \in Threads, InstallCallbacks(t)
  PROVE  AbstractStep
<1>1. TypeOK /\ UnbornInv /\ HandlesInv
  BY DEF IInv
<1>2. flags' = flags
  BY DEF InstallCallbacks
<1>3. \A d \in Contracts : Stays(d)
  BY <1>1, SMTT(20)
     DEF InstallCallbacks, At, Goto, Enter, Return, Stays, Unborn, Inside, ReleaseSteps, TypeOK, slotVars,
         threadVars
<1>. QED
  BY <1>2, <1>3, Stutters

LEMMA HandleReleaseStutters ==
  ASSUME IInv, NEW t \in Threads, NEW h \in Incarnations, HandleRelease(t, h)
  PROVE  AbstractStep
<1>1. TypeOK /\ UnbornInv /\ HandlesInv
  BY DEF IInv
<1>2. flags' = flags
  BY DEF HandleRelease
<1>3. \A d \in Contracts : Stays(d)
  BY <1>1, SMTT(20)
     DEF HandleRelease, At, Goto, Enter, Return, Stays, Unborn, Inside, ReleaseSteps, TypeOK, slotVars,
         threadVars
<1>. QED
  BY <1>2, <1>3, Stutters

LEMMA LockTokenStutters ==
  ASSUME IInv, NEW t \in Threads, LockToken(t)
  PROVE  AbstractStep
<1>1. TypeOK /\ UnbornInv /\ HandlesInv
  BY DEF IInv
<1>2. flags' = flags
  BY DEF LockToken
<1>3. \A d \in Contracts : Stays(d)
  BY <1>1, SMTT(20)
     DEF LockToken, At, Goto, Enter, Return, Stays, Unborn, Inside, ReleaseSteps, TypeOK, slotVars,
         threadVars
<1>. QED
  BY <1>2, <1>3, Stutters

LEMMA UnlockTokenStutters ==
  ASSUME IInv, NEW t \in Threads, UnlockToken(t)
  PROVE  AbstractStep
<1>1. TypeOK /\ UnbornInv /\ HandlesInv
  BY DEF IInv
<1>2. flags' = flags
  BY DEF UnlockToken
<1>3. \A d \in Contracts : Stays(d)
  BY <1>1, SMTT(20)
     DEF UnlockToken, At, Goto, Enter, Return, Stays, Unborn, Inside, ReleaseSteps, TypeOK, slotVars,
         threadVars
<1>. QED
  BY <1>2, <1>3, Stutters

LEMMA SelectStutters ==
  ASSUME IInv, NEW t \in Threads, NEW c \in Contracts, Select(t, c)
  PROVE  AbstractStep
<1>1. TypeOK /\ UnbornInv /\ HandlesInv
  BY DEF IInv
<1>2. flags' = flags
  BY DEF Select
<1>3. \A d \in Contracts : Stays(d)
  BY <1>1, SMTT(20)
     DEF Select, At, Goto, Enter, Return, Stays, Unborn, Inside, ReleaseSteps, TypeOK, slotVars,
         threadVars
<1>. QED
  BY <1>2, <1>3, Stutters

LEMMA EraseContractStutters ==
  ASSUME IInv, NEW t \in Threads, EraseContract(t)
  PROVE  AbstractStep
<1>1. TypeOK /\ UnbornInv /\ HandlesInv
  BY DEF IInv
<1>2. flags' = flags
  BY DEF EraseContract
<1>3. \A d \in Contracts : Stays(d)
  BY <1>1, SMTT(20)
     DEF EraseContract, At, Goto, Enter, Return, Stays, Unborn, Inside, ReleaseSteps, TypeOK, slotVars,
         threadVars
<1>. QED
  BY <1>2, <1>3, Stutters

LEMMA OrphanTokenStutters ==
  ASSUME IInv, NEW t \in Threads, OrphanToken(t)
  PROVE  AbstractStep
<1>1. TypeOK /\ UnbornInv /\ HandlesInv
  BY DEF IInv
<1>2. flags' = flags
  BY DEF OrphanToken
<1>3. \A d \in Contracts : Stays(d)
  BY <1>1, SMTT(20)
     DEF OrphanToken, At, Goto, Enter, Return, Stays, Unborn, Inside, ReleaseSteps, TypeOK, slotVars,
         threadVars
<1>. QED
  BY <1>2, <1>3, Stutters

LEMMA StopBeginStutters ==
  ASSUME IInv, NEW t \in Threads, StopBegin(t)
  PROVE  AbstractStep
<1>1. TypeOK /\ UnbornInv /\ HandlesInv
  BY DEF IInv
<1>2. flags' = flags
  BY DEF StopBegin
<1>3. \A d \in Contracts : Stays(d)
  BY <1>1, SMTT(20)
     DEF StopBegin, At, Goto, Enter, Return, Stays, Unborn, Inside, ReleaseSteps, TypeOK, slotVars,
         threadVars
<1>. QED
  BY <1>2, <1>3, Stutters

LEMMA StopScanStutters ==
  ASSUME IInv, NEW t \in Threads, NEW c \in Contracts, StopScan(t, c)
  PROVE  AbstractStep
<1>1. TypeOK /\ UnbornInv /\ HandlesInv
  BY DEF IInv
<1>2. flags' = flags
  BY DEF StopScan
<1>3. \A d \in Contracts : Stays(d)
  BY <1>1, SMTT(20)
     DEF StopScan, At, Goto, Enter, Return, Stays, Unborn, Inside, ReleaseSteps, TypeOK, slotVars,
         threadVars
<1>. QED
  BY <1>2, <1>3, Stutters

LEMMA StopOrphanStutters ==
  ASSUME IInv, NEW t \in Threads, StopOrphan(t)
  PROVE  AbstractStep
<1>1. TypeOK /\ UnbornInv /\ HandlesInv
  BY DEF IInv
<1>2. flags' = flags
  BY DEF StopOrphan
<1>3. \A d \in Contracts : Stays(d)
  BY <1>1, SMTT(20)
     DEF StopOrphan, At, Goto, Enter, Return, Stays, Unborn, Inside, ReleaseSteps, TypeOK, slotVars,
         threadVars
<1>. QED
  BY <1>2, <1>3, Stutters

LEMMA StopReturnStutters ==
  ASSUME IInv, NEW t \in Threads, StopReturn(t)
  PROVE  AbstractStep
<1>1. TypeOK /\ UnbornInv /\ HandlesInv
  BY DEF IInv
<1>2. flags' = flags
  BY DEF StopReturn
<1>3. \A d \in Contracts : Stays(d)
  BY <1>1, SMTT(20)
     DEF StopReturn, At, Goto, Enter, Return, Stays, Unborn, Inside, ReleaseSteps, TypeOK, slotVars,
         threadVars
<1>. QED
  BY <1>2, <1>3, Stutters

-----------------------------------------------------------------------------
(* Steps that request a visit. *)

LEMMA HandleScheduleRequests ==
  ASSUME IInv, NEW t \in Threads, NEW h \in Incarnations, HandleSchedule(t, h)
  PROVE  AbstractStep
<1>1. TypeOK /\ UnbornInv /\ HandlesInv
  BY DEF IInv
<1>2. h[1] \in Contracts
  BY <1>1 DEF HandleSchedule, At, HandlesInv, SlotSteps, HandleSteps, Incarnations
<1>3. /\ \A d \in Contracts \ {h[1]} : flags'[d] = flags[d]
      /\ flags'[h[1]] = With(flags[h[1]], schedule_flag)
  BY <1>1, <1>2 DEF HandleSchedule, Schedule, FetchOr, TypeOK
<1>4. \A d \in Contracts : Stays(d)
  BY <1>1, SMTT(20)
     DEF HandleSchedule, At, Goto, Enter, Return, Stays, Unborn, Inside, ReleaseSteps, TypeOK, slotVars,
         threadVars
<1>5. flags[h[1]] \in FlagWord
  BY <1>1, <1>2 DEF TypeOK
<1>. QED
  BY <1>2, <1>3, <1>4, <1>5, ScheduleSetsFlag, Requests

LEMMA TokenReleaseRequests ==
  ASSUME IInv, NEW t \in Threads, TokenRelease(t)
  PROVE  AbstractStep
<1>1. TypeOK /\ UnbornInv /\ HandlesInv
  BY DEF IInv
<1>2. cur[t] \in Contracts
  BY <1>1 DEF TokenRelease, At, HandlesInv, SlotSteps, HandleSteps, Incarnations
<1>3. /\ \A d \in Contracts \ {cur[t]} : flags'[d] = flags[d]
      /\ flags'[cur[t]] = With(With(flags[cur[t]], schedule_flag), release_flag)
  BY <1>1, <1>2 DEF TokenRelease, Release, FetchOr, TypeOK
<1>4. \A d \in Contracts : Stays(d)
  BY <1>1, SMTT(20)
     DEF TokenRelease, At, Goto, Enter, Return, Stays, Unborn, Inside, ReleaseSteps, TypeOK, slotVars,
         threadVars
<1>5. flags[cur[t]] \in FlagWord
  BY <1>1, <1>2 DEF TypeOK
<1>. QED
  BY <1>2, <1>3, <1>4, <1>5, ReleaseSetsFlags, Requests

LEMMA ThisScheduleRequests ==
  ASSUME IInv, NEW t \in Threads, ThisSchedule(t)
  PROVE  AbstractStep
<1>1. TypeOK /\ UnbornInv /\ HandlesInv
  BY DEF IInv
<1>2. cur[t] \in Contracts
  BY <1>1 DEF ThisSchedule, At, HandlesInv, SlotSteps, HandleSteps, Incarnations
<1>3. /\ \A d \in Contracts \ {cur[t]} : flags'[d] = flags[d]
      /\ flags'[cur[t]] = With(flags[cur[t]], schedule_flag)
  BY <1>1, <1>2 DEF ThisSchedule, Schedule, FetchOr, TypeOK
<1>4. \A d \in Contracts : Stays(d)
  BY <1>1, SMTT(20)
     DEF ThisSchedule, At, Goto, Enter, Return, Stays, Unborn, Inside, ReleaseSteps, TypeOK, slotVars,
         threadVars
<1>5. flags[cur[t]] \in FlagWord
  BY <1>1, <1>2 DEF TypeOK
<1>. QED
  BY <1>2, <1>3, <1>4, <1>5, ScheduleSetsFlag, Requests

LEMMA ThisReleaseRequests ==
  ASSUME IInv, NEW t \in Threads, ThisRelease(t)
  PROVE  AbstractStep
<1>1. TypeOK /\ UnbornInv /\ HandlesInv
  BY DEF IInv
<1>2. cur[t] \in Contracts
  BY <1>1 DEF ThisRelease, At, HandlesInv, SlotSteps, HandleSteps, Incarnations
<1>3. /\ \A d \in Contracts \ {cur[t]} : flags'[d] = flags[d]
      /\ flags'[cur[t]] = With(With(flags[cur[t]], schedule_flag), release_flag)
  BY <1>1, <1>2 DEF ThisRelease, Release, FetchOr, TypeOK
<1>4. \A d \in Contracts : Stays(d)
  BY <1>1, SMTT(20)
     DEF ThisRelease, At, Goto, Enter, Return, Stays, Unborn, Inside, ReleaseSteps, TypeOK, slotVars,
         threadVars
<1>5. flags[cur[t]] \in FlagWord
  BY <1>1, <1>2 DEF TypeOK
<1>. QED
  BY <1>2, <1>3, <1>4, <1>5, ReleaseSetsFlags, Requests

LEMMA PublishRequests ==
  ASSUME IInv, NEW t \in Threads, NEW scheduled \in BOOLEAN, Publish(t, scheduled)
  PROVE  AbstractStep
<1>1. TypeOK /\ UnbornInv /\ HandlesInv
  BY DEF IInv
<1>2. cur[t] \in Contracts /\ flags[cur[t]] \in FlagWord
  BY <1>1 DEF Publish, At, HandlesInv, SlotSteps, HandleSteps, TypeOK
<1>3. \A d \in Contracts : Stays(d)
  BY <1>1, SMTT(20)
     DEF Publish, At, Goto, Enter, Return, Stays, Unborn, Inside, ReleaseSteps,
         TypeOK
<1>4. CASE flags' = flags
  BY <1>3, <1>4, Stutters
<1>5. CASE Schedule(t, cur[t])
  <2>1. /\ \A d \in Contracts \ {cur[t]} : flags'[d] = flags[d]
        /\ flags'[cur[t]] = With(flags[cur[t]], schedule_flag)
    BY <1>1, <1>2, <1>5 DEF Schedule, FetchOr, TypeOK
  <2>. QED
    BY <1>2, <1>3, <2>1, ScheduleSetsFlag, Requests
<1>. QED
  BY <1>4, <1>5 DEF Publish

-----------------------------------------------------------------------------
(* Steps that move a slot on in its life. *)

(* A contract is created when its flag word is reset. *)
LEMMA ResetFlagsRefines ==
  ASSUME IInv, NEW t \in Threads, ResetFlags(t)
  PROVE  AbstractStep
<1>1. TypeOK /\ HandlesInv /\ UnbornInv /\ VisitsInv /\ TicketsInv
  BY DEF IInv
<1>2. PICK c \in Contracts : c = cur[t]
  BY <1>1 DEF ResetFlags, At, HandlesInv, SlotSteps
<1>3. PhaseOf(c) = "free"
  BY <1>1, <1>2, GroupAssumption, SMTT(20)
     DEF ResetFlags, At, Goto, Enter, Return, FetchOr, TypeOK, Running, UnbornInv,
         VisitsInv, TicketsInv, HandlesInv, HasTicket, Resetting, Pending, SlotSteps,
         PhaseOf, Inside, Unborn
<1>4. ASSUME NEW d \in Contracts, d # c PROVE Stays(d) /\ flags'[d] = flags[d]
  <2>1. \A u \in Threads \ {t} : pc'[u] = pc[u] /\ cur'[u] = cur[u]
    BY <1>1 DEF ResetFlags, At, Goto, Enter, Return, TypeOK
  <2>2. cur[t] # d /\ (cur'[t] # d \/ pc'[t] \in {"idle", "create_install"})
    BY <1>1, <1>2, <1>4 DEF ResetFlags, At, Goto, Enter, Return, TypeOK
  <2>3. flags'[d] = flags[d] /\ (d \in available' <=> d \in available)
    BY <1>1, <1>2, <1>4 DEF ResetFlags, TypeOK, slotVars
  <2>. QED
    BY <2>1, <2>2, <2>3 DEF Stays, Unborn, Inside, ReleaseSteps
<1>5. \A d \in Contracts \ {c} : SameLife(d)
  BY <1>4, SlotKeepsItsLife
<1>6. PhaseOf(c)' = "idle" /\ ~Has(flags'[c], release_flag)
  <2>1. flags'[c] = 0
    BY <1>1, <1>2 DEF ResetFlags, TypeOK
  <2>2. ~Has(0, schedule_flag) /\ ~Has(0, release_flag)
    BY FlagBits DEF FlagWord
  <2>3. c \notin available'
    BY <1>1, <1>2 DEF ResetFlags, At, UnbornInv, Resetting, slotVars
  <2>4. \A u \in Threads : cur'[u] = c =>
          pc'[u] \notin {"create_reset", "work"} \cup ReleaseSteps
    BY <1>1, <1>2
       DEF ResetFlags, At, Goto, TypeOK, UnbornInv, Running, Resetting, ReleaseSteps
  <2>. QED
    BY <2>1, <2>2, <2>3, <2>4 DEF PhaseOf, Inside, Unborn, ReleaseSteps
<1>7. Lifecycle!Create(c)
  BY <1>2, <1>3, <1>5, <1>6
     DEF Lifecycle!Create, SameLife, phaseBar, againBar, dyingBar
<1>. QED
  BY <1>2, <1>7 DEF AbstractStep, Lifecycle!Next

(* A run or a release starts with ++flags_. *)
LEMMA BeginContractRefines ==
  ASSUME IInv, NEW t \in Threads, BeginContract(t)
  PROVE  AbstractStep
<1>1. TypeOK /\ HandlesInv /\ UnbornInv /\ VisitsInv /\ TicketsInv
  BY DEF IInv
<1>2. PICK c \in Contracts : c = cur[t]
  BY <1>1 DEF BeginContract, At, HandlesInv, SlotSteps
<1>3. PhaseOf(c) = "queued"
  BY <1>1, <1>2, GroupAssumption, SMTT(20)
     DEF BeginContract, At, Goto, Enter, Return, FetchOr, TypeOK, Running, UnbornInv,
         VisitsInv, TicketsInv, HandlesInv, HasTicket, Resetting, Pending, SlotSteps,
         PhaseOf, Inside, Unborn
<1>4. ASSUME NEW d \in Contracts, d # c PROVE Stays(d) /\ flags'[d] = flags[d]
  <2>1. \A u \in Threads \ {t} : pc'[u] = pc[u] /\ cur'[u] = cur[u]
    BY <1>1 DEF BeginContract, At, Goto, Enter, Return, TypeOK
  <2>2. cur[t] # d /\ (cur'[t] # d \/ pc'[t] \in {"idle", "create_install"})
    BY <1>1, <1>2, <1>4 DEF BeginContract, At, Goto, Enter, Return, TypeOK
  <2>3. flags'[d] = flags[d] /\ (d \in available' <=> d \in available)
    BY <1>1, <1>2, <1>4 DEF BeginContract, TypeOK, slotVars
  <2>. QED
    BY <2>1, <2>2, <2>3 DEF Stays, Unborn, Inside, ReleaseSteps
<1>5. \A d \in Contracts \ {c} : SameLife(d)
  BY <1>4, SlotKeepsItsLife
<1>6. Pending(flags[c]) /\ flags[c] \in FlagWord
  BY <1>1, <1>2 DEF BeginContract, At, TicketsInv, HasTicket, TypeOK
<1>7. /\ flags'[c] = flags[c] + 1
      /\ ~Has(flags'[c], schedule_flag)
      /\ Has(flags'[c], release_flag) <=> Has(flags[c], release_flag)
  BY <1>1, <1>2, <1>6, BeginCarries DEF BeginContract, TypeOK
<1>8. PhaseOf(c)' =
        IF Has(flags[c], release_flag) THEN "releasing" ELSE "running"
  <2>1. c \notin available'
    BY <1>1, <1>6 DEF BeginContract, UnbornInv, slotVars
  <2>2. cur'[t] = c
        /\ pc'[t] = IF Has(flags[c], release_flag) THEN "release" ELSE "work"
    BY <1>1, <1>2, <1>7 DEF BeginContract, Goto, TypeOK
  <2>3. \A u \in Threads \ {t} : cur'[u] = c =>
          pc'[u] \notin {"create_reset", "work"} \cup ReleaseSteps
    BY <1>1, <1>2, <1>6
       DEF BeginContract, Goto, TypeOK, UnbornInv, VisitsInv, Running, Resetting,
           Pending, ReleaseSteps
  <2>. QED
    BY <2>1, <2>2, <2>3 DEF PhaseOf, Inside, Unborn, ReleaseSteps
<1>9. Lifecycle!Serve(c)
  BY <1>2, <1>3, <1>5, <1>7, <1>8
     DEF Lifecycle!Serve, Lifecycle!Start, Lifecycle!StartRelease, SameLife,
         phaseBar, againBar, dyingBar
<1>. QED
  BY <1>2, <1>9 DEF AbstractStep, Lifecycle!Next

(* A run is over when its execute flag is cleared. *)
LEMMA ClearExecuteFlagRefines ==
  ASSUME IInv, NEW t \in Threads, ClearExecuteFlag(t)
  PROVE  AbstractStep
<1>1. TypeOK /\ HandlesInv /\ UnbornInv /\ VisitsInv /\ TicketsInv
  BY DEF IInv
<1>2. PICK c \in Contracts : c = cur[t]
  BY <1>1 DEF ClearExecuteFlag, At, HandlesInv, SlotSteps
<1>3. PhaseOf(c) = "running"
  BY <1>1, <1>2, GroupAssumption, SMTT(20)
     DEF ClearExecuteFlag, At, Goto, Enter, Return, FetchOr, TypeOK, Running, UnbornInv,
         VisitsInv, TicketsInv, HandlesInv, HasTicket, Resetting, Pending, SlotSteps,
         PhaseOf, Inside, Unborn
<1>4. ASSUME NEW d \in Contracts, d # c PROVE Stays(d) /\ flags'[d] = flags[d]
  <2>1. \A u \in Threads \ {t} : pc'[u] = pc[u] /\ cur'[u] = cur[u]
    BY <1>1 DEF ClearExecuteFlag, At, Goto, Enter, Return, TypeOK
  <2>2. cur[t] # d /\ (cur'[t] # d \/ pc'[t] \in {"idle", "create_install"})
    BY <1>1, <1>2, <1>4 DEF ClearExecuteFlag, At, Goto, Enter, Return, TypeOK
  <2>3. flags'[d] = flags[d] /\ (d \in available' <=> d \in available)
    BY <1>1, <1>2, <1>4 DEF ClearExecuteFlag, TypeOK, slotVars
  <2>. QED
    BY <2>1, <2>2, <2>3 DEF Stays, Unborn, Inside, ReleaseSteps
<1>5. \A d \in Contracts \ {c} : SameLife(d)
  BY <1>4, SlotKeepsItsLife
<1>6. Has(flags[c], execute_flag) /\ flags[c] \in FlagWord
  BY <1>1, <1>2 DEF ClearExecuteFlag, At, VisitsInv, Running, TypeOK
<1>7. /\ Has(flags'[c], schedule_flag) <=> Has(flags[c], schedule_flag)
      /\ Has(flags'[c], release_flag) <=> Has(flags[c], release_flag)
  BY <1>1, <1>2, <1>6, ClearBorrowsNothing DEF ClearExecuteFlag, TypeOK
<1>8. PhaseOf(c)' =
        IF Has(flags[c], schedule_flag) THEN "queued" ELSE "idle"
  <2>1. c \notin available'
    BY <1>1, <1>2 DEF ClearExecuteFlag, At, UnbornInv, Running, slotVars
  <2>2. \A u \in Threads : cur'[u] = c =>
          pc'[u] \notin {"create_reset", "work"} \cup ReleaseSteps
    BY <1>1, <1>2
       DEF ClearExecuteFlag, At, Return, Enter, TypeOK, UnbornInv, VisitsInv,
           Running, Resetting, ReleaseSteps
  <2>. QED
    BY <1>7, <2>1, <2>2 DEF PhaseOf, Inside, Unborn, ReleaseSteps
<1>9. Lifecycle!Finish(c)
  BY <1>2, <1>3, <1>5, <1>7, <1>8
     DEF Lifecycle!Finish, SameLife, phaseBar, againBar, dyingBar
<1>. QED
  BY <1>2, <1>9 DEF AbstractStep, Lifecycle!Next

(* A slot is free when it is offered again. *)
LEMMA FreeSlotRefines ==
  ASSUME IInv, NEW t \in Threads, FreeSlot(t)
  PROVE  AbstractStep
<1>1. TypeOK /\ HandlesInv /\ UnbornInv /\ VisitsInv /\ TicketsInv
  BY DEF IInv
<1>2. PICK c \in Contracts : c = cur[t]
  BY <1>1 DEF FreeSlot, At, HandlesInv, SlotSteps
<1>3. PhaseOf(c) = "releasing"
  BY <1>1, <1>2, GroupAssumption, SMTT(20)
     DEF FreeSlot, At, Goto, Enter, Return, FetchOr, TypeOK, Running, UnbornInv,
         VisitsInv, TicketsInv, HandlesInv, HasTicket, Resetting, Pending, SlotSteps,
         PhaseOf, Inside, Unborn
<1>4. ASSUME NEW d \in Contracts, d # c PROVE Stays(d) /\ flags'[d] = flags[d]
  <2>1. \A u \in Threads \ {t} : pc'[u] = pc[u] /\ cur'[u] = cur[u]
    BY <1>1 DEF FreeSlot, At, Goto, Enter, Return, TypeOK
  <2>2. cur[t] # d /\ (cur'[t] # d \/ pc'[t] \in {"idle", "create_install"})
    BY <1>1, <1>2, <1>4 DEF FreeSlot, At, Goto, Enter, Return, TypeOK
  <2>3. flags'[d] = flags[d] /\ (d \in available' <=> d \in available)
    BY <1>1, <1>2, <1>4 DEF FreeSlot, TypeOK, slotVars
  <2>. QED
    BY <2>1, <2>2, <2>3 DEF Stays, Unborn, Inside, ReleaseSteps
<1>5. \A d \in Contracts \ {c} : SameLife(d)
  BY <1>4, SlotKeepsItsLife
<1>6. PhaseOf(c)' = "free"
  BY <1>1, <1>2 DEF FreeSlot, PhaseOf, Unborn
<1>7. Lifecycle!Free(c)
  BY <1>2, <1>3, <1>5, <1>6
     DEF Lifecycle!Free, SameLife, phaseBar, againBar, dyingBar
<1>. QED
  BY <1>2, <1>7 DEF AbstractStep, Lifecycle!Next

-----------------------------------------------------------------------------
(* Before anything has happened every slot is free. *)
LEMMA InitRefines == Init => Lifecycle!Init
<1> SUFFICES ASSUME Init PROVE Lifecycle!Init
  OBVIOUS
<1>1. \A c \in Contracts : PhaseOf(c) = "free"
  BY DEF Init, PhaseOf, Unborn
<1>. QED
  BY <1>1 DEF Lifecycle!Init, phaseBar, againBar, dyingBar

(* Every step of the protocol is a step of the life of one slot, or none.  *)
LEMMA NextRefines == IInv /\ [Next]_vars => AbstractStep
<1> SUFFICES ASSUME IInv, [Next]_vars PROVE AbstractStep
  OBVIOUS
<1>1. ASSUME NEW t \in Threads, SetSignal(t) PROVE AbstractStep
  BY <1>1, SetSignalStutters
<1>2. ASSUME NEW t \in Clients, Client(t) PROVE AbstractStep
  <2> t \in Threads
    BY DEF Threads
  <2> QED
    BY <1>2, GetAvailableContractStutters, ResetFlagsRefines,
       InstallCallbacksStutters, PublishRequests, HandleScheduleRequests,
       HandleReleaseStutters, LockTokenStutters, TokenReleaseRequests,
       UnlockTokenStutters
       DEF Client, Create, FinishRelease
<1>3. ASSUME NEW t \in Workers, Worker(t) PROVE AbstractStep
  <2> t \in Threads
    BY DEF Threads
  <2> QED
    BY <1>3, SelectStutters, BeginContractRefines, ThisScheduleRequests,
       ThisReleaseRequests, ClearExecuteFlagRefines, EraseContractStutters,
       OrphanTokenStutters, FreeSlotRefines
       DEF Worker, FinishContract
<1>4. ASSUME NEW t \in Stoppers, Stopper(t) PROVE AbstractStep
  <2> t \in Threads
    BY DEF Threads
  <2> QED
    BY <1>4, StopBeginStutters, StopScanStutters, StopOrphanStutters,
       StopReturnStutters
       DEF Stopper
<1>5. CASE UNCHANGED vars
  <2>1. flags' = flags /\ \A c \in Contracts : Stays(c)
    BY <1>5 DEF vars, Stays, Unborn, Inside
  <2>. QED
    BY <2>1, Stutters
<1>. QED
  BY <1>1, <1>2, <1>3, <1>4, <1>5 DEF Next

(* The flag protocol implements the atomic life of a slot: whatever threads *)
(* and stale objects do, schedules are merged and not lost, runs do not     *)
(* overlap, and a release runs once and is the last visit of a contract.    *)
THEOREM Refinement == Spec => ImplementsLifecycle
<1>1. Init => Lifecycle!Init
  BY InitRefines
<1>2. IInv /\ [Next]_vars => [Lifecycle!Next]_(Lifecycle!vars)
  BY NextRefines DEF AbstractStep
<1>. QED
  BY <1>1, <1>2, Invariant, PTL DEF Spec, ImplementsLifecycle, Lifecycle!Spec
=============================================================================
