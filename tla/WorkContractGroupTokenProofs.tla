-------------------- MODULE WorkContractGroupTokenProofs --------------------
(***************************************************************************)
(* Proofs about the release tokens, the work_contract objects and stop()   *)
(* of WorkContractGroup, on top of WorkContractGroupProofs.  All assume    *)
(* that clients do not call schedule() through the object of a contract    *)
(* whose slot was given to another one (ScheduleAfterReuse = FALSE); what  *)
(* is said of stop() assumes also that no create_contract() overlaps or    *)
(* follows it (CreateDuringStop = FALSE).                                  *)
(***************************************************************************)
EXTENDS WorkContractGroupProofs


CreatingIn(t, c) == Creating(t) /\ cur[t] = c

Erasing(t, c) == pc[t] \in {"orphan", "free"} /\ cur[t] = c

ReleasingHandle(t, h) ==
  /\ pc[t] \in {"release_lock", "release_or", "release_unlock"}
  /\ <<cur[t], tok[t]>> = h

(* Slot c holds a contract that was made and has not been erased. *)
Alive(c) ==
  /\ c \notin available
  /\ \A t \in Threads : ~CreatingIn(t, c) /\ ~Erasing(t, c)

(* A slot in creation belongs to its creator alone, and nobody has an      *)
(* object of the contract to be.                                           *)
CreatorsInv ==
  \A c \in Contracts : \A t \in Threads : CreatingIn(t, c) =>
    /\ c \notin available
    /\ tok[t] = gen[c]
    /\ \A u \in Threads : ~Running(u, c) /\ (CreatingIn(u, c) => u = t)
    /\ pc[t] # "create_reset" => flags[c] = 0
    /\ pc[t] = "create_publish" => work[c] = gen[c]
    /\ \A h \in owner \cup held \cup live : h[1] = c => h[2] < gen[c]
    /\ \A u \in Threads : \A h \in Incarnations :
         ReleasingHandle(u, h) /\ h[1] = c => h[2] < gen[c]

(* A slot that is alive holds its own contract's callbacks and token.      *)
AliveInv ==
  /\ \A c \in Contracts : Alive(c) => work[c] = gen[c] /\ releaseToken[c] = gen[c]
  /\ \A t \in Threads : pc[t] \in {"orphan", "free"} => tok[t] = gen[cur[t]]

(* A token leads to the group, or is just being gone through, only until   *)
(* its contract is past its orphaning.                                     *)
TokensInv ==
  /\ \A h \in live :
       /\ gen[h[1]] = h[2] /\ h[1] \notin available
       /\ \A t \in Threads : ~CreatingIn(t, h[1]) /\ (pc[t] = "free" => cur[t] # h[1])
  /\ \A u \in Threads : pc[u] = "release_or" =>
       /\ gen[cur[u]] = tok[u] /\ cur[u] \notin available
       /\ \A t \in Threads : ~CreatingIn(t, cur[u]) /\ (pc[t] = "free" => cur[t] # cur[u])

(* An object has been released before its token is gone through.           *)
ObjectsInv ==
  /\ \A t \in Threads : \A h \in held : ~ReleasingHandle(t, h)
  /\ \A t \in Threads : pc[t] \in {"stop_scan", "stop_orphan"} => stopped
  /\ InvalidOnlyAfterErase

AskedInv ==
  \A c \in Contracts : ~Unborn(c) /\ Has(flags[c], schedule_flag) => c \in asked

DInv ==
  IInv /\ CreatorsInv /\ AliveInv /\ TokensInv /\ ObjectsInv /\ AskedInv
-----------------------------------------------------------------------------
(* A signal that is raised leaves objects and tokens as they are.          *)
LEMMA SetSignalKeepsTokens ==
  ASSUME DInv, IInv', ScheduleAfterReuse = FALSE,
         NEW t \in Threads, SetSignal(t)
  PROVE  DInv'
<1> IInv /\ CreatorsInv /\ AliveInv /\ TokensInv /\ ObjectsInv /\ AskedInv
  BY DEF DInv
<1> TypeOK /\ HandlesInv /\ UnbornInv /\ VisitsInv /\ TicketsInv
  BY DEF IInv
<1> USE DEF SetSignal, slotVars, tokenVars, stopVars, threadVars
<1>1. CreatorsInv'
  BY SMTT(20) DEF CreatorsInv, CreatingIn, Creating, Running, ReleasingHandle
<1>2. AliveInv'
  BY SMTT(20) DEF AliveInv, Alive, CreatingIn, Creating, Erasing
<1>3. TokensInv'
  BY SMTT(20) DEF TokensInv, CreatingIn, Creating
<1>4. ObjectsInv'
  BY SMTT(20) DEF ObjectsInv, ReleasingHandle, InvalidOnlyAfterErase
<1>5. AskedInv'
  BY SMTT(20) DEF AskedInv, Unborn
<1>. QED
  BY <1>1, <1>2, <1>3, <1>4, <1>5 DEF DInv

(* A slot handed out counts one incarnation on: every object and token     *)
(* there is belongs to an earlier one.                                     *)
LEMMA GetAvailableContractKeepsTokens ==
  ASSUME DInv, IInv', ScheduleAfterReuse = FALSE,
         NEW t \in Threads, NEW c \in Contracts, GetAvailableContract(t, c)
  PROVE  DInv'
<1> IInv /\ CreatorsInv /\ AliveInv /\ TokensInv /\ ObjectsInv /\ AskedInv
  BY DEF DInv
<1> TypeOK /\ HandlesInv /\ UnbornInv /\ VisitsInv /\ TicketsInv
  BY DEF IInv
<1> USE DEF GetAvailableContract, At, Enter, tokenVars, stopVars
<1>1. CreatorsInv'
  BY SMTT(20)
     DEF CreatorsInv, CreatingIn, Creating, Running, ReleasingHandle, TypeOK,
         HandlesInv, Born, HandleSteps, UnbornInv, TokensInv
<1>2. AliveInv'
  BY SMTT(20)
     DEF AliveInv, Alive, CreatingIn, Creating, Erasing, TypeOK, UnbornInv,
         Running
<1>3. TokensInv'
  BY SMTT(20) DEF TokensInv, CreatingIn, Creating, TypeOK
<1>4. ObjectsInv'
  BY SMTT(20)
     DEF ObjectsInv, ReleasingHandle, InvalidOnlyAfterErase, TypeOK,
         HandlesInv, Born
<1>5. AskedInv'
  BY SMTT(20) DEF AskedInv, Unborn, TypeOK
<1>. QED
  BY <1>1, <1>2, <1>3, <1>4, <1>5 DEF DInv

(* The creator's reset: the word is 0 and stays 0, nobody can reach it.    *)
LEMMA ResetFlagsKeepsTokens ==
  ASSUME DInv, IInv', ScheduleAfterReuse = FALSE,
         NEW t \in Threads, ResetFlags(t)
  PROVE  DInv'
<1> IInv /\ CreatorsInv /\ AliveInv /\ TokensInv /\ ObjectsInv /\ AskedInv
  BY DEF DInv
<1> TypeOK /\ HandlesInv /\ UnbornInv /\ VisitsInv /\ TicketsInv
  BY DEF IInv
<1> USE DEF ResetFlags, At, Goto, slotVars, tokenVars, stopVars
<1>1. CreatorsInv'
  BY SMTT(20)
     DEF CreatorsInv, CreatingIn, Creating, Running, ReleasingHandle, TypeOK
<1>2. AliveInv'
  BY SMTT(20) DEF AliveInv, Alive, CreatingIn, Creating, Erasing
<1>3. TokensInv'
  BY SMTT(20) DEF TokensInv, CreatingIn, Creating
<1>4. ObjectsInv'
  BY SMTT(20) DEF ObjectsInv, ReleasingHandle, InvalidOnlyAfterErase
<1>5. AskedInv'
  BY ZeroHasNoFlag, SMTT(20) DEF AskedInv, Unborn, TypeOK
<1>. QED
  BY <1>1, <1>2, <1>3, <1>4, <1>5 DEF DInv

(* The creator installs the callbacks of its own incarnation.              *)
LEMMA InstallCallbacksKeepsTokens ==
  ASSUME DInv, IInv', ScheduleAfterReuse = FALSE,
         NEW t \in Threads, InstallCallbacks(t)
  PROVE  DInv'
<1> IInv /\ CreatorsInv /\ AliveInv /\ TokensInv /\ ObjectsInv /\ AskedInv
  BY DEF DInv
<1> TypeOK /\ HandlesInv /\ UnbornInv /\ VisitsInv /\ TicketsInv
  BY DEF IInv
<1> USE DEF InstallCallbacks, At, Goto, tokenVars, stopVars
<1>1. CreatorsInv'
  BY SMTT(20)
     DEF CreatorsInv, CreatingIn, Creating, Running, ReleasingHandle, TypeOK
<1>2. AliveInv'
  BY SMTT(20) DEF AliveInv, Alive, CreatingIn, Creating, Erasing
<1>3. TokensInv'
  BY SMTT(20) DEF TokensInv, CreatingIn, Creating
<1>4. ObjectsInv'
  BY SMTT(20) DEF ObjectsInv, ReleasingHandle, InvalidOnlyAfterErase
<1>5. AskedInv'
  BY SMTT(20) DEF AskedInv, Unborn
<1>. QED
  BY <1>1, <1>2, <1>3, <1>4, <1>5 DEF DInv

(* With the token and the object the contract is alive.                    *)
LEMMA PublishKeepsTokens ==
  ASSUME DInv, IInv', ScheduleAfterReuse = FALSE,
         NEW t \in Threads, NEW scheduled \in BOOLEAN, Publish(t, scheduled)
  PROVE  DInv'
<1> IInv /\ CreatorsInv /\ AliveInv /\ TokensInv /\ ObjectsInv /\ AskedInv
  BY DEF DInv
<1> TypeOK /\ HandlesInv /\ UnbornInv /\ VisitsInv /\ TicketsInv
  BY DEF IInv
<1> USE DEF Publish, At, Return, Schedule, stopVars, Enter, FetchOr
<1>1. CreatorsInv'
  BY SMTT(20)
     DEF CreatorsInv, CreatingIn, Creating, Running, ReleasingHandle, TypeOK
<1>2. AliveInv'
  BY SMTT(20)
     DEF AliveInv, Alive, CreatingIn, Creating, Erasing, TypeOK, CreatorsInv
<1>3. TokensInv'
  BY SMTT(20)
     DEF TokensInv, CreatingIn, Creating, TypeOK, HandlesInv, SlotSteps,
         Running, CreatorsInv
<1>4. ObjectsInv'
  <2> DEFINE h == <<cur[t], tok[t]>>
  <2>1. cur[t] \in Contracts /\ h \in Incarnations /\ CreatingIn(t, cur[t])
    BY DEF HandlesInv, Born, SlotSteps, HandleSteps, Incarnations, CreatingIn,
           Creating
  <2>2. \A u \in Threads : ~ReleasingHandle(u, h)
    <3>1. \A u \in Threads : ReleasingHandle(u, h) => tok[t] < gen[cur[t]]
      BY <2>1 DEF CreatorsInv
    <3>2. tok[t] = gen[cur[t]] /\ tok[t] \in 0 .. MaxGen
      BY <2>1 DEF CreatorsInv, CreatingIn, TypeOK
    <3>. QED
      BY <3>1, <3>2, GroupAssumption
  <2>3. \A u \in Threads, k \in held' : ~ReleasingHandle(u, k)'
    BY <2>2, SMTT(20) DEF ObjectsInv, ReleasingHandle, TypeOK
  <2>4. InvalidOnlyAfterErase'
    BY SMTT(20) DEF ObjectsInv, InvalidOnlyAfterErase, TypeOK
  <2>5. \A u \in Threads : (pc[u] \in {"stop_scan", "stop_orphan"} => stopped)'
    BY DEF ObjectsInv, TypeOK
  <2>. QED
    BY <2>3, <2>4, <2>5 DEF ObjectsInv
<1>5. AskedInv'
  BY SMTT(20) DEF AskedInv, Unborn, TypeOK
<1>. QED
  BY <1>1, <1>2, <1>3, <1>4, <1>5 DEF DInv

(* Without schedules through stale objects, a schedule is one of the       *)
(* slot's present contract.                                                *)
LEMMA HandleScheduleKeepsTokens ==
  ASSUME DInv, IInv', ScheduleAfterReuse = FALSE,
         NEW t \in Threads, NEW h \in Incarnations, HandleSchedule(t, h)
  PROVE  DInv'
<1> IInv /\ CreatorsInv /\ AliveInv /\ TokensInv /\ ObjectsInv /\ AskedInv
  BY DEF DInv
<1> TypeOK /\ HandlesInv /\ UnbornInv /\ VisitsInv /\ TicketsInv
  BY DEF IInv
<1> USE DEF HandleSchedule, At, Schedule, AskedThrough, slotVars, tokenVars,
            stopVars, threadVars, FetchOr
<1>1. CreatorsInv'
  BY SMTT(20)
     DEF CreatorsInv, CreatingIn, Creating, Running, ReleasingHandle,
         Incarnations
<1>2. AliveInv'
  BY SMTT(20) DEF AliveInv, Alive, CreatingIn, Creating, Erasing
<1>3. TokensInv'
  BY SMTT(20) DEF TokensInv, CreatingIn, Creating
<1>4. ObjectsInv'
  BY SMTT(20) DEF ObjectsInv, ReleasingHandle, InvalidOnlyAfterErase
<1>5. AskedInv'
  BY SMTT(20) DEF AskedInv, Unborn
<1>. QED
  BY <1>1, <1>2, <1>3, <1>4, <1>5 DEF DInv

(* The object is null before its token is gone through.                    *)
LEMMA HandleReleaseKeepsTokens ==
  ASSUME DInv, IInv', ScheduleAfterReuse = FALSE,
         NEW t \in Threads, NEW h \in Incarnations, HandleRelease(t, h)
  PROVE  DInv'
<1> IInv /\ CreatorsInv /\ AliveInv /\ TokensInv /\ ObjectsInv /\ AskedInv
  BY DEF DInv
<1> TypeOK /\ HandlesInv /\ UnbornInv /\ VisitsInv /\ TicketsInv
  BY DEF IInv
<1> USE DEF HandleRelease, At, Enter, slotVars, stopVars
<1>1. CreatorsInv'
  BY SMTT(20)
     DEF CreatorsInv, CreatingIn, Creating, Running, ReleasingHandle, TypeOK
<1>2. AliveInv'
  BY SMTT(20) DEF AliveInv, Alive, CreatingIn, Creating, Erasing
<1>3. TokensInv'
  BY SMTT(20) DEF TokensInv, CreatingIn, Creating
<1>4. ObjectsInv'
  BY SMTT(20)
     DEF ObjectsInv, ReleasingHandle, InvalidOnlyAfterErase, TypeOK,
         Incarnations
<1>5. AskedInv'
  BY SMTT(20) DEF AskedInv, Unborn
<1>. QED
  BY <1>1, <1>2, <1>3, <1>4, <1>5 DEF DInv

(* A token that is gone through was alive, so its contract is.             *)
LEMMA LockTokenKeepsTokens ==
  ASSUME DInv, IInv', ScheduleAfterReuse = FALSE,
         NEW t \in Threads, LockToken(t)
  PROVE  DInv'
<1> IInv /\ CreatorsInv /\ AliveInv /\ TokensInv /\ ObjectsInv /\ AskedInv
  BY DEF DInv
<1> TypeOK /\ HandlesInv /\ UnbornInv /\ VisitsInv /\ TicketsInv
  BY DEF IInv
<1> USE DEF LockToken, At, Goto, TokenLocked, slotVars, stopVars
<1>1. CreatorsInv'
  BY SMTT(20) DEF CreatorsInv, CreatingIn, Creating, Running, ReleasingHandle
<1>2. AliveInv'
  BY SMTT(20) DEF AliveInv, Alive, CreatingIn, Creating, Erasing
<1>3. TokensInv'
  BY SMTT(20) DEF TokensInv, CreatingIn, Creating
<1>4. ObjectsInv'
  BY SMTT(20) DEF ObjectsInv, ReleasingHandle, InvalidOnlyAfterErase
<1>5. AskedInv'
  BY SMTT(20) DEF AskedInv, Unborn
<1>. QED
  BY <1>1, <1>2, <1>3, <1>4, <1>5 DEF DInv

(* A release through a token is one of the slot's present contract.        *)
LEMMA TokenReleaseKeepsTokens ==
  ASSUME DInv, IInv', ScheduleAfterReuse = FALSE,
         NEW t \in Threads, TokenRelease(t)
  PROVE  DInv'
<1> IInv /\ CreatorsInv /\ AliveInv /\ TokensInv /\ ObjectsInv /\ AskedInv
  BY DEF DInv
<1> TypeOK /\ HandlesInv /\ UnbornInv /\ VisitsInv /\ TicketsInv
  BY DEF IInv
<1> USE DEF TokenRelease, At, Goto, Release, AskedThrough, slotVars,
            tokenVars, stopVars, FetchOr
<1>1. CreatorsInv'
  BY SMTT(20)
     DEF CreatorsInv, CreatingIn, Creating, Running, ReleasingHandle,
         TokensInv
<1>2. AliveInv'
  BY SMTT(20) DEF AliveInv, Alive, CreatingIn, Creating, Erasing
<1>3. TokensInv'
  BY SMTT(20) DEF TokensInv, CreatingIn, Creating
<1>4. ObjectsInv'
  BY SMTT(20) DEF ObjectsInv, ReleasingHandle, InvalidOnlyAfterErase
<1>5. AskedInv'
  BY SMTT(20) DEF AskedInv, Unborn, TokensInv
<1>. QED
  BY <1>1, <1>2, <1>3, <1>4, <1>5 DEF DInv

(* The object's owner is cleared.                                          *)
LEMMA UnlockTokenKeepsTokens ==
  ASSUME DInv, IInv', ScheduleAfterReuse = FALSE,
         NEW t \in Threads, UnlockToken(t)
  PROVE  DInv'
<1> IInv /\ CreatorsInv /\ AliveInv /\ TokensInv /\ ObjectsInv /\ AskedInv
  BY DEF DInv
<1> TypeOK /\ HandlesInv /\ UnbornInv /\ VisitsInv /\ TicketsInv
  BY DEF IInv
<1> USE DEF UnlockToken, At, Return, slotVars, stopVars, Enter
<1>1. CreatorsInv'
  BY GroupAssumption, SMTT(20)
     DEF CreatorsInv, CreatingIn, Creating, Running, ReleasingHandle,
         Incarnations
<1>2. AliveInv'
  BY SMTT(20) DEF AliveInv, Alive, CreatingIn, Creating, Erasing
<1>3. TokensInv'
  BY SMTT(20) DEF TokensInv, CreatingIn, Creating
<1>4. ObjectsInv'
  BY SMTT(20) DEF ObjectsInv, ReleasingHandle, InvalidOnlyAfterErase, TypeOK
<1>5. AskedInv'
  BY SMTT(20) DEF AskedInv, Unborn
<1>. QED
  BY <1>1, <1>2, <1>3, <1>4, <1>5 DEF DInv

(* Selecting leaves objects and tokens as they are.                        *)
LEMMA SelectKeepsTokens ==
  ASSUME DInv, IInv', ScheduleAfterReuse = FALSE,
         NEW t \in Threads, NEW c \in Contracts, Select(t, c)
  PROVE  DInv'
<1> IInv /\ CreatorsInv /\ AliveInv /\ TokensInv /\ ObjectsInv /\ AskedInv
  BY DEF DInv
<1> TypeOK /\ HandlesInv /\ UnbornInv /\ VisitsInv /\ TicketsInv
  BY DEF IInv
<1> USE DEF Select, At, Enter, slotVars, tokenVars, stopVars
<1>1. CreatorsInv'
  BY SMTT(20) DEF CreatorsInv, CreatingIn, Creating, Running, ReleasingHandle
<1>2. AliveInv'
  BY SMTT(20) DEF AliveInv, Alive, CreatingIn, Creating, Erasing
<1>3. TokensInv'
  BY SMTT(20) DEF TokensInv, CreatingIn, Creating
<1>4. ObjectsInv'
  BY SMTT(20) DEF ObjectsInv, ReleasingHandle, InvalidOnlyAfterErase
<1>5. AskedInv'
  BY SMTT(20) DEF AskedInv, Unborn
<1>. QED
  BY <1>1, <1>2, <1>3, <1>4, <1>5 DEF DInv

(* A visit begins only where nobody creates: the slot was pending.         *)
LEMMA BeginContractKeepsTokens ==
  ASSUME DInv, IInv', ScheduleAfterReuse = FALSE,
         NEW t \in Threads, BeginContract(t)
  PROVE  DInv'
<1> IInv /\ CreatorsInv /\ AliveInv /\ TokensInv /\ ObjectsInv /\ AskedInv
  BY DEF DInv
<1> TypeOK /\ HandlesInv /\ UnbornInv /\ VisitsInv /\ TicketsInv
  BY DEF IInv
<1> USE DEF BeginContract, At, Goto, slotVars, tokenVars, stopVars
<1>1. CreatorsInv'
  <2>1. \A u \in Threads : ~CreatingIn(u, cur[t])
    BY ZeroHasNoFlag, SMTT(20)
       DEF CreatorsInv, CreatingIn, Creating, UnbornInv, Resetting, TicketsInv,
           HasTicket, Pending, HandlesInv, SlotSteps
  <2>2. QED
    BY <2>1, SMTT(20)
       DEF CreatorsInv, CreatingIn, Creating, Running, ReleasingHandle, TypeOK
<1>2. AliveInv'
  BY SMTT(20) DEF AliveInv, Alive, CreatingIn, Creating, Erasing
<1>3. TokensInv'
  BY SMTT(20) DEF TokensInv, CreatingIn, Creating
<1>4. ObjectsInv'
  BY SMTT(20) DEF ObjectsInv, ReleasingHandle, InvalidOnlyAfterErase
<1>5. AskedInv'
  BY SMTT(20) DEF AskedInv, Unborn, Pending, TicketsInv, HasTicket
<1>. QED
  BY <1>1, <1>2, <1>3, <1>4, <1>5 DEF DInv

(* The visited contract schedules itself.                                  *)
LEMMA ThisScheduleKeepsTokens ==
  ASSUME DInv, IInv', ScheduleAfterReuse = FALSE,
         NEW t \in Threads, ThisSchedule(t)
  PROVE  DInv'
<1> IInv /\ CreatorsInv /\ AliveInv /\ TokensInv /\ ObjectsInv /\ AskedInv
  BY DEF DInv
<1> TypeOK /\ HandlesInv /\ UnbornInv /\ VisitsInv /\ TicketsInv
  BY DEF IInv
<1> USE DEF ThisSchedule, At, Schedule, slotVars, tokenVars, stopVars,
            threadVars, FetchOr
<1>1. CreatorsInv'
  BY SMTT(20) DEF CreatorsInv, CreatingIn, Creating, Running, ReleasingHandle
<1>2. AliveInv'
  BY SMTT(20) DEF AliveInv, Alive, CreatingIn, Creating, Erasing
<1>3. TokensInv'
  BY SMTT(20) DEF TokensInv, CreatingIn, Creating
<1>4. ObjectsInv'
  BY SMTT(20) DEF ObjectsInv, ReleasingHandle, InvalidOnlyAfterErase
<1>5. AskedInv'
  BY SMTT(20) DEF AskedInv, Unborn
<1>. QED
  BY <1>1, <1>2, <1>3, <1>4, <1>5 DEF DInv

(* The visited contract releases itself; its object stays valid.           *)
LEMMA ThisReleaseKeepsTokens ==
  ASSUME DInv, IInv', ScheduleAfterReuse = FALSE,
         NEW t \in Threads, ThisRelease(t)
  PROVE  DInv'
<1> IInv /\ CreatorsInv /\ AliveInv /\ TokensInv /\ ObjectsInv /\ AskedInv
  BY DEF DInv
<1> TypeOK /\ HandlesInv /\ UnbornInv /\ VisitsInv /\ TicketsInv
  BY DEF IInv
<1> USE DEF ThisRelease, At, Release, slotVars, tokenVars, stopVars,
            threadVars, FetchOr
<1>1. CreatorsInv'
  BY SMTT(20) DEF CreatorsInv, CreatingIn, Creating, Running, ReleasingHandle
<1>2. AliveInv'
  BY SMTT(20) DEF AliveInv, Alive, CreatingIn, Creating, Erasing
<1>3. TokensInv'
  BY SMTT(20) DEF TokensInv, CreatingIn, Creating
<1>4. ObjectsInv'
  BY SMTT(20) DEF ObjectsInv, ReleasingHandle, InvalidOnlyAfterErase
<1>5. AskedInv'
  BY SMTT(20) DEF AskedInv, Unborn
<1>. QED
  BY <1>1, <1>2, <1>3, <1>4, <1>5 DEF DInv

(* The end of a visit leaves objects and tokens as they are.               *)
LEMMA ClearExecuteFlagKeepsTokens ==
  ASSUME DInv, IInv', ScheduleAfterReuse = FALSE,
         NEW t \in Threads, ClearExecuteFlag(t)
  PROVE  DInv'
<1> IInv /\ CreatorsInv /\ AliveInv /\ TokensInv /\ ObjectsInv /\ AskedInv
  BY DEF DInv
<1> TypeOK /\ HandlesInv /\ UnbornInv /\ VisitsInv /\ TicketsInv
  BY DEF IInv
<1> USE DEF ClearExecuteFlag, At, Return, slotVars, tokenVars, stopVars, Enter
<1>1. CreatorsInv'
  BY GroupAssumption, SMTT(20)
     DEF CreatorsInv, CreatingIn, Creating, Running, ReleasingHandle
<1>2. AliveInv'
  BY SMTT(20) DEF AliveInv, Alive, CreatingIn, Creating, Erasing
<1>3. TokensInv'
  BY SMTT(20) DEF TokensInv, CreatingIn, Creating
<1>4. ObjectsInv'
  BY SMTT(20) DEF ObjectsInv, ReleasingHandle, InvalidOnlyAfterErase
<1>5. AskedInv'
  BY ClearBorrowsNothing, SMTT(20)
     DEF AskedInv, Unborn, TypeOK, Running, VisitsInv
<1>. QED
  BY <1>1, <1>2, <1>3, <1>4, <1>5 DEF DInv

(* The erasing thread takes the contract's own token with it.              *)
LEMMA EraseContractKeepsTokens ==
  ASSUME DInv, IInv', ScheduleAfterReuse = FALSE,
         NEW t \in Threads, EraseContract(t)
  PROVE  DInv'
<1> IInv /\ CreatorsInv /\ AliveInv /\ TokensInv /\ ObjectsInv /\ AskedInv
  BY DEF DInv
<1> TypeOK /\ HandlesInv /\ UnbornInv /\ VisitsInv /\ TicketsInv
  BY DEF IInv
<1> USE DEF EraseContract, At, Enter, tokenVars, stopVars
<1>1. CreatorsInv'
  BY SMTT(20) DEF CreatorsInv, CreatingIn, Creating, Running, ReleasingHandle
<1>2. AliveInv'
  BY SMTT(20)
     DEF AliveInv, Alive, CreatingIn, Creating, Erasing, TypeOK, HandlesInv,
         SlotSteps, UnbornInv, Running, VisitsInv, CreatorsInv
<1>3. TokensInv'
  BY SMTT(20) DEF TokensInv, CreatingIn, Creating
<1>4. ObjectsInv'
  BY SMTT(20) DEF ObjectsInv, ReleasingHandle, InvalidOnlyAfterErase, TypeOK
<1>5. AskedInv'
  BY SMTT(20) DEF AskedInv, Unborn
<1>. QED
  BY <1>1, <1>2, <1>3, <1>4, <1>5 DEF DInv

(* The token is orphaned while the slot is still the contract's.           *)
LEMMA OrphanTokenKeepsTokens ==
  ASSUME DInv, IInv', ScheduleAfterReuse = FALSE,
         NEW t \in Workers, OrphanToken(t)
  PROVE  DInv'
<1> t \in Threads
  BY DEF Threads
<1> IInv /\ CreatorsInv /\ AliveInv /\ TokensInv /\ ObjectsInv /\ AskedInv
  BY DEF DInv
<1> TypeOK /\ HandlesInv /\ UnbornInv /\ VisitsInv /\ TicketsInv
  BY DEF IInv
<1> USE DEF OrphanToken, At, Goto, TokenLocked, slotVars, stopVars
<1>1. CreatorsInv'
  BY SMTT(20) DEF CreatorsInv, CreatingIn, Creating, Running, ReleasingHandle
<1>2. AliveInv'
  BY SMTT(20) DEF AliveInv, Alive, CreatingIn, Creating, Erasing
<1>3. TokensInv'
  BY SMTT(20)
     DEF TokensInv, CreatingIn, Creating, TypeOK, Incarnations, AliveInv
<1>4. ObjectsInv'
  BY SMTT(20) DEF ObjectsInv, ReleasingHandle, InvalidOnlyAfterErase, TypeOK
<1>5. AskedInv'
  BY SMTT(20) DEF AskedInv, Unborn
<1>. QED
  BY <1>1, <1>2, <1>3, <1>4, <1>5 DEF DInv

(* When the slot is freed no token names it and nobody asks for it.        *)
LEMMA FreeSlotKeepsTokens ==
  ASSUME DInv, IInv', ScheduleAfterReuse = FALSE,
         NEW t \in Threads, FreeSlot(t)
  PROVE  DInv'
<1> IInv /\ CreatorsInv /\ AliveInv /\ TokensInv /\ ObjectsInv /\ AskedInv
  BY DEF DInv
<1> TypeOK /\ HandlesInv /\ UnbornInv /\ VisitsInv /\ TicketsInv
  BY DEF IInv
<1> USE DEF FreeSlot, At, Return, tokenVars, stopVars, Enter
<1>1. CreatorsInv'
  BY GroupAssumption, SMTT(20)
     DEF CreatorsInv, CreatingIn, Creating, Running, ReleasingHandle
<1>2. AliveInv'
  BY SMTT(20) DEF AliveInv, Alive, CreatingIn, Creating, Erasing, TypeOK
<1>3. TokensInv'
  BY SMTT(20) DEF TokensInv, CreatingIn, Creating, TypeOK
<1>4. ObjectsInv'
  BY SMTT(20) DEF ObjectsInv, ReleasingHandle, InvalidOnlyAfterErase
<1>5. AskedInv'
  BY SMTT(20) DEF AskedInv, Unborn
<1>. QED
  BY <1>1, <1>2, <1>3, <1>4, <1>5 DEF DInv

(* The start of stop() leaves slots and tokens as they are.                *)
LEMMA StopBeginKeepsTokens ==
  ASSUME DInv, IInv', ScheduleAfterReuse = FALSE,
         NEW t \in Threads, StopBegin(t)
  PROVE  DInv'
<1> IInv /\ CreatorsInv /\ AliveInv /\ TokensInv /\ ObjectsInv /\ AskedInv
  BY DEF DInv
<1> TypeOK /\ HandlesInv /\ UnbornInv /\ VisitsInv /\ TicketsInv
  BY DEF IInv
<1> USE DEF StopBegin, At, Goto, slotVars, tokenVars
<1>1. CreatorsInv'
  BY SMTT(20) DEF CreatorsInv, CreatingIn, Creating, Running, ReleasingHandle
<1>2. AliveInv'
  BY SMTT(20) DEF AliveInv, Alive, CreatingIn, Creating, Erasing
<1>3. TokensInv'
  BY SMTT(20) DEF TokensInv, CreatingIn, Creating
<1>4. ObjectsInv'
  BY SMTT(20) DEF ObjectsInv, ReleasingHandle, InvalidOnlyAfterErase
<1>5. AskedInv'
  BY SMTT(20) DEF AskedInv, Unborn
<1>. QED
  BY <1>1, <1>2, <1>3, <1>4, <1>5 DEF DInv

(* Scanning leaves slots and tokens as they are.                           *)
LEMMA StopScanKeepsTokens ==
  ASSUME DInv, IInv', ScheduleAfterReuse = FALSE,
         NEW t \in Threads, NEW c \in Contracts, StopScan(t, c)
  PROVE  DInv'
<1> IInv /\ CreatorsInv /\ AliveInv /\ TokensInv /\ ObjectsInv /\ AskedInv
  BY DEF DInv
<1> TypeOK /\ HandlesInv /\ UnbornInv /\ VisitsInv /\ TicketsInv
  BY DEF IInv
<1> USE DEF StopScan, At, Enter, slotVars, tokenVars, threadVars
<1>1. CreatorsInv'
  BY SMTT(20)
     DEF CreatorsInv, CreatingIn, Creating, Running, ReleasingHandle, TypeOK
<1>2. AliveInv'
  BY SMTT(20) DEF AliveInv, Alive, CreatingIn, Creating, Erasing, TypeOK
<1>3. TokensInv'
  BY SMTT(20) DEF TokensInv, CreatingIn, Creating, TypeOK
<1>4. ObjectsInv'
  BY SMTT(20) DEF ObjectsInv, ReleasingHandle, InvalidOnlyAfterErase, TypeOK
<1>5. AskedInv'
  BY SMTT(20) DEF AskedInv, Unborn, TypeOK
<1>. QED
  BY <1>1, <1>2, <1>3, <1>4, <1>5 DEF DInv

(* Once stopped, a token may be orphaned early.                            *)
LEMMA StopOrphanKeepsTokens ==
  ASSUME DInv, IInv', ScheduleAfterReuse = FALSE,
         NEW t \in Threads, StopOrphan(t)
  PROVE  DInv'
<1> IInv /\ CreatorsInv /\ AliveInv /\ TokensInv /\ ObjectsInv /\ AskedInv
  BY DEF DInv
<1> TypeOK /\ HandlesInv /\ UnbornInv /\ VisitsInv /\ TicketsInv
  BY DEF IInv
<1> USE DEF StopOrphan, At, Goto, Enter, TokenLocked, slotVars, stopVars
<1>1. CreatorsInv'
  BY ZeroHasNoFlag, SMTT(20)
     DEF CreatorsInv, CreatingIn, Creating, Running, ReleasingHandle, TypeOK
<1>2. AliveInv'
  BY SMTT(20) DEF AliveInv, Alive, CreatingIn, Creating, Erasing, TypeOK
<1>3. TokensInv'
  BY SMTT(20) DEF TokensInv, CreatingIn, Creating, TypeOK
<1>4. ObjectsInv'
  BY SMTT(20) DEF ObjectsInv, ReleasingHandle, InvalidOnlyAfterErase, TypeOK
<1>5. AskedInv'
  BY SMTT(20) DEF AskedInv, Unborn, TypeOK
<1>. QED
  BY <1>1, <1>2, <1>3, <1>4, <1>5 DEF DInv

(* The end of stop() leaves slots and tokens as they are.                  *)
LEMMA StopReturnKeepsTokens ==
  ASSUME DInv, IInv', ScheduleAfterReuse = FALSE,
         NEW t \in Threads, StopReturn(t)
  PROVE  DInv'
<1> IInv /\ CreatorsInv /\ AliveInv /\ TokensInv /\ ObjectsInv /\ AskedInv
  BY DEF DInv
<1> TypeOK /\ HandlesInv /\ UnbornInv /\ VisitsInv /\ TicketsInv
  BY DEF IInv
<1> USE DEF StopReturn, At, Goto, slotVars, tokenVars, stopVars
<1>1. CreatorsInv'
  BY SMTT(20) DEF CreatorsInv, CreatingIn, Creating, Running, ReleasingHandle
<1>2. AliveInv'
  BY SMTT(20) DEF AliveInv, Alive, CreatingIn, Creating, Erasing
<1>3. TokensInv'
  BY SMTT(20) DEF TokensInv, CreatingIn, Creating
<1>4. ObjectsInv'
  BY SMTT(20) DEF ObjectsInv, ReleasingHandle, InvalidOnlyAfterErase
<1>5. AskedInv'
  BY SMTT(20) DEF AskedInv, Unborn
<1>. QED
  BY <1>1, <1>2, <1>3, <1>4, <1>5 DEF DInv
-----------------------------------------------------------------------------
(* At first there are neither objects nor tokens. *)
LEMMA InitDInv == Init => DInv
<1> SUFFICES ASSUME Init PROVE DInv
  OBVIOUS
<1>1. IInv
  BY InitIInv
<1> USE DEF Init
<1>2. CreatorsInv
  BY DEF CreatorsInv, CreatingIn, Creating
<1>3. AliveInv
  BY DEF AliveInv, Alive
<1>4. TokensInv
  BY DEF TokensInv
<1>5. ObjectsInv
  BY DEF ObjectsInv, InvalidOnlyAfterErase
<1>6. AskedInv
  BY DEF AskedInv, Unborn
<1>. QED
  BY <1>1, <1>2, <1>3, <1>4, <1>5, <1>6 DEF DInv

(* No step breaks DInv, unless it is a schedule through a stale object.    *)
LEMMA NextDInv ==
  ASSUME ScheduleAfterReuse = FALSE PROVE DInv /\ [Next]_vars => DInv'
<1> SUFFICES ASSUME DInv, [Next]_vars PROVE DInv'
  OBVIOUS
<1> IInv'
  BY NextIInv DEF DInv
<1>1. ASSUME NEW t \in Threads, SetSignal(t) PROVE DInv'
  BY <1>1, SetSignalKeepsTokens
<1>2. ASSUME NEW t \in Clients, Client(t) PROVE DInv'
  <2> t \in Threads
    BY DEF Threads
  <2> QED
    BY <1>2, GetAvailableContractKeepsTokens, ResetFlagsKeepsTokens,
       InstallCallbacksKeepsTokens, PublishKeepsTokens,
       HandleScheduleKeepsTokens, HandleReleaseKeepsTokens,
       LockTokenKeepsTokens, TokenReleaseKeepsTokens, UnlockTokenKeepsTokens
       DEF Client, Create, FinishRelease
<1>3. ASSUME NEW t \in Workers, Worker(t) PROVE DInv'
  <2> t \in Threads
    BY DEF Threads
  <2> QED
    BY <1>3, SelectKeepsTokens, BeginContractKeepsTokens,
       ThisScheduleKeepsTokens, ThisReleaseKeepsTokens,
       ClearExecuteFlagKeepsTokens, EraseContractKeepsTokens,
       OrphanTokenKeepsTokens, FreeSlotKeepsTokens
       DEF Worker, FinishContract
<1>4. ASSUME NEW t \in Stoppers, Stopper(t) PROVE DInv'
  <2> t \in Threads
    BY DEF Threads
  <2> QED
    BY <1>4, StopBeginKeepsTokens, StopScanKeepsTokens, StopOrphanKeepsTokens,
       StopReturnKeepsTokens
       DEF Stopper
<1>5. CASE UNCHANGED vars
  <2> USE <1>5 DEF vars
  <2>1. CreatorsInv'
    BY DEF DInv, CreatorsInv, CreatingIn, Creating, Running, ReleasingHandle
  <2>2. AliveInv'
    BY DEF DInv, AliveInv, Alive, CreatingIn, Creating, Erasing
  <2>3. TokensInv'
    BY DEF DInv, TokensInv, CreatingIn, Creating
  <2>4. ObjectsInv'
    BY DEF DInv, ObjectsInv, ReleasingHandle, InvalidOnlyAfterErase
  <2>5. AskedInv'
    BY DEF DInv, AskedInv, Unborn
  <2> QED
    BY <2>1, <2>2, <2>3, <2>4, <2>5 DEF DInv
<1>. QED
  BY <1>1, <1>2, <1>3, <1>4, <1>5 DEF Next

(* Who holds objects and tokens of a slot, at every step.                  *)
THEOREM TokenInvariant ==
  ASSUME ScheduleAfterReuse = FALSE PROVE Spec => []DInv
<1>1. DInv /\ [Next]_vars => DInv'
  BY NextDInv
<1>. QED
  BY <1>1, InitDInv, PTL DEF Spec

(* A worker invokes the callbacks of the contract that lives in the slot,  *)
(* never null ones nor those of a contract that was erased.                *)
THEOREM OwnCallbacks ==
  ASSUME ScheduleAfterReuse = FALSE PROVE Spec => []InvokesOwnCallbacks
<1>1. DInv => InvokesOwnCallbacks
  <2> SUFFICES ASSUME DInv, NEW t \in Threads, pc[t] \in {"work", "release"}
               PROVE  work[cur[t]] = gen[cur[t]]
    BY DEF InvokesOwnCallbacks
  <2> IInv /\ HandlesInv /\ UnbornInv /\ VisitsInv /\ CreatorsInv /\ AliveInv
    BY DEF DInv, IInv
  <2>1. cur[t] \in Contracts /\ Running(t, cur[t])
    BY DEF HandlesInv, SlotSteps, Running
  <2>2. cur[t] \notin available
    BY <2>1 DEF UnbornInv
  <2>3. \A u \in Threads : ~CreatingIn(u, cur[t])
    BY <2>1 DEF CreatorsInv
  <2>4. \A u \in Threads : ~Erasing(u, cur[t])
    BY <2>1 DEF VisitsInv, Running, Erasing
  <2>. QED
    BY <2>1, <2>2, <2>3, <2>4 DEF AliveInv, Alive
<1>. QED
  BY <1>1, TokenInvariant, PTL

(* A stale object never releases the next contract of its slot: a token    *)
(* leads to the group only while its own contract lives in the slot.       *)
THEOREM TokensNameTheLiving ==
  ASSUME ScheduleAfterReuse = FALSE PROVE Spec => []TokenNamesLiveContract
<1>1. DInv => TokenNamesLiveContract
  BY DEF DInv, TokensInv, TokenNamesLiveContract, Unborn, CreatingIn, Creating,
         Incarnations
<1>. QED
  BY <1>1, TokenInvariant, PTL

(* A valid object turns invalid only by its own release, by the erasure of *)
(* its contract, or by stop().                                             *)
THEOREM InvalidAfterErase ==
  ASSUME ScheduleAfterReuse = FALSE PROVE Spec => []InvalidOnlyAfterErase
<1>1. DInv => InvalidOnlyAfterErase
  BY DEF DInv, ObjectsInv
<1>. QED
  BY <1>1, TokenInvariant, PTL

(* No contract is visited on account of an earlier one in its slot.        *)
THEOREM VisitsAreAsked ==
  ASSUME ScheduleAfterReuse = FALSE PROVE Spec => []VisitsOnlyWhenAsked
<1>1. DInv => VisitsOnlyWhenAsked
  BY DEF DInv, IInv, AskedInv, UnbornInv, VisitsOnlyWhenAsked, Unborn,
         Resetting, Pending
<1>. QED
  BY <1>1, TokenInvariant, PTL
-----------------------------------------------------------------------------
(* stop(), with no create_contract() during or after it                    *)
(* (CreateDuringStop = FALSE as well).                                     *)

(* Thread t is, or was just now, inside group.release() on behalf of h,    *)
(* holding h's token.                                                      *)
ThroughToken(t, h) ==
  /\ <<cur[t], tok[t]>> = h
  /\ pc[t] = "release_or" \/ (pc[t] = "release_unlock" /\ owes[t] # None)

StopSteps == {"stop_scan", "stop_orphan", "stop_returned", "null_dereference"}

(* Threads keep to their roles; one thread at most is past the exchange of *)
(* stopped_, and nothing is created after it.                              *)
RolesInv ==
  /\ \A t \in Threads : pc[t] \in {"orphan", "free"} => t \in Workers
  /\ \A t \in Threads : pc[t] \in StopSteps =>
       stopped /\ \A u \in Threads : pc[u] \in StopSteps => u = t
  /\ \A t \in Threads : pc[t] = "stop_returned" => visit = {}
  /\ stopped => \A t \in Threads : ~Creating(t)

(* The signal that a release() through a token still owes is the one of    *)
(* the token's own contract.                                               *)
OwedInv ==
  \A t \in Threads : pc[t] = "release_unlock" /\ owes[t] # None =>
    owes[t] = cur[t] /\ tok[t] = gen[cur[t]]

(* A contract that can still be reached through its token after stopped_   *)
(* was set has yet to be visited by stop(), or is about to be orphaned.    *)
CutOffInv ==
  stopped =>
    \A h \in Incarnations :
      h \in live \/ (\E t \in Threads : ThroughToken(t, h))
      => \/ h[1] \in visit
         \/ \E t \in Threads : pc[t] \in {"stop_orphan", "orphan"} /\ cur[t] = h[1]

SInv == DInv /\ RolesInv /\ OwedInv /\ CutOffInv
-----------------------------------------------------------------------------
(* Whose token can still be gone through lives in its slot, and the slot   *)
(* holds the token unless a worker has taken it out and will orphan it.    *)
LEMMA ReachableIsHeld ==
  ASSUME SInv, NEW h \in Incarnations,
         h \in live \/ \E t \in Threads : ThroughToken(t, h)
  PROVE  /\ h[2] = gen[h[1]]
         /\ \/ releaseToken[h[1]] = h[2]
            \/ \E u \in Threads : pc[u] = "orphan" /\ cur[u] = h[1]
<1> DEFINE c == h[1]
<1> c \in Contracts
  BY DEF Incarnations
<1> /\ TypeOK /\ HandlesInv /\ UnbornInv /\ VisitsInv /\ TicketsInv
    /\ CreatorsInv /\ AliveInv /\ TokensInv /\ OwedInv
  BY DEF SInv, DInv, IInv
<1>1. /\ h[2] = gen[c]
      /\ c \notin available
      /\ \A u \in Threads : ~CreatingIn(u, c) /\ (pc[u] = "free" => cur[u] # c)
  <2>1. CASE h \in live
    BY <2>1 DEF TokensInv
  <2>2. CASE \E t \in Threads : pc[t] = "release_or" /\ <<cur[t], tok[t]>> = h
    BY <2>2 DEF TokensInv, CreatingIn
  <2>3. ASSUME NEW t \in Threads,
               pc[t] = "release_unlock", owes[t] # None, <<cur[t], tok[t]>> = h
        PROVE  <1>1
    <3>1. owes[t] = c /\ h[2] = gen[c]
      BY <2>3 DEF OwedInv
    <3>2. Pending(flags[c])
      BY <3>1 DEF TicketsInv, HasTicket
    <3>3. c \notin available
      BY <3>2 DEF UnbornInv
    <3>4. ASSUME NEW u \in Threads PROVE ~CreatingIn(u, c)
      BY <3>2, ZeroHasNoFlag
         DEF CreatorsInv, CreatingIn, Creating, UnbornInv, Resetting, Pending
    <3>5. ASSUME NEW u \in Threads, pc[u] = "free" PROVE cur[u] # c
      BY <3>2, <3>5 DEF VisitsInv, Running, Pending
    <3>. QED
      BY <3>1, <3>3, <3>4, <3>5
  <2>. QED
    BY <2>1, <2>2, <2>3 DEF ThroughToken
<1>. QED
  BY <1>1 DEF AliveInv, Alive, Erasing

(* The signal owed through a token is raised.                              *)
LEMMA SetSignalKeepsCutOff ==
  ASSUME SInv, DInv', CreateDuringStop = FALSE,
         NEW t \in Threads, SetSignal(t)
  PROVE  SInv'
<1> DInv /\ RolesInv /\ OwedInv /\ CutOffInv
  BY DEF SInv
<1> IInv /\ CreatorsInv /\ AliveInv /\ TokensInv /\ ObjectsInv /\ AskedInv
  BY DEF DInv
<1> TypeOK /\ HandlesInv /\ UnbornInv /\ VisitsInv /\ TicketsInv
  BY DEF IInv
<1> USE DEF SetSignal, slotVars, tokenVars, stopVars, threadVars
<1>1. RolesInv'
  BY SMTT(20) DEF RolesInv, Creating
<1>2. OwedInv'
  BY SMTT(20) DEF OwedInv
<1>3. CutOffInv'
  BY SMTT(20) DEF CutOffInv, ThroughToken
<1>. QED
  BY <1>1, <1>2, <1>3 DEF SInv

(* Nothing is created once stopped_ is set.                                *)
LEMMA GetAvailableContractKeepsCutOff ==
  ASSUME SInv, DInv', CreateDuringStop = FALSE,
         NEW t \in Threads, NEW c \in Contracts, GetAvailableContract(t, c)
  PROVE  SInv'
<1> DInv /\ RolesInv /\ OwedInv /\ CutOffInv
  BY DEF SInv
<1> IInv /\ CreatorsInv /\ AliveInv /\ TokensInv /\ ObjectsInv /\ AskedInv
  BY DEF DInv
<1> TypeOK /\ HandlesInv /\ UnbornInv /\ VisitsInv /\ TicketsInv
  BY DEF IInv
<1> USE DEF GetAvailableContract, At, Enter, tokenVars, stopVars
<1>1. RolesInv'
  BY SMTT(20) DEF RolesInv, StopSteps
<1>2. OwedInv'
  BY SMTT(20) DEF OwedInv, UnbornInv, TicketsInv, HasTicket
<1>3. CutOffInv'
  BY SMTT(20) DEF CutOffInv
<1>. QED
  BY <1>1, <1>2, <1>3 DEF SInv

(* Only before stopped_.                                                   *)
LEMMA ResetFlagsKeepsCutOff ==
  ASSUME SInv, DInv', CreateDuringStop = FALSE,
         NEW t \in Threads, ResetFlags(t)
  PROVE  SInv'
<1> DInv /\ RolesInv /\ OwedInv /\ CutOffInv
  BY DEF SInv
<1> IInv /\ CreatorsInv /\ AliveInv /\ TokensInv /\ ObjectsInv /\ AskedInv
  BY DEF DInv
<1> TypeOK /\ HandlesInv /\ UnbornInv /\ VisitsInv /\ TicketsInv
  BY DEF IInv
<1> USE DEF ResetFlags, At, Goto, slotVars, tokenVars, stopVars
<1>1. RolesInv'
  BY SMTT(20) DEF RolesInv, StopSteps, Creating
<1>2. OwedInv'
  BY SMTT(20) DEF OwedInv
<1>3. CutOffInv'
  BY SMTT(20) DEF CutOffInv, ThroughToken
<1>. QED
  BY <1>1, <1>2, <1>3 DEF SInv

(* Only before stopped_.                                                   *)
LEMMA InstallCallbacksKeepsCutOff ==
  ASSUME SInv, DInv', CreateDuringStop = FALSE,
         NEW t \in Threads, InstallCallbacks(t)
  PROVE  SInv'
<1> DInv /\ RolesInv /\ OwedInv /\ CutOffInv
  BY DEF SInv
<1> IInv /\ CreatorsInv /\ AliveInv /\ TokensInv /\ ObjectsInv /\ AskedInv
  BY DEF DInv
<1> TypeOK /\ HandlesInv /\ UnbornInv /\ VisitsInv /\ TicketsInv
  BY DEF IInv
<1> USE DEF InstallCallbacks, At, Goto, tokenVars, stopVars
<1>1. RolesInv'
  BY SMTT(20) DEF RolesInv, StopSteps, Creating
<1>2. OwedInv'
  BY SMTT(20) DEF OwedInv
<1>3. CutOffInv'
  BY SMTT(20) DEF CutOffInv, ThroughToken
<1>. QED
  BY <1>1, <1>2, <1>3 DEF SInv

(* A token is born only before stopped_.                                   *)
LEMMA PublishKeepsCutOff ==
  ASSUME SInv, DInv', CreateDuringStop = FALSE,
         NEW t \in Threads, NEW scheduled \in BOOLEAN, Publish(t, scheduled)
  PROVE  SInv'
<1> DInv /\ RolesInv /\ OwedInv /\ CutOffInv
  BY DEF SInv
<1> IInv /\ CreatorsInv /\ AliveInv /\ TokensInv /\ ObjectsInv /\ AskedInv
  BY DEF DInv
<1> TypeOK /\ HandlesInv /\ UnbornInv /\ VisitsInv /\ TicketsInv
  BY DEF IInv
<1> USE DEF Publish, At, Return, Schedule, stopVars, Enter, FetchOr
<1>1. RolesInv'
  BY SMTT(20) DEF RolesInv, StopSteps, Creating
<1>2. OwedInv'
  BY SMTT(20) DEF OwedInv, TypeOK
<1>3. CutOffInv'
  BY SMTT(20) DEF CutOffInv, Creating, RolesInv
<1>. QED
  BY <1>1, <1>2, <1>3 DEF SInv

(* No token is involved.                                                   *)
LEMMA HandleScheduleKeepsCutOff ==
  ASSUME SInv, DInv', CreateDuringStop = FALSE,
         NEW t \in Threads, NEW h \in Incarnations, HandleSchedule(t, h)
  PROVE  SInv'
<1> DInv /\ RolesInv /\ OwedInv /\ CutOffInv
  BY DEF SInv
<1> IInv /\ CreatorsInv /\ AliveInv /\ TokensInv /\ ObjectsInv /\ AskedInv
  BY DEF DInv
<1> TypeOK /\ HandlesInv /\ UnbornInv /\ VisitsInv /\ TicketsInv
  BY DEF IInv
<1> USE DEF HandleSchedule, At, Schedule, AskedThrough, slotVars, tokenVars,
            stopVars, threadVars, FetchOr
<1>1. RolesInv'
  BY SMTT(20) DEF RolesInv, Creating
<1>2. OwedInv'
  BY SMTT(20) DEF OwedInv
<1>3. CutOffInv'
  BY SMTT(20) DEF CutOffInv, ThroughToken
<1>. QED
  BY <1>1, <1>2, <1>3 DEF SInv

(* The object's token is not gone through yet.                             *)
LEMMA HandleReleaseKeepsCutOff ==
  ASSUME SInv, DInv', CreateDuringStop = FALSE,
         NEW t \in Threads, NEW h \in Incarnations, HandleRelease(t, h)
  PROVE  SInv'
<1> DInv /\ RolesInv /\ OwedInv /\ CutOffInv
  BY DEF SInv
<1> IInv /\ CreatorsInv /\ AliveInv /\ TokensInv /\ ObjectsInv /\ AskedInv
  BY DEF DInv
<1> TypeOK /\ HandlesInv /\ UnbornInv /\ VisitsInv /\ TicketsInv
  BY DEF IInv
<1> USE DEF HandleRelease, At, Enter, slotVars, stopVars
<1>1. RolesInv'
  BY SMTT(20) DEF RolesInv, StopSteps, Creating
<1>2. OwedInv'
  BY SMTT(20) DEF OwedInv
<1>3. CutOffInv'
  BY SMTT(20) DEF CutOffInv, ThroughToken
<1>. QED
  BY <1>1, <1>2, <1>3 DEF SInv

(* The token passes from live to the thread that goes through it, under    *)
(* its mutex.                                                              *)
LEMMA LockTokenKeepsCutOff ==
  ASSUME SInv, DInv', CreateDuringStop = FALSE,
         NEW t \in Threads, LockToken(t)
  PROVE  SInv'
<1> DInv /\ RolesInv /\ OwedInv /\ CutOffInv
  BY DEF SInv
<1> IInv /\ CreatorsInv /\ AliveInv /\ TokensInv /\ ObjectsInv /\ AskedInv
  BY DEF DInv
<1> TypeOK /\ HandlesInv /\ UnbornInv /\ VisitsInv /\ TicketsInv
  BY DEF IInv
<1> USE DEF LockToken, At, Goto, TokenLocked, slotVars, stopVars
<1>1. RolesInv'
  BY SMTT(20) DEF RolesInv, StopSteps, Creating
<1>2. OwedInv'
  BY SMTT(20) DEF OwedInv
<1>3. CutOffInv'
  BY SMTT(20) DEF CutOffInv, ThroughToken
<1>. QED
  BY <1>1, <1>2, <1>3 DEF SInv

(* The release goes to the contract of the token.                          *)
LEMMA TokenReleaseKeepsCutOff ==
  ASSUME SInv, DInv', CreateDuringStop = FALSE,
         NEW t \in Threads, TokenRelease(t)
  PROVE  SInv'
<1> DInv /\ RolesInv /\ OwedInv /\ CutOffInv
  BY DEF SInv
<1> IInv /\ CreatorsInv /\ AliveInv /\ TokensInv /\ ObjectsInv /\ AskedInv
  BY DEF DInv
<1> TypeOK /\ HandlesInv /\ UnbornInv /\ VisitsInv /\ TicketsInv
  BY DEF IInv
<1> USE DEF TokenRelease, At, Goto, Release, AskedThrough, slotVars,
            tokenVars, stopVars, FetchOr
<1>1. RolesInv'
  BY SMTT(20) DEF RolesInv, StopSteps, Creating
<1>2. OwedInv'
  BY SMTT(20) DEF OwedInv, TokensInv
<1>3. CutOffInv'
  BY SMTT(20) DEF CutOffInv, ThroughToken
<1>. QED
  BY <1>1, <1>2, <1>3 DEF SInv

(* The thread leaves the token.                                            *)
LEMMA UnlockTokenKeepsCutOff ==
  ASSUME SInv, DInv', CreateDuringStop = FALSE,
         NEW t \in Threads, UnlockToken(t)
  PROVE  SInv'
<1> DInv /\ RolesInv /\ OwedInv /\ CutOffInv
  BY DEF SInv
<1> IInv /\ CreatorsInv /\ AliveInv /\ TokensInv /\ ObjectsInv /\ AskedInv
  BY DEF DInv
<1> TypeOK /\ HandlesInv /\ UnbornInv /\ VisitsInv /\ TicketsInv
  BY DEF IInv
<1> USE DEF UnlockToken, At, Return, slotVars, stopVars, Enter
<1>1. RolesInv'
  BY SMTT(20) DEF RolesInv, StopSteps, Creating
<1>2. OwedInv'
  BY SMTT(20) DEF OwedInv
<1>3. CutOffInv'
  BY SMTT(20) DEF CutOffInv, ThroughToken
<1>. QED
  BY <1>1, <1>2, <1>3 DEF SInv

(* A worker takes its role.                                                *)
LEMMA SelectKeepsCutOff ==
  ASSUME SInv, DInv', CreateDuringStop = FALSE,
         NEW t \in Threads, NEW c \in Contracts, Select(t, c), t \in Workers
  PROVE  SInv'
<1> DInv /\ RolesInv /\ OwedInv /\ CutOffInv
  BY DEF SInv
<1> IInv /\ CreatorsInv /\ AliveInv /\ TokensInv /\ ObjectsInv /\ AskedInv
  BY DEF DInv
<1> TypeOK /\ HandlesInv /\ UnbornInv /\ VisitsInv /\ TicketsInv
  BY DEF IInv
<1> USE DEF Select, At, Enter, slotVars, tokenVars, stopVars
<1>1. RolesInv'
  BY SMTT(20) DEF RolesInv, StopSteps, Creating
<1>2. OwedInv'
  BY SMTT(20) DEF OwedInv
<1>3. CutOffInv'
  BY SMTT(20) DEF CutOffInv, ThroughToken
<1>. QED
  BY <1>1, <1>2, <1>3 DEF SInv

(* A worker keeps its role.                                                *)
LEMMA BeginContractKeepsCutOff ==
  ASSUME SInv, DInv', CreateDuringStop = FALSE,
         NEW t \in Threads, BeginContract(t), t \in Workers
  PROVE  SInv'
<1> DInv /\ RolesInv /\ OwedInv /\ CutOffInv
  BY DEF SInv
<1> IInv /\ CreatorsInv /\ AliveInv /\ TokensInv /\ ObjectsInv /\ AskedInv
  BY DEF DInv
<1> TypeOK /\ HandlesInv /\ UnbornInv /\ VisitsInv /\ TicketsInv
  BY DEF IInv
<1> USE DEF BeginContract, At, Goto, slotVars, tokenVars, stopVars
<1>1. RolesInv'
  BY SMTT(20) DEF RolesInv, StopSteps, Creating
<1>2. OwedInv'
  BY SMTT(20) DEF OwedInv
<1>3. CutOffInv'
  BY SMTT(20) DEF CutOffInv, ThroughToken
<1>. QED
  BY <1>1, <1>2, <1>3 DEF SInv

(* A worker keeps its role.                                                *)
LEMMA ThisScheduleKeepsCutOff ==
  ASSUME SInv, DInv', CreateDuringStop = FALSE,
         NEW t \in Threads, ThisSchedule(t), t \in Workers
  PROVE  SInv'
<1> DInv /\ RolesInv /\ OwedInv /\ CutOffInv
  BY DEF SInv
<1> IInv /\ CreatorsInv /\ AliveInv /\ TokensInv /\ ObjectsInv /\ AskedInv
  BY DEF DInv
<1> TypeOK /\ HandlesInv /\ UnbornInv /\ VisitsInv /\ TicketsInv
  BY DEF IInv
<1> USE DEF ThisSchedule, At, Schedule, slotVars, tokenVars, stopVars,
            threadVars, FetchOr
<1>1. RolesInv'
  BY SMTT(20) DEF RolesInv, Creating
<1>2. OwedInv'
  BY SMTT(20) DEF OwedInv
<1>3. CutOffInv'
  BY SMTT(20) DEF CutOffInv, ThroughToken
<1>. QED
  BY <1>1, <1>2, <1>3 DEF SInv

(* A worker keeps its role.                                                *)
LEMMA ThisReleaseKeepsCutOff ==
  ASSUME SInv, DInv', CreateDuringStop = FALSE,
         NEW t \in Threads, ThisRelease(t), t \in Workers
  PROVE  SInv'
<1> DInv /\ RolesInv /\ OwedInv /\ CutOffInv
  BY DEF SInv
<1> IInv /\ CreatorsInv /\ AliveInv /\ TokensInv /\ ObjectsInv /\ AskedInv
  BY DEF DInv
<1> TypeOK /\ HandlesInv /\ UnbornInv /\ VisitsInv /\ TicketsInv
  BY DEF IInv
<1> USE DEF ThisRelease, At, Release, slotVars, tokenVars, stopVars,
            threadVars, FetchOr
<1>1. RolesInv'
  BY SMTT(20) DEF RolesInv, Creating
<1>2. OwedInv'
  BY SMTT(20) DEF OwedInv
<1>3. CutOffInv'
  BY SMTT(20) DEF CutOffInv, ThroughToken
<1>. QED
  BY <1>1, <1>2, <1>3 DEF SInv

(* A worker keeps its role.                                                *)
LEMMA ClearExecuteFlagKeepsCutOff ==
  ASSUME SInv, DInv', CreateDuringStop = FALSE,
         NEW t \in Threads, ClearExecuteFlag(t), t \in Workers
  PROVE  SInv'
<1> DInv /\ RolesInv /\ OwedInv /\ CutOffInv
  BY DEF SInv
<1> IInv /\ CreatorsInv /\ AliveInv /\ TokensInv /\ ObjectsInv /\ AskedInv
  BY DEF DInv
<1> TypeOK /\ HandlesInv /\ UnbornInv /\ VisitsInv /\ TicketsInv
  BY DEF IInv
<1> USE DEF ClearExecuteFlag, At, Return, slotVars, tokenVars, stopVars, Enter
<1>1. RolesInv'
  BY SMTT(20) DEF RolesInv, StopSteps, Creating
<1>2. OwedInv'
  BY SMTT(20) DEF OwedInv
<1>3. CutOffInv'
  BY SMTT(20) DEF CutOffInv, ThroughToken
<1>. QED
  BY <1>1, <1>2, <1>3 DEF SInv

(* The worker that takes the token out of a slot is about to orphan it.    *)
LEMMA EraseContractKeepsCutOff ==
  ASSUME SInv, DInv', CreateDuringStop = FALSE,
         NEW t \in Threads, EraseContract(t), t \in Workers
  PROVE  SInv'
<1> DInv /\ RolesInv /\ OwedInv /\ CutOffInv
  BY DEF SInv
<1> IInv /\ CreatorsInv /\ AliveInv /\ TokensInv /\ ObjectsInv /\ AskedInv
  BY DEF DInv
<1> TypeOK /\ HandlesInv /\ UnbornInv /\ VisitsInv /\ TicketsInv
  BY DEF IInv
<1> USE DEF EraseContract, At, Enter, tokenVars, stopVars
<1>1. RolesInv'
  BY SMTT(20) DEF RolesInv, StopSteps, Creating
<1>2. OwedInv'
  BY SMTT(20) DEF OwedInv
<1>3. CutOffInv'
  BY SMTT(20) DEF CutOffInv, ThroughToken
<1>. QED
  BY <1>1, <1>2, <1>3 DEF SInv

(* The worker orphans it, waiting for whoever goes through it.             *)
LEMMA OrphanTokenKeepsCutOff ==
  ASSUME SInv, DInv', CreateDuringStop = FALSE,
         NEW t \in Threads, OrphanToken(t), t \in Workers
  PROVE  SInv'
<1> DInv /\ RolesInv /\ OwedInv /\ CutOffInv
  BY DEF SInv
<1> IInv /\ CreatorsInv /\ AliveInv /\ TokensInv /\ ObjectsInv /\ AskedInv
  BY DEF DInv
<1> TypeOK /\ HandlesInv /\ UnbornInv /\ VisitsInv /\ TicketsInv
  BY DEF IInv
<1> USE DEF OrphanToken, At, Goto, TokenLocked, slotVars, stopVars
<1>1. RolesInv'
  BY SMTT(20) DEF RolesInv, StopSteps, Creating
<1>2. OwedInv'
  BY SMTT(20) DEF OwedInv
<1>3. CutOffInv'
  BY SMTT(20)
     DEF CutOffInv, ThroughToken, Incarnations, AliveInv, TokensInv, OwedInv
<1>. QED
  BY <1>1, <1>2, <1>3 DEF SInv

(* The contract was orphaned before.                                       *)
LEMMA FreeSlotKeepsCutOff ==
  ASSUME SInv, DInv', CreateDuringStop = FALSE,
         NEW t \in Threads, FreeSlot(t), t \in Workers
  PROVE  SInv'
<1> DInv /\ RolesInv /\ OwedInv /\ CutOffInv
  BY DEF SInv
<1> IInv /\ CreatorsInv /\ AliveInv /\ TokensInv /\ ObjectsInv /\ AskedInv
  BY DEF DInv
<1> TypeOK /\ HandlesInv /\ UnbornInv /\ VisitsInv /\ TicketsInv
  BY DEF IInv
<1> USE DEF FreeSlot, At, Return, tokenVars, stopVars, Enter
<1>1. RolesInv'
  BY SMTT(20) DEF RolesInv, StopSteps, Creating
<1>2. OwedInv'
  BY SMTT(20) DEF OwedInv
<1>3. CutOffInv'
  BY SMTT(20) DEF CutOffInv, ThroughToken
<1>. QED
  BY <1>1, <1>2, <1>3 DEF SInv

(* Every slot is still to be visited.                                      *)
LEMMA StopBeginKeepsCutOff ==
  ASSUME SInv, DInv', CreateDuringStop = FALSE,
         NEW t \in Threads, StopBegin(t)
  PROVE  SInv'
<1> DInv /\ RolesInv /\ OwedInv /\ CutOffInv
  BY DEF SInv
<1> IInv /\ CreatorsInv /\ AliveInv /\ TokensInv /\ ObjectsInv /\ AskedInv
  BY DEF DInv
<1> TypeOK /\ HandlesInv /\ UnbornInv /\ VisitsInv /\ TicketsInv
  BY DEF IInv
<1> USE DEF StopBegin, At, Goto, slotVars, tokenVars
<1>1. RolesInv'
  BY SMTT(20) DEF RolesInv, StopSteps, Creating
<1>2. OwedInv'
  BY SMTT(20) DEF OwedInv
<1>3. CutOffInv'
  BY SMTT(20) DEF CutOffInv, Incarnations
<1>. QED
  BY <1>1, <1>2, <1>3 DEF SInv

(* A slot with a token is orphaned next; one without has no live token,    *)
(* or a worker is about to orphan it.                                      *)
LEMMA StopScanKeepsCutOff ==
  ASSUME SInv, DInv', CreateDuringStop = FALSE,
         NEW t \in Threads, NEW c \in Contracts, StopScan(t, c)
  PROVE  SInv'
<1> DInv /\ RolesInv /\ OwedInv /\ CutOffInv
  BY DEF SInv
<1> IInv /\ CreatorsInv /\ AliveInv /\ TokensInv /\ ObjectsInv /\ AskedInv
  BY DEF DInv
<1> TypeOK /\ HandlesInv /\ UnbornInv /\ VisitsInv /\ TicketsInv
  BY DEF IInv
<1> USE DEF StopScan, At, Enter, slotVars, tokenVars, threadVars
<1>1. RolesInv'
  BY SMTT(20) DEF RolesInv, StopSteps, Creating, TypeOK
<1>2. OwedInv'
  BY SMTT(20) DEF OwedInv, TypeOK
<1>3. CutOffInv'
  BY ReachableIsHeld, SMTT(20)
     DEF CutOffInv, ThroughToken, Incarnations, TypeOK
<1>. QED
  BY <1>1, <1>2, <1>3 DEF SInv

(* The slot's token is orphaned, by stop() or by the worker that took it.  *)
LEMMA StopOrphanKeepsCutOff ==
  ASSUME SInv, DInv', CreateDuringStop = FALSE,
         NEW t \in Threads, StopOrphan(t)
  PROVE  SInv'
<1> DInv /\ RolesInv /\ OwedInv /\ CutOffInv
  BY DEF SInv
<1> IInv /\ CreatorsInv /\ AliveInv /\ TokensInv /\ ObjectsInv /\ AskedInv
  BY DEF DInv
<1> TypeOK /\ HandlesInv /\ UnbornInv /\ VisitsInv /\ TicketsInv
  BY DEF IInv
<1> USE DEF StopOrphan, At, Goto, Enter, TokenLocked, slotVars, stopVars
<1>1. RolesInv'
  BY SMTT(20) DEF RolesInv, StopSteps, Creating, TypeOK
<1>2. OwedInv'
  BY SMTT(20) DEF OwedInv, TypeOK
<1>3. CutOffInv'
  BY ReachableIsHeld, SMTT(20)
     DEF CutOffInv, ThroughToken, Incarnations, TypeOK
<1>. QED
  BY <1>1, <1>2, <1>3 DEF SInv

(* stop() returns with every slot visited.                                 *)
LEMMA StopReturnKeepsCutOff ==
  ASSUME SInv, DInv', CreateDuringStop = FALSE,
         NEW t \in Threads, StopReturn(t)
  PROVE  SInv'
<1> DInv /\ RolesInv /\ OwedInv /\ CutOffInv
  BY DEF SInv
<1> IInv /\ CreatorsInv /\ AliveInv /\ TokensInv /\ ObjectsInv /\ AskedInv
  BY DEF DInv
<1> TypeOK /\ HandlesInv /\ UnbornInv /\ VisitsInv /\ TicketsInv
  BY DEF IInv
<1> USE DEF StopReturn, At, Goto, slotVars, tokenVars, stopVars
<1>1. RolesInv'
  BY SMTT(20) DEF RolesInv, StopSteps, Creating
<1>2. OwedInv'
  BY SMTT(20) DEF OwedInv
<1>3. CutOffInv'
  BY SMTT(20) DEF CutOffInv, ThroughToken
<1>. QED
  BY <1>1, <1>2, <1>3 DEF SInv
-----------------------------------------------------------------------------
(* At first the group is not stopped. *)
LEMMA InitSInv == Init => SInv
<1> SUFFICES ASSUME Init PROVE SInv
  OBVIOUS
<1>1. DInv
  BY InitDInv
<1> USE DEF Init
<1>2. RolesInv
  BY DEF RolesInv, StopSteps
<1>3. OwedInv
  BY DEF OwedInv
<1>4. CutOffInv
  BY DEF CutOffInv
<1>. QED
  BY <1>1, <1>2, <1>3, <1>4 DEF SInv

(* No step breaks SInv.                                                    *)
LEMMA NextSInv ==
  ASSUME ScheduleAfterReuse = FALSE, CreateDuringStop = FALSE
  PROVE  SInv /\ [Next]_vars => SInv'
<1> SUFFICES ASSUME SInv, [Next]_vars PROVE SInv'
  OBVIOUS
<1> DInv'
  BY NextDInv DEF SInv
<1>1. ASSUME NEW t \in Threads, SetSignal(t) PROVE SInv'
  BY <1>1, SetSignalKeepsCutOff
<1>2. ASSUME NEW t \in Clients, Client(t) PROVE SInv'
  <2> t \in Threads
    BY DEF Threads
  <2> QED
    BY <1>2, GetAvailableContractKeepsCutOff, ResetFlagsKeepsCutOff,
       InstallCallbacksKeepsCutOff, PublishKeepsCutOff,
       HandleScheduleKeepsCutOff, HandleReleaseKeepsCutOff,
       LockTokenKeepsCutOff, TokenReleaseKeepsCutOff, UnlockTokenKeepsCutOff
       DEF Client, Create, FinishRelease
<1>3. ASSUME NEW t \in Workers, Worker(t) PROVE SInv'
  <2> t \in Threads
    BY DEF Threads
  <2> QED
    BY <1>3, SelectKeepsCutOff, BeginContractKeepsCutOff,
       ThisScheduleKeepsCutOff, ThisReleaseKeepsCutOff,
       ClearExecuteFlagKeepsCutOff, EraseContractKeepsCutOff,
       OrphanTokenKeepsCutOff, FreeSlotKeepsCutOff
       DEF Worker, FinishContract
<1>4. ASSUME NEW t \in Stoppers, Stopper(t) PROVE SInv'
  <2> t \in Threads
    BY DEF Threads
  <2> QED
    BY <1>4, StopBeginKeepsCutOff, StopScanKeepsCutOff, StopOrphanKeepsCutOff,
       StopReturnKeepsCutOff
       DEF Stopper
<1>5. CASE UNCHANGED vars
  <2> USE <1>5 DEF vars
  <2>1. RolesInv'
    BY DEF SInv, RolesInv, Creating
  <2>2. OwedInv'
    BY DEF SInv, OwedInv
  <2>3. CutOffInv'
    BY DEF SInv, CutOffInv, ThroughToken
  <2> QED
    BY <2>1, <2>2, <2>3 DEF SInv
<1>. QED
  BY <1>1, <1>2, <1>3, <1>4, <1>5 DEF Next

(* What stop() has seen to, at every step.                                 *)
THEOREM StopInvariant ==
  ASSUME ScheduleAfterReuse = FALSE, CreateDuringStop = FALSE
  PROVE  Spec => []SInv
<1>1. SInv /\ [Next]_vars => SInv'
  BY NextSInv
<1>. QED
  BY <1>1, InitSInv, PTL DEF Spec

(* After stop() has returned and the workers are done, releases through    *)
(* objects, their destructors among them, do not lead into the group, so   *)
(* that objects may be destroyed after it.  (schedule() through an object  *)
(* is another matter: it leads into the group whatever stop() did.)        *)
THEOREM NoReleaseAfterStop ==
  ASSUME ScheduleAfterReuse = FALSE, CreateDuringStop = FALSE
  PROVE  Spec => []StopCutsOffReleases
<1>1. SInv => StopCutsOffReleases
  <2> SUFFICES ASSUME SInv,
                      NEW s \in Stoppers, pc[s] = "stop_returned",
                      \A t \in Workers : pc[t] = "idle"
               PROVE  /\ live = {}
                      /\ \A t \in Clients :
                           /\ pc[t] # "release_or"
                           /\ ~(pc[t] = "release_unlock" /\ owes[t] # None)
    BY DEF StopCutsOffReleases
  <2> TypeOK /\ HandlesInv /\ RolesInv /\ CutOffInv
    BY DEF SInv, DInv, IInv
  <2>1. stopped /\ visit = {} /\ \A u \in Threads : pc[u] \in StopSteps => u = s
    BY DEF RolesInv, StopSteps, Threads
  <2>2. \A u \in Threads : pc[u] \notin {"stop_orphan", "orphan"}
    BY <2>1 DEF RolesInv, StopSteps, Threads
  <2>3. \A h \in Incarnations :
          h \notin live /\ \A t \in Threads : ~ThroughToken(t, h)
    BY <2>1, <2>2 DEF CutOffInv
  <2>4. live = {}
    BY <2>3 DEF TypeOK
  <2>5. ASSUME NEW t \in Clients, pc[t] \in {"release_or", "release_unlock"}
        PROVE  <<cur[t], tok[t]>> \in Incarnations
    BY <2>5 DEF HandlesInv, SlotSteps, HandleSteps, Born, Incarnations, Threads
  <2>. QED
    BY <2>3, <2>4, <2>5 DEF ThroughToken, Threads
<1>. QED
  BY <1>1, StopInvariant, PTL
=============================================================================
