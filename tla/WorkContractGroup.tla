------------------------- MODULE WorkContractGroup -------------------------
(***************************************************************************)
(* The contract protocol of work_contract_group: handles, release tokens,  *)
(* the flag word and the signal of each contract slot, and the threads     *)
(* that create, schedule, execute, release and erase contracts or stop the *)
(* group, one atomic operation (or mutex acquisition) per step.            *)
(*                                                                         *)
(* A slot (work_contract_id) is reused: the g-th contract that lives in    *)
(* slot c is <<c, g>>, which also names its release token and the one      *)
(* work_contract object through which clients reach it.  Which of the set  *)
(* signals a worker selects is left open here.                             *)
(***************************************************************************)
EXTENDS ContractFlags

CONSTANTS
  Contracts,            \* the slots of the group
  Workers,              \* threads that call execute_next_contract()
  Clients,              \* threads that own or share work_contract objects
  Stoppers,             \* threads that call stop() or destroy the group
  MaxGen,               \* bound on the contracts that live in one slot
  ScheduleAfterReuse,   \* do clients schedule() through the object of a
                        \* contract that released itself after its slot was
                        \* given to another contract?
  CreateDuringStop,     \* does create_contract() overlap or follow stop()?
  None

Threads == Workers \cup Clients \cup Stoppers

ASSUME GroupAssumption ==
  /\ None \notin Contracts
  /\ MaxGen \in Nat
  /\ ScheduleAfterReuse \in BOOLEAN
  /\ CreateDuringStop \in BOOLEAN

VARIABLES
  flags,         \* contracts_[c].flags_
  work,          \* whose work_, release_ and exception_ slot c holds (0: null)
  signal,        \* the set leaves of signalTree_
  available,     \* the set leaves of available_
  releaseToken,  \* group's releaseToken_[c]: the g of the token (0: null)
  live,          \* tokens whose workContractGroup_ is not null
  held,          \* work_contract objects whose releaseToken_ is not null
  owner,         \* work_contract objects whose owner_ is not null
  stopped,       \* stopped_
  visit,         \* slots the loop of stop() has still to look at
  gen,           \* how many contracts have been given slot c
  asked,         \* slots whose present contract was scheduled or released
  pc, cur, tok,  \* per thread: next step, slot and incarnation worked on
  owes           \* per thread: set_contract_signal() still to do, or None

vars == <<flags, work, signal, available, releaseToken, live, held, owner,
          stopped, visit, gen, asked, pc, cur, tok, owes>>

slotVars   == <<work, available, releaseToken, gen>>
tokenVars  == <<live, held, owner>>
stopVars   == <<stopped, visit>>
threadVars == <<pc, cur, tok>>

Incarnations == Contracts \X (1 .. MaxGen)

Steps ==
  {"idle", "create_reset", "create_install", "create_publish",
   "release_lock", "release_or", "release_unlock",
   "selected", "work", "release", "orphan", "free",
   "stop_scan", "stop_orphan", "stop_returned", "null_dereference"}

-----------------------------------------------------------------------------
(* Thread t stands before step `at' and has no signal left to raise. *)
At(t, at) == pc[t] = at /\ owes[t] = None

Goto(t, to) == pc' = [pc EXCEPT ![t] = to] /\ UNCHANGED <<cur, tok>>

Enter(t, to, c, g) ==
  /\ pc'  = [pc EXCEPT ![t] = to]
  /\ cur' = [cur EXCEPT ![t] = c]
  /\ tok' = [tok EXCEPT ![t] = g]

Return(t) == Enter(t, "idle", None, 0)

(* Mutant: release_token has no mutex. *)
NoTokenMutex(h) == FALSE

(* The mutex of a release token is held for the whole of its schedule().   *)
TokenLocked(h) ==
  \E t \in Threads :
    /\ pc[t] \in {"release_or", "release_unlock"}
    /\ <<cur[t], tok[t]>> = h

-----------------------------------------------------------------------------
(* group.schedule(c) and group.release(c): one fetch_or, and the thread    *)
(* that found the contract neither scheduled nor executing must now raise  *)
(* the signal.                                                             *)
FetchOr(t, c, newFlags) ==
  /\ flags' = [flags EXCEPT ![c] = newFlags]
  /\ owes'  = [owes EXCEPT ![t] =
                 IF NotScheduledNorExecuting(flags[c]) THEN c ELSE None]

Schedule(t, c) == FetchOr(t, c, With(flags[c], schedule_flag))

(* Mutant: release() sets its own flag and leaves schedule_flag alone. *)
ReleaseUnscheduled(t, c) == FetchOr(t, c, With(flags[c], release_flag))

Release(t, c) ==
  FetchOr(t, c, With(With(flags[c], schedule_flag), release_flag))

(* set_contract_signal(): the fetch_or on the leaf of the signal tree. *)
SetSignal(t) ==
  /\ owes[t] # None
  /\ signal' = signal \cup {owes[t]}
  /\ owes'   = [owes EXCEPT ![t] = None]
  /\ UNCHANGED <<flags, asked, slotVars, tokenVars, stopVars, threadVars>>

-----------------------------------------------------------------------------
(* create_contract(): take a free slot ... *)
GetAvailableContract(t, c) ==
  /\ At(t, "idle")
  /\ c \in available
  /\ gen[c] < MaxGen
  /\ stopped => CreateDuringStop
  /\ available' = available \ {c}
  /\ gen'       = [gen EXCEPT ![c] = @ + 1]
  /\ asked'     = asked \ {c}
  /\ Enter(t, "create_reset", c, gen[c] + 1)
  /\ UNCHANGED <<flags, work, signal, releaseToken, owes, tokenVars, stopVars>>

(* ... store 0 in its flag word ... *)
ResetFlags(t) ==
  /\ At(t, "create_reset")
  /\ flags' = [flags EXCEPT ![cur[t]] = 0]
  /\ Goto(t, "create_install")
  /\ UNCHANGED <<signal, asked, owes, slotVars, tokenVars, stopVars>>

(* ... assign the work, release and exception callbacks ... *)
InstallCallbacks(t) ==
  /\ At(t, "create_install")
  /\ work' = [work EXCEPT ![cur[t]] = tok[t]]
  /\ Goto(t, "create_publish")
  /\ UNCHANGED <<flags, signal, available, releaseToken, gen, asked, owes,
                 tokenVars, stopVars>>

(* ... and make the token and the work_contract object, whose constructor  *)
(* calls schedule() when the caller asked for initial_state::scheduled.    *)
(* In one step: until the object is there the slot's other users are       *)
(* stop() alone, which CreateDuringStop = FALSE keeps away.                *)
Publish(t, scheduled) ==
  LET h == <<cur[t], tok[t]>> IN
  /\ At(t, "create_publish")
  /\ releaseToken' = [releaseToken EXCEPT ![cur[t]] = tok[t]]
  /\ live'  = live \cup {h}
  /\ held'  = held \cup {h}
  /\ owner' = owner \cup {h}
  /\ \/ /\ scheduled
        /\ Schedule(t, cur[t])
        /\ asked' = asked \cup {cur[t]}
     \/ /\ ~scheduled
        /\ UNCHANGED <<flags, owes, asked>>
  /\ Return(t)
  /\ UNCHANGED <<work, signal, available, gen, stopVars>>

-----------------------------------------------------------------------------
(* A request through object h is one of the slot's present contract only   *)
(* if that contract is h's own.                                            *)
AskedThrough(h) == IF h[2] = gen[h[1]] THEN asked \cup {h[1]} ELSE asked

(* work_contract::schedule(): no token, no validity check, just owner_ and *)
(* id_.                                                                    *)
HandleSchedule(t, h) ==
  /\ At(t, "idle")
  /\ h \in owner
  /\ h[2] = gen[h[1]] \/ ScheduleAfterReuse
  /\ Schedule(t, h[1])
  /\ asked' = AskedThrough(h)
  /\ UNCHANGED <<signal, slotVars, tokenVars, stopVars, threadVars>>

(* work_contract::release(), also run by the destructor and by a move      *)
(* assignment to the object.  First the object's token is exchanged away:  *)
(* of several callers one goes on, the others return false at once.        *)
HandleRelease(t, h) ==
  /\ At(t, "idle")
  /\ h \in held
  /\ held' = held \ {h}
  /\ Enter(t, "release_lock", h[1], h[2])
  /\ UNCHANGED <<flags, signal, live, owner, asked, owes, slotVars, stopVars>>

(* release_token::schedule(): under the token's mutex, take the group      *)
(* pointer; if the token was orphaned nothing more is done.                *)
LockToken(t) ==
  LET h == <<cur[t], tok[t]>> IN
  /\ At(t, "release_lock")
  /\ ~TokenLocked(h)
  /\ live' = live \ {h}
  /\ Goto(t, IF h \in live THEN "release_or" ELSE "release_unlock")
  /\ UNCHANGED <<flags, signal, held, owner, asked, owes, slotVars, stopVars>>

TokenRelease(t) ==
  /\ At(t, "release_or")
  /\ Release(t, cur[t])
  /\ asked' = AskedThrough(<<cur[t], tok[t]>>)
  /\ Goto(t, "release_unlock")
  /\ UNCHANGED <<signal, slotVars, tokenVars, stopVars>>

(* Unlock the mutex; back in work_contract::release(), owner_ = {}.        *)
UnlockToken(t) ==
  /\ At(t, "release_unlock")
  /\ owner' = owner \ {<<cur[t], tok[t]>>}
  /\ Return(t)
  /\ UNCHANGED <<flags, signal, live, held, asked, owes, slotVars, stopVars>>

(* work_contract::is_valid(): reads only. *)
IsValid(h) == h \in held /\ h \in live

-----------------------------------------------------------------------------
(* execute_next_contract(): select a set signal, which clears it ... *)
Select(t, c) ==
  /\ At(t, "idle")
  /\ c \in signal
  /\ signal' = signal \ {c}
  /\ Enter(t, "selected", c, 0)
  /\ UNCHANGED <<flags, asked, owes, slotVars, tokenVars, stopVars>>

(* ... process_contract(): ++flags_, and look at the release flag.         *)
BeginContract(t) ==
  LET c == cur[t] IN
  /\ At(t, "selected")
  /\ flags' = [flags EXCEPT ![c] = @ + 1]
  /\ Goto(t, IF Has(flags'[c], release_flag) THEN "release" ELSE "work")
  /\ UNCHANGED <<signal, asked, owes, slotVars, tokenVars, stopVars>>

(* The work callback, or the exception callback after it threw, calls      *)
(* this_contract::schedule() or this_contract::release().                  *)
ThisSchedule(t) ==
  /\ At(t, "work")
  /\ Schedule(t, cur[t])
  /\ asked' = asked \cup {cur[t]}
  /\ UNCHANGED <<signal, slotVars, tokenVars, stopVars, threadVars>>

(* Mutant: this_contract::release() invalidates the object at once. *)
ThisReleaseAndOrphan(t) ==
  /\ At(t, "work")
  /\ Release(t, cur[t])
  /\ asked' = asked \cup {cur[t]}
  /\ live'  = live \ {<<cur[t], releaseToken[cur[t]]>>}
  /\ UNCHANGED <<signal, held, owner, slotVars, stopVars, threadVars>>

ThisRelease(t) ==
  /\ At(t, "work")
  /\ Release(t, cur[t])
  /\ asked' = asked \cup {cur[t]}
  /\ UNCHANGED <<signal, slotVars, tokenVars, stopVars, threadVars>>

(* Mutant: a schedule during the run does not raise the signal afterwards. *)
ClearAndForgetSchedule(t) ==
  /\ At(t, "work")
  /\ flags' = [flags EXCEPT ![cur[t]] = @ - execute_flag]
  /\ Return(t)
  /\ UNCHANGED <<signal, asked, owes, slotVars, tokenVars, stopVars>>

(* However the callbacks end (ThisContract has the ways by exceptions),    *)
(* the destructor of auto_clear_execute_flag takes the execute flag out of *)
(* the word, and raises the signal if the contract was scheduled meanwhile.*)
ClearExecuteFlag(t) ==
  LET c == cur[t] IN
  /\ At(t, "work")
  /\ flags' = [flags EXCEPT ![c] = @ - execute_flag]
  /\ owes'  = [owes EXCEPT ![t] =
                 IF Has(flags'[c], schedule_flag) THEN c ELSE None]
  /\ Return(t)
  /\ UNCHANGED <<signal, asked, slotVars, tokenVars, stopVars>>

(* Mutant: the slot is offered again before its token is orphaned. *)
EraseAndFree(t) ==
  LET c == cur[t] IN
  /\ At(t, "release")
  /\ work' = [work EXCEPT ![c] = 0]
  /\ releaseToken' = [releaseToken EXCEPT ![c] = 0]
  /\ available' = available \cup {c}
  /\ Enter(t, "orphan", c, releaseToken[c])
  /\ UNCHANGED <<flags, signal, gen, asked, owes, tokenVars, stopVars>>

(* However the release callback ends (ThisContract has the ways by         *)
(* exceptions), auto_erase_contract erases the contract: drop the          *)
(* callbacks and take the token out of the slot ...                        *)
EraseContract(t) ==
  LET c == cur[t] IN
  /\ At(t, "release")
  /\ work' = [work EXCEPT ![c] = 0]
  /\ releaseToken' = [releaseToken EXCEPT ![c] = 0]
  /\ Enter(t, "orphan", c, releaseToken[c])
  /\ UNCHANGED <<flags, signal, available, gen, asked, owes, tokenVars, stopVars>>

(* Mutant: the token is dropped with its group pointer still in it. *)
DropToken(t) ==
  /\ At(t, "orphan")
  /\ Goto(t, "free")
  /\ UNCHANGED <<flags, signal, asked, owes, slotVars, tokenVars, stopVars>>

(* ... null the token's group pointer under its mutex ... *)
OrphanToken(t) ==
  LET h == <<cur[t], tok[t]>> IN
  /\ At(t, "orphan")
  /\ ~TokenLocked(h)
  /\ live' = live \ {h}
  /\ Goto(t, "free")
  /\ UNCHANGED <<flags, signal, held, owner, asked, owes, slotVars, stopVars>>

(* Mutant: the flag word is reset when the slot is freed, not when it is   *)
(* next handed out.                                                        *)
FreeSlotWithFlagsReset(t) ==
  /\ At(t, "free")
  /\ flags' = [flags EXCEPT ![cur[t]] = 0]
  /\ available' = available \cup {cur[t]}
  /\ Return(t)
  /\ UNCHANGED <<work, signal, releaseToken, gen, asked, owes, tokenVars, stopVars>>

(* ... and only then offer the slot to create_contract() again.            *)
FreeSlot(t) ==
  /\ At(t, "free")
  /\ available' = available \cup {cur[t]}
  /\ Return(t)
  /\ UNCHANGED <<flags, work, signal, releaseToken, gen, asked, owes,
                 tokenVars, stopVars>>

-----------------------------------------------------------------------------
Creating(t) == pc[t] \in {"create_reset", "create_install", "create_publish"}

(* stop(): only the caller that sets stopped_ walks over the slots. *)
StopBegin(t) ==
  /\ At(t, "idle")
  /\ ~stopped
  /\ CreateDuringStop \/ \A u \in Threads : ~Creating(u)
  /\ stopped' = TRUE
  /\ visit'   = Contracts
  /\ Goto(t, "stop_scan")
  /\ UNCHANGED <<flags, signal, asked, owes, slotVars, tokenVars>>

(* Is there a token in this slot?  The pointer is read without a lock ...  *)
StopScan(t, c) ==
  /\ At(t, "stop_scan")
  /\ c \in visit
  /\ visit' = visit \ {c}
  /\ IF releaseToken[c] = 0 THEN UNCHANGED threadVars
                            ELSE Enter(t, "stop_orphan", c, 0)
  /\ UNCHANGED <<flags, signal, stopped, asked, owes, slotVars, tokenVars>>

(* ... and read again to call orphan().  If a worker erased the contract   *)
(* in between, the call is through a null pointer.  (That orphan() has the *)
(* mutex in the same step leaves out a token which the worker takes and    *)
(* destroys between the second read and the mutex: the same race, with     *)
(* freed memory for null.)                                                 *)
StopOrphan(t) ==
  LET c == cur[t]
      h == <<c, releaseToken[c]>>
  IN
  /\ At(t, "stop_orphan")
  /\ IF releaseToken[c] = 0
     THEN Goto(t, "null_dereference") /\ UNCHANGED live
     ELSE ~TokenLocked(h) /\ live' = live \ {h} /\ Enter(t, "stop_scan", None, 0)
  /\ UNCHANGED <<flags, signal, held, owner, asked, owes, slotVars, stopVars>>

StopReturn(t) ==
  /\ At(t, "stop_scan")
  /\ visit = {}
  /\ Goto(t, "stop_returned")
  /\ UNCHANGED <<flags, signal, asked, owes, slotVars, tokenVars, stopVars>>

-----------------------------------------------------------------------------
Init ==
  /\ flags        = [c \in Contracts |-> 0]
  /\ work         = [c \in Contracts |-> 0]
  /\ signal       = {}
  /\ available    = Contracts
  /\ releaseToken = [c \in Contracts |-> 0]
  /\ live = {} /\ held = {} /\ owner = {}
  /\ stopped = FALSE
  /\ visit   = {}
  /\ gen     = [c \in Contracts |-> 0]
  /\ asked   = {}
  /\ pc   = [t \in Threads |-> "idle"]
  /\ cur  = [t \in Threads |-> None]
  /\ tok  = [t \in Threads |-> 0]
  /\ owes = [t \in Threads |-> None]

Create(t) ==
  \/ \E c \in Contracts : GetAvailableContract(t, c)
  \/ ResetFlags(t)
  \/ InstallCallbacks(t)
  \/ \E scheduled \in BOOLEAN : Publish(t, scheduled)

FinishRelease(t) == LockToken(t) \/ TokenRelease(t) \/ UnlockToken(t)

Client(t) ==
  \/ Create(t)
  \/ \E h \in Incarnations : HandleSchedule(t, h) \/ HandleRelease(t, h)
  \/ FinishRelease(t)

FinishContract(t) ==
  \/ BeginContract(t)
  \/ ClearExecuteFlag(t)
  \/ EraseContract(t) \/ OrphanToken(t) \/ FreeSlot(t)

Worker(t) ==
  \/ \E c \in Contracts : Select(t, c)
  \/ FinishContract(t)
  \/ ThisSchedule(t) \/ ThisRelease(t)

Stopper(t) ==
  \/ StopBegin(t)
  \/ \E c \in Contracts : StopScan(t, c)
  \/ StopOrphan(t) \/ StopReturn(t)

Next ==
  \/ \E t \in Threads : SetSignal(t)
  \/ \E t \in Clients : Client(t)
  \/ \E t \in Workers : Worker(t)
  \/ \E t \in Stoppers : Stopper(t)

Spec == Init /\ [][Next]_vars

(* Threads are scheduled, callbacks return, and workers keep calling       *)
(* execute_next_contract(); its rotating bias does not pass over the same  *)
(* signal for ever, which is the strong fairness of the selection.         *)
Fairness ==
  /\ \A t \in Threads : WF_vars(SetSignal(t))
  /\ \A t \in Clients : WF_vars(FinishRelease(t))
  /\ \A t \in Workers : WF_vars(FinishContract(t))
  /\ \A c \in Contracts : SF_vars(\E t \in Workers : Select(t, c))

FairSpec == Spec /\ Fairness

-----------------------------------------------------------------------------
(* Thread t is inside the work or the release callback of slot c, or in    *)
(* the erasure that follows the latter.                                    *)
Running(t, c) ==
  cur[t] = c /\ pc[t] \in {"work", "release", "orphan", "free"}

(* Thread t has yet to raise the signal of c, or has taken it down and has *)
(* yet to begin the visit.                                                 *)
HasTicket(t, c) == owes[t] = c \/ (pc[t] = "selected" /\ cur[t] = c)

(* Slot c has been handed out and not initialised, or has not been handed out. *)
Unborn(c) ==
  \/ c \in available
  \/ \E t \in Threads : pc[t] = "create_reset" /\ cur[t] = c

(* Variables keep their types.  The one conjunct with content is that the  *)
(* flag word never leaves its three bits: ++flags_ never carries out of    *)
(* execute_flag and -= execute_flag never borrows.                         *)
TypeOK ==
  /\ flags \in [Contracts -> FlagWord]
  /\ work \in [Contracts -> 0 .. MaxGen]
  /\ signal \subseteq Contracts
  /\ available \subseteq Contracts
  /\ releaseToken \in [Contracts -> 0 .. MaxGen]
  /\ live \subseteq Incarnations
  /\ held \subseteq Incarnations
  /\ owner \subseteq Incarnations
  /\ stopped \in BOOLEAN
  /\ visit \subseteq Contracts
  /\ gen \in [Contracts -> 0 .. MaxGen]
  /\ asked \subseteq Contracts
  /\ pc \in [Threads -> Steps]
  /\ cur \in [Threads -> Contracts \cup {None}]
  /\ tok \in [Threads -> 0 .. MaxGen]
  /\ owes \in [Threads -> Contracts \cup {None}]

(* A contract is never executed, released or erased by two threads at once *)
(* although it can be scheduled, by anybody, while it is executing.        *)
MutualExclusion ==
  \A c \in Contracts : \A t, u \in Threads :
    Running(t, c) /\ Running(u, c) => t = u

(* A contract that is scheduled and not executing has exactly one ticket   *)
(* to a visit: its leaf in the signal tree, or one thread about to set the *)
(* leaf or about to begin the visit.  None would be a lost schedule, two a *)
(* double execution; and nothing else ever has a ticket.                   *)
OneTicketPerSchedule ==
  \A c \in Contracts :
    LET holders == {t \in Threads : HasTicket(t, c)} IN
    IF Pending(flags[c])
    THEN IF c \in signal THEN holders = {}
                         ELSE \E t \in Threads : holders = {t}
    ELSE c \notin signal /\ holders = {}

(* A slot offered to create_contract(), or just taken and with the flag    *)
(* word of its previous contract, is out of reach of the workers.          *)
FreeSlotIsQuiet ==
  \A c \in Contracts : Unborn(c) =>
    /\ c \notin signal
    /\ \A t \in Threads : ~HasTicket(t, c) /\ ~Running(t, c)

(* What a worker invokes are the callbacks of the contract that lives in   *)
(* the slot, neither null nor those of a contract that was erased.         *)
InvokesOwnCallbacks ==
  \A t \in Threads :
    pc[t] \in {"work", "release"} => work[cur[t]] = gen[cur[t]]

(* A token that still leads to the group, or that work_contract::release() *)
(* is just going through, is the token of the contract that now lives in   *)
(* the slot: a stale object cannot release the slot's next contract.       *)
TokenNamesLiveContract ==
  \A h \in Incarnations :
    h \in live \/ (\E t \in Threads :
                     pc[t] = "release_or" /\ <<cur[t], tok[t]>> = h)
    => gen[h[1]] = h[2] /\ ~Unborn(h[1])

(* An object that was not released is invalid only if the group was        *)
(* stopped or its contract has been erased; while the contract lives on,   *)
(* even if it has released itself, its object stays valid.                 *)
InvalidOnlyAfterErase ==
  \A h \in held \ live :
    \/ stopped
    \/ gen[h[1]] # h[2]
    \/ h[1] \in available
    \/ \E t \in Workers : pc[t] = "free" /\ cur[t] = h[1]

(* A contract is visited only if somebody scheduled or released that very  *)
(* contract, not one that lived in the slot before it.  (What was asked is *)
(* not forgotten after a visit; that each schedule makes one visit is the  *)
(* matter of OneTicketPerSchedule.)                                        *)
VisitsOnlyWhenAsked ==
  \A c \in Contracts : Pending(flags[c]) => c \in asked

(* "calling schedule on a released contract is idempotent": an object      *)
(* whose contract released itself may go on calling schedule().  The same  *)
(* formula as VisitsOnlyWhenAsked, for clients that take this at its word. *)
ScheduleAfterReleaseIsIdempotent == VisitsOnlyWhenAsked

-----------------------------------------------------------------------------
(* Once stop() has returned and the workers are done, work_contract's      *)
(* release(), its destructor and its move assignment do not lead into the  *)
(* group: no token holds its address, and no release() is under way inside *)
(* it.  Of schedule() this says nothing: it goes by owner_, which stop()   *)
(* leaves as it is, and may still enter the group, or be in it.            *)
StopCutsOffReleases ==
  (\E s \in Stoppers : pc[s] = "stop_returned")
  /\ (\A t \in Workers : pc[t] = "idle" /\ owes[t] = None)
  => /\ live = {}
     /\ \A t \in Clients :
          pc[t] # "release_or" /\ ~(pc[t] = "release_unlock" /\ owes[t] # None)

(* Workers "might call execute_next_contract()" while the group is being   *)
(* stopped; stop() then never calls through a token pointer that a worker  *)
(* has taken out of the slot.                                              *)
StopToleratesWorkers == \A s \in Stoppers : pc[s] # "null_dereference"

-----------------------------------------------------------------------------
(* The abstract life of a slot.  create_contract() is the reset of the     *)
(* flag word, the rest is where the slot's flags and its thread are.       *)
Inside(steps, c) == \E t \in Threads : pc[t] \in steps /\ cur[t] = c

PhaseOf(c) ==
  IF Unborn(c) THEN "free"
  ELSE IF Inside({"release", "orphan", "free"}, c) THEN "releasing"
  ELSE IF Inside({"work"}, c) THEN "running"
  ELSE IF Has(flags[c], schedule_flag) THEN "queued"
  ELSE "idle"

phaseBar == [c \in Contracts |-> PhaseOf(c)]

againBar == [c \in Contracts |->
               PhaseOf(c) = "running" /\ Has(flags[c], schedule_flag)]

dyingBar == [c \in Contracts |->
               /\ PhaseOf(c) \in {"idle", "queued", "running"}
               /\ Has(flags[c], release_flag)]

Lifecycle == INSTANCE ContractLifecycle WITH
  phase <- phaseBar, again <- againBar, dying <- dyingBar

(* The flag protocol implements the atomic life of a slot: schedules are   *)
(* merged and not lost, runs do not overlap, a release runs once and is    *)
(* the last visit.                                                         *)
ImplementsLifecycle == Lifecycle!Spec

(* ... and no scheduled contract waits for ever, and no visit stays open.  *)
ImplementsFairLifecycle == Lifecycle!FairSpec

(* A contract whose release was requested through a valid object gives its *)
(* slot back, however release and work callbacks interleave.               *)
ReleaseFreesSlot ==
  \A c \in Contracts : \A g \in 1 .. MaxGen :
    (\E t \in Threads : pc[t] = "release_or" /\ cur[t] = c /\ tok[t] = g)
      ~> (c \in available \/ gen[c] > g)
=============================================================================
