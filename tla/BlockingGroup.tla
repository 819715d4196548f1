--------------------------- MODULE BlockingGroup ---------------------------
(***************************************************************************)
(* The blocking mode of work_contract_group: signal trees whose threads    *)
(* keep count of the trees that are not empty, a condition variable on     *)
(* which workers wait for that count to leave zero, and stop().            *)
(*                                                                         *)
(* What a visit does to its contract is WorkContractGroup.tla's subject;   *)
(* here any thread may raise any signal at any time, also a worker during  *)
(* a visit.  A tree has 64 leaves in one word, so set() and the successful *)
(* fetch_and of select() are one atomic step each.                         *)
(***************************************************************************)
EXTENDS Integers, FiniteSets

CONSTANTS
  Trees,       \* the sub-trees of the group
  Contracts,
  TreeOf,      \* the sub-tree that holds a contract's signal
  Schedulers,  \* threads that only schedule or release contracts
  Workers,     \* threads that call execute_next_contract()
  Timed,       \* those of them that pass a timeout
  Stoppers     \* threads that call stop()

Threads == Schedulers \cup Workers \cup Stoppers

ASSUME BlockingAssumption ==
  /\ TreeOf \in [Contracts -> Trees]
  /\ Timed \subseteq Workers
  /\ IsFiniteSet(Trees)
  /\ IsFiniteSet(Threads)

VARIABLES
  signal,          \* the set leaves of all trees
  nonZeroCounter,  \* nonZeroCounter_
  stopped,         \* stopped_
  raise,           \* what set_contract_signal() has left to do, per thread
  pc,              \* next step of a worker or stopper
  wait,            \* which wait a worker is in: wait, wait_for, or wait_for
                   \* with its time used up
  todo             \* the trees a worker's call has not looked into yet

vars == <<signal, nonZeroCounter, stopped, raise, pc, wait, todo>>

treeVars   == <<signal, nonZeroCounter, raise>>
workerVars == <<pc, wait, todo>>

Raises == {"done", "increment", "notify"}
Waits  == {"wait", "wait_for", "expired"}
Steps  == {"idle", "check", "lock", "pred_counter", "pred_stopped", "asleep",
           "satisfied", "timed_out", "scan", "decrement", "process",
           "stop_notify"}

-----------------------------------------------------------------------------
Tree(tr) == {c \in signal : TreeOf[c] = tr}

(* A thread runs the caller of set_contract_signal() once that has returned. *)
At(t, at) == pc[t] = at /\ raise[t] = "done"

Goto(t, to) == pc' = [pc EXCEPT ![t] = to] /\ UNCHANGED <<wait, todo>>

(* Mutant: notify_all() does not take the mutex of the waiters. *)
NoMutex == TRUE

(* The mutex of waitableState_ is held while a wait evaluates its predicate *)
(* and until it returns; a sleeping thread has given it up.                 *)
MutexFree ==
  \A t \in Workers :
    pc[t] \notin {"pred_counter", "pred_stopped", "satisfied", "timed_out"}

-----------------------------------------------------------------------------
(* Mutant: set() does not tell its caller that the tree was empty. *)
SetSignalUncounted(t, c) ==
  /\ raise[t] = "done"
  /\ t \in Schedulers \/ pc[t] = "process"
  /\ signal' = signal \cup {c}
  /\ UNCHANGED <<nonZeroCounter, raise, stopped, workerVars>>

(* set_contract_signal(): fetch_or on the tree's word.  Who found the word *)
(* zero has to count the tree ...                                          *)
SetSignal(t, c) ==
  /\ raise[t] = "done"
  /\ t \in Schedulers \/ pc[t] = "process"
  /\ raise'  = [raise EXCEPT ![t] = IF Tree(TreeOf[c]) = {} THEN "increment"
                                                            ELSE "done"]
  /\ signal' = signal \cup {c}
  /\ UNCHANGED <<nonZeroCounter, stopped, workerVars>>

(* ... nonZeroCounter_++, and who raised it from zero has to notify ...    *)
IncrementNonZeroCounter(t) ==
  /\ raise[t] = "increment"
  /\ nonZeroCounter' = nonZeroCounter + 1
  /\ raise' = [raise EXCEPT ![t] = IF nonZeroCounter = 0 THEN "notify" ELSE "done"]
  /\ UNCHANGED <<signal, stopped, workerVars>>

WakeAll == [t \in Threads |-> IF pc[t] = "asleep" THEN "lock" ELSE pc[t]]

(* ... all sleepers, under the mutex.                                      *)
NotifyAll(t) ==
  /\ raise[t] = "notify"
  /\ MutexFree
  /\ pc'    = WakeAll
  /\ raise' = [raise EXCEPT ![t] = "done"]
  /\ UNCHANGED <<signal, nonZeroCounter, stopped, wait, todo>>

-----------------------------------------------------------------------------
(* execute_next_contract(), with and without a timeout.                    *)
Call(t) ==
  /\ At(t, "idle")
  /\ pc'   = [pc EXCEPT ![t] = "check"]
  /\ wait' = [wait EXCEPT ![t] = IF t \in Timed THEN "wait_for" ELSE "wait"]
  /\ UNCHANGED <<treeVars, stopped, todo>>

(* The wait let the call through.  After wait_for comes the overload       *)
(* without a timeout, which begins with a wait() of its own.               *)
Proceed(t) ==
  IF wait[t] = "wait"
  THEN /\ pc'   = [pc EXCEPT ![t] = "scan"]
       /\ todo' = [todo EXCEPT ![t] = Trees]
       /\ UNCHANGED wait
  ELSE /\ pc'   = [pc EXCEPT ![t] = "check"]
       /\ wait' = [wait EXCEPT ![t] = "wait"]
       /\ UNCHANGED todo

(* The first look at the counter, without the mutex. *)
Check(t) ==
  /\ At(t, "check")
  /\ IF nonZeroCounter = 0 THEN Goto(t, "lock") ELSE Proceed(t)
  /\ UNCHANGED <<treeVars, stopped>>

Lock(t) ==
  /\ At(t, "lock")
  /\ MutexFree
  /\ Goto(t, "pred_counter")
  /\ UNCHANGED <<treeVars, stopped>>

(* The predicate: (nonZeroCounter_ != 0) || stopped_, two reads.           *)
PredCounter(t) ==
  /\ At(t, "pred_counter")
  /\ Goto(t, IF nonZeroCounter # 0 THEN "satisfied" ELSE "pred_stopped")
  /\ UNCHANGED <<treeVars, stopped>>

(* Mutant: the predicate is about the counter only. *)
PredIgnoringStop(t) ==
  /\ At(t, "pred_stopped")
  /\ Goto(t, IF wait[t] = "expired" THEN "timed_out" ELSE "asleep")
  /\ UNCHANGED <<treeVars, stopped>>

(* When it is false, give up the mutex and sleep, unless time is used up.  *)
PredStopped(t) ==
  /\ At(t, "pred_stopped")
  /\ Goto(t, IF stopped THEN "satisfied"
             ELSE IF wait[t] = "expired" THEN "timed_out" ELSE "asleep")
  /\ UNCHANGED <<treeVars, stopped>>

Timeout(t) ==
  /\ At(t, "asleep")
  /\ wait[t] = "wait_for"
  /\ pc'   = [pc EXCEPT ![t] = "lock"]
  /\ wait' = [wait EXCEPT ![t] = "expired"]
  /\ UNCHANGED <<treeVars, stopped, todo>>

(* A condition variable may wake a thread for no reason. *)
SpuriousWakeup(t) ==
  /\ At(t, "asleep")
  /\ Goto(t, "lock")
  /\ UNCHANGED <<treeVars, stopped>>

(* wait() and wait_for() look at stopped_ once more before they return and *)
(* unlock; on false execute_next_contract() returns ~0.                    *)
WaitReturns(t) ==
  /\ \/ /\ At(t, "satisfied")
        /\ IF stopped THEN Goto(t, "idle") ELSE Proceed(t)
     \/ /\ At(t, "timed_out")
        /\ Goto(t, "idle")
  /\ UNCHANGED <<treeVars, stopped>>

-----------------------------------------------------------------------------
(* The loop over the trees, from whichever the bias points at: a tree that *)
(* is read as zero is passed over, and after the last one the call returns *)
(* ~0 ...                                                                  *)
PassOver(t, tr) ==
  /\ At(t, "scan")
  /\ tr \in todo[t]
  /\ Tree(tr) = {}
  /\ todo' = [todo EXCEPT ![t] = @ \ {tr}]
  /\ pc'   = [pc EXCEPT ![t] = IF todo[t] = {tr} THEN "idle" ELSE "scan"]
  /\ UNCHANGED <<treeVars, stopped, wait>>

(* ... or one fetch_and takes a signal, and who emptied a tree ...         *)
Select(t, c) ==
  /\ At(t, "scan")
  /\ c \in signal
  /\ TreeOf[c] \in todo[t]
  /\ signal' = signal \ {c}
  /\ Goto(t, IF Tree(TreeOf[c]) = {c} THEN "decrement" ELSE "process")
  /\ UNCHANGED <<nonZeroCounter, raise, stopped>>

(* Mutant: the emptied tree stays counted. *)
NoDecrement(t) ==
  /\ At(t, "decrement")
  /\ Goto(t, "process")
  /\ UNCHANGED <<treeVars, stopped>>

(* ... takes it off the count, before the visit.                           *)
DecrementNonZeroCounter(t) ==
  /\ At(t, "decrement")
  /\ nonZeroCounter' = nonZeroCounter - 1
  /\ Goto(t, "process")
  /\ UNCHANGED <<signal, raise, stopped>>

(* process_contract() returns, in time. *)
EndVisit(t) ==
  /\ At(t, "process")
  /\ Goto(t, "idle")
  /\ UNCHANGED <<treeVars, stopped>>

-----------------------------------------------------------------------------
(* stop() sets stopped_ without the mutex of the waiters (orphaning the    *)
(* tokens, which is next, touches nothing here) ...                        *)
Stop(t) ==
  /\ At(t, "idle")
  /\ ~stopped
  /\ stopped' = TRUE
  /\ Goto(t, "stop_notify")
  /\ UNCHANGED treeVars

(* ... and then wakes all waiting workers, with it. *)
StopNotifies(t) ==
  /\ At(t, "stop_notify")
  /\ MutexFree
  /\ pc' = [WakeAll EXCEPT ![t] = "idle"]
  /\ UNCHANGED <<treeVars, stopped, wait, todo>>

-----------------------------------------------------------------------------
Init ==
  /\ signal = {}
  /\ nonZeroCounter = 0
  /\ stopped = FALSE
  /\ raise = [t \in Threads |-> "done"]
  /\ pc    = [t \in Threads |-> "idle"]
  /\ wait  = [t \in Threads |-> "wait"]
  /\ todo  = [t \in Threads |-> {}]

FinishSetSignal(t) == IncrementNonZeroCounter(t) \/ NotifyAll(t)

Wait(t) ==
  \/ Check(t) \/ Lock(t)
  \/ PredCounter(t) \/ PredStopped(t)
  \/ Timeout(t) \/ WaitReturns(t)

Visit(t) ==
  \/ \E tr \in Trees : PassOver(t, tr)
  \/ \E c \in Contracts : Select(t, c)
  \/ DecrementNonZeroCounter(t)
  \/ EndVisit(t)

Next ==
  \/ \E t \in Schedulers \cup Workers :
       (\E c \in Contracts : SetSignal(t, c)) \/ FinishSetSignal(t)
  \/ \E t \in Workers :
       \/ Call(t)
       \/ Wait(t) \/ SpuriousWakeup(t)
       \/ Visit(t)
  \/ \E t \in Stoppers : Stop(t) \/ StopNotifies(t)

Spec == Init /\ [][Next]_vars

(* Threads run, visits end, timeouts expire, the mutex is granted in the   *)
(* end to each thread that keeps asking for it, and the bias of the trees' *)
(* select() does not pass over the same signal for ever.  Nobody has to    *)
(* schedule, to stop the group or to wake up for no reason.                *)
Fairness ==
  /\ \A t \in Schedulers \cup Workers : SF_vars(FinishSetSignal(t))
  /\ \A t \in Workers : SF_vars(Wait(t) \/ Visit(t))
  /\ \A c \in Contracts : SF_vars(\E t \in Workers : Select(t, c))
  /\ \A t \in Stoppers : SF_vars(StopNotifies(t))

FairSpec == Spec /\ Fairness

(* ... and workers that call again whenever a call has returned.           *)
KeepCalling ==
  \A t \in Workers : WF_vars(Call(t))

LoopSpec == FairSpec /\ KeepCalling

-----------------------------------------------------------------------------
(* Variables keep their types; the counter stays within the number of the  *)
(* trees and of the threads that have one correction under way each.       *)
TypeOK ==
  /\ signal \subseteq Contracts
  /\ nonZeroCounter \in
       -Cardinality(Threads) .. Cardinality(Trees) + Cardinality(Workers)
  /\ stopped \in BOOLEAN
  /\ raise \in [Threads -> Raises]
  /\ pc    \in [Threads -> Steps]
  /\ wait  \in [Threads -> Waits]
  /\ todo  \in [Threads -> SUBSET Trees]

NonEmptyTrees == {tr \in Trees : Tree(tr) # {}}
Incrementing  == {t \in Threads : raise[t] = "increment"}
Decrementing  == {t \in Threads : pc[t] = "decrement"}

(* nonZeroCounter_ counts the trees that are not empty, up to the threads  *)
(* that changed a tree and are about to correct the count.  It may be      *)
(* negative or too large for a while; it never drifts.                     *)
CounterAccountsForTrees ==
  nonZeroCounter + Cardinality(Incrementing)
    = Cardinality(NonEmptyTrees) + Cardinality(Decrementing)

(* No wakeup is lost: while a worker sleeps and some signal is set, some   *)
(* thread is still on its way through set_contract_signal().               *)
NoLostWakeup ==
  (\E t \in Workers : pc[t] = "asleep") /\ signal # {}
    => \E t \in Threads : raise[t] \in {"increment", "notify"}

(* Nor is the wakeup of stop(): nobody falls asleep behind its back.       *)
NoSleepAfterStop ==
  (\E t \in Workers : pc[t] = "asleep") /\ stopped
    => \E s \in Stoppers : pc[s] = "stop_notify"

(* "Call group.stop() to wake all blocked worker threads allowing them to  *)
(* exit their, otherwise, infinite wait": a call that is under way when    *)
(* the group is stopped returns.                                           *)
CallsReturnAfterStop ==
  \A t \in Workers : stopped /\ pc[t] # "idle" ~> pc[t] = "idle"

(* A scheduled contract is selected in the end by workers that keep        *)
(* calling, however they slept, timed out or found the count off; unless   *)
(* the group is stopped first.                                             *)
SignalsAreServed ==
  \A c \in Contracts : c \in signal ~> c \notin signal \/ stopped

(* "Use a timeout when waiting in execute_next_contract() to periodically  *)
(* check for stop signals": a call with a timeout returns, even if nobody  *)
(* schedules anything any more.                                            *)
TimedCallReturns ==
  \A t \in Workers : wait[t] = "wait_for" /\ pc[t] # "idle" ~> pc[t] = "idle"
=============================================================================
