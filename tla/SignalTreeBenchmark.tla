------------------------ MODULE SignalTreeBenchmark ------------------------
(***************************************************************************)
(* The benchmark of the signal tree, which is also its stress test: every  *)
(* thread sets the signals of its own range and then selects as often as   *)
(* it has set, whatever signals those are.  The benchmark prints an error  *)
(* when a select() returns invalid_signal_index and when the totals of all *)
(* threads differ.                                                         *)
(***************************************************************************)
EXTENDS Integers, FiniteSetsExt

CONSTANTS
  Capacity,      \* of the tree
  num_threads,
  opsPerThread   \* capacity / num_threads in the benchmark; less here

threads     == 0 .. num_threads - 1
Setter(j)   == <<"set", j>>     \* a thread while it sets, and while it selects
Selector(j) == <<"select", j>>

(* The range of a thread. *)
Base(j) == j * (Capacity \div num_threads)

VARIABLES
  signal, count, level, node, index, climbs, sets,  \* of the tree
  nextOp,             \* per thread: its loops have come to this operation; -1
                      \* before the thread has begun
  localTotalSelected, \* per thread: calls of select() that returned a signal
  invalid,            \* "invalid signal returned" was printed
  activeThreadCount,
  startTest,
  totalSet, totalSelected,
  main                \* what the main thread has come to

(* Signals that are set by their threads, each once. *)
Tree == INSTANCE SignalTree WITH
  Setters   <- {Setter(j) : j \in threads},
  Selectors <- {Selector(j) : j \in threads},
  Indices   <- {Base(j) + k : j \in threads, k \in 0 .. opsPerThread - 1},
  MaxSets   <- num_threads * opsPerThread

treeVars == <<signal, count, level, node, index, climbs, sets>>
loopVars == <<nextOp, localTotalSelected, invalid>>
mainVars == <<activeThreadCount, startTest, totalSet, totalSelected, main>>
vars     == <<treeVars, loopVars, mainVars>>

Finished == 2 * opsPerThread

Step(j) == nextOp' = [nextOp EXCEPT ![j] = @ + 1]

-----------------------------------------------------------------------------
(* A thread *)

Begin(j) ==
  /\ nextOp[j] = -1
  /\ activeThreadCount' = activeThreadCount + 1
  /\ Step(j)
  /\ UNCHANGED <<treeVars, localTotalSelected, invalid,
                 startTest, totalSet, totalSelected, main>>

(* The first loop: linear set from base. *)
Set(j) ==
  /\ startTest
  /\ nextOp[j] \in 0 .. opsPerThread - 1
  /\ Tree!SetLeaf(Setter(j), Base(j) + nextOp[j])
  /\ Step(j)
  /\ UNCHANGED <<localTotalSelected, invalid, mainVars>>

Climb(j) == Tree!Count(Setter(j)) /\ UNCHANGED <<loopVars, mainVars>>

(* The second loop, once the last set() of the first has returned. *)
Selects(j) ==
  /\ nextOp[j] \in opsPerThread .. Finished - 1
  /\ ~climbs[Setter(j)]

SelectInvalid(j) ==
  /\ Selects(j)
  /\ Tree!SelectNothing(Selector(j))
  /\ invalid' = TRUE
  /\ Step(j)
  /\ UNCHANGED <<localTotalSelected, mainVars>>

Descend(j) ==
  /\ Selects(j)
  /\ Tree!TakeCount(Selector(j))
  /\ UNCHANGED <<loopVars, mainVars>>

SelectSignal(j) ==
  /\ Selects(j)
  /\ Tree!TakeSignal(Selector(j))
  /\ localTotalSelected' = [localTotalSelected EXCEPT ![j] = @ + 1]
  /\ Step(j)
  /\ UNCHANGED <<invalid, mainVars>>

(* Its results are in the totals before it is counted off. *)
AddTotals(j) ==
  /\ nextOp[j] = Finished
  /\ totalSet' = totalSet + opsPerThread
  /\ totalSelected' = totalSelected + localTotalSelected[j]
  /\ Step(j)
  /\ UNCHANGED <<treeVars, localTotalSelected, invalid,
                 activeThreadCount, startTest, main>>

End(j) ==
  /\ nextOp[j] = Finished + 1
  /\ activeThreadCount' = activeThreadCount - 1
  /\ Step(j)
  /\ UNCHANGED <<treeVars, localTotalSelected, invalid,
                 startTest, totalSet, totalSelected, main>>

-----------------------------------------------------------------------------
(* The main thread waits for all threads to have begun, and for all to end.*)
StartTest ==
  /\ main = "created"
  /\ activeThreadCount = num_threads
  /\ startTest' = TRUE
  /\ main' = "started"
  /\ UNCHANGED <<treeVars, loopVars, activeThreadCount, totalSet, totalSelected>>

Report ==
  /\ main = "started"
  /\ activeThreadCount = 0
  /\ main' = "reported"
  /\ UNCHANGED <<treeVars, loopVars, activeThreadCount, startTest,
                 totalSet, totalSelected>>

Init ==
  /\ Tree!Init
  /\ nextOp = [j \in threads |-> -1]
  /\ localTotalSelected = [j \in threads |-> 0]
  /\ invalid = FALSE
  /\ activeThreadCount = 0
  /\ startTest = FALSE
  /\ totalSet = 0 /\ totalSelected = 0
  /\ main = "created"

Thread(j) ==
  \/ Begin(j)
  \/ Set(j) \/ Climb(j)
  \/ SelectInvalid(j) \/ Descend(j) \/ SelectSignal(j)
  \/ AddTotals(j) \/ End(j)

Next == StartTest \/ Report \/ \E j \in threads : Thread(j)

Spec == Init /\ [][Next]_vars

-----------------------------------------------------------------------------
(* No thread is told that the tree is empty while it has selected less     *)
(* than it has set, though others take its signals, and though it is sent  *)
(* on to signals of threads that are still climbing; so that in the report *)
(* the totals agree, and nothing is left in the tree.                      *)
EveryoneGetsTheirShare ==
  /\ ~invalid
  /\ main = "reported" =>
       totalSelected = totalSet /\ signal = {} /\ Tree!empty
=============================================================================
