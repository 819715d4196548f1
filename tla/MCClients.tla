----------------------------- MODULE MCClients -----------------------------
(***************************************************************************)
(* What the clients of the library do, for TLC: callbacks that use         *)
(* this_contract, the example programs, and the benchmark of the signal    *)
(* tree.  The four have nothing in common: a behaviour of this module is   *)
(* one of the module that `client' names, while the variables of the       *)
(* others stay as they were.                                               *)
(***************************************************************************)
EXTENDS Integers, FiniteSets

CONSTANTS
  Contracts, Callers,                           \* this_contract
  numFiles, numThreads, MaxBlocks,              \* 7_tasks
  LastValue, Contract,                          \* 6_data_ingress
  Capacity, num_threads, opsPerThread           \* signal_tree_benchmark

(* A directory without files makes no contract and is left out.  The queue *)
(* of 6_data_ingress has room for ten values, -1 among them.               *)
ASSUME ClientsAssumption ==
  /\ numFiles \in Nat \ {0} /\ numThreads \in Nat \ {0}
  /\ LastValue \in 0 .. 9

VARIABLES
  client,
  stack, tls, visited, requested, released,
  phase, again, dying, valid, callable, state, blocks, read, count, reports,
    aborted, visit, at, main, item,
  i_phase, i_again, i_dying, i_valid, dataQueue, processed, worker, i_main, i,
  signal, counters, level, node, index, climbs, sets,
    nextOp, localTotalSelected, invalid,
    activeThreadCount, startTest, totalSet, totalSelected, b_main

this == INSTANCE ThisContract WITH Threads <- Callers
tasks == INSTANCE CharCountTasks
ingress == INSTANCE DataIngress WITH
  phase <- i_phase, again <- i_again, dying <- i_dying, valid <- i_valid,
  main <- i_main
benchmark == INSTANCE SignalTreeBenchmark WITH
  count <- counters, main <- b_main

(* The benchmark's tree is as SignalTree assumes, and the ranges of the    *)
(* threads fit it; there the operations are all that fit.                  *)
ASSUME BenchmarkAssumption ==
  /\ \A size \in benchmark!Tree!ValidSizes : benchmark!Tree!SoundShape(size)
  /\ Capacity \in benchmark!Tree!ValidSizes
  /\ num_threads \in Nat \ {0} /\ opsPerThread \in Nat
  /\ opsPerThread <= Capacity \div num_threads

this_vars == <<stack, tls, visited, requested, released>>
tasks_vars ==
  <<phase, again, dying, valid, callable, state, blocks, read, count, reports,
    aborted, visit, at, main, item>>
ingress_vars ==
  <<i_phase, i_again, i_dying, i_valid, dataQueue, processed, worker, i_main, i>>
benchmark_vars ==
  <<signal, counters, level, node, index, climbs, sets,
    nextOp, localTotalSelected, invalid,
    activeThreadCount, startTest, totalSet, totalSelected, b_main>>

vars == <<client, this_vars, tasks_vars, ingress_vars, benchmark_vars>>

Init ==
  /\ client \in {"this_contract", "7_tasks", "6_data_ingress", "benchmark"}
  /\ this!Init /\ tasks!Init /\ ingress!Init /\ benchmark!Init
  /\ client # "7_tasks" => blocks = [f \in tasks!Files |-> 0]

(* A step of one of the clients: nothing else changes. *)
InThisContract ==
  /\ client = "this_contract"
  /\ UNCHANGED <<client, tasks_vars, ingress_vars, benchmark_vars>>

InTasks ==
  /\ client = "7_tasks"
  /\ UNCHANGED <<client, this_vars, ingress_vars, benchmark_vars>>

InIngress ==
  /\ client = "6_data_ingress"
  /\ UNCHANGED <<client, this_vars, tasks_vars, benchmark_vars>>

InBenchmark ==
  /\ client = "benchmark"
  /\ UNCHANGED <<client, this_vars, tasks_vars, ingress_vars>>

Next ==
  \/ InThisContract /\ this!Next
  \/ InTasks /\ tasks!Next
  \/ InIngress /\ ingress!Next
  \/ InBenchmark /\ benchmark!Next

(* The fairness of CharCountTasks and of DataIngress. *)
Fairness ==
  /\ WF_vars(InTasks /\ tasks!Main)
  /\ \A w \in tasks!Workers : WF_vars(InTasks /\ tasks!Run(w))
  /\ \A f \in tasks!Files :
       SF_vars(InTasks /\ \E w \in tasks!Workers : tasks!Execute(w, f))
  /\ WF_vars(InIngress /\ ingress!Main)
  /\ WF_vars(InIngress /\ ingress!Worker)

FairSpec == Init /\ [][Next]_vars /\ Fairness

-----------------------------------------------------------------------------
(* The properties, which are those of the modules. *)

NamesInnermostRun   == this!NamesInnermostRun
NamedContractIsOurs == this!NamedContractIsOurs
NoneStrandedByExceptions == this!NoneStrandedByExceptions

JoinedMeansReported == tasks!JoinedMeansReported
PassesHaveTheTask   == tasks!PassesHaveTheTask

NothingStranded  == ingress!NothingStranded
ProcessedInOrder == ingress!ProcessedInOrder

EveryoneGetsTheirShare == benchmark!EveryoneGetsTheirShare

ProgramsEnd ==
  /\ client = "7_tasks" => tasks!RunReturns
  /\ client = "6_data_ingress" => ingress!MainReturns
=============================================================================
