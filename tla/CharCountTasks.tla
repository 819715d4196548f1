--------------------------- MODULE CharCountTasks ---------------------------
(***************************************************************************)
(* The programs of 7_tasks: one contract per file, whose task counts a     *)
(* letter in the file, one small pass per run, scheduling itself again     *)
(* after each; a pool of workers; and a main thread that joins every task  *)
(* by waiting until its contract is no longer valid, and then the pool.    *)
(* Example 2 wraps the contract, and a task may be aborted there.          *)
(*                                                                         *)
(* The contracts are those of ContractLifecycle, with the parts of an      *)
(* erase in their order: the program sees the callable go and the token    *)
(* become invalid.                                                         *)
(***************************************************************************)
EXTENDS Integers

CONSTANTS
  numFiles,
  numThreads,  \* at least one
  MaxBlocks    \* files have up to so many blocks of 256 bytes

Files   == 1 .. numFiles
Workers == 1 .. numThreads
None    == 0

VARIABLES
  phase, again, dying,  \* of the contracts
  valid,     \* what is_valid() says of the file's work_contract
  callable,  \* the files whose task exists
  state,     \* per task: what its next pass does
  blocks,    \* per file: its size
  read,      \* per task: blocks read (bytesRead_)
  count,     \* per task: blocks whose letters have been counted
  reports,   \* per task: how often it has printed its result
  aborted,   \* tasks that were aborted
  visit,     \* per worker: the file whose contract it executes
  at,        \* per worker: where it is
  main,      \* what the main thread does next ...
  item       \* ... and with which file or worker

life == <<phase, again, dying>>
task == <<state, blocks, read, count, reports>>
pool == <<visit, at>>
prog == <<main, item>>
vars == <<life, valid, callable, task, aborted, pool, prog>>

Life == INSTANCE ContractLifecycle WITH Contracts <- Files

-----------------------------------------------------------------------------
(* Workers *)

(* Mutant: the token is orphaned as soon as the release is begun. *)
ExecuteAndOrphan(w, f) ==
  /\ at[w] = "loop"
  /\ Life!Serve(f)
  /\ visit' = [visit EXCEPT ![w] = f]
  /\ at' = [at EXCEPT ![w] = IF dying[f] THEN "release" ELSE "pass"]
  /\ valid' = [valid EXCEPT ![f] = @ /\ ~dying[f]]
  /\ UNCHANGED <<callable, task, aborted, prog>>

(* execute_next_contract() comes upon the contract of a file. *)
Execute(w, f) ==
  /\ at[w] = "loop"
  /\ Life!Serve(f)
  /\ visit' = [visit EXCEPT ![w] = f]
  /\ at' = [at EXCEPT ![w] = IF dying[f] THEN "release" ELSE "pass"]
  /\ UNCHANGED <<valid, callable, task, aborted, prog>>

Load(f) ==
  /\ state[f] = "load"
  /\ IF read[f] = blocks[f]
     THEN state' = [state EXCEPT ![f] = "done"] /\ UNCHANGED read
     ELSE /\ state' = [state EXCEPT ![f] = "process"]
          /\ read' = [read EXCEPT ![f] = @ + 1]
  /\ UNCHANGED <<life, count, reports>>

Process(f) ==
  /\ state[f] = "process"
  /\ state' = [state EXCEPT ![f] = "load"]
  /\ count' = [count EXCEPT ![f] = @ + 1]
  /\ UNCHANGED <<life, read, reports>>

(* The result is printed, and the contract releases itself. *)
Done(f) ==
  /\ state[f] = "done"
  /\ reports' = [reports EXCEPT ![f] = @ + 1]
  /\ Life!Release(f)
  /\ UNCHANGED <<state, read, count>>

(* operator() up to its last statement ... *)
Pass(w) ==
  /\ at[w] = "pass"
  /\ LET f == visit[w] IN Load(f) \/ Process(f) \/ Done(f)
  /\ at' = [at EXCEPT ![w] = "again"]
  /\ UNCHANGED <<valid, callable, blocks, aborted, visit, prog>>

(* Mutant: the task counts on somebody else to schedule its next pass. *)
ScheduleNothing(w) ==
  /\ at[w] = "again"
  /\ at' = [at EXCEPT ![w] = "return"]
  /\ UNCHANGED <<life, valid, callable, task, aborted, visit, prog>>

(* ... and that: this_contract::schedule(), even after the release. *)
ScheduleAgain(w) ==
  /\ at[w] = "again"
  /\ Life!Schedule(visit[w])
  /\ at' = [at EXCEPT ![w] = "return"]
  /\ UNCHANGED <<valid, callable, task, aborted, visit, prog>>

Leave(w) ==
  /\ at' = [at EXCEPT ![w] = "loop"]
  /\ visit' = [visit EXCEPT ![w] = None]

Return(w) ==
  /\ at[w] = "return"
  /\ Life!Finish(visit[w])
  /\ Leave(w)
  /\ UNCHANGED <<valid, callable, task, aborted, prog>>

(* erase_contract() destroys the task, then orphans the token, then gives  *)
(* the slot back.                                                          *)
DestroyTask(w) ==
  /\ at[w] = "release"
  /\ callable' = callable \ {visit[w]}
  /\ at' = [at EXCEPT ![w] = "orphan"]
  /\ UNCHANGED <<life, valid, task, aborted, visit, prog>>

Orphan(w) ==
  /\ at[w] = "orphan"
  /\ valid' = [valid EXCEPT ![visit[w]] = FALSE]
  /\ at' = [at EXCEPT ![w] = "free"]
  /\ UNCHANGED <<life, callable, task, aborted, visit, prog>>

Free(w) ==
  /\ at[w] = "free"
  /\ Life!Free(visit[w])
  /\ Leave(w)
  /\ UNCHANGED <<valid, callable, task, aborted, prog>>

(* A worker ends, between two calls, when it has been told to stop. *)
EndThread(w) ==
  /\ at[w] = "loop"
  /\ main = "join_thread" /\ item = w
  /\ at' = [at EXCEPT ![w] = "ended"]
  /\ UNCHANGED <<life, valid, callable, task, aborted, visit, prog>>

-----------------------------------------------------------------------------
(* The main thread *)

(* A loop over the files or the threads: what comes next in it, and after. *)
Loop(last, more, after) ==
  /\ main' = IF item < last THEN more ELSE after
  /\ item' = IF item < last THEN item + 1 ELSE 1

Goto(step) == main' = step /\ UNCHANGED item

(* create_contract(), in a group with a slot for every file. *)
Create ==
  /\ main = "create"
  /\ Life!Create(item)
  /\ valid' = [valid EXCEPT ![item] = TRUE]
  /\ callable' = callable \cup {item}
  /\ Goto("schedule")
  /\ UNCHANGED <<task, aborted, pool>>

(* initial_state::scheduled: the constructor of work_contract schedules. *)
ScheduleNew ==
  /\ main = "schedule"
  /\ Life!Schedule(item)
  /\ Loop(numFiles, "create", "join")
  /\ UNCHANGED <<valid, callable, task, aborted, pool>>

(* Mutant: abort() destroys the task itself. *)
AbortAndDestroy(f) ==
  /\ main = "join"
  /\ valid[f]
  /\ valid' = [valid EXCEPT ![f] = FALSE]
  /\ aborted' = aborted \cup {f}
  /\ callable' = callable \ {f}
  /\ IF phase[f] = "releasing" THEN UNCHANGED life ELSE Life!Release(f)
  /\ UNCHANGED <<task, pool, prog>>

(* task::abort(): a release through the work_contract, which gives up its  *)
(* token; the group ignores it when the contract has been visited for its  *)
(* release already.                                                        *)
Abort(f) ==
  /\ main = "join"
  /\ valid[f]
  /\ valid' = [valid EXCEPT ![f] = FALSE]
  /\ aborted' = aborted \cup {f}
  /\ IF phase[f] = "releasing" THEN UNCHANGED life ELSE Life!Release(f)
  /\ UNCHANGED <<callable, task, pool, prog>>

(* task::join() has seen that the contract is not valid any more. *)
Join ==
  /\ main = "join"
  /\ ~valid[item]
  /\ Loop(numFiles, "join", "stop")
  /\ UNCHANGED <<life, valid, callable, task, aborted, pool>>

RequestStop ==
  /\ main = "stop"
  /\ Goto("join_thread")
  /\ UNCHANGED <<life, valid, callable, task, aborted, pool>>

JoinThread ==
  /\ main = "join_thread"
  /\ at[item] = "ended"
  /\ Loop(numThreads, "stop", "returned")
  /\ UNCHANGED <<life, valid, callable, task, aborted, pool>>

-----------------------------------------------------------------------------
Init ==
  /\ Life!Init
  /\ valid    = [f \in Files |-> FALSE]
  /\ callable = {}
  /\ state    = [f \in Files |-> "load"]
  /\ blocks \in [Files -> 0 .. MaxBlocks]
  /\ read     = [f \in Files |-> 0]
  /\ count    = [f \in Files |-> 0]
  /\ reports  = [f \in Files |-> 0]
  /\ aborted  = {}
  /\ visit    = [w \in Workers |-> None]
  /\ at       = [w \in Workers |-> "loop"]
  /\ main = "create" /\ item = 1

Run(w) ==
  \/ Pass(w) \/ ScheduleAgain(w) \/ Return(w)
  \/ DestroyTask(w) \/ Orphan(w) \/ Free(w)
  \/ EndThread(w)

Main ==
  \/ Create \/ ScheduleNew
  \/ Join
  \/ RequestStop \/ JoinThread

Next ==
  \/ \E w \in Workers : Run(w) \/ \E f \in Files : Execute(w, f)
  \/ \E f \in Files : Abort(f)
  \/ Main

(* Threads run, and a contract that is scheduled is selected in the end    *)
(* (ContractLifecycle's promise), while there is a worker in its loop now  *)
(* and then.                                                               *)
Fairness ==
  /\ WF_vars(Main)
  /\ \A w \in Workers : WF_vars(Run(w))
  /\ \A f \in Files : SF_vars(\E w \in Workers : Execute(w, f))

FairSpec == Init /\ [][Next]_vars /\ Fairness

-----------------------------------------------------------------------------
Joined(f) == main \notin {"create", "schedule"} /\ (main = "join" => f < item)

(* When a task that was not aborted has been joined, it has printed its    *)
(* result, and has been destroyed; no task prints twice, or a result that  *)
(* lacks a block, whatever passes the workers ran at the same time.        *)
JoinedMeansReported ==
  /\ \A f \in Files \ aborted :
       Joined(f) => reports[f] = 1 /\ f \notin callable
  /\ \A f \in Files :
       reports[f] <= 1 /\ (reports[f] = 1 => count[f] = blocks[f])

(* No pass runs on a task that is gone, or on one that another worker runs *)
(* a pass of, be it aborted meanwhile.                                     *)
PassesHaveTheTask ==
  \A w \in Workers : at[w] \in {"pass", "again"} =>
    /\ visit[w] \in callable
    /\ \A u \in Workers \ {w} : visit[u] # visit[w]

(* run() comes to its end. *)
RunReturns == <>(main = "returned")
=============================================================================
