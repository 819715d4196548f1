----------------------------- MODULE DataIngress -----------------------------
(***************************************************************************)
(* The program of 6_data_ingress: the main thread pushes values into a     *)
(* queue and schedules the contract that takes them out, one value per     *)
(* run; the contract schedules itself again while it sees the queue not    *)
(* empty, and releases itself when it takes the value -1.  Any number of   *)
(* schedules may be merged into one run, so that nothing but the contract  *)
(* itself gets the rest of the values out.                                 *)
(***************************************************************************)
EXTENDS Sequences, Integers

CONSTANTS
  LastValue,  \* 1 .. LastValue are pushed, and then -1
  Contract

VARIABLES
  phase, again, dying,  \* of the contract
  valid,      \* contract.is_valid()
  dataQueue,
  processed,  \* the values printed, in their order
  worker,     \* where the worker is
  main,       \* what the main thread does next ...
  i           \* ... with which value (LastValue + 1 stands for -1)

life == <<phase, again, dying>>
vars == <<life, valid, dataQueue, processed, worker, main, i>>

Life == INSTANCE ContractLifecycle WITH Contracts <- {Contract}

(* The queue holds ten values; six are pushed. *)
push(value) == dataQueue' = Append(dataQueue, value)

-----------------------------------------------------------------------------
(* The worker *)

Execute ==
  /\ worker = "loop"
  /\ Life!Serve(Contract)
  /\ worker' = IF dying[Contract] THEN "erase" ELSE "pop"
  /\ UNCHANGED <<valid, dataQueue, processed, main, i>>

(* The callback takes one value, if there is one (what it prints is its    *)
(* own) ...                                                                *)
Pop ==
  /\ worker = "pop"
  /\ IF dataQueue = <<>> \/ Head(dataQueue) = -1
     THEN UNCHANGED processed
     ELSE processed' = Append(processed, Head(dataQueue))
  /\ dataQueue' = IF dataQueue = <<>> THEN <<>> ELSE Tail(dataQueue)
  /\ worker' = IF dataQueue # <<>> /\ Head(dataQueue) = -1 THEN "release" ELSE "look"
  /\ UNCHANGED <<life, valid, main, i>>

(* ... asks to be released if it was -1 ...                                *)
Release ==
  /\ worker = "release"
  /\ Life!Release(Contract)
  /\ worker' = "look"
  /\ UNCHANGED <<valid, dataQueue, processed, main, i>>

(* Mutant: it does not look for more. *)
LookAway ==
  /\ worker = "look"
  /\ worker' = "return"
  /\ UNCHANGED <<life, valid, dataQueue, processed, main, i>>

(* ... looks whether there is more ...                                     *)
Look ==
  /\ worker = "look"
  /\ worker' = IF dataQueue = <<>> THEN "return" ELSE "schedule"
  /\ UNCHANGED <<life, valid, dataQueue, processed, main, i>>

(* ... and then asks for another run.                                      *)
Reschedule ==
  /\ worker = "schedule"
  /\ Life!Schedule(Contract)
  /\ worker' = "return"
  /\ UNCHANGED <<valid, dataQueue, processed, main, i>>

Return ==
  /\ worker = "return"
  /\ Life!Finish(Contract)
  /\ worker' = "loop"
  /\ UNCHANGED <<valid, dataQueue, processed, main, i>>

(* erase_contract(): the token, then the slot. *)
Orphan ==
  /\ worker = "erase"
  /\ valid' = FALSE
  /\ worker' = "free"
  /\ UNCHANGED <<life, dataQueue, processed, main, i>>

Free ==
  /\ worker = "free"
  /\ Life!Free(Contract)
  /\ worker' = "loop"
  /\ UNCHANGED <<valid, dataQueue, processed, main, i>>

EndThread ==
  /\ worker = "loop"
  /\ main = "join"
  /\ worker' = "ended"
  /\ UNCHANGED <<life, valid, dataQueue, processed, main, i>>

-----------------------------------------------------------------------------
(* The main thread *)

Create ==
  /\ main = "create"
  /\ Life!Create(Contract)
  /\ valid' = TRUE
  /\ main' = "push"
  /\ UNCHANGED <<dataQueue, processed, worker, i>>

Push ==
  /\ main = "push"
  /\ push(IF i <= LastValue THEN i ELSE -1)
  /\ main' = "schedule"
  /\ UNCHANGED <<life, valid, processed, worker, i>>

(* contract.schedule().  It may come after the worker has taken -1 and the *)
(* contract is being released or erased.  That nothing comes of it then is *)
(* what the group promises, not what is shown here: in WorkContractGroup,  *)
(* schedule() of a slot that is free or being released finds the execute   *)
(* flag set, and is no step of ContractLifecycle (ImplementsLifecycle).    *)
Schedule ==
  /\ main = "schedule"
  /\ IF phase[Contract] \in {"releasing", "free"}
     THEN UNCHANGED life
     ELSE Life!Schedule(Contract)
  /\ main' = IF i <= LastValue THEN "push" ELSE "wait"
  /\ i' = i + 1
  /\ UNCHANGED <<valid, dataQueue, processed, worker>>

(* Mutant: nobody waits for the contract. *)
RequestStopAtOnce ==
  /\ main = "wait"
  /\ main' = "join"
  /\ UNCHANGED <<life, valid, dataQueue, processed, worker, i>>

(* The loop on is_valid() ends, and the worker is told to stop. *)
RequestStop ==
  /\ main = "wait"
  /\ ~valid
  /\ main' = "join"
  /\ UNCHANGED <<life, valid, dataQueue, processed, worker, i>>

Join ==
  /\ main = "join"
  /\ worker = "ended"
  /\ main' = "returned"
  /\ UNCHANGED <<life, valid, dataQueue, processed, worker, i>>

-----------------------------------------------------------------------------
Init ==
  /\ Life!Init
  /\ valid = FALSE
  /\ dataQueue = <<>>
  /\ processed = <<>>
  /\ worker = "loop"
  /\ main = "create" /\ i = 1

Worker ==
  \/ Execute
  \/ Pop \/ Release \/ Look \/ Reschedule \/ Return
  \/ Orphan \/ Free
  \/ EndThread

Main == Create \/ Push \/ Schedule \/ RequestStop \/ Join

Next == Worker \/ Main

FairSpec == Init /\ [][Next]_vars /\ WF_vars(Worker) /\ WF_vars(Main)

-----------------------------------------------------------------------------
(* No value is stranded: while there is one in the queue, the contract is  *)
(* queued, or in a run that will look at the queue again or has been       *)
(* scheduled meanwhile, or the main thread is about to schedule it.        *)
NothingStranded ==
  dataQueue # <<>> =>
    \/ main = "schedule"
    \/ phase[Contract] = "queued"
    \/ again[Contract]
    \/ worker \in {"pop", "release", "look", "schedule"}

(* Values are processed once each, in the order they were pushed, and all  *)
(* of them before the contract becomes invalid.                            *)
ProcessedInOrder ==
  /\ processed = [v \in 1 .. Len(processed) |-> v]
  /\ main \in {"join", "returned"} => Len(processed) = LastValue

(* The program ends. *)
MainReturns == <>(main = "returned")
=============================================================================
