------------------------- MODULE ContractLifecycle -------------------------
(***************************************************************************)
(* What the group promises of each contract slot, with every operation     *)
(* atomic and no thread, flag word, signal or token in sight:              *)
(*                                                                         *)
(*   - a contract runs on at most one thread at a time;                    *)
(*   - a schedule of an idle contract queues one run, a schedule during a  *)
(*     run queues exactly one more run after it, and further schedules     *)
(*     before that run starts add nothing;                                 *)
(*   - a release is a last schedule: the next visit of the contract runs   *)
(*     its release callback once, and then the slot is free;               *)
(*   - nothing queued stays queued for ever.                               *)
(*                                                                         *)
(* WorkContractGroup.tla is shown to implement this specification.         *)
(***************************************************************************)
CONSTANT Contracts

VARIABLES
  phase,    \* where each slot is in its life
  again,    \* a running contract was scheduled: it is queued when it ends
  dying     \* a release was requested: the next visit releases

vars == <<phase, again, dying>>

Phases == {"free", "idle", "queued", "running", "releasing"}

Init ==
  /\ phase = [c \in Contracts |-> "free"]
  /\ again = [c \in Contracts |-> FALSE]
  /\ dying = [c \in Contracts |-> FALSE]

Create(c) ==
  /\ phase[c] = "free"
  /\ phase' = [phase EXCEPT ![c] = "idle"]
  /\ UNCHANGED <<again, dying>>

Enqueue(c) ==
  \/ /\ phase[c] = "idle"
     /\ phase' = [phase EXCEPT ![c] = "queued"]
     /\ UNCHANGED again
  \/ /\ phase[c] = "queued"
     /\ UNCHANGED <<phase, again>>
  \/ /\ phase[c] = "running"
     /\ again' = [again EXCEPT ![c] = TRUE]
     /\ UNCHANGED phase

Schedule(c) == Enqueue(c) /\ UNCHANGED dying

Release(c) == Enqueue(c) /\ dying' = [dying EXCEPT ![c] = TRUE]

Start(c) ==
  /\ phase[c] = "queued"
  /\ ~dying[c]
  /\ phase' = [phase EXCEPT ![c] = "running"]
  /\ UNCHANGED <<again, dying>>

StartRelease(c) ==
  /\ phase[c] = "queued"
  /\ dying[c]
  /\ phase' = [phase EXCEPT ![c] = "releasing"]
  /\ dying' = [dying EXCEPT ![c] = FALSE]
  /\ UNCHANGED again

Finish(c) ==
  /\ phase[c] = "running"
  /\ phase' = [phase EXCEPT ![c] = IF again[c] THEN "queued" ELSE "idle"]
  /\ again' = [again EXCEPT ![c] = FALSE]
  /\ UNCHANGED dying

Free(c) ==
  /\ phase[c] = "releasing"
  /\ phase' = [phase EXCEPT ![c] = "free"]
  /\ UNCHANGED <<again, dying>>

Serve(c) == Start(c) \/ StartRelease(c)

Next ==
  \E c \in Contracts :
    \/ Create(c)
    \/ Schedule(c) \/ Release(c)
    \/ Serve(c)
    \/ Finish(c) \/ Free(c)

Spec == Init /\ [][Next]_vars

Fairness ==
  \A c \in Contracts : WF_vars(Serve(c)) /\ WF_vars(Finish(c)) /\ WF_vars(Free(c))

FairSpec == Spec /\ Fairness
=============================================================================
