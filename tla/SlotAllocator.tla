--------------------------- MODULE SlotAllocator ---------------------------
(***************************************************************************)
(* Where create_contract() gets its slot from: get_available_contract()    *)
(* and the trees of free slots, available_.  A slot is a leaf of one of    *)
(* several trees of one word each; the rotor nextAvailableTreeIndex_, an   *)
(* atomic counter shared by all creators, says which tree a creator looks  *)
(* into next, and a call looks into as many as there are trees.            *)
(*                                                                         *)
(* Every load, fetch_add and fetch_and is a step of its own.  The other    *)
(* end of a contract's life, the fetch_or of erase_contract(), is Erase.   *)
(***************************************************************************)
EXTENDS Integers, FiniteSetsExt

CONSTANTS
  Capacity,    \* what the group was constructed with
  TreeSize,    \* signal_tree_capacity (64)
  RotorSize,   \* values of the rotor (2^64)
  Creators     \* threads that call create_contract()

-----------------------------------------------------------------------------
(* The smallest power of two that is not less than n. *)
minimum_power_of_two(n) ==
  CHOOSE p \in {2^k : k \in 0..20} : p >= n /\ p < 2 * n

subTreeCount(capacity) ==
  minimum_power_of_two((capacity + TreeSize - 1) \div TreeSize)

Trees == 0 .. subTreeCount(Capacity) - 1
Slots == 0 .. subTreeCount(Capacity) * TreeSize - 1

(* The trees hold what was asked for, less than twice as much and a tree,  *)
(* and their number divides the values of the rotor, whose overflow so     *)
(* goes on with the tree that is next.                                     *)
ASSUME SlotAssumption ==
  /\ Capacity \in Nat \ {0}
  /\ TreeSize \in Nat \ {0}
  /\ subTreeCount(Capacity) \in Nat \ {0}
  /\ subTreeCount(Capacity) * TreeSize \in Capacity .. 2 * (Capacity + TreeSize)
  /\ RotorSize \in Nat \ {0}
  /\ RotorSize % subTreeCount(Capacity) = 0

VARIABLES
  available,  \* the set leaves of available_
  rotor,      \* nextAvailableTreeIndex_
  contracts,  \* how many contracts live in each slot
  pc,         \* where each creator is
  turn,       \* trees this call has been to
  tree,       \* the tree it is at, subTreeIndex
  slot,       \* the leaf it tries to take
  foundEmpty, \* history: trees this call has found empty
  passed      \* history: trees that others were sent to during this call

vars == <<available, rotor, contracts, pc, turn, tree, slot, foundEmpty, passed>>

Goto(t, to) == pc' = [pc EXCEPT ![t] = to]

FreeIn(tr) == {s \in available : s \div TreeSize = tr}

-----------------------------------------------------------------------------
Begin(t) ==
  /\ pc[t] = "idle"
  /\ Goto(t, "next")
  /\ UNCHANGED <<available, rotor, contracts, turn, tree, slot, foundEmpty, passed>>

Turns == subTreeCount(Capacity)

(* Mutant: the rotor starts again one value before its overflow. *)
OnWithoutLast(r) == (r + 1) % (RotorSize - 1)

(* The fetch_add on the rotor. *)
On(r) == (r + 1) % RotorSize

(* The rotor sends the call to a tree. *)
NextTree(t) ==
  LET here == rotor % subTreeCount(Capacity) IN
  /\ pc[t] = "next"
  /\ turn[t] < Turns
  /\ rotor' = On(rotor)
  /\ tree' = [tree EXCEPT ![t] = here]
  /\ passed' = [u \in Creators |->
                  IF u = t \/ pc[u] \in {"idle", "failed"} THEN passed[u]
                  ELSE passed[u] \cup {here}]
  /\ Goto(t, "look")
  /\ UNCHANGED <<available, contracts, turn, slot, foundEmpty>>

(* All trees were looked into: the caller gets an object without contract. *)
Fail(t) ==
  /\ pc[t] = "next"
  /\ turn[t] = Turns
  /\ Goto(t, "failed")
  /\ UNCHANGED <<available, rotor, contracts, turn, tree, slot, foundEmpty, passed>>

(* What a read of the tree's word leads to: nothing is there, or it is the *)
(* first free leaf that the call tries to take.                            *)
Try(t, free) ==
  IF free = {}
  THEN /\ turn' = [turn EXCEPT ![t] = @ + 1]
       /\ foundEmpty' = [foundEmpty EXCEPT ![t] = @ \cup {tree[t]}]
       /\ Goto(t, "next")
       /\ UNCHANGED slot
  ELSE /\ slot' = [slot EXCEPT ![t] = Min(free)]
       /\ Goto(t, "take")
       /\ UNCHANGED <<turn, foundEmpty>>

(* empty(): a first look at the word. *)
Look(t) ==
  /\ pc[t] = "look"
  /\ IF FreeIn(tree[t]) = {} THEN Try(t, {})
     ELSE Goto(t, "select") /\ UNCHANGED <<turn, slot, foundEmpty>>
  /\ UNCHANGED <<available, rotor, contracts, tree, passed>>

(* select<largest_child_selector>(): the word is read again ... *)
Select(t) ==
  /\ pc[t] = "select"
  /\ Try(t, FreeIn(tree[t]))
  /\ UNCHANGED <<available, rotor, contracts, tree, passed>>

(* The call is over. *)
Leave(t) ==
  /\ Goto(t, "idle")
  /\ turn' = [turn EXCEPT ![t] = 0]
  /\ tree' = [tree EXCEPT ![t] = 0]
  /\ slot' = [slot EXCEPT ![t] = 0]
  /\ foundEmpty' = [foundEmpty EXCEPT ![t] = {}]
  /\ passed' = [passed EXCEPT ![t] = {}]

(* Mutant: the result of the fetch_and is not looked at. *)
TakeUnchecked(t) ==
  /\ pc[t] = "take"
  /\ available' = available \ {slot[t]}
  /\ contracts' = [contracts EXCEPT ![slot[t]] = @ + 1]
  /\ Leave(t)
  /\ UNCHANGED rotor

(* Mutant: a call that lost its leaf tries it again. *)
TakeAgain(t) ==
  /\ pc[t] = "take"
  /\ available' = available \ {slot[t]}
  /\ IF slot[t] \in available
     THEN contracts' = [contracts EXCEPT ![slot[t]] = @ + 1] /\ Leave(t)
     ELSE UNCHANGED <<contracts, pc, turn, tree, slot, foundEmpty, passed>>
  /\ UNCHANGED rotor

(* ... and the bit cleared.  Whoever finds it set has the slot; the others *)
(* go on with what the fetch_and says is left in the word.                 *)
Take(t) ==
  /\ pc[t] = "take"
  /\ available' = available \ {slot[t]}
  /\ IF slot[t] \in available
     THEN contracts' = [contracts EXCEPT ![slot[t]] = @ + 1] /\ Leave(t)
     ELSE Try(t, FreeIn(tree[t])) /\ UNCHANGED <<contracts, tree, passed>>
  /\ UNCHANGED rotor

ReturnNothing(t) ==
  /\ pc[t] = "failed"
  /\ Leave(t)
  /\ UNCHANGED <<available, rotor, contracts>>

(* A worker erases a contract, the last act of which is to offer its slot. *)
Erase(s) ==
  /\ contracts[s] > 0
  /\ contracts' = [contracts EXCEPT ![s] = @ - 1]
  /\ available' = available \cup {s}
  /\ UNCHANGED <<rotor, pc, turn, tree, slot, foundEmpty, passed>>

-----------------------------------------------------------------------------
Init ==
  /\ available = Slots
  /\ rotor = 0
  /\ contracts = [s \in Slots |-> 0]
  /\ pc = [t \in Creators |-> "idle"]
  /\ turn = [t \in Creators |-> 0]
  /\ tree = [t \in Creators |-> 0]
  /\ slot = [t \in Creators |-> 0]
  /\ foundEmpty = [t \in Creators |-> {}]
  /\ passed = [t \in Creators |-> {}]

Proceed(t) == NextTree(t) \/ Fail(t) \/ Look(t) \/ Select(t) \/ Take(t) \/ ReturnNothing(t)

Next ==
  \/ \E t \in Creators : Begin(t) \/ Proceed(t)
  \/ \E s \in Slots : Erase(s)

Spec == Init /\ [][Next]_vars

(* Threads are scheduled. *)
FairSpec == Spec /\ \A t \in Creators : WF_vars(Proceed(t))

-----------------------------------------------------------------------------
(* A slot is free or the home of one contract: neither handed out twice,   *)
(* by creators that read the same word, nor lost.                          *)
FreeOrTaken ==
  \A s \in Slots : contracts[s] = IF s \in available THEN 0 ELSE 1

(* create_contract() fails only for a reason: each of the trees was found  *)
(* empty by this call, or another creator was sent there instead.  So the  *)
(* call fails spuriously only while others create, and whoever creates     *)
(* alone gets a slot as long as one stays free.                            *)
FailureIsExplained ==
  \A t \in Creators : pc[t] = "failed" => foundEmpty[t] \cup passed[t] = Trees

(* A call does not go round for ever over leaves that others take first,   *)
(* unless these give slots back again and again.                           *)
CreateReturns ==
  \A t \in Creators :
    (\A s \in Slots : <>[][~Erase(s)]_vars) => (pc[t] # "idle" ~> pc[t] = "idle")
=============================================================================
