---------------------------- MODULE BiasSelector ----------------------------
(***************************************************************************)
(* Which of the set signals execute_next_contract() serves: the selection  *)
(* of default_selector (tree.h), steered by biasFlags, and the rotation of *)
(* biasFlags by the hint the selection leaves in select_bias_hint          *)
(* (work_contract_group.h).                                                *)
(*                                                                         *)
(* The module follows one worker.  Its biasFlags and select_bias_hint are  *)
(* thread local; everything other threads do is to set signals, and to     *)
(* take them before this worker does.  Between its calls the worker may    *)
(* call execute_next_contract() of other groups: with a biasFlags for each *)
(* group, which is what the overload with an argument is for, those calls  *)
(* have the hint in common with these and nothing else.                    *)
(*                                                                         *)
(* biasFlags is a number: sub-tree index times capacity, plus one bit per  *)
(* choice between two halves.  A set of bit numbers stands for those bits; *)
(* bit k steers the choice between the halves of a block of 2^(k+1)        *)
(* signals.  The code has Depth = 6, and sub-trees in a power of two.      *)
(***************************************************************************)
EXTENDS Integers, FiniteSets

CONSTANTS
  Depth,      \* a sub-tree has 2^Depth signals
  SubTrees,   \* number of sub-trees
  Contracts   \* the contracts that are ever scheduled, by number

Bits     == 0 .. Depth - 1
TreeSize == 2^Depth

ASSUME BiasAssumption ==
  /\ Depth \in Nat \ {0}
  /\ SubTrees \in Nat \ {0}
  /\ Contracts \subseteq 0 .. SubTrees * TreeSize - 1

(* What the proofs use of the powers of two. *)
ASSUME PowersOfTwo == \A d \in Bits : 2^d \in Nat /\ 2^(d + 1) = 2^d + 2^d

VARIABLES
  signal,   \* the contracts whose signal is set
  subTree,  \* the sub-tree part of biasFlags
  bias,     \* the bits of biasFlags that steer the selection
  hint      \* the bits of select_bias_hint

vars == <<signal, subTree, bias, hint>>

-----------------------------------------------------------------------------
(* The set leaves of a sub-tree, and those in a block of 2^d of them. *)
Leaves(tr) == {i \in 0 .. TreeSize - 1 : tr * TreeSize + i \in signal}
Block(leaves, first, d) == leaves \cap (first .. first + 2^d - 1)

(* Mutant: the bias is followed without a look at the counters. *)
FollowBias(biasRight, left, right) == biasRight

(* The choice between two halves, of which one at least has a leaf set. *)
ChooseRight(biasRight, left, right) == (biasRight /\ right # {}) \/ left = {}

(* The recursion of default_selector goes into a block of 2^d leaves that  *)
(* begins at first[d], for d from Depth down to the leaf it ends in; in    *)
(* nextBias are the choices on the way whose right half had a leaf set.    *)
default_selector(leaves, flags) ==
  LET first[d \in 0 .. Depth] ==
        IF d = Depth THEN 0
        ELSE LET above  == first[d + 1]
                 middle == above + 2^d
             IN  IF ChooseRight(d \in flags, Block(leaves, above, d), Block(leaves, middle, d))
                 THEN middle ELSE above
  IN  [leaf |-> first[0],
       nextBias |-> {d \in Bits : Block(leaves, first[d + 1] + 2^d, d) # {}}]

-----------------------------------------------------------------------------
(* The rotation of biasFlags after a contract was selected.  It counts in  *)
(* binary, in the bits of the hint: the lowest bit in which hint and bias  *)
(* differ is set and those below it are cleared.  When there is none, all  *)
(* combinations were tried and the next sub-tree has its turn.             *)
Differing(h) == (h \ bias) \cup (bias \ h)

(* Mutant: the index of the sub-tree is not masked. *)
NextTreeUnmasked == subTree' = subTree + 1 /\ bias' = {}

NextTree == subTree' = (subTree + 1) % SubTrees /\ bias' = {}

CountOn(b) == bias' = {x \in bias : x >= b} \cup {b}

Rotate(h) ==
  IF Differing(h) = {}
  THEN NextTree
  ELSE /\ \E b \in Differing(h) : (\A x \in Differing(h) : b <= x) /\ CountOn(b)
       /\ UNCHANGED subTree

(* Mutant: a selection overwrites the hint of those before it. *)
LastHint(found) == found

(* A selection adds to the hint; no bit is ever taken away. *)
HintWith(found) == hint \cup found

(* One turn of the loop of execute_next_contract() that finds a signal.    *)
(* The loop, and the next call, go on where biasFlags says.                *)
Select ==
  LET selected == default_selector(Leaves(subTree), bias)
  IN  /\ Leaves(subTree) # {}
      /\ signal' = signal \ {subTree * TreeSize + selected.leaf}
      /\ hint' = HintWith(selected.nextBias)
      /\ Rotate(HintWith(selected.nextBias))

(* One turn that finds the sub-tree empty.  A call that has been through   *)
(* all of them returns; the next call starts at the sub-tree after the     *)
(* last one, which is where this turn leaves biasFlags.                    *)
LookIntoEmptyTree ==
  /\ Leaves(subTree) = {}
  /\ NextTree
  /\ UNCHANGED <<signal, hint>>

(* Mutant: one biasFlags for all groups, as in the overload that goes by   *)
(* tls_biasFlags_.                                                         *)
ExecuteAnotherGroupWithThisBias(found) ==
  /\ hint' = HintWith(found)
  /\ Rotate(HintWith(found))
  /\ UNCHANGED signal

(* A call on another group finds a signal there: right halves of its trees *)
(* that have a leaf set become bits of the hint.                           *)
ExecuteAnotherGroup(found) ==
  /\ hint' = HintWith(found)
  /\ UNCHANGED <<signal, subTree, bias>>

-----------------------------------------------------------------------------
(* Other threads. *)
SetSignal(c) ==
  /\ c \notin signal
  /\ signal' = signal \cup {c}
  /\ UNCHANGED <<subTree, bias, hint>>

TakenByAnother(c) ==
  /\ c \in signal
  /\ signal' = signal \ {c}
  /\ UNCHANGED <<subTree, bias, hint>>

-----------------------------------------------------------------------------
Init ==
  /\ signal = {}
  /\ subTree = 0
  /\ bias = {}
  /\ hint = {}

Execute == Select \/ LookIntoEmptyTree

Next ==
  \/ Execute
  \/ \E found \in SUBSET Bits : ExecuteAnotherGroup(found)
  \/ \E c \in Contracts : SetSignal(c) \/ TakenByAnother(c)

Spec == Init /\ [][Next]_vars

(* The worker calls execute_next_contract() again and again. *)
FairSpec == Spec /\ WF_vars(Execute)

-----------------------------------------------------------------------------
(* Properties                                                              *)

TypeOK ==
  /\ signal \subseteq Contracts
  /\ subTree \in 0 .. SubTrees - 1
  /\ bias \subseteq Bits
  /\ hint \subseteq Bits

(* The bias never asks for a right half the hint does not know of.  The    *)
(* rotation relies on it: a bit of the bias that is not in the hint would  *)
(* be the one it sets, again and again, and the bits above it would never  *)
(* change.                                                                 *)
BiasWithinHint == bias \subseteq hint

(* default_selector ends at a leaf that is set, if any is: it never goes   *)
(* into a half with nothing in it.                                         *)
SelectsSetSignal ==
  Leaves(subTree) # {} =>
    default_selector(Leaves(subTree), bias).leaf \in Leaves(subTree)

(* A worker that goes on is not kept busy by some contracts for ever while *)
(* the signal of another stays set, even if those are scheduled again as   *)
(* soon as they were served, and however many contracts of other groups it *)
(* executes in between: the rotation gets to every signal.                 *)
NoSignalStarves == \A c \in Contracts : c \in signal ~> c \notin signal
=============================================================================
