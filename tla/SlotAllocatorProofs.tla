------------------------- MODULE SlotAllocatorProofs -------------------------
(***************************************************************************)
(* Proofs about SlotAllocator, for any number of creators and of slots:    *)
(* who takes a slot has it alone, and a call that fails has a reason to.   *)
(***************************************************************************)
EXTENDS SlotAllocator, TLAPS

-----------------------------------------------------------------------------
(* Slots                                                                   *)

(* The slots that are offered are slots, a free one has no contract in it  *)
(* and every other has one.                                                *)
SlotsInv ==
  /\ available \subseteq Slots
  /\ contracts \in [Slots -> Nat]
  /\ FreeOrTaken

LEMMA SlotsInit == Init => SlotsInv
  BY DEF Init, SlotsInv, FreeOrTaken

LEMMA SlotsNext == SlotsInv /\ [Next]_vars => SlotsInv'
<1> SUFFICES ASSUME SlotsInv, [Next]_vars PROVE SlotsInv'
  OBVIOUS
<1> USE DEF SlotsInv, FreeOrTaken
<1>1. ASSUME NEW t \in Creators, Begin(t) PROVE SlotsInv'
  BY <1>1 DEF Begin
<1>2. ASSUME NEW t \in Creators, Proceed(t), ~Take(t) PROVE SlotsInv'
  BY <1>2 DEF Proceed, NextTree, Fail, Look, Select, ReturnNothing
<1>3. ASSUME NEW t \in Creators, Take(t) PROVE SlotsInv'
  <2>1. CASE slot[t] \in available
    <3>1. contracts' = [contracts EXCEPT ![slot[t]] = @ + 1]
      BY <1>3, <2>1 DEF Take
    <3>2. available' = available \ {slot[t]} /\ slot[t] \in Slots
      BY <1>3, <2>1 DEF Take
    <3> QED
      BY <2>1, <3>1, <3>2
  <2>2. CASE slot[t] \notin available
    BY <1>3, <2>2 DEF Take
  <2> QED
    BY <2>1, <2>2
<1>4. ASSUME NEW s \in Slots, Erase(s) PROVE SlotsInv'
  BY <1>4 DEF Erase
<1>5. CASE UNCHANGED vars
  BY <1>5 DEF vars
<1> QED
  BY <1>1, <1>2, <1>3, <1>4, <1>5 DEF Next

(* A slot is never in the hands of two creators that read the same word,   *)
(* and none is lost: the fetch_and of Take decides between them.           *)
THEOREM SlotsHaveOneOwner == Spec => []FreeOrTaken
<1>1. SlotsInv => FreeOrTaken
  BY DEF SlotsInv
<1> QED
  BY <1>1, SlotsInit, SlotsNext, PTL DEF Spec

-----------------------------------------------------------------------------
(* Failure                                                                 *)

(* The rotor modulo the number of trees: the tree that has its turn next.  *)
Position == rotor % Turns

(* The k-th tree that was sent to before that. *)
Back(position, k) == IF k <= position THEN position - k ELSE position - k + Turns

AtTree(t) == pc[t] \in {"look", "select", "take"}

Seen(t) == foundEmpty[t] \cup passed[t] \cup IF AtTree(t) THEN {tree[t]} ELSE {}

Visits(t) == IF AtTree(t) THEN turn[t] + 1 ELSE turn[t]

(* Of the trees that somebody was sent to during a call, the last ones are *)
(* the call's own or passed, and there are as many as the call has turns   *)
(* behind it.                                                              *)
SeesLastTrees(t) == \A k \in 1 .. Turns : k <= Visits(t) => Back(Position, k) \in Seen(t)

CallType ==
  /\ rotor \in 0 .. RotorSize - 1
  /\ pc \in [Creators -> {"idle", "next", "look", "select", "take", "failed"}]
  /\ turn \in [Creators -> 0 .. Turns]
  /\ tree \in [Creators -> Trees]
  /\ foundEmpty \in [Creators -> SUBSET Trees]
  /\ passed \in [Creators -> SUBSET Trees]

CallInv ==
  /\ CallType
  /\ \A t \in Creators : AtTree(t) => turn[t] < Turns
  /\ \A t \in Creators : pc[t] = "idle" => turn[t] = 0
  /\ \A t \in Creators : pc[t] # "failed" => SeesLastTrees(t)
  /\ FailureIsExplained

LEMMA TurnsType == Turns \in Nat \ {0} /\ Trees = 0 .. Turns - 1
  BY SlotAssumption DEF Turns, Trees

LEMMA RemainderUnique ==
  ASSUME NEW n \in Nat \ {0}, NEW a \in Nat, NEW q \in Nat, NEW p \in 0 .. n - 1,
         a = n * q + p
  PROVE  a % n = p
<1>1. a = n * (a \div n) + (a % n) /\ a % n \in 0 .. n - 1 /\ a \div n \in Int
  OBVIOUS
<1>2. n * (q - (a \div n)) = (a % n) - p
  BY <1>1
<1>3. CASE q - (a \div n) >= 1
  <2>1. n * (q - (a \div n)) >= n
    BY <1>1, <1>3
  <2> QED
    BY <2>1, <1>1, <1>2
<1>4. CASE q - (a \div n) <= -1
  <2>1. n * (q - (a \div n)) <= -n
    BY <1>1, <1>4
  <2> QED
    BY <2>1, <1>1, <1>2
<1>5. CASE q = a \div n
  BY <1>1, <1>2, <1>5
<1> QED
  BY <1>1, <1>3, <1>4, <1>5

(* The overflow of the rotor is no jump: the number of trees divides the   *)
(* number of its values.                                                   *)
LEMMA PositionAdvances ==
  ASSUME rotor \in 0 .. RotorSize - 1, rotor' = On(rotor)
  PROVE  /\ Position \in 0 .. Turns - 1
         /\ Position' = IF Position + 1 = Turns THEN 0 ELSE Position + 1
         /\ rotor' \in 0 .. RotorSize - 1
<1> DEFINE n == Turns
<1>1. n \in Nat \ {0} /\ RotorSize \in Nat \ {0} /\ RotorSize % n = 0
  BY TurnsType, SlotAssumption DEF Turns
<1> DEFINE p == rotor % n
           q == rotor \div n
<1>2. rotor = n * q + p /\ p \in 0 .. n - 1 /\ q \in Nat
  BY <1>1
<1>3. rotor + 1 \in Nat /\ (rotor + 1) % n = IF p + 1 = n THEN 0 ELSE p + 1
  <2>1. CASE p + 1 = n
    <3>1. rotor + 1 = n * (q + 1) + 0
      BY <1>1, <1>2, <2>1
    <3> HIDE DEF n, p, q
    <3> QED
      BY <3>1, <1>1, <1>2, <2>1, RemainderUnique
  <2>2. CASE p + 1 # n
    <3>1. rotor + 1 = n * q + (p + 1) /\ p + 1 \in 0 .. n - 1
      BY <1>1, <1>2, <2>2
    <3> HIDE DEF n, p, q
    <3> QED
      BY <3>1, <1>1, <1>2, <2>2, RemainderUnique
  <2> QED
    BY <2>1, <2>2
<1>4. rotor' = IF rotor + 1 = RotorSize THEN 0 ELSE rotor + 1
  <2>1. CASE rotor + 1 = RotorSize
    <3>1. RotorSize % RotorSize = 0
      BY <1>1, RemainderUnique, RotorSize = RotorSize * 1 + 0
    <3> QED
      BY <3>1, <2>1 DEF On
  <2>2. CASE rotor + 1 < RotorSize
    <3>1. (rotor + 1) % RotorSize = rotor + 1
      BY <1>1, <2>2, RemainderUnique, rotor + 1 = RotorSize * 0 + (rotor + 1)
    <3> QED
      BY <3>1, <2>2, <1>1 DEF On
  <2> QED
    BY <2>1, <2>2, <1>1
<1>5. 0 % n = 0
  BY <1>1, RemainderUnique, 0 = n * 0 + 0
<1>6. rotor' % n = IF p + 1 = n THEN 0 ELSE p + 1
  BY <1>1, <1>2, <1>3, <1>4, <1>5
<1>7. Position = p /\ Position' = rotor' % n
  BY DEF Position, Turns
<1> QED
  BY <1>1, <1>2, <1>4, <1>6, <1>7

LEMMA BackType ==
  ASSUME NEW position \in 0 .. Turns - 1, NEW k \in 1 .. Turns
  PROVE  Back(position, k) \in Trees
  BY TurnsType DEF Back

(* Whoever has seen as many trees as there are has seen all of them. *)
LEMMA AllTreesAreBack ==
  ASSUME NEW position \in 0 .. Turns - 1, NEW tr \in Trees
  PROVE  \E k \in 1 .. Turns : Back(position, k) = tr
<1>1. CASE tr < position
  <2>1. position - tr \in 1 .. Turns /\ Back(position, position - tr) = tr
    BY TurnsType, <1>1 DEF Back
  <2> QED
    BY <2>1
<1>2. CASE tr >= position
  <2>1. position - tr + Turns \in 1 .. Turns /\ Back(position, position - tr + Turns) = tr
    BY TurnsType, <1>2 DEF Back
  <2> QED
    BY <2>1
<1> QED
  BY TurnsType, <1>1, <1>2

LEMMA CallInit == Init => CallInv
<1> SUFFICES ASSUME Init PROVE CallInv
  OBVIOUS
<1> USE TurnsType, SlotAssumption DEF Init
<1>1. CallType
  BY DEF CallType
<1>2. \A t \in Creators : Visits(t) = 0 /\ ~AtTree(t)
  BY DEF Visits, AtTree
<1>3. \A t \in Creators : SeesLastTrees(t)
  BY <1>2 DEF SeesLastTrees
<1> QED
  BY <1>1, <1>2, <1>3 DEF CallInv, FailureIsExplained

(* Steps of others that leave the call alone. *)
LEMMA OtherCall ==
  ASSUME CallInv, NEW t \in Creators,
         pc'[t] = pc[t], turn'[t] = turn[t], tree'[t] = tree[t],
         foundEmpty'[t] = foundEmpty[t], passed'[t] = passed[t], rotor' = rotor
  PROVE  /\ AtTree(t)' => turn'[t] < Turns
         /\ pc'[t] = "idle" => turn'[t] = 0
         /\ pc'[t] # "failed" => SeesLastTrees(t)'
         /\ pc'[t] = "failed" => foundEmpty'[t] \cup passed'[t] = Trees
  BY DEF CallInv, FailureIsExplained, SeesLastTrees, Seen, Visits, AtTree, Position, Turns

(* It is enough to look at the calls one by one. *)
LEMMA CallByCall ==
  ASSUME CallType',
         \A t \in Creators :
           /\ AtTree(t)' => turn'[t] < Turns
           /\ pc'[t] = "idle" => turn'[t] = 0
           /\ pc'[t] # "failed" => SeesLastTrees(t)'
           /\ pc'[t] = "failed" => foundEmpty'[t] \cup passed'[t] = Trees
  PROVE  CallInv'
  BY DEF CallInv, FailureIsExplained, Turns, Trees

LEMMA CallNextTree ==
  ASSUME CallInv, NEW t \in Creators, NextTree(t)
  PROVE  CallInv'
<1> DEFINE here == rotor % subTreeCount(Capacity)
<1>1. CallType /\ rotor' = On(rotor)
  BY DEF CallInv, NextTree
<1>2. /\ Position \in 0 .. Turns - 1 /\ here = Position /\ here \in Trees
      /\ Position' = IF Position + 1 = Turns THEN 0 ELSE Position + 1
      /\ rotor' \in 0 .. RotorSize - 1
  BY <1>1, PositionAdvances, TurnsType DEF CallType, Position, Turns
<1>3. CallType'
  BY <1>1, <1>2 DEF NextTree, Goto, CallType
<1>4. /\ pc'[t] = "look" /\ turn'[t] = turn[t] /\ tree'[t] = here
      /\ foundEmpty'[t] = foundEmpty[t] /\ passed'[t] = passed[t]
      /\ pc[t] = "next" /\ turn[t] < Turns /\ turn[t] \in Nat
  BY <1>1 DEF NextTree, Goto, CallType
(* The tree a step goes to comes first; those that came before move one    *)
(* place back.                                                             *)
<1>5. ASSUME NEW k \in 1 .. Turns
      PROVE  \/ k = 1 /\ Back(Position', k) = here
             \/ /\ k > 1 /\ k - 1 \in 1 .. Turns
                /\ Back(Position', k) = Back(Position, k - 1)
  BY <1>2, TurnsType DEF Back
<1>6. SeesLastTrees(t)'
  <2>1. Seen(t) \subseteq Seen(t)' /\ here \in Seen(t)' /\ Visits(t)' = Visits(t) + 1
        /\ Visits(t) \in Nat
    BY <1>4 DEF Seen, Visits, AtTree
  <2>2. SeesLastTrees(t)
    BY <1>4 DEF CallInv
  <2>3. ASSUME NEW k \in 1 .. Turns, k <= Visits(t)' PROVE Back(Position', k) \in Seen(t)'
    BY <1>5, <2>1, <2>2, <2>3 DEF SeesLastTrees
  <2>4. Turns' = Turns
    BY DEF Turns
  <2> QED
    BY <2>3, <2>4 DEF SeesLastTrees, Back, Turns
<1>7. ASSUME NEW u \in Creators, u # t
      PROVE  /\ AtTree(u)' => turn'[u] < Turns
             /\ pc'[u] = "idle" => turn'[u] = 0
             /\ pc'[u] # "failed" => SeesLastTrees(u)'
             /\ pc'[u] = "failed" => foundEmpty'[u] \cup passed'[u] = Trees
  <2>1. /\ pc'[u] = pc[u] /\ turn'[u] = turn[u] /\ tree'[u] = tree[u]
        /\ foundEmpty'[u] = foundEmpty[u]
        /\ passed'[u] = IF pc[u] \in {"idle", "failed"} THEN passed[u] ELSE passed[u] \cup {here}
    BY <1>1, <1>7 DEF NextTree, Goto, CallType
  <2>2. CASE pc[u] \notin {"idle", "failed"}
    <3>1. Seen(u) \subseteq Seen(u)' /\ here \in Seen(u)' /\ Visits(u)' = Visits(u)
          /\ Visits(u) \in Nat
      BY <2>1, <2>2, <1>1 DEF Seen, Visits, AtTree, CallType
    <3>2. SeesLastTrees(u)
      BY <2>2 DEF CallInv
    <3>3. ASSUME NEW k \in 1 .. Turns, k <= Visits(u)' PROVE Back(Position', k) \in Seen(u)'
      BY <1>5, <3>1, <3>2, <3>3 DEF SeesLastTrees
    <3>4. SeesLastTrees(u)'
      BY <3>3 DEF SeesLastTrees, Back, Turns
    <3> QED
      BY <2>1, <2>2, <3>4 DEF CallInv, AtTree
  <2>3. CASE pc[u] = "idle"
    <3>1. Visits(u)' = 0
      BY <2>1, <2>3 DEF Visits, AtTree, CallInv
    <3>2. SeesLastTrees(u)'
      BY <3>1 DEF SeesLastTrees, Turns
    <3> QED
      BY <2>1, <2>3, <3>2 DEF CallInv, AtTree
  <2>4. CASE pc[u] = "failed"
    BY <2>1, <2>4 DEF CallInv, AtTree, FailureIsExplained
  <2> QED
    BY <2>2, <2>3, <2>4
<1> QED
  BY <1>3, <1>4, <1>6, <1>7, CallByCall DEF AtTree

(* A turn that is over: the tree it was at was found empty. *)
LEMMA CallTry ==
  ASSUME CallInv, NEW t \in Creators, NEW free, Try(t, free), AtTree(t),
         rotor' = rotor, tree' = tree, passed' = passed
  PROVE  CallInv'
<1>1. CallType /\ turn[t] < Turns
  BY DEF CallInv
<1>2. CallType'
  <2>1. CASE free = {}
    <3>1. turn[t] + 1 \in 0 .. Turns
      BY <1>1, TurnsType DEF CallType
    <3>2. turn' = [turn EXCEPT ![t] = turn[t] + 1]
      BY <2>1 DEF Try
    <3>3. turn' \in [Creators -> 0 .. Turns]
      BY <1>1, <3>1, <3>2 DEF CallType
    <3>4. /\ pc' \in [Creators -> {"idle", "next", "look", "select", "take", "failed"}]
          /\ foundEmpty' \in [Creators -> SUBSET Trees]
      BY <1>1, <2>1 DEF Try, Goto, CallType
    <3> QED
      BY <1>1, <3>3, <3>4 DEF CallType, Turns, Trees
  <2>2. CASE free # {}
    BY <1>1, <2>2 DEF Try, Goto, CallType
  <2> QED
    BY <2>1, <2>2
<1>3. ASSUME NEW u \in Creators, u # t
      PROVE  /\ pc'[u] = pc[u] /\ turn'[u] = turn[u] /\ tree'[u] = tree[u]
             /\ foundEmpty'[u] = foundEmpty[u] /\ passed'[u] = passed[u] /\ rotor' = rotor
  BY <1>1, <1>3 DEF Try, Goto, CallType
<1>4. Position' = Position
  BY DEF Position, Turns
<1>5. SeesLastTrees(t)
  BY DEF CallInv, AtTree
<1>6. CASE free = {}
  <2>1. /\ pc'[t] = "next" /\ turn'[t] = turn[t] + 1 /\ tree'[t] = tree[t]
        /\ foundEmpty'[t] = foundEmpty[t] \cup {tree[t]} /\ passed'[t] = passed[t]
    BY <1>1, <1>6 DEF Try, Goto, CallType
  <2>2. Visits(t)' = Visits(t) /\ Seen(t)' = Seen(t)
    BY <2>1 DEF Visits, Seen, AtTree
  <2>3. SeesLastTrees(t)'
    BY <1>4, <1>5, <2>2 DEF SeesLastTrees, Back, Turns
  <2> QED
    BY <1>2, <1>3, <2>1, <2>3, OtherCall, CallByCall DEF AtTree
<1>7. CASE free # {}
  <2>1. /\ pc'[t] = "take" /\ turn'[t] = turn[t] /\ tree'[t] = tree[t]
        /\ foundEmpty'[t] = foundEmpty[t] /\ passed'[t] = passed[t]
    BY <1>1, <1>7 DEF Try, Goto, CallType
  <2>2. Visits(t)' = Visits(t) /\ Seen(t)' = Seen(t)
    BY <2>1 DEF Visits, Seen, AtTree
  <2>3. SeesLastTrees(t)'
    BY <1>4, <1>5, <2>2 DEF SeesLastTrees, Back, Turns
  <2> QED
    BY <1>1, <1>2, <1>3, <2>1, <2>3, OtherCall, CallByCall DEF AtTree
<1> QED
  BY <1>6, <1>7

LEMMA CallLeave ==
  ASSUME CallInv, NEW t \in Creators, Leave(t), rotor' = rotor
  PROVE  CallInv'
<1>1. CallType
  BY DEF CallInv
<1>2. CallType'
  BY <1>1, TurnsType DEF Leave, Goto, CallType
<1>3. ASSUME NEW u \in Creators, u # t
      PROVE  /\ pc'[u] = pc[u] /\ turn'[u] = turn[u] /\ tree'[u] = tree[u]
             /\ foundEmpty'[u] = foundEmpty[u] /\ passed'[u] = passed[u] /\ rotor' = rotor
  BY <1>1, <1>3 DEF Leave, Goto, CallType
<1>4. pc'[t] = "idle" /\ turn'[t] = 0
  BY <1>1 DEF Leave, Goto, CallType
<1>5. SeesLastTrees(t)'
  BY <1>4 DEF SeesLastTrees, Visits, AtTree, Turns
<1> QED
  BY <1>2, <1>3, <1>4, <1>5, OtherCall, CallByCall DEF AtTree

(* Begin, Fail and the first half of Look change where the call is, and    *)
(* nothing else.                                                           *)
LEMMA CallGoto ==
  ASSUME CallInv, NEW t \in Creators, NEW to, Goto(t, to),
         UNCHANGED <<rotor, turn, tree, foundEmpty, passed>>,
         \/ pc[t] = "idle" /\ to = "next"
         \/ pc[t] = "look" /\ to = "select"
         \/ pc[t] = "next" /\ to = "failed" /\ turn[t] = Turns
  PROVE  CallInv'
<1>1. CallType
  BY DEF CallInv
<1>2. CallType' /\ pc'[t] = to
  BY <1>1 DEF Goto, CallType
<1>3. ASSUME NEW u \in Creators, u # t
      PROVE  /\ pc'[u] = pc[u] /\ turn'[u] = turn[u] /\ tree'[u] = tree[u]
             /\ foundEmpty'[u] = foundEmpty[u] /\ passed'[u] = passed[u] /\ rotor' = rotor
  BY <1>1, <1>3 DEF Goto, CallType
<1>4. SeesLastTrees(t) /\ Position' = Position
  BY DEF CallInv, Position, Turns
<1>5. CASE to # "failed"
  <2>1. Visits(t)' = Visits(t) /\ Seen(t)' = Seen(t)
    BY <1>2, <1>5 DEF Visits, Seen, AtTree
  <2>2. SeesLastTrees(t)'
    BY <1>4, <2>1 DEF SeesLastTrees, Back, Turns
  <2> QED
    BY <1>2, <1>3, <1>5, <2>2, OtherCall, CallByCall DEF AtTree, CallInv
<1>6. CASE to = "failed"
  <2>1. ASSUME NEW tr \in Trees PROVE tr \in foundEmpty[t] \cup passed[t]
    <3>1. Position \in 0 .. Turns - 1
      BY <1>1, TurnsType DEF CallType, Position
    <3>2. PICK k \in 1 .. Turns : Back(Position, k) = tr
      BY <3>1, AllTreesAreBack
    <3>3. k <= Visits(t) /\ Seen(t) = foundEmpty[t] \cup passed[t]
      BY <1>6, TurnsType DEF Visits, Seen, AtTree
    <3> QED
      BY <1>4, <3>2, <3>3 DEF SeesLastTrees
  <2>2. foundEmpty[t] \cup passed[t] = Trees
    BY <2>1, <1>1 DEF CallType
  <2> QED
    BY <1>2, <1>3, <1>6, <2>2, OtherCall, CallByCall DEF AtTree
<1> QED
  BY <1>5, <1>6

LEMMA CallNext == CallInv /\ [Next]_vars => CallInv'
<1> SUFFICES ASSUME CallInv, [Next]_vars PROVE CallInv'
  OBVIOUS
<1>1. ASSUME NEW t \in Creators, Begin(t) PROVE CallInv'
  BY <1>1, CallGoto DEF Begin
<1>2. ASSUME NEW t \in Creators, NextTree(t) PROVE CallInv'
  BY <1>2, CallNextTree
<1>3. ASSUME NEW t \in Creators, Fail(t) PROVE CallInv'
  BY <1>3, CallGoto DEF Fail
<1>4. ASSUME NEW t \in Creators, Look(t) PROVE CallInv'
  BY <1>4, CallGoto, CallTry DEF Look, AtTree
<1>5. ASSUME NEW t \in Creators, Select(t) PROVE CallInv'
  BY <1>5, CallTry DEF Select, AtTree
<1>6. ASSUME NEW t \in Creators, Take(t) PROVE CallInv'
  BY <1>6, CallTry, CallLeave DEF Take, AtTree
<1>7. ASSUME NEW t \in Creators, ReturnNothing(t) PROVE CallInv'
  BY <1>7, CallLeave DEF ReturnNothing
<1>8. ASSUME rotor' = rotor, UNCHANGED <<pc, turn, tree, foundEmpty, passed>> PROVE CallInv'
  <2>1. CallType'
    BY <1>8 DEF CallInv, CallType
  <2> QED
    BY <1>8, <2>1, OtherCall, CallByCall
<1>9. ASSUME NEW s \in Slots, Erase(s) PROVE CallInv'
  BY <1>8, <1>9 DEF Erase
<1>10. CASE UNCHANGED vars
  BY <1>8, <1>10 DEF vars
<1> QED
  BY <1>1, <1>2, <1>3, <1>4, <1>5, <1>6, <1>7, <1>9, <1>10 DEF Next, Proceed

(* create_contract() fails only if each tree was found empty by the call,  *)
(* or another creator was sent there meanwhile: with any number of         *)
(* creators, trees and overflows of the rotor.                             *)
THEOREM FailuresHaveAReason == Spec => []FailureIsExplained
<1>1. CallInv => FailureIsExplained
  BY DEF CallInv
<1> QED
  BY <1>1, CallInit, CallNext, PTL DEF Spec
=============================================================================
