------------------------- MODULE BiasSelectorProofs -------------------------
(***************************************************************************)
(* Theorems about BiasSelector for every depth and number of sub-trees:    *)
(* the selection ends at a signal that is set, and the rotation can go on. *)
(***************************************************************************)
EXTENDS BiasSelector, WellFoundedInduction, TLAPS

(* The rotation sets a bit of the hint or starts anew, whatever the        *)
(* selection added to the hint: a bias that is within the old hint is      *)
(* within the new one afterwards.                                          *)
LEMMA RotateStaysWithinHint ==
  ASSUME NEW h, hint \subseteq h, BiasWithinHint, Rotate(h)
  PROVE  bias' \subseteq h
<1>1. CASE Differing(h) = {}
  BY <1>1 DEF Rotate, NextTree
<1>2. CASE Differing(h) # {}
  <2>1. PICK b \in Differing(h) : CountOn(b)
    BY <1>2 DEF Rotate
  <2>2. b \in h
    BY <2>1 DEF Differing, BiasWithinHint
  <2> QED
    BY <2>1, <2>2 DEF CountOn, BiasWithinHint
<1> QED
  BY <1>1, <1>2

(* The bits of biasFlags are always bits of select_bias_hint, so the       *)
(* rotation never comes upon a bit it cannot get past.                     *)
THEOREM BiasStaysWithinHint == Spec => []BiasWithinHint
<1>1. Init => BiasWithinHint
  BY DEF Init, BiasWithinHint
<1>2. BiasWithinHint /\ [Next]_vars => BiasWithinHint'
  <2> SUFFICES ASSUME BiasWithinHint, [Next]_vars
               PROVE  BiasWithinHint'
    OBVIOUS
  <2>1. CASE Select
    <3> DEFINE h == HintWith(default_selector(Leaves(subTree), bias).nextBias)
    <3>1. hint' = h /\ Rotate(h)
      BY <2>1 DEF Select
    <3>2. hint \subseteq h
      BY DEF HintWith
    <3> HIDE DEF h
    <3> QED
      BY <3>1, <3>2, RotateStaysWithinHint DEF BiasWithinHint
  <2>2. CASE LookIntoEmptyTree
    BY <2>2 DEF LookIntoEmptyTree, NextTree, BiasWithinHint
  <2>3. ASSUME NEW c \in Contracts, SetSignal(c) \/ TakenByAnother(c)
        PROVE  BiasWithinHint'
    BY <2>3 DEF SetSignal, TakenByAnother, BiasWithinHint
  <2>4. ASSUME NEW found \in SUBSET Bits, ExecuteAnotherGroup(found)
        PROVE  BiasWithinHint'
    BY <2>4 DEF ExecuteAnotherGroup, HintWith, BiasWithinHint
  <2>5. CASE UNCHANGED vars
    BY <2>5 DEF vars, BiasWithinHint
  <2> QED
    BY <2>1, <2>2, <2>3, <2>4, <2>5 DEF Next, Execute
<1> QED
  BY <1>1, <1>2, PTL DEF Spec

-----------------------------------------------------------------------------
(* default_selector                                                        *)

(* Induction, for a set of numbers. *)
LEMMA NatSetInduction ==
  ASSUME NEW S \in SUBSET Nat, 0 \in S, \A n \in S : n + 1 \in S
  PROVE  S = Nat
<1> DEFINE T == Nat \ S
           R == OpToRel(<, Nat)
<1> SUFFICES ASSUME T # {} PROVE FALSE
  OBVIOUS
<1>1. PICK x \in T : \A y \in T : ~(<<y, x>> \in R)
  <2>1. IsWellFoundedOn(R, Nat)
    BY NatLessThanWellFounded
  <2> HIDE DEF R
  <2>2. T \subseteq Nat
    OBVIOUS
  <2> HIDE DEF T
  <2> QED
    BY <2>1, <2>2, WFMin
<1>2. x \in Nat /\ x # 0 /\ x - 1 \in Nat
  OBVIOUS
<1>3. <<x - 1, x>> \in R
  BY <1>2 DEF OpToRel
<1> HIDE DEF R
<1> QED
  BY <1>1, <1>2, <1>3

(* Where the selection goes from a block that begins at `above'. *)
Half(leaves, flags, above, d) ==
  IF ChooseRight(d \in flags, Block(leaves, above, d), Block(leaves, above + 2^d, d))
  THEN above + 2^d ELSE above

(* f is the way of the selection through the blocks of 2^d leaves, d in S. *)
IsWay(f, leaves, flags, S) ==
  f = [d \in S |-> IF d = Depth THEN 0 ELSE Half(leaves, flags, f[d + 1], d)]

Way(leaves, flags) == CHOOSE f : IsWay(f, leaves, flags, 0 .. Depth)

LEMMA WaySelects ==
  ASSUME NEW leaves, NEW flags
  PROVE  /\ default_selector(leaves, flags).leaf = Way(leaves, flags)[0]
         /\ default_selector(leaves, flags).nextBias \subseteq Bits
  BY DEF default_selector, Way, IsWay, Half

(* The recursion ends: the way exists, as far down as one likes. *)
LEMMA WayExists ==
  ASSUME NEW leaves, NEW flags
  PROVE  IsWay(Way(leaves, flags), leaves, flags, 0 .. Depth)
<1> DEFINE Lowest(n) == {d \in 0 .. Depth : d + n >= Depth}
           Good == {n \in Nat : \E f : IsWay(f, leaves, flags, Lowest(n))}
<1>1. 0 \in Good
  <2> DEFINE f == [d \in Lowest(0) |-> 0]
  <2>1. \A d \in Lowest(0) : d = Depth
    BY BiasAssumption
  <2>2. IsWay(f, leaves, flags, Lowest(0))
    BY <2>1 DEF IsWay
  <2> QED
    BY <2>2
<1>2. ASSUME NEW n \in Good PROVE n + 1 \in Good
  <2>1. PICK f : IsWay(f, leaves, flags, Lowest(n))
    OBVIOUS
  <2> DEFINE S == Lowest(n)
             D == Lowest(n + 1)
             g == [d \in D |-> IF d = Depth THEN 0 ELSE Half(leaves, flags, f[d + 1], d)]
  <2>2. n \in Nat /\ Depth \in Nat
    BY BiasAssumption
  <2>3. S \subseteq D /\ \A d \in D : d # Depth => d + 1 \in S
    BY <2>2
  <2>4. f = [d \in S |-> IF d = Depth THEN 0 ELSE Half(leaves, flags, f[d + 1], d)]
    BY <2>1 DEF IsWay
  <2> HIDE DEF S, D
  <2>5. \A d \in S : g[d] = f[d]
    <3>1. \A d \in S : f[d] = IF d = Depth THEN 0 ELSE Half(leaves, flags, f[d + 1], d)
      BY <2>4
    <3> QED
      BY <2>3, <3>1
  <2>6. \A d \in D : g[d] = IF d = Depth THEN 0 ELSE Half(leaves, flags, f[d + 1], d)
    OBVIOUS
  <2>7. g = [d \in D |-> g[d]]
    OBVIOUS
  <2> HIDE DEF g
  <2>8. \A d \in D : g[d] = IF d = Depth THEN 0 ELSE Half(leaves, flags, g[d + 1], d)
    BY <2>3, <2>5, <2>6
  <2>9. IsWay(g, leaves, flags, D)
    BY <2>7, <2>8, Zenon DEF IsWay
  <2> QED
    BY <2>2, <2>9 DEF D
<1>3. Good = Nat
  <2>1. Good \subseteq Nat
    OBVIOUS
  <2> HIDE DEF Good
  <2> QED
    BY <1>1, <1>2, <2>1, NatSetInduction
<1>4. Lowest(Depth) = 0 .. Depth
  BY BiasAssumption
<1>5. \E f : IsWay(f, leaves, flags, 0 .. Depth)
  <2>1. Depth \in Good
    BY <1>3, BiasAssumption
  <2> HIDE DEF Lowest
  <2> QED
    BY <1>4, <2>1
<1> QED
  BY <1>5, Zenon DEF Way

(* A block is its two halves. *)
LEMMA BlockSplits ==
  ASSUME NEW leaves, leaves \subseteq Nat, NEW d \in Bits, NEW first \in Nat
  PROVE  /\ first + 2^d \in Nat
         /\ Block(leaves, first, d + 1) =
              Block(leaves, first, d) \cup Block(leaves, first + 2^d, d)
<1>1. 2^d \in Nat /\ 2^(d + 1) = 2^d + 2^d
  BY PowersOfTwo
<1> DEFINE p == 2^d
           q == 2^(d + 1)
<1> HIDE DEF p, q
<1>2. p \in Nat /\ q = p + p
  BY <1>1 DEF p, q
<1>3. \A x \in Nat : x \in first .. first + q - 1 <=>
                     x \in first .. first + p - 1 \/ x \in first + p .. (first + p) + p - 1
  BY <1>2
<1>4. leaves \cap (first .. first + q - 1) =
        (leaves \cap (first .. first + p - 1)) \cup (leaves \cap (first + p .. (first + p) + p - 1))
  BY <1>3
<1> QED
  BY <1>2, <1>4 DEF p, q, Block

(* The selection never goes into a half with no leaf set, and so ends at   *)
(* one that is.                                                            *)
LEMMA SelectionFindsLeaf ==
  ASSUME NEW leaves, leaves \subseteq 0 .. TreeSize - 1, leaves # {}, NEW flags
  PROVE  default_selector(leaves, flags).leaf \in leaves
<1> DEFINE w == Way(leaves, flags)
           Found(d) == w[d] \in Nat /\ Block(leaves, w[d], d) # {}
           Good == {n \in Nat : n <= Depth => Found(Depth - n)}
<1>1. w = [d \in 0 .. Depth |-> IF d = Depth THEN 0 ELSE Half(leaves, flags, w[d + 1], d)]
  BY WayExists DEF IsWay
<1>2. \A d \in 0 .. Depth : w[d] = IF d = Depth THEN 0 ELSE Half(leaves, flags, w[d + 1], d)
  <2> HIDE DEF w
  <2> QED
    BY <1>1, Zenon
<1>3. Depth \in Nat \ {0} /\ leaves \subseteq Nat
  BY BiasAssumption
<1> HIDE DEF w
<1>4. 0 \in Good
  <2>1. w[Depth] = 0
    BY <1>2, <1>3
  <2>2. 2^Depth \in Nat
    <3>1. PICK d \in Bits : d + 1 = Depth
      BY <1>3 DEF Bits
    <3>2. 2^(d + 1) \in Nat
      BY PowersOfTwo
    <3> QED
      BY <3>1, <3>2
  <2>3. Block(leaves, 0, Depth) = leaves
    <3> DEFINE p == 2^Depth
    <3>1. leaves \subseteq 0 .. p - 1 /\ p \in Nat
      BY <2>2 DEF TreeSize
    <3> HIDE DEF p
    <3>2. 0 .. 0 + p - 1 = 0 .. p - 1
      BY <3>1
    <3>3. leaves \cap (0 .. 0 + p - 1) = leaves
      BY <3>1, <3>2, Zenon
    <3> QED
      BY <3>3 DEF p, Block
  <2> QED
    BY <1>3, <2>1, <2>3
<1>5. ASSUME NEW n \in Good PROVE n + 1 \in Good
  <2>1. CASE n + 1 <= Depth
    <3> DEFINE d == Depth - (n + 1)
               above == w[d + 1]
    <3>1. d \in Bits /\ d \in 0 .. Depth /\ d # Depth /\ d + 1 = Depth - n /\ n <= Depth
      BY <1>3, <2>1 DEF Bits
    <3>2. above \in Nat /\ Block(leaves, above, d + 1) # {}
      BY <3>1
    <3>3. w[d] = Half(leaves, flags, above, d)
      BY <1>2, <3>1
    <3> HIDE DEF d, above
    <3> HIDE DEF Good
    <3>4. /\ above + 2^d \in Nat
          /\ Block(leaves, above, d + 1) =
               Block(leaves, above, d) \cup Block(leaves, above + 2^d, d)
      BY <1>3, <3>1, <3>2, BlockSplits
    <3>5. Found(d)
      BY <3>2, <3>3, <3>4 DEF Half, ChooseRight
    <3> QED
      BY <3>5 DEF d, Good
  <2>2. CASE ~(n + 1 <= Depth)
    BY <2>2
  <2> QED
    BY <2>1, <2>2
<1>6. Good = Nat
  <2>1. Good \subseteq Nat
    OBVIOUS
  <2> HIDE DEF Good
  <2> QED
    BY <1>4, <1>5, <2>1, NatSetInduction
<1>7. Found(0)
  <2>1. Depth \in Good
    <3> HIDE DEF Good
    <3> QED
      BY <1>3, <1>6
  <2>2. Depth - Depth = 0 /\ Depth <= Depth
    BY <1>3
  <2> HIDE DEF Found
  <2> QED
    BY <2>1, <2>2
<1>8. w[0] \in leaves
  <2>1. 2^0 = 1
    OBVIOUS
  <2> QED
    BY <1>3, <1>7, <2>1 DEF Block
<1> QED
  BY <1>8, WaySelects DEF w

(* default_selector ends at a leaf that is set, if any is, whatever the    *)
(* bias: for trees of any depth.                                           *)
THEOREM SelectionIsSet == Spec => []SelectsSetSignal
<1>1. SelectsSetSignal
  BY SelectionFindsLeaf DEF SelectsSetSignal, Leaves
<1> QED
  BY <1>1, PTL

(* biasFlags and select_bias_hint hold bits of the selection and the index *)
(* of a sub-tree, for any depth and number of sub-trees.                   *)
THEOREM BiasTypeCorrect == Spec => []TypeOK
<1>1. Init => TypeOK
  BY BiasAssumption DEF Init, TypeOK
<1>2. TypeOK /\ [Next]_vars => TypeOK'
  <2> SUFFICES ASSUME TypeOK, [Next]_vars PROVE TypeOK'
    OBVIOUS
  <2>1. (subTree + 1) % SubTrees \in 0 .. SubTrees - 1
    BY BiasAssumption DEF TypeOK
  <2>2. ASSUME NEW h \in SUBSET Bits, Rotate(h)
        PROVE  subTree' \in 0 .. SubTrees - 1 /\ bias' \subseteq Bits
    BY <2>1, <2>2 DEF Rotate, NextTree, CountOn, Differing, TypeOK
  <2>3. CASE Select
    <3> DEFINE h == HintWith(default_selector(Leaves(subTree), bias).nextBias)
    <3>1. hint' = h /\ Rotate(h) /\ signal' \subseteq signal
      BY <2>3 DEF Select
    <3>2. h \in SUBSET Bits
      BY WaySelects DEF HintWith, TypeOK
    <3> HIDE DEF h
    <3> QED
      BY <2>2, <3>1, <3>2 DEF TypeOK
  <2>4. CASE LookIntoEmptyTree
    BY <2>1, <2>4 DEF LookIntoEmptyTree, NextTree, TypeOK
  <2>5. ASSUME NEW found \in SUBSET Bits, ExecuteAnotherGroup(found)
        PROVE  TypeOK'
    BY <2>5 DEF ExecuteAnotherGroup, HintWith, TypeOK
  <2>6. ASSUME NEW c \in Contracts, SetSignal(c) \/ TakenByAnother(c)
        PROVE  TypeOK'
    BY <2>6 DEF SetSignal, TakenByAnother, TypeOK
  <2>7. CASE UNCHANGED vars
    BY <2>7 DEF vars, TypeOK
  <2> QED
    BY <2>3, <2>4, <2>5, <2>6, <2>7 DEF Next, Execute
<1> QED
  BY <1>1, <1>2, PTL DEF Spec
=============================================================================
