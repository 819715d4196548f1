-------------------------- MODULE SignalTreeProofs --------------------------
(***************************************************************************)
(* Proofs about SignalTree: for every capacity the code accepts and any    *)
(* number of threads that set and select, the counters of the tree agree   *)
(* with each other and with the leaves, none of them overflows, and a      *)
(* select() that was let in finds a signal.                                *)
(***************************************************************************)
EXTENDS SignalTree, FiniteSetTheorems, WellFoundedInduction, TLAPS

-----------------------------------------------------------------------------
(* Arithmetic                                                              *)

(* Induction, for a set of numbers. *)
LEMMA NatSetInduction ==
  ASSUME NEW S \in SUBSET Nat, 0 \in S, \A n \in S : n + 1 \in S
  PROVE  S = Nat
<1> DEFINE T == Nat \ S
           R == OpToRel(<, Nat)
<1> SUFFICES ASSUME T # {} PROVE FALSE
  OBVIOUS
<1>1. PICK x \in T : \A y \in T : ~(<<y, x>> \in R)
  <2>1. IsWellFoundedOn(R, Nat)
    BY NatLessThanWellFounded
  <2> HIDE DEF R
  <2>2. T \subseteq Nat
    OBVIOUS
  <2> HIDE DEF T
  <2> QED
    BY <2>1, <2>2, WFMin
<1>2. x \in Nat /\ x # 0 /\ x - 1 \in Nat
  OBVIOUS
<1>3. <<x - 1, x>> \in R
  BY <1>2 DEF OpToRel
<1> HIDE DEF R
<1> QED
  BY <1>1, <1>2, <1>3

LEMMA RemainderOf ==
  ASSUME NEW n \in Nat \ {0}, NEW a \in Nat
  PROVE  /\ a \div n \in Nat /\ a % n \in 0 .. n - 1
         /\ a = (a \div n) * n + (a % n)
  OBVIOUS

LEMMA QuotientUnique ==
  ASSUME NEW n \in Nat \ {0}, NEW q \in Int, NEW r \in Int,
         NEW p \in 0 .. n - 1, NEW s \in 0 .. n - 1,
         q * n + p = r * n + s
  PROVE  q = r /\ p = s
<1>1. (q - r) * n = s - p
  OBVIOUS
<1>2. CASE q - r >= 1
  <2>1. (q - r) * n >= n
    BY <1>2
  <2> QED
    BY <1>1, <2>1
<1>3. CASE q - r <= -1
  <2>1. (q - r) * n <= -n
    BY <1>3
  <2> QED
    BY <1>1, <2>1
<1> QED
  BY <1>2, <1>3

LEMMA QuotientOf ==
  ASSUME NEW n \in Nat \ {0}, NEW a \in Nat, NEW q \in Int, NEW p \in 0 .. n - 1,
         a = q * n + p
  PROVE  a \div n = q /\ a % n = p
<1> DEFINE d == a \div n
           m == a % n
<1>1. d \in Int /\ m \in 0 .. n - 1 /\ a = d * n + m
  BY RemainderOf
<1> HIDE DEF d, m
<1>2. d = q /\ m = p
  BY <1>1, QuotientUnique
<1> QED
  BY <1>2 DEF d, m

LEMMA QuotientBound ==
  ASSUME NEW n \in Nat \ {0}, NEW a \in Nat, NEW q \in Nat, a < q * n
  PROVE  a \div n < q
<1>1. a \div n \in Nat /\ (a \div n) * n <= a
  BY RemainderOf
<1> DEFINE d == a \div n
<1>2. CASE d >= q
  <2>1. d * n = q * n + (d - q) * n /\ (d - q) * n >= 0
    BY <1>1, <1>2
  <2> QED
    BY <1>1, <2>1
<1> QED
  BY <1>1, <1>2

-----------------------------------------------------------------------------
(* The shape of the tree                                                   *)

LEMMA LevelsShape ==
  /\ TreeLevels \subseteq Nat \ {0} /\ Capacity \in TreeLevels /\ WordBits \in TreeLevels
  /\ \A l \in TreeLevels : Capacity % l = 0 /\ l >= WordBits
  /\ \A l \in InnerLevels :
       /\ Arity[l] \in Nat \ {0} /\ Below[l] \in TreeLevels /\ Below[l] # l
       /\ Arity[l] * Below[l] = l
  /\ \A l, m \in InnerLevels : Below[l] = Below[m] => l = m
  /\ \A l \in TreeLevels : l # Capacity => \E m \in InnerLevels : Below[m] = l
<1>1. Capacity \in ValidSizes
  BY SignalTreeAssumption
<1>2. /\ TreeLevels \subseteq Nat /\ \A l \in TreeLevels : l >= WordBits
      /\ Capacity \in TreeLevels /\ WordBits \in TreeLevels
      /\ \A l \in TreeLevels : Capacity % l = 0
      /\ \A l \in TreeLevels : sub_counter_arity(l) * counter_capacity(l) = l
  BY <1>1, ShapeIsSound DEF SoundShape, TreeLevels
<1>3. /\ \A l \in InnerLevels :
           /\ sub_counter_arity(l) \in Nat \ {0} /\ counter_capacity(l) \in TreeLevels \ {l}
           /\ \A m \in InnerLevels \ {l} : counter_capacity(m) # counter_capacity(l)
      /\ \A l \in TreeLevels \ {Capacity} : \E m \in InnerLevels : counter_capacity(m) = l
  BY <1>1, ShapeIsSound DEF SoundShape, TreeLevels, InnerLevels
<1>4. \A l \in InnerLevels : Arity[l] = sub_counter_arity(l) /\ Below[l] = counter_capacity(l)
  BY DEF InnerLevels, Arity, Below
<1>5. TreeLevels \subseteq Nat \ {0}
  BY <1>2 DEF WordBits
<1> QED
  BY <1>2, <1>3, <1>4, <1>5 DEF InnerLevels

LEMMA LevelTypes ==
  /\ \A l \in TreeLevels : l \in Nat \ {0}
  /\ \A l \in InnerLevels :
       /\ l \in TreeLevels /\ l \in Nat \ {0} /\ l # WordBits
       /\ Arity[l] \in Nat \ {0} /\ Below[l] \in TreeLevels /\ Below[l] \in Nat \ {0}
       /\ l = Arity[l] * Below[l] /\ Below[l] < l
<1>1. ASSUME NEW l \in InnerLevels PROVE Below[l] < l
  <2>1. Arity[l] \in Nat \ {0} /\ Below[l] \in Nat \ {0} /\ l = Arity[l] * Below[l] /\ l # Below[l]
    BY LevelsShape
  <2>2. l = Below[l] + (Arity[l] - 1) * Below[l] /\ (Arity[l] - 1) * Below[l] >= 0
    BY <2>1
  <2> QED
    BY <2>1, <2>2
<1> QED
  BY <1>1, LevelsShape DEF InnerLevels

LEMMA NodesOf ==
  ASSUME NEW l \in TreeLevels
  PROVE  /\ Capacity \div l \in Nat \ {0} /\ Capacity = (Capacity \div l) * l
         /\ Nodes(l) = 0 .. (Capacity \div l) - 1 /\ l <= Capacity
<1>1. l \in Nat \ {0} /\ Capacity \in Nat \ {0} /\ Capacity % l = 0
  BY LevelsShape, LevelTypes
<1> DEFINE q == Capacity \div l
<1>2. q \in Nat /\ Capacity = q * l
  <2>1. q \in Nat /\ Capacity = q * l + (Capacity % l)
    BY <1>1, RemainderOf
  <2> HIDE DEF q
  <2> QED
    BY <1>1, <2>1
<1>3. q # 0
  BY <1>1, <1>2
<1>4. q * l = l + (q - 1) * l /\ (q - 1) * l >= 0
  BY <1>1, <1>2, <1>3
<1> QED
  BY <1>1, <1>2, <1>3, <1>4 DEF Nodes

LEMMA RootIsOneNode == Nodes(Capacity) = {0}
<1>1. Capacity \in Nat \ {0} /\ Capacity = 1 * Capacity + 0
  BY LevelsShape, LevelTypes
<1>2. Capacity \div Capacity = 1
  BY <1>1, QuotientOf
<1> QED
  BY <1>2 DEF Nodes

(* The children of the nodes of a level are the nodes of the next, each    *)
(* the child of one.                                                       *)
LEMMA ChildNode ==
  ASSUME NEW l \in InnerLevels, NEW n \in Nodes(l), NEW k \in 0 .. Arity[l] - 1
  PROVE  /\ n * Arity[l] + k \in Nodes(Below[l])
         /\ \A m \in Nodes(l) : \A j \in 0 .. Arity[l] - 1 :
              m * Arity[l] + j = n * Arity[l] + k => m = n /\ j = k
<1> DEFINE a == Arity[l]
           b == Below[l]
           c == Capacity \div l
<1>1. a \in Nat \ {0} /\ b \in Nat \ {0} /\ l = a * b /\ l \in Nat \ {0} /\ b \in TreeLevels
      /\ l \in TreeLevels
  BY LevelTypes
<1>2. c \in Nat \ {0} /\ Capacity = c * l /\ n \in 0 .. c - 1 /\ k \in 0 .. a - 1
  BY <1>1, NodesOf
<1>3. Capacity \in Nat /\ Capacity = (c * a) * b + 0
  BY <1>1, <1>2
<1>4. Capacity \div b = c * a
  <2> HIDE DEF a, b, c
  <2>1. c * a \in Int /\ 0 \in 0 .. b - 1
    BY <1>1, <1>2
  <2> QED
    BY <1>1, <1>3, <2>1, QuotientOf
<1>5. n * a + k \in 0 .. c * a - 1
  <2>1. c * a = n * a + a + (c - 1 - n) * a /\ (c - 1 - n) * a >= 0 /\ n * a >= 0
    BY <1>1, <1>2
  <2> QED
    BY <1>1, <1>2, <2>1
<1>6. \A m \in Nodes(l) : \A j \in 0 .. a - 1 : m * a + j = n * a + k => m = n /\ j = k
  <2> SUFFICES ASSUME NEW m \in Nodes(l), NEW j \in 0 .. a - 1, m * a + j = n * a + k
               PROVE  m = n /\ j = k
    OBVIOUS
  <2>1. m \in Int /\ n \in Int
    BY <1>1, <1>2, NodesOf
  <2> HIDE DEF a
  <2> QED
    BY <1>1, <1>2, <2>1, QuotientUnique
<1> QED
  BY <1>1, <1>4, <1>5, <1>6, NodesOf

(* A signal is counted in a node by the counter of the child it is below.  *)
LEMMA CounterOfSignal ==
  ASSUME NEW i \in 0 .. Capacity - 1, NEW l \in InnerLevels
  PROVE  /\ i \div l \in Nodes(l)
         /\ (i % l) \div Below[l] \in 0 .. Arity[l] - 1
         /\ i \div Below[l] = (i \div l) * Arity[l] + ((i % l) \div Below[l])
<1> DEFINE a == Arity[l]
           b == Below[l]
           c == Capacity \div l
           n == i \div l
           r == i % l
           k == r \div b
           p == r % b
<1>1. a \in Nat \ {0} /\ b \in Nat \ {0} /\ l = a * b /\ l \in Nat \ {0} /\ l \in TreeLevels
  BY LevelTypes
<1>2. c \in Nat \ {0} /\ Capacity = c * l /\ i \in Nat /\ Nodes(l) = 0 .. c - 1
  BY <1>1, NodesOf
<1>3. n \in Nat /\ r \in 0 .. l - 1 /\ i = n * l + r /\ r \in Nat
  <2>1. n \in Nat /\ r \in 0 .. l - 1 /\ i = n * l + r
    BY <1>1, <1>2, RemainderOf
  <2> HIDE DEF r
  <2> QED
    BY <1>1, <2>1
<1>4. k \in Nat /\ p \in 0 .. b - 1 /\ r = k * b + p
  <2> HIDE DEF r, b
  <2> QED
    BY <1>1, <1>3, RemainderOf
<1>5. n < c
  <2>1. i < c * l
    BY <1>1, <1>2
  <2> HIDE DEF c
  <2> QED
    BY <1>1, <1>2, <2>1, QuotientBound
<1>6. k < a
  <2>1. r < a * b
    <3> HIDE DEF r
    <3> QED
      BY <1>1, <1>3
  <2> HIDE DEF r, b, a
  <2> QED
    BY <1>1, <1>3, <2>1, QuotientBound
<1>7. i \div b = n * a + k
  <2>1. i = (n * a + k) * b + p
    <3>1. p \in Int
      BY <1>1, <1>4
    <3> HIDE DEF a, b, n, r, k, p
    <3> QED
      BY <1>1, <1>3, <1>4, <3>1
  <2>2. n * a + k \in Int
    BY <1>1, <1>3, <1>4
  <2> HIDE DEF a, b, n, r, k, p
  <2> QED
    BY <1>1, <1>2, <1>4, <2>1, <2>2, QuotientOf
<1>8. n \in 0 .. c - 1 /\ k \in 0 .. a - 1
  <2> HIDE DEF a, c, n, k
  <2> QED
    BY <1>1, <1>2, <1>3, <1>4, <1>5, <1>6
<1> QED
  BY <1>2, <1>7, <1>8

LEMMA CountersAre ==
  /\ \A l \in InnerLevels : \A n \in Nodes(l) : \A k \in 0 .. Arity[l] - 1 : <<l, n, k>> \in Counters
  /\ \A c \in Counters : /\ c = <<c[1], c[2], c[3]>> /\ c[1] \in InnerLevels
                         /\ c[2] \in Nodes(c[1]) /\ c[3] \in 0 .. Arity[c[1]] - 1
<1>1. ASSUME NEW l \in InnerLevels, NEW n \in Nodes(l), NEW k \in 0 .. Arity[l] - 1
      PROVE  <<l, n, k>> \in Counters
  <2>1. <<l, n, k>> \in {<<l, x, y>> : x \in Nodes(l), y \in 0 .. Arity[l] - 1}
    OBVIOUS
  <2> QED
    BY <2>1 DEF Counters
<1>2. ASSUME NEW c \in Counters
      PROVE  /\ c = <<c[1], c[2], c[3]>> /\ c[1] \in InnerLevels
             /\ c[2] \in Nodes(c[1]) /\ c[3] \in 0 .. Arity[c[1]] - 1
  <2>1. PICK l \in InnerLevels : c \in {<<l, n, k>> : n \in Nodes(l), k \in 0 .. Arity[l] - 1}
    BY DEF Counters
  <2> QED
    BY <2>1
<1> QED
  BY <1>1, <1>2

(* Going up and down between the levels. *)
LEMMA AboveAndBelow ==
  /\ \A l \in TreeLevels : l # Capacity => Above(l) \in InnerLevels /\ Below[Above(l)] = l
  /\ \A m \in InnerLevels : Below[m] # Capacity /\ Above(Below[m]) = m
<1>1. ASSUME NEW l \in TreeLevels, l # Capacity
      PROVE  Above(l) \in InnerLevels /\ Below[Above(l)] = l
  <2>1. \E m \in InnerLevels : Below[m] = l
    BY <1>1, LevelsShape
  <2> QED
    BY <2>1 DEF Above
<1>2. ASSUME NEW m \in InnerLevels PROVE Below[m] # Capacity
  BY LevelTypes, NodesOf, LevelsShape
<1>3. ASSUME NEW m \in InnerLevels PROVE Above(Below[m]) = m
  BY <1>1, <1>2, LevelsShape
<1> QED
  BY <1>1, <1>2, <1>3

-----------------------------------------------------------------------------
(* Sums of counters                                                        *)

(* The content of an inner node is a fold over the numbers of its          *)
(* counters; c is the function of counters, now or after a step.           *)
SumOf(c, l, n, K) == MapThenSumSet(LAMBDA k : c[<<l, n, k>>], K)

At(c, l, n, k) == c[<<l, n, k>>]

First(s) == CHOOSE x \in s : TRUE

(* What the fold is made from: one sum per subset. *)
Sums(c, l, n, K) ==
  CHOOSE f : f = [s \in SUBSET K |->
                    IF s = {} THEN 0
                    ELSE c[<<l, n, CHOOSE x \in s : TRUE>>] + f[s \ {CHOOSE x \in s : TRUE}]]

AreSums(f, c, l, n, D) ==
  f = [s \in D |-> IF s = {} THEN 0
                   ELSE c[<<l, n, CHOOSE x \in s : TRUE>>] + f[s \ {CHOOSE x \in s : TRUE}]]

LEMMA SumIsFold ==
  ASSUME NEW c, NEW l, NEW n, NEW K
  PROVE  SumOf(c, l, n, K) = Sums(c, l, n, K)[K]
  BY DEF SumOf, MapThenSumSet, MapThenFoldSet, Sums

LEMMA SubsetsAreFinite ==
  ASSUME NEW K, IsFiniteSet(K)
  PROVE  \A s \in SUBSET K : /\ IsFiniteSet(s) /\ Cardinality(s) \in Nat
                             /\ Cardinality(s) <= Cardinality(K)
                             /\ Cardinality(s) = 0 <=> s = {}
                             /\ \A x \in s : Cardinality(s \ {x}) = Cardinality(s) - 1
  BY FS_Subset, FS_CardinalityType, FS_EmptySet, FS_RemoveElement

UpTo(K, m) == {s \in SUBSET K : Cardinality(s) <= m}

(* The sums of larger sets can be put together from those of smaller ones. *)
LEMMA SumsExist ==
  ASSUME NEW c, NEW l, NEW n, NEW K, IsFiniteSet(K)
  PROVE  \E f : AreSums(f, c, l, n, SUBSET K)
<1> DEFINE Good == {m \in Nat : \E f : AreSums(f, c, l, n, UpTo(K, m))}
<1>1. 0 \in Good
  <2> DEFINE f == [s \in UpTo(K, 0) |-> 0]
  <2>1. UpTo(K, 0) = {{}}
    BY SubsetsAreFinite DEF UpTo
  <2>2. AreSums(f, c, l, n, UpTo(K, 0))
    BY <2>1 DEF AreSums
  <2> QED
    BY <2>2
<1>2. ASSUME NEW m \in Good PROVE m + 1 \in Good
  <2>1. PICK f : AreSums(f, c, l, n, UpTo(K, m))
    OBVIOUS
  <2> DEFINE D == UpTo(K, m + 1)
             g == [s \in D |-> IF s = {} THEN 0
                               ELSE c[<<l, n, CHOOSE x \in s : TRUE>>]
                                      + f[s \ {CHOOSE x \in s : TRUE}]]
  <2>2. ASSUME NEW s \in D, s # {} PROVE s \ {CHOOSE x \in s : TRUE} \in UpTo(K, m)
    <3> DEFINE x == CHOOSE x \in s : TRUE
    <3>1. x \in s /\ s \in SUBSET K /\ Cardinality(s) <= m + 1 /\ m \in Nat
      BY <2>2 DEF UpTo
    <3>2. Cardinality(s \ {x}) = Cardinality(s) - 1 /\ Cardinality(s) \in Nat
      BY <3>1, SubsetsAreFinite
    <3> QED
      BY <3>1, <3>2 DEF UpTo
  <2>3. ASSUME NEW s \in UpTo(K, m) PROVE g[s] = f[s]
    <3>1. s \in D
      BY SubsetsAreFinite DEF UpTo
    <3> QED
      BY <2>1, <3>1 DEF AreSums
  <2>4. ASSUME NEW s \in D
        PROVE  g[s] = IF s = {} THEN 0
                      ELSE c[<<l, n, CHOOSE x \in s : TRUE>>] + g[s \ {CHOOSE x \in s : TRUE}]
    <3> DEFINE r == s \ {CHOOSE x \in s : TRUE}
    <3>1. g[s] = IF s = {} THEN 0 ELSE c[<<l, n, CHOOSE x \in s : TRUE>>] + f[r]
      OBVIOUS
    <3>2. s # {} => g[r] = f[r]
      <4> HIDE DEF g
      <4> QED
        BY <2>2, <2>3
    <3> HIDE DEF g, r
    <3>3. g[s] = IF s = {} THEN 0 ELSE c[<<l, n, CHOOSE x \in s : TRUE>>] + g[r]
      BY <3>1, <3>2
    <3> USE DEF r
    <3> QED
      BY <3>3
  <2>5. g = [s \in D |-> g[s]]
    OBVIOUS
  <2>6. AreSums(g, c, l, n, D)
    <3> HIDE DEF g, D
    <3> QED
      BY <2>4, <2>5, Zenon DEF AreSums
  <2> QED
    BY <2>6
<1>3. Good = Nat
  <2>1. Good \subseteq Nat
    OBVIOUS
  <2> HIDE DEF Good
  <2> QED
    BY <1>1, <1>2, <2>1, NatSetInduction
<1>4. Cardinality(K) \in Good
  BY <1>3, FS_CardinalityType
<1>5. UpTo(K, Cardinality(K)) = SUBSET K
  BY SubsetsAreFinite DEF UpTo
<1> QED
  BY <1>4, <1>5

LEMMA SumsEquation ==
  ASSUME NEW c, NEW l, NEW n, NEW K, IsFiniteSet(K)
  PROVE  /\ Sums(c, l, n, K)[{}] = 0
         /\ \A s \in SUBSET K : s # {} =>
              /\ First(s) \in s /\ s \ {First(s)} \in SUBSET K
              /\ Sums(c, l, n, K)[s] = c[<<l, n, First(s)>>] + Sums(c, l, n, K)[s \ {First(s)}]
<1>1. \E f : AreSums(f, c, l, n, SUBSET K)
  BY SumsExist
<1>2. AreSums(Sums(c, l, n, K), c, l, n, SUBSET K)
  BY <1>1, Zenon DEF AreSums, Sums
<1> DEFINE f == Sums(c, l, n, K)
<1>3. f = [s \in SUBSET K |-> IF s = {} THEN 0 ELSE c[<<l, n, First(s)>>] + f[s \ {First(s)}]]
  BY <1>2, Zenon DEF AreSums, First
<1> HIDE DEF f
<1>4. \A s \in SUBSET K : f[s] = IF s = {} THEN 0 ELSE c[<<l, n, First(s)>>] + f[s \ {First(s)}]
  BY <1>3, Zenon
<1>5. \A s \in SUBSET K : s # {} => First(s) \in s
  BY DEF First
<1> QED
  BY <1>4, <1>5 DEF f

LEMMA SumsOfNone ==
  ASSUME NEW c, NEW l, NEW n, NEW K, IsFiniteSet(K)
  PROVE  Sums(c, l, n, K)[{}] = 0
  BY SumsEquation

LEMMA SumsOfMore ==
  ASSUME NEW c, NEW l, NEW n, NEW K, IsFiniteSet(K), NEW s \in SUBSET K, s # {}
  PROVE  Sums(c, l, n, K)[s] = At(c, l, n, First(s)) + Sums(c, l, n, K)[s \ {First(s)}]
  BY SumsEquation DEF At

(* Induction over the subsets of a finite set, along First. *)
LEMMA SubsetInduction ==
  ASSUME NEW K, IsFiniteSet(K), NEW P \in SUBSET SUBSET K, {} \in P,
         \A s \in SUBSET K : s # {} /\ s \ {First(s)} \in P => s \in P
  PROVE  K \in P
<1> DEFINE Good == {m \in Nat : UpTo(K, m) \subseteq P}
<1>1. 0 \in Good
  <2>1. UpTo(K, 0) = {{}}
    BY SubsetsAreFinite DEF UpTo
  <2> QED
    BY <2>1
<1>2. ASSUME NEW m \in Good PROVE m + 1 \in Good
  <2>1. ASSUME NEW s \in UpTo(K, m + 1) PROVE s \in P
    <3>1. CASE s = {}
      BY <3>1
    <3>2. CASE s # {}
      <4>1. First(s) \in s /\ s \in SUBSET K /\ m \in Nat /\ Cardinality(s) <= m + 1
        BY <3>2 DEF First, UpTo
      <4>2. Cardinality(s \ {First(s)}) = Cardinality(s) - 1 /\ Cardinality(s) \in Nat
        BY <4>1, SubsetsAreFinite
      <4>3. s \ {First(s)} \in UpTo(K, m)
        BY <4>1, <4>2 DEF UpTo
      <4> QED
        BY <3>2, <4>1, <4>3
    <3> QED
      BY <3>1, <3>2
  <2> QED
    BY <2>1
<1>3. Good = Nat
  <2>1. Good \subseteq Nat
    OBVIOUS
  <2> HIDE DEF Good
  <2> QED
    BY <1>1, <1>2, <2>1, NatSetInduction
<1>4. Cardinality(K) \in Good /\ K \in UpTo(K, Cardinality(K))
  BY <1>3, FS_CardinalityType, SubsetsAreFinite DEF UpTo
<1> QED
  BY <1>4

LEMMA SumType ==
  ASSUME NEW c, NEW l, NEW n, NEW K, IsFiniteSet(K),
         \A k \in K : At(c, l, n, k) \in Nat
  PROVE  SumOf(c, l, n, K) \in Nat
<1> DEFINE f == Sums(c, l, n, K)
           P == {s \in SUBSET K : f[s] \in Nat}
<1>1. {} \in P
  BY SumsOfNone
<1>2. ASSUME NEW s \in SUBSET K, s # {}, s \ {First(s)} \in P PROVE s \in P
  <2>1. f[s] = At(c, l, n, First(s)) + f[s \ {First(s)}]
    BY <1>2, SumsOfMore
  <2>2. At(c, l, n, First(s)) \in Nat /\ f[s \ {First(s)}] \in Nat
    BY <1>2 DEF First
  <2> HIDE DEF f
  <2>3. f[s] \in Nat
    BY <2>1, <2>2
  <2> QED
    BY <2>3
<1>3. K \in P
  <2>1. P \in SUBSET SUBSET K
    OBVIOUS
  <2> HIDE DEF P
  <2> QED
    BY <1>1, <1>2, <2>1, SubsetInduction
<1> QED
  BY <1>3, SumIsFold

(* A sum follows its summands: no change, or a change in one of them. *)
LEMMA SumChanges ==
  ASSUME NEW c, NEW d, NEW l, NEW n, NEW K, IsFiniteSet(K), NEW j, NEW by \in Int,
         \A k \in K : At(c, l, n, k) \in Nat,
         \A k \in K : At(d, l, n, k) = IF k = j THEN At(c, l, n, k) + by ELSE At(c, l, n, k)
  PROVE  SumOf(d, l, n, K) = IF j \in K THEN SumOf(c, l, n, K) + by ELSE SumOf(c, l, n, K)
<1> DEFINE f == Sums(c, l, n, K)
           g == Sums(d, l, n, K)
           P == {s \in SUBSET K : /\ f[s] \in Int
                                  /\ g[s] = IF j \in s THEN f[s] + by ELSE f[s]}
<1>1. {} \in P
  <2>1. f[{}] = 0 /\ g[{}] = 0
    BY SumsOfNone
  <2> QED
    BY <2>1
<1>2. ASSUME NEW s \in SUBSET K, s # {}, s \ {First(s)} \in P PROVE s \in P
  <2> DEFINE x == First(s)
             r == s \ {x}
  <2>1. f[s] = At(c, l, n, x) + f[r]
    BY <1>2, SumsOfMore
  <2>2. g[s] = At(d, l, n, x) + g[r]
    BY <1>2, SumsOfMore
  <2>3. x \in s /\ x \in K
    BY <1>2 DEF First
  <2>4. f[r] \in Int /\ g[r] = IF j \in r THEN f[r] + by ELSE f[r]
    BY <1>2
  <2>5. At(c, l, n, x) \in Nat
        /\ At(d, l, n, x) = IF x = j THEN At(c, l, n, x) + by ELSE At(c, l, n, x)
    BY <2>3
  <2>6. (j \in s <=> j = x \/ j \in r) /\ x \notin r
    BY <2>3
  <2>7. f[s] \in Int /\ g[s] = IF j \in s THEN f[s] + by ELSE f[s]
    <3> HIDE DEF f, g, r, x
    <3> QED
      BY <2>1, <2>2, <2>4, <2>5, <2>6
  <2> QED
    BY <2>7
<1>3. K \in P
  <2>1. P \in SUBSET SUBSET K
    OBVIOUS
  <2> HIDE DEF P
  <2> QED
    BY <1>1, <1>2, <2>1, SubsetInduction
<1> QED
  BY <1>3, SumIsFold

LEMMA SumZero ==
  ASSUME NEW c, NEW l, NEW n, NEW K, IsFiniteSet(K),
         \A k \in K : At(c, l, n, k) = 0
  PROVE  SumOf(c, l, n, K) = 0
<1> DEFINE f == Sums(c, l, n, K)
           P == {s \in SUBSET K : f[s] = 0}
<1>1. {} \in P
  BY SumsOfNone
<1>2. ASSUME NEW s \in SUBSET K, s # {}, s \ {First(s)} \in P PROVE s \in P
  <2>1. f[s] = At(c, l, n, First(s)) + f[s \ {First(s)}]
    BY <1>2, SumsOfMore
  <2>2. At(c, l, n, First(s)) = 0 /\ f[s \ {First(s)}] = 0
    BY <1>2 DEF First
  <2> HIDE DEF f
  <2>3. f[s] = 0
    BY <2>1, <2>2
  <2> QED
    BY <2>3
<1>3. K \in P
  <2>1. P \in SUBSET SUBSET K
    OBVIOUS
  <2> HIDE DEF P
  <2> QED
    BY <1>1, <1>2, <2>1, SubsetInduction
<1> QED
  BY <1>3, SumIsFold

(* Counters that are no larger than disjoint sets add up to no more than   *)
(* there is in the sets together.                                          *)
LEMMA SumBound ==
  ASSUME NEW c, NEW l, NEW n, NEW K, IsFiniteSet(K), NEW S, IsFiniteSet(S),
         NEW part,
         \A k \in K : At(c, l, n, k) \in Nat,
         \A k \in K : At(c, l, n, k) <= Cardinality({i \in S : part[i] = k})
  PROVE  SumOf(c, l, n, K) <= Cardinality({i \in S : part[i] \in K})
<1> DEFINE f == Sums(c, l, n, K)
           In(s) == {i \in S : part[i] \in s}
           P == {s \in SUBSET K : f[s] \in Nat /\ f[s] <= Cardinality(In(s))}
<1>1. \A s : IsFiniteSet(In(s)) /\ Cardinality(In(s)) \in Nat
  BY FS_Subset, FS_CardinalityType
<1>2. {} \in P
  <2>1. f[{}] = 0
    BY SumsOfNone
  <2>2. Cardinality(In({})) \in Nat
    BY <1>1
  <2> HIDE DEF In, f
  <2> QED
    BY <2>1, <2>2
<1>3. ASSUME NEW s \in SUBSET K, s # {}, s \ {First(s)} \in P PROVE s \in P
  <2> DEFINE x == First(s)
             r == s \ {x}
             X == {i \in S : part[i] = x}
  <2>1. f[s] = At(c, l, n, x) + f[r]
    BY <1>3, SumsOfMore
  <2>2. x \in s /\ x \in K
    BY <1>3 DEF First
  <2>3. f[r] \in Nat /\ f[r] <= Cardinality(In(r))
    BY <1>3
  <2>4. At(c, l, n, x) \in Nat /\ At(c, l, n, x) <= Cardinality(X)
    BY <2>2
  <2>5. In(s) = In(r) \cup X /\ In(r) \cap X = {}
    BY <2>2
  <2>6. IsFiniteSet(X) /\ Cardinality(X) \in Nat
    BY FS_Subset, FS_CardinalityType
  <2>7. IsFiniteSet(In(r)) /\ Cardinality(In(r)) \in Nat
    BY <1>1
  <2>8. Cardinality(In(s)) = Cardinality(In(r)) + Cardinality(X)
    <3>1. Cardinality({}) = 0
      BY FS_EmptySet
    <3> HIDE DEF In, X
    <3>2. Cardinality(In(r) \cup X) = Cardinality(In(r)) + Cardinality(X) - Cardinality(In(r) \cap X)
      BY <2>6, <2>7, FS_Union
    <3>3. Cardinality(In(s)) = Cardinality(In(r) \cup X)
      BY <2>5, Zenon
    <3>4. Cardinality(In(r) \cap X) = 0
      BY <2>5, <3>1, Zenon
    <3> HIDE DEF r
    <3> QED
      BY <2>6, <2>7, <3>2, <3>3, <3>4
  <2>9. f[s] \in Nat /\ f[s] <= Cardinality(In(s))
    <3> HIDE DEF f, r, x, X, In
    <3> QED
      BY <2>1, <2>3, <2>4, <2>6, <2>7, <2>8
  <2> QED
    BY <2>9
<1>4. K \in P
  <2>1. P \in SUBSET SUBSET K
    OBVIOUS
  <2> HIDE DEF P
  <2> QED
    BY <1>2, <1>3, <2>1, SubsetInduction
<1> QED
  BY <1>4, SumIsFold

-----------------------------------------------------------------------------
(* Types                                                                   *)

(* Setters go from counter to counter of their signal; the index and the   *)
(* node of a selector say the same.                                        *)
TreeTypes ==
  /\ TypeOK
  /\ node \in [Threads -> Nat]
  /\ \A t \in Setters : node[t] = 0
  /\ \A t \in Setters : climbs[t] => level[t] \in InnerLevels /\ index[t] \in Indices
  /\ \A t \in Selectors : index[t] = node[t] * level[t]

LEMMA ThreadTypes ==
  /\ Setters \subseteq Threads /\ Selectors \subseteq Threads
  /\ \A t \in Threads : t \in Setters <=> t \notin Selectors
  BY SignalTreeAssumption DEF Threads

LEMMA ZeroIsANode == \A l \in TreeLevels : 0 \in Nodes(l)
  BY NodesOf

LEMMA CapacityIsNat == Capacity \in Nat \ {0} /\ 0 \in 0 .. Capacity - 1
  BY LevelsShape

LEMMA TypesInit == Init => TreeTypes
<1> SUFFICES ASSUME Init PROVE TreeTypes
  OBVIOUS
<1> USE ThreadTypes, LevelsShape, ZeroIsANode, CapacityIsNat, SignalTreeAssumption DEF Init
<1>1. count \in [Counters -> Nat]
  OBVIOUS
<1>2. level \in [Threads -> TreeLevels] /\ \A t \in Threads : node[t] = 0 /\ index[t] = 0
  OBVIOUS
<1>3. TypeOK
  BY <1>1, <1>2 DEF TypeOK
<1> QED
  BY <1>2, <1>3 DEF TreeTypes

(* Setting a leaf, and what TypeOK needs of the parts.                     *)
LEMMA TypesSetLeaf ==
  ASSUME TreeTypes, NEW t \in Setters, NEW i \in Indices, SetLeaf(t, i)
  PROVE  TreeTypes'
<1> USE ThreadTypes DEF TreeTypes, TypeOK
<1>1. signal' \subseteq Indices /\ sets' \in 0 .. MaxSets /\ UNCHANGED <<count, node>>
  BY SignalTreeAssumption DEF SetLeaf
<1>2. CASE UNCHANGED <<climbs, level, index>>
  BY <1>1, <1>2
<1>3. CASE /\ ~IsLeaf(Capacity)
           /\ climbs' = [climbs EXCEPT ![t] = TRUE]
           /\ level' = [level EXCEPT ![t] = FirstCounted]
           /\ index' = [index EXCEPT ![t] = i]
  <2>1. FirstCounted \in InnerLevels
    BY <1>3, LevelsShape, AboveAndBelow DEF FirstCounted, IsLeaf
  <2>2. FirstCounted \in TreeLevels /\ i \in 0 .. Capacity - 1
    BY <2>1, LevelTypes, SignalTreeAssumption
  <2>3. /\ climbs' \in [Setters -> BOOLEAN] /\ level' \in [Threads -> TreeLevels]
        /\ index' \in [Threads -> 0 .. Capacity - 1]
    BY <1>3, <2>2
  <2>4. \A u \in Threads : u # t => level'[u] = level[u] /\ index'[u] = index[u]
    BY <1>3
  <2>5. \A u \in Setters : u # t => climbs'[u] = climbs[u]
    BY <1>3
  <2>6. level'[t] = FirstCounted /\ index'[t] = i
    BY <1>3
  <2>7. \A u \in Threads : node'[u] \in Nodes(level'[u])
    BY <1>1, <2>2, <2>4, <2>6, ZeroIsANode
  <2>8. TypeOK'
    BY <1>1, <2>3, <2>7
  <2>9. \A u \in Selectors : index'[u] = node'[u] * level'[u]
    BY <1>1, <2>4
  <2>10. \A u \in Setters : climbs'[u] => level'[u] \in InnerLevels /\ index'[u] \in Indices
    BY <2>1, <2>4, <2>5, <2>6
  <2> QED
    BY <1>1, <2>8, <2>9, <2>10
<1> QED
  BY <1>2, <1>3 DEF SetLeaf

LEMMA TypesCount ==
  ASSUME TreeTypes, NEW t \in Setters, Count(t)
  PROVE  TreeTypes'
<1> USE ThreadTypes DEF TreeTypes, TypeOK
<1> DEFINE L == level[t]
           c == CounterOf(L, index[t])
<1>1. L \in InnerLevels /\ index[t] \in Indices /\ index[t] \in 0 .. Capacity - 1
  BY SignalTreeAssumption DEF Count
<1>2. c \in Counters
  BY <1>1, CounterOfSignal, CountersAre DEF CounterOf
<1>3. count' \in [Counters -> Nat]
  <2>1. count' = [count EXCEPT ![c] = @ + 1]
    BY DEF Count
  <2> HIDE DEF c
  <2> QED
    BY <1>2, <2>1
<1> DEFINE to == IF Returns(L) THEN WordBits ELSE Above(L)
<1>4. level' = [level EXCEPT ![t] = to] /\ climbs' = [climbs EXCEPT ![t] = ~Returns(L)]
      /\ UNCHANGED <<signal, node, index, sets>>
  BY DEF Count
<1>5. to \in TreeLevels /\ (~Returns(L) => to \in InnerLevels)
  BY <1>1, LevelsShape, LevelTypes, AboveAndBelow DEF Returns
<1> HIDE DEF to
<1>6. level' \in [Threads -> TreeLevels] /\ climbs' \in [Setters -> BOOLEAN]
  BY <1>4, <1>5 DEF Returns
<1>7. \A u \in Threads : level'[u] = IF u = t THEN to ELSE level[u]
  BY <1>4
<1>8. \A u \in Setters : climbs'[u] = IF u = t THEN ~Returns(L) ELSE climbs[u]
  BY <1>4
<1>9. \A u \in Threads : node'[u] \in Nodes(level'[u])
  BY <1>4, <1>5, <1>7, ZeroIsANode
<1>10. \A u \in Setters : climbs'[u] => level'[u] \in InnerLevels /\ index'[u] \in Indices
  BY <1>1, <1>4, <1>5, <1>7, <1>8
<1>11. \A u \in Selectors : index'[u] = node'[u] * level'[u]
  BY <1>4, <1>7
<1> QED
  BY <1>3, <1>4, <1>6, <1>9, <1>10, <1>11

LEMMA TypesTakeCount ==
  ASSUME TreeTypes, NEW t \in Selectors, TakeCount(t)
  PROVE  TreeTypes'
<1> USE ThreadTypes DEF TreeTypes, TypeOK
<1> DEFINE l == level[t]
           n == node[t]
<1>1. PICK k \in NonZero(l, n) :
        /\ ~IsLeaf(l)
        /\ count' = [count EXCEPT ![<<l, n, k>>] = @ - 1]
        /\ level' = [level EXCEPT ![t] = Below[l]]
        /\ node' = [node EXCEPT ![t] = n * Arity[l] + k]
        /\ index' = [index EXCEPT ![t] = @ + k * Below[l]]
        /\ UNCHANGED <<signal, climbs, sets>>
  BY DEF TakeCount, Choosable, IndexPart
<1>2. l \in InnerLevels /\ n \in Nodes(l) /\ k \in 0 .. Arity[l] - 1 /\ count[<<l, n, k>>] > 0
  BY <1>1 DEF NonZero, InnerLevels, IsLeaf
<1>3. <<l, n, k>> \in Counters
  BY <1>2, CountersAre
<1>4. count' \in [Counters -> Nat]
  <2> DEFINE c == <<l, n, k>>
  <2>1. count' = [count EXCEPT ![c] = @ - 1] /\ count[c] \in Nat /\ count[c] > 0 /\ c \in Counters
    BY <1>1, <1>2, <1>3
  <2> HIDE DEF c
  <2> QED
    BY <2>1
<1> DEFINE a == Arity[l]
           b == Below[l]
           m == n * a + k
<1>5. a \in Nat \ {0} /\ b \in TreeLevels /\ b \in Nat \ {0} /\ l = a * b /\ m \in Nodes(b)
      /\ n \in Nat /\ k \in Nat /\ m \in Nat
  <2>1. a \in Nat \ {0} /\ b \in TreeLevels /\ b \in Nat \ {0} /\ l = a * b /\ l \in TreeLevels
    BY <1>2, LevelTypes
  <2>2. m \in Nodes(b)
    BY <1>2, ChildNode
  <2>3. n \in Nat /\ k \in Nat
    BY <1>2, <2>1, NodesOf
  <2>4. m \in Nat
    <3> HIDE DEF m, b
    <3>1. Capacity \div b \in Nat /\ m \in 0 .. (Capacity \div b) - 1
      BY <2>1, <2>2, NodesOf
    <3> QED
      BY <3>1
  <2> QED
    BY <2>1, <2>2, <2>3, <2>4
<1>6. index[t] = n * l
  OBVIOUS
<1>7. index[t] + k * b = m * b
  <2> HIDE DEF a, b, n, l
  <2> QED
    BY <1>5, <1>6
<1>8. m * b \in 0 .. Capacity - 1
  <2> DEFINE q == Capacity \div b
  <2>1. q \in Nat \ {0} /\ Capacity = q * b /\ m \in 0 .. q - 1
    BY <1>5, NodesOf
  <2> HIDE DEF q, b, m
  <2>2. q * b = m * b + b + (q - 1 - m) * b /\ (q - 1 - m) * b >= 0 /\ m * b >= 0
    BY <1>5, <2>1
  <2> QED
    BY <1>5, <2>1, <2>2
<1>9. /\ \A u \in Threads : level'[u] = IF u = t THEN b ELSE level[u]
      /\ \A u \in Threads : index'[u] = IF u = t THEN m * b ELSE index[u]
  BY <1>1, <1>7
<1>10. \A u \in Threads : node'[u] = IF u = t THEN m ELSE node[u]
  <2>1. node' = [node EXCEPT ![t] = m]
    BY <1>1
  <2> HIDE DEF m
  <2> QED
    BY <2>1
<1>11. /\ level' \in [Threads -> TreeLevels] /\ index' \in [Threads -> 0 .. Capacity - 1]
       /\ node' \in [Threads -> Nat]
  <2>1. index' = [index EXCEPT ![t] = m * b] /\ level' = [level EXCEPT ![t] = b]
        /\ node' = [node EXCEPT ![t] = m]
    BY <1>1, <1>7
  <2> HIDE DEF m, b
  <2> QED
    BY <1>5, <1>8, <2>1
<1>12. \A u \in Threads : node'[u] \in Nodes(level'[u])
  BY <1>5, <1>9, <1>10
<1>13. \A u \in Setters : node'[u] = 0 /\ level'[u] = level[u] /\ index'[u] = index[u]
  BY <1>9, <1>10
<1>14. \A u \in Selectors : index'[u] = node'[u] * level'[u]
  <2> HIDE DEF m, b
  <2> QED
    BY <1>9, <1>10
<1> QED
  BY <1>1, <1>4, <1>11, <1>12, <1>13, <1>14

LEMMA TypesTakeSignal ==
  ASSUME TreeTypes, NEW t \in Selectors, TakeSignal(t)
  PROVE  TreeTypes'
<1> USE ThreadTypes, CapacityIsNat DEF TreeTypes, TypeOK
<1>1. /\ level' = [level EXCEPT ![t] = Capacity] /\ node' = [node EXCEPT ![t] = 0]
      /\ index' = [index EXCEPT ![t] = 0] /\ UNCHANGED <<count, climbs, sets>>
      /\ signal' \subseteq Indices
  BY DEF TakeSignal
<1>2. /\ level' \in [Threads -> TreeLevels] /\ node' \in [Threads -> Nat]
      /\ index' \in [Threads -> 0 .. Capacity - 1]
  BY <1>1, LevelsShape
<1>3. \A u \in Threads : /\ level'[u] = IF u = t THEN Capacity ELSE level[u]
                         /\ node'[u] = IF u = t THEN 0 ELSE node[u]
                         /\ index'[u] = IF u = t THEN 0 ELSE index[u]
  BY <1>1
<1>4. \A u \in Threads : node'[u] \in Nodes(level'[u])
  BY <1>3, LevelsShape, ZeroIsANode
<1>5. \A u \in Selectors : index'[u] = node'[u] * level'[u]
  BY <1>3
<1> QED
  BY <1>1, <1>2, <1>3, <1>4, <1>5

LEMMA TypesNext == TreeTypes /\ [Next]_vars => TreeTypes'
<1> SUFFICES ASSUME TreeTypes, [Next]_vars PROVE TreeTypes'
  OBVIOUS
<1>1. CASE UNCHANGED vars
  BY <1>1 DEF vars, TreeTypes, TypeOK
<1>2. ASSUME NEW t \in Setters, Setter(t) PROVE TreeTypes'
  BY <1>2, TypesSetLeaf, TypesCount DEF Setter
<1>3. ASSUME NEW t \in Selectors, Selector(t) PROVE TreeTypes'
  BY <1>1, <1>3, TypesTakeCount, TypesTakeSignal DEF Selector, SelectNothing
<1> QED
  BY <1>1, <1>2, <1>3 DEF Next

(* No counter is ever decremented below zero, and the threads stay in the  *)
(* tree.                                                                   *)
THEOREM TypesAreRight == Spec => []TypeOK
<1>1. TreeTypes => TypeOK
  BY DEF TreeTypes
<1> QED
  BY <1>1, TypesInit, TypesNext, PTL DEF Spec

(* The index select() has put together names the node it is in. *)
THEOREM IndexIsRight == Spec => []IndexNamesNode
<1>1. TreeTypes => IndexNamesNode
  BY DEF TreeTypes, IndexNamesNode
<1> QED
  BY <1>1, TypesInit, TypesNext, PTL DEF Spec

-----------------------------------------------------------------------------
(* Between the levels                                                      *)

Climbers(l, n)   == Cardinality(Climbing(l, n))
Descenders(l, n) == Cardinality(Descending(l, n))

(* LevelsAgree for one counter. *)
Agrees(l, n, k) ==
  Content(Below[l], n * Arity[l] + k) =
    At(count, l, n, k) + Climbers(Below[l], n * Arity[l] + k)
                       + Descenders(Below[l], n * Arity[l] + k)

LEMMA LevelsAgreeIs ==
  /\ LevelsAgree <=> \A l \in InnerLevels : \A n \in Nodes(l) : \A k \in 0 .. Arity[l] - 1 :
                       Agrees(l, n, k)
  /\ LevelsAgree' <=> \A l \in InnerLevels : \A n \in Nodes(l) : \A k \in 0 .. Arity[l] - 1 :
                        Agrees(l, n, k)'
  BY DEF LevelsAgree, Agrees, Climbers, Descenders, At

LEMMA ThreadSetsAreFinite ==
  ASSUME NEW T \in SUBSET Threads
  PROVE  /\ IsFiniteSet(T) /\ Cardinality(T) \in Nat
         /\ \A t : t \notin T => Cardinality(T \cup {t}) = Cardinality(T) + 1
         /\ \A t \in T : Cardinality(T \ {t}) = Cardinality(T) - 1
  BY SignalTreeAssumption, FS_Subset, FS_CardinalityType, FS_AddElement, FS_RemoveElement

LEMMA ClimbingAndDescending ==
  ASSUME NEW l, NEW n
  PROVE  /\ Climbing(l, n) \in SUBSET Threads /\ Descending(l, n) \in SUBSET Threads
         /\ Climbing(l, n)' \in SUBSET Threads /\ Descending(l, n)' \in SUBSET Threads
         /\ Climbers(l, n) \in Nat /\ Descenders(l, n) \in Nat
  BY ThreadTypes, ThreadSetsAreFinite DEF Climbing, Descending, Climbers, Descenders

LEMMA ContentOfInner ==
  ASSUME NEW l \in InnerLevels, NEW n
  PROVE  /\ Content(l, n) = SumOf(count, l, n, 0 .. Arity[l] - 1)
         /\ Content(l, n)' = SumOf(count', l, n, 0 .. Arity[l] - 1)
<1>1. ~IsLeaf(l)
  BY DEF InnerLevels, IsLeaf
<1>2. Content(l, n) = SumOf(count, l, n, 0 .. Arity[l] - 1)
  BY <1>1 DEF Content, SumOf, MapThenSumSet, MapThenFoldSet
<1>3. Content(l, n)' = SumOf(count', l, n, 0 .. Arity[l] - 1)
  BY <1>1 DEF Content, SumOf, MapThenSumSet, MapThenFoldSet
<1> QED
  BY <1>2, <1>3

LEMMA ContentOfLeaf ==
  ASSUME NEW n
  PROVE  /\ Content(WordBits, n) = Cardinality(Leaf(n))
         /\ Content(WordBits, n)' = Cardinality(Leaf(n)')
  BY DEF Content, IsLeaf

CountBecomes(L, N, J, by) == count' = [count EXCEPT ![<<L, N, J>>] = count[<<L, N, J>>] + by]

(* A change of one counter shows in the content of its node and nowhere    *)
(* else.                                                                   *)
LEMMA ContentChanges ==
  ASSUME TypeOK, NEW L \in InnerLevels, NEW N \in Nodes(L), NEW J \in 0 .. Arity[L] - 1,
         NEW by \in Int, CountBecomes(L, N, J, by),
         NEW l \in InnerLevels, NEW n \in Nodes(l)
  PROVE  /\ Content(l, n)' = IF l = L /\ n = N THEN Content(l, n) + by ELSE Content(l, n)
         /\ Content(l, n) \in Nat
         /\ \A k \in 0 .. Arity[l] - 1 :
              /\ At(count, l, n, k) \in Nat
              /\ At(count', l, n, k) = IF l = L /\ n = N /\ k = J THEN At(count, l, n, k) + by
                                       ELSE At(count, l, n, k)
<1> DEFINE K == 0 .. Arity[l] - 1
           j == IF l = L /\ n = N THEN J ELSE -1
<1>1. IsFiniteSet(K) /\ -1 \notin K
  <2>1. Arity[l] \in Nat
    BY LevelTypes
  <2> QED
    BY <2>1, FS_Interval
<1>2. \A k \in K : <<l, n, k>> \in Counters
  BY CountersAre
<1>3. <<L, N, J>> \in Counters
  BY CountersAre
<1>4. \A k \in K : At(count, l, n, k) \in Nat
  BY <1>2 DEF TypeOK, At
<1>5. \A k \in K : At(count', l, n, k) = IF l = L /\ n = N /\ k = J THEN At(count, l, n, k) + by
                                         ELSE At(count, l, n, k)
  BY <1>2, <1>3 DEF TypeOK, At, CountBecomes
<1>6. \A k \in K : At(count', l, n, k) = IF k = j THEN At(count, l, n, k) + by
                                         ELSE At(count, l, n, k)
  BY <1>1, <1>5
<1>7. j \in K <=> l = L /\ n = N
  BY <1>1
<1>8. SumOf(count', l, n, K) = IF j \in K THEN SumOf(count, l, n, K) + by ELSE SumOf(count, l, n, K)
  <2> HIDE DEF K, j
  <2> DEFINE d == count'
             c == count
  <2>1. /\ \A k \in K : At(c, l, n, k) \in Nat
        /\ \A k \in K : At(d, l, n, k) = IF k = j THEN At(c, l, n, k) + by ELSE At(c, l, n, k)
    BY <1>4, <1>6
  <2> HIDE DEF c, d
  <2>2. SumOf(d, l, n, K) = IF j \in K THEN SumOf(c, l, n, K) + by ELSE SumOf(c, l, n, K)
    BY <1>1, <2>1, SumChanges
  <2> QED
    BY <2>2 DEF c, d
<1>9. SumOf(count, l, n, K) \in Nat
  <2> HIDE DEF K
  <2> QED
    BY <1>1, <1>4, SumType
<1>10. Content(l, n) = SumOf(count, l, n, K) /\ Content(l, n)' = SumOf(count', l, n, K)
  BY ContentOfInner
<1> QED
  <2> HIDE DEF K, j
  <2>1. Content(l, n)' = IF l = L /\ n = N THEN Content(l, n) + by ELSE Content(l, n)
    BY <1>7, <1>8, <1>10
  <2>2. Content(l, n) \in Nat
    BY <1>9, <1>10
  <2> USE DEF K
  <2> QED
    BY <1>4, <1>5, <2>1, <2>2

LEMMA ContentFollows ==
  ASSUME TypeOK, NEW L \in InnerLevels, NEW N \in Nodes(L), NEW J \in 0 .. Arity[L] - 1,
         NEW by \in Int, CountBecomes(L, N, J, by), NEW n \in Nodes(L)
  PROVE  Content(L, n)' = IF n = N THEN Content(L, n) + by ELSE Content(L, n)
  BY ContentChanges

LEMMA ContentKeeps ==
  ASSUME TypeOK, NEW L \in InnerLevels, NEW N \in Nodes(L), NEW J \in 0 .. Arity[L] - 1,
         NEW by \in Int, CountBecomes(L, N, J, by),
         NEW l \in InnerLevels, NEW n \in Nodes(l), l # L
  PROVE  Content(l, n)' = Content(l, n)
  BY ContentChanges

LEMMA ContentStays ==
  ASSUME UNCHANGED count, NEW l \in InnerLevels, NEW n
  PROVE  Content(l, n)' = Content(l, n)
<1>1. Content(l, n)' = SumOf(count', l, n, 0 .. Arity[l] - 1)
  BY ContentOfInner
<1>2. Content(l, n) = SumOf(count, l, n, 0 .. Arity[l] - 1)
  BY ContentOfInner
<1> QED
  BY <1>1, <1>2

(* Who is on the way between a counter and the child it stands for. *)
LEMMA OnTheWayUp ==
  ASSUME NEW l \in InnerLevels, NEW m, NEW b, b = Below[l]
  PROVE  \A u \in Setters :
           /\ u \in Climbing(b, m) <=>
                climbs[u] /\ level[u] = l /\ index[u] \div b = m
           /\ u \in Climbing(b, m)' <=>
                climbs'[u] /\ level'[u] = l /\ index'[u] \div b = m
<1>1. b # Capacity /\ Above(b) = l
  BY AboveAndBelow
<1> QED
  BY <1>1 DEF Climbing

LEMMA OnTheWayDown ==
  ASSUME NEW l \in InnerLevels, NEW m, NEW b, b = Below[l]
  PROVE  \A u \in Selectors :
           /\ u \in Descending(b, m) <=> level[u] = b /\ node[u] = m
           /\ u \in Descending(b, m)' <=> level'[u] = b /\ node'[u] = m
<1>1. b # Capacity
  BY AboveAndBelow
<1> QED
  BY <1>1 DEF Descending

LEMMA SettersClimb ==
  ASSUME NEW b, NEW m
  PROVE  Climbing(b, m) \subseteq Setters /\ Climbing(b, m)' \subseteq Setters
  BY DEF Climbing

LEMMA SelectorsDescend ==
  ASSUME NEW b, NEW m
  PROVE  Descending(b, m) \subseteq Selectors /\ Descending(b, m)' \subseteq Selectors
  BY DEF Descending

(* A signal is below the child n * Arity[l] + k when k counts it in n.     *)
LEMMA CounterIsChild ==
  ASSUME NEW i \in 0 .. Capacity - 1, NEW l \in InnerLevels, NEW n \in Nodes(l),
         NEW k \in 0 .. Arity[l] - 1
  PROVE  /\ i \div Below[l] = n * Arity[l] + k <=> CounterOf(l, i) = <<l, n, k>>
         /\ CounterOf(l, i) = <<l, n, k>> => i \div l = n
<1> DEFINE N == i \div l
           J == (i % l) \div Below[l]
<1>1. N \in Nodes(l) /\ J \in 0 .. Arity[l] - 1 /\ i \div Below[l] = N * Arity[l] + J
  BY CounterOfSignal
<1>2. CounterOf(l, i) = <<l, N, J>>
  BY DEF CounterOf
<1> HIDE DEF N, J
<1>3. N * Arity[l] + J = n * Arity[l] + k => N = n /\ J = k
  BY <1>1, ChildNode
<1>4. i \div Below[l] = n * Arity[l] + k <=> N = n /\ J = k
  BY <1>1, <1>3
<1>5. CounterOf(l, i) = <<l, n, k>> <=> N = n /\ J = k
  BY <1>2
<1> QED
  BY <1>4, <1>5 DEF N

(* The number of threads on a way changes with the one that steps.         *)
LEMMA OneThreadSteps ==
  ASSUME NEW T, NEW U, T \subseteq Threads, U \subseteq Threads, NEW t,
         \A u \in Threads : u # t => (u \in U <=> u \in T)
  PROVE  /\ t \notin T /\ t \notin U => Cardinality(U) = Cardinality(T)
         /\ t \in T /\ t \notin U => Cardinality(U) = Cardinality(T) - 1
         /\ t \notin T /\ t \in U => Cardinality(U) = Cardinality(T) + 1
         /\ t \in T /\ t \in U => Cardinality(U) = Cardinality(T)
<1>1. (t \in U <=> t \in T) => U = T
  OBVIOUS
<1>2. t \in T /\ t \notin U => U = T \ {t}
  OBVIOUS
<1>3. t \notin T /\ t \in U => U = T \cup {t}
  OBVIOUS
<1> QED
  BY <1>1, <1>2, <1>3, ThreadSetsAreFinite

LEMMA ClimbersStay ==
  ASSUME \A u \in Setters : /\ climbs'[u] = climbs[u] /\ level'[u] = level[u]
                            /\ index'[u] = index[u],
         NEW l \in InnerLevels, NEW m, NEW b, b = Below[l]
  PROVE  Climbers(b, m)' = Climbers(b, m)
<1>1. \A u \in Setters : u \in Climbing(b, m)' <=> u \in Climbing(b, m)
  BY OnTheWayUp
<1>2. Climbing(b, m)' = Climbing(b, m)
  BY <1>1, SettersClimb
<1> QED
  BY <1>2 DEF Climbers

LEMMA DescendersStay ==
  ASSUME \A u \in Selectors : level'[u] = level[u] /\ node'[u] = node[u],
         NEW l \in InnerLevels, NEW m, NEW b, b = Below[l]
  PROVE  Descenders(b, m)' = Descenders(b, m)
<1>1. \A u \in Selectors : u \in Descending(b, m)' <=> u \in Descending(b, m)
  BY OnTheWayDown
<1>2. Descending(b, m)' = Descending(b, m)
  BY <1>1, SelectorsDescend
<1> QED
  BY <1>2 DEF Descenders

(* The only thread of its kind that steps. *)
OnlySetter(t) ==
  \A u \in Setters : u # t => climbs'[u] = climbs[u] /\ level'[u] = level[u] /\ index'[u] = index[u]

OnlySelector(t) ==
  \A u \in Selectors : u # t => level'[u] = level[u] /\ node'[u] = node[u]

(* What a thread adds to the number on the way to the node m of level b.   *)
ClimbsTo(t, b, m)   == IF t \in Climbing(b, m) THEN 1 ELSE 0
DescendsTo(t, b, m) == IF t \in Descending(b, m) THEN 1 ELSE 0

(* One setter takes a step: whether it was, and is then, on its way to the *)
(* counter of this child says how many are.                                *)
LEMMA OneClimbs ==
  ASSUME NEW t \in Setters, NEW l \in InnerLevels, NEW m, NEW b, b = Below[l],
         OnlySetter(t)
  PROVE  Climbers(b, m)' = Climbers(b, m) + ClimbsTo(t, b, m)' - ClimbsTo(t, b, m)
<1>1. PICK T, U : T = Climbing(b, m) /\ U = Climbing(b, m)'
  OBVIOUS
<1>2. Climbers(b, m)' = Cardinality(U) /\ Climbers(b, m) = Cardinality(T) /\ Climbers(b, m) \in Nat
  BY <1>1, ClimbingAndDescending DEF Climbers
<1>3. T \subseteq Setters /\ U \subseteq Setters
  BY <1>1, SettersClimb
<1>4. \A u \in Setters : u # t => (u \in U <=> u \in T)
  <2>1. \A u \in Setters :
          /\ u \in Climbing(b, m) <=> climbs[u] /\ level[u] = l /\ index[u] \div b = m
          /\ u \in Climbing(b, m)' <=> climbs'[u] /\ level'[u] = l /\ index'[u] \div b = m
    BY OnTheWayUp
  <2> QED
    BY <1>1, <2>1 DEF OnlySetter
<1>5. /\ ClimbsTo(t, b, m) = IF t \in T THEN 1 ELSE 0
      /\ ClimbsTo(t, b, m)' = IF t \in U THEN 1 ELSE 0
  BY <1>1 DEF ClimbsTo
<1>6. T \subseteq Threads /\ U \subseteq Threads /\ \A u \in Threads : u # t => (u \in U <=> u \in T)
  BY <1>3, <1>4, ThreadTypes
<1>7. /\ t \notin T /\ t \notin U => Cardinality(U) = Cardinality(T)
      /\ t \in T /\ t \notin U => Cardinality(U) = Cardinality(T) - 1
      /\ t \notin T /\ t \in U => Cardinality(U) = Cardinality(T) + 1
      /\ t \in T /\ t \in U => Cardinality(U) = Cardinality(T)
  BY <1>6, OneThreadSteps
<1> QED
  BY <1>2, <1>5, <1>7

LEMMA OneDescends ==
  ASSUME NEW t \in Selectors, NEW l \in InnerLevels, NEW m, NEW b, b = Below[l],
         OnlySelector(t)
  PROVE  Descenders(b, m)' = Descenders(b, m) + DescendsTo(t, b, m)' - DescendsTo(t, b, m)
<1>1. PICK T, U : T = Descending(b, m) /\ U = Descending(b, m)'
  OBVIOUS
<1>2. Descenders(b, m)' = Cardinality(U) /\ Descenders(b, m) = Cardinality(T)
      /\ Descenders(b, m) \in Nat
  BY <1>1, ClimbingAndDescending DEF Descenders
<1>3. T \subseteq Selectors /\ U \subseteq Selectors
  BY <1>1, SelectorsDescend
<1>4. \A u \in Selectors : u # t => (u \in U <=> u \in T)
  BY <1>1, OnTheWayDown DEF OnlySelector
<1>5. /\ DescendsTo(t, b, m) = IF t \in T THEN 1 ELSE 0
      /\ DescendsTo(t, b, m)' = IF t \in U THEN 1 ELSE 0
  BY <1>1 DEF DescendsTo
<1>6. T \subseteq Threads /\ U \subseteq Threads /\ \A u \in Threads : u # t => (u \in U <=> u \in T)
  BY <1>3, <1>4, ThreadTypes
<1>7. /\ t \notin T /\ t \notin U => Cardinality(U) = Cardinality(T)
      /\ t \in T /\ t \notin U => Cardinality(U) = Cardinality(T) - 1
      /\ t \notin T /\ t \in U => Cardinality(U) = Cardinality(T) + 1
      /\ t \in T /\ t \in U => Cardinality(U) = Cardinality(T)
  BY <1>6, OneThreadSteps
<1> QED
  BY <1>2, <1>5, <1>7

LEMMA ChildOf ==
  ASSUME NEW l \in InnerLevels, NEW n \in Nodes(l), NEW k \in 0 .. Arity[l] - 1
  PROVE  /\ Below[l] \in TreeLevels /\ Below[l] # l /\ Below[l] \in Nat \ {0}
         /\ n * Arity[l] + k \in Nodes(Below[l])
         /\ Below[l] = WordBits \/ Below[l] \in InnerLevels
  BY ChildNode, LevelTypes DEF InnerLevels

LEMMA AgreeInit == TreeTypes /\ Init => LevelsAgree
<1> SUFFICES ASSUME TreeTypes, Init,
                    NEW l \in InnerLevels, NEW n \in Nodes(l), NEW k \in 0 .. Arity[l] - 1
             PROVE  Agrees(l, n, k)
  BY LevelsAgreeIs
<1> DEFINE b == Below[l]
           m == n * Arity[l] + k
<1>1. At(count, l, n, k) = 0
  BY CountersAre DEF Init, At
<1>2. Climbing(b, m) = {} /\ Descending(b, m) = {}
  <2>1. b # Capacity
    BY AboveAndBelow
  <2>2. \A u \in Setters : ~climbs[u]
    BY DEF Init
  <2>3. \A u \in Selectors : level[u] = Capacity
    BY ThreadTypes DEF Init
  <2> HIDE DEF b, m
  <2> QED
    BY <2>1, <2>2, <2>3 DEF Climbing, Descending
<1>3. Climbers(b, m) = 0 /\ Descenders(b, m) = 0
  BY <1>2, FS_EmptySet DEF Climbers, Descenders
<1>4. Content(b, m) = 0
  <2>1. CASE b = WordBits
    <3>1. Leaf(m) = {}
      BY DEF Leaf, Init
    <3>2. Cardinality(Leaf(m)) = 0
      BY <3>1, FS_EmptySet
    <3> HIDE DEF b, m
    <3> QED
      BY <2>1, <3>2, ContentOfLeaf
  <2>2. CASE b \in InnerLevels
    <3>1. b \in InnerLevels /\ m \in Nodes(b)
      BY <2>2, ChildOf
    <3>2. Arity[b] \in Nat
      BY <3>1, LevelTypes
    <3> DEFINE K == 0 .. Arity[b] - 1
    <3>3. IsFiniteSet(K)
      BY <3>2, FS_Interval
    <3> HIDE DEF b, m
    <3>4. \A j \in K : At(count, b, m, j) = 0
      BY <3>1, CountersAre DEF Init, At
    <3> HIDE DEF K
    <3>5. SumOf(count, b, m, K) = 0
      BY <3>3, <3>4, SumZero
    <3> QED
      BY <3>1, <3>5, ContentOfInner DEF K
  <2> QED
    BY <2>1, <2>2, ChildOf
<1> HIDE DEF b, m
<1>5. Content(b, m) = At(count, l, n, k) + Climbers(b, m) + Descenders(b, m)
  BY <1>1, <1>3, <1>4
<1> QED
  BY <1>5 DEF Agrees, b, m


LEMMA LeafStays ==
  ASSUME UNCHANGED signal, NEW m
  PROVE  Content(WordBits, m)' = Content(WordBits, m)
<1>1. Leaf(m)' = Leaf(m)
  BY DEF Leaf
<1>2. Content(WordBits, m)' = Cardinality(Leaf(m)')
  BY ContentOfLeaf
<1>3. Content(WordBits, m) = Cardinality(Leaf(m))
  BY ContentOfLeaf
<1> QED
  BY <1>1, <1>2, <1>3

LEMMA LeafIsFinite ==
  ASSUME TypeOK, NEW m
  PROVE  /\ IsFiniteSet(Leaf(m)) /\ Cardinality(Leaf(m)) \in Nat
         /\ \A i : i \notin Leaf(m) => Cardinality(Leaf(m) \cup {i}) = Cardinality(Leaf(m)) + 1
         /\ \A i \in Leaf(m) : Cardinality(Leaf(m) \ {i}) = Cardinality(Leaf(m)) - 1
<1>1. IsFiniteSet(0 .. Capacity - 1)
  BY CapacityIsNat, FS_Interval
<1>2. Leaf(m) \subseteq 0 .. Capacity - 1
  BY SignalTreeAssumption DEF TypeOK, Leaf
<1>3. IsFiniteSet(Leaf(m))
  BY <1>1, <1>2, FS_Subset
<1> QED
  BY <1>3, FS_CardinalityType, FS_AddElement, FS_RemoveElement

LEMMA ContentIsNat ==
  ASSUME TypeOK, NEW l \in TreeLevels, NEW n \in Nodes(l)
  PROVE  Content(l, n) \in Nat
<1>1. CASE l = WordBits
  BY <1>1, ContentOfLeaf, LeafIsFinite
<1>2. CASE l \in InnerLevels
  <2> DEFINE K == 0 .. Arity[l] - 1
  <2>1. IsFiniteSet(K)
    BY <1>2, LevelTypes, FS_Interval
  <2>2. \A k \in K : At(count, l, n, k) \in Nat
    BY <1>2, CountersAre DEF TypeOK, At
  <2> HIDE DEF K
  <2>3. SumOf(count, l, n, K) \in Nat
    BY <2>1, <2>2, SumType
  <2> QED
    BY <1>2, <2>3, ContentOfInner DEF K
<1> QED
  BY <1>1, <1>2 DEF InnerLevels

(* A step that changes one counter, seen from the counter of <<l, n, k>>   *)
(* and from its child: it is that counter, or one of the child's, or none. *)
LEMMA OneCounter ==
  ASSUME TypeOK, NEW L \in InnerLevels, NEW N \in Nodes(L), NEW J \in 0 .. Arity[L] - 1,
         NEW by \in Int, CountBecomes(L, N, J, by),
         UNCHANGED signal,
         NEW l \in InnerLevels, NEW n \in Nodes(l), NEW k \in 0 .. Arity[l] - 1,
         NEW b, b = Below[l], NEW m, m = n * Arity[l] + k
  PROVE  /\ At(count, l, n, k) \in Nat /\ Content(b, m) \in Nat
         /\ At(count', l, n, k) = IF l = L /\ n = N /\ k = J THEN At(count, l, n, k) + by
                                  ELSE At(count, l, n, k)
         /\ Content(b, m)' = IF b = L /\ m = N THEN Content(b, m) + by
                                    ELSE Content(b, m)
<1>1. /\ At(count, l, n, k) \in Nat
      /\ At(count', l, n, k) = IF l = L /\ n = N /\ k = J THEN At(count, l, n, k) + by
                               ELSE At(count, l, n, k)
  BY ContentChanges
<1>2. b \in TreeLevels /\ m \in Nodes(b)
  BY ChildOf
<1>3. Content(b, m) \in Nat
  BY <1>2, ContentIsNat
<1>4. CASE b = WordBits
  <2>1. b # L
    BY <1>4, LevelTypes
  <2>2. Content(b, m)' = Content(b, m)
    BY <1>4, LeafStays
  <2> QED
    BY <1>1, <1>3, <2>1, <2>2
<1>5. CASE b \in InnerLevels
  <2>1. Content(b, m)' = IF b = L /\ m = N THEN Content(b, m) + by
                                ELSE Content(b, m)
    <3>1. CASE b = L
      <4>1. m \in Nodes(L)
        BY <1>2, <3>1
      <4>2. Content(L, m)' = IF m = N THEN Content(L, m) + by ELSE Content(L, m)
        BY <4>1, ContentFollows
      <4> QED
        BY <3>1, <4>2
    <3>2. CASE b # L
      BY <1>2, <1>5, <3>2, ContentKeeps
    <3> QED
      BY <3>1, <3>2
  <2> QED
    BY <1>1, <1>3, <2>1
<1> QED
  BY <1>4, <1>5, ChildOf

(* The counter is incremented, the setter goes on to the counter of the    *)
(* node above, and the child of that counter holds one more.               *)
LEMMA AgreeCount ==
  ASSUME TreeTypes, LevelsAgree, NEW t \in Setters, Count(t)
  PROVE  LevelsAgree'
<1>1. PICK L, i, N, J :
        /\ level[t] = L /\ index[t] = i /\ i \div L = N /\ L \in InnerLevels
        /\ N \in Nodes(L) /\ J \in 0 .. Arity[L] - 1 /\ CounterOf(L, i) = <<L, N, J>>
        /\ i \in 0 .. Capacity - 1
  <2> DEFINE L == level[t]
             i == index[t]
  <2>1. L \in InnerLevels /\ i \in 0 .. Capacity - 1
    BY SignalTreeAssumption DEF Count, TreeTypes, TypeOK
  <2>2. i \div L \in Nodes(L) /\ (i % L) \div Below[L] \in 0 .. Arity[L] - 1
    BY <2>1, CounterOfSignal
  <2> QED
    BY <2>1, <2>2 DEF CounterOf
<1>2. climbs[t] /\ TypeOK /\ UNCHANGED <<signal, node, index>> /\ CountBecomes(L, N, J, 1)
  BY <1>1 DEF Count, TreeTypes, CountBecomes
<1>3. PICK to : to = IF Returns(L) THEN WordBits ELSE Above(L)
  OBVIOUS
<1>4. /\ \A u \in Setters : climbs'[u] = IF u = t THEN ~Returns(L) ELSE climbs[u]
      /\ \A u \in Threads : level'[u] = IF u = t THEN to ELSE level[u]
  <2>1. climbs' = [climbs EXCEPT ![t] = ~Returns(L)] /\ level' = [level EXCEPT ![t] = to]
    BY <1>1, <1>3 DEF Count
  <2> QED
    BY <2>1 DEF TreeTypes, TypeOK
<1> SUFFICES ASSUME NEW l \in InnerLevels, NEW n \in Nodes(l), NEW k \in 0 .. Arity[l] - 1
             PROVE  Agrees(l, n, k)'
  BY LevelsAgreeIs
<1>5. PICK b, m : b = Below[l] /\ m = n * Arity[l] + k
  OBVIOUS
<1>6. b # l /\ b \in TreeLevels
  BY <1>5, ChildOf
<1>7. PICK was, goes : /\ was = (IF l = L /\ n = N /\ k = J THEN 1 ELSE 0)
                       /\ goes = (IF b = L /\ m = N THEN 1 ELSE 0)
  OBVIOUS
<1>8. was = (IF climbs[t] /\ level[t] = l /\ index[t] \div b = m THEN 1 ELSE 0)
  <2>1. i \div b = m <=> CounterOf(l, i) = <<l, n, k>>
    BY <1>1, <1>5, CounterIsChild
  <2> QED
    BY <1>1, <1>2, <1>7, <2>1
<1>9. goes = (IF climbs'[t] /\ level'[t] = l /\ index'[t] \div b = m THEN 1 ELSE 0)
  <2>1. climbs'[t] = ~Returns(L) /\ level'[t] = to /\ index'[t] = i
    BY <1>1, <1>2, <1>4, ThreadTypes
  <2>2. ~Returns(L) /\ to = l <=> b = L
    BY <1>1, <1>3, <1>5, AboveAndBelow, LevelTypes DEF Returns
  <2> QED
    BY <1>1, <1>7, <2>1, <2>2
<1>10. OnlySetter(t)
  BY <1>2, <1>4, ThreadTypes DEF OnlySetter
<1>11. Climbers(b, m) \in Nat /\ Descenders(b, m) \in Nat
  BY ClimbingAndDescending
<1>12. Climbers(b, m)' = Climbers(b, m) + goes - was
  <2>1. b = Below[l]
    BY <1>5
  <2>2. Climbers(b, m)' = Climbers(b, m) + ClimbsTo(t, b, m)' - ClimbsTo(t, b, m)
    BY <1>10, <2>1, OneClimbs
  <2>3. ClimbsTo(t, b, m) = was /\ ClimbsTo(t, b, m)' = goes
    BY <1>8, <1>9, <2>1, OnTheWayUp DEF ClimbsTo
  <2> QED
    BY <2>2, <2>3
<1>13. Descenders(b, m)' = Descenders(b, m)
  <2>1. \A u \in Selectors : level'[u] = level[u] /\ node'[u] = node[u]
    BY <1>2, <1>4, ThreadTypes
  <2> QED
    BY <1>5, <2>1, DescendersStay
<1>14. /\ At(count, l, n, k) \in Nat /\ Content(b, m) \in Nat
       /\ At(count', l, n, k) = At(count, l, n, k) + was
       /\ Content(b, m)' = Content(b, m) + goes
  <2>1. /\ At(count, l, n, k) \in Nat /\ Content(b, m) \in Nat
        /\ At(count', l, n, k) = IF l = L /\ n = N /\ k = J THEN At(count, l, n, k) + 1
                                 ELSE At(count, l, n, k)
        /\ Content(b, m)' = IF b = L /\ m = N THEN Content(b, m) + 1 ELSE Content(b, m)
    BY <1>1, <1>2, <1>5, OneCounter
  <2> QED
    BY <1>7, <2>1
<1>15. Content(b, m) = At(count, l, n, k) + Climbers(b, m) + Descenders(b, m)
  BY <1>5, LevelsAgreeIs DEF Agrees
<1>16. Content(b, m)' = At(count', l, n, k) + Climbers(b, m)' + Descenders(b, m)'
  BY <1>6, <1>7, <1>11, <1>12, <1>13, <1>14, <1>15
<1> QED
  BY <1>5, <1>16 DEF Agrees


(* The counter is decremented, the selector goes down to the child of the  *)
(* counter, and the node it leaves holds one less.                         *)
LEMMA AgreeTakeCount ==
  ASSUME TreeTypes, LevelsAgree, NEW t \in Selectors, TakeCount(t)
  PROVE  LevelsAgree'
<1>1. PICK L, N, J, B, M :
        /\ level[t] = L /\ node[t] = N /\ L \in InnerLevels /\ N \in Nodes(L)
        /\ J \in 0 .. Arity[L] - 1 /\ B = Below[L] /\ M = N * Arity[L] + J
        /\ count' = [count EXCEPT ![<<L, N, J>>] = @ - 1]
        /\ level' = [level EXCEPT ![t] = B]
        /\ node' = [node EXCEPT ![t] = M]
        /\ UNCHANGED <<signal, climbs, sets>>
        /\ index' = [index EXCEPT ![t] = @ + IndexPart(L, J)]
  <2>1. PICK k \in NonZero(level[t], node[t]) :
          /\ ~IsLeaf(level[t])
          /\ count' = [count EXCEPT ![<<level[t], node[t], k>>] = @ - 1]
          /\ level' = [level EXCEPT ![t] = Below[level[t]]]
          /\ node' = [node EXCEPT ![t] = node[t] * Arity[level[t]] + k]
          /\ index' = [index EXCEPT ![t] = @ + IndexPart(level[t], k)]
          /\ UNCHANGED <<signal, climbs, sets>>
    BY DEF TakeCount, Choosable
  <2>2. level[t] \in InnerLevels /\ node[t] \in Nodes(level[t]) /\ k \in 0 .. Arity[level[t]] - 1
    BY <2>1, ThreadTypes DEF NonZero, InnerLevels, IsLeaf, TreeTypes, TypeOK
  <2> QED
    BY <2>1, <2>2
<1>2. TypeOK /\ UNCHANGED signal /\ CountBecomes(L, N, J, -1)
  <2>1. <<L, N, J>> \in Counters /\ TypeOK
    BY <1>1, CountersAre DEF TreeTypes
  <2>2. count[<<L, N, J>>] - 1 = count[<<L, N, J>>] + (-1)
    BY <2>1 DEF TypeOK
  <2> QED
    BY <1>1, <2>1, <2>2 DEF CountBecomes
<1>3. /\ \A u \in Threads : level'[u] = IF u = t THEN B ELSE level[u]
      /\ \A u \in Threads : node'[u] = IF u = t THEN M ELSE node[u]
      /\ \A u \in Threads : u # t => index'[u] = index[u]
  BY <1>1 DEF TreeTypes, TypeOK
<1> SUFFICES ASSUME NEW l \in InnerLevels, NEW n \in Nodes(l), NEW k \in 0 .. Arity[l] - 1
             PROVE  Agrees(l, n, k)'
  BY LevelsAgreeIs
<1>4. PICK b, m : b = Below[l] /\ m = n * Arity[l] + k
  OBVIOUS
<1>5. PICK was, goes : /\ was = (IF b = L /\ m = N THEN 1 ELSE 0)
                       /\ goes = (IF l = L /\ n = N /\ k = J THEN 1 ELSE 0)
  OBVIOUS
<1>6. was = (IF level[t] = b /\ node[t] = m THEN 1 ELSE 0)
  BY <1>1, <1>5
<1>7. goes = (IF level'[t] = b /\ node'[t] = m THEN 1 ELSE 0)
  <2>1. level'[t] = B /\ node'[t] = M
    BY <1>3, ThreadTypes
  <2>2. B = b <=> L = l
    BY <1>1, <1>4, LevelsShape
  <2>3. L = l => (M = m <=> N = n /\ J = k)
    BY <1>1, <1>4, ChildNode
  <2> QED
    BY <1>5, <2>1, <2>2, <2>3
<1>8. OnlySelector(t)
  BY <1>3, ThreadTypes DEF OnlySelector
<1>9. Climbers(b, m) \in Nat /\ Descenders(b, m) \in Nat
  BY ClimbingAndDescending
<1>10. Descenders(b, m)' = Descenders(b, m) + goes - was
  <2>1. b = Below[l]
    BY <1>4
  <2>2. Descenders(b, m)' = Descenders(b, m) + DescendsTo(t, b, m)' - DescendsTo(t, b, m)
    BY <1>8, <2>1, OneDescends
  <2>3. DescendsTo(t, b, m) = was /\ DescendsTo(t, b, m)' = goes
    BY <1>6, <1>7, <2>1, OnTheWayDown DEF DescendsTo
  <2> QED
    BY <2>2, <2>3
<1>11. Climbers(b, m)' = Climbers(b, m)
  <2>1. \A u \in Setters : climbs'[u] = climbs[u] /\ level'[u] = level[u] /\ index'[u] = index[u]
    BY <1>1, <1>3, ThreadTypes
  <2> QED
    BY <1>4, <2>1, ClimbersStay
<1>12. /\ At(count, l, n, k) \in Nat /\ Content(b, m) \in Nat
       /\ At(count', l, n, k) = At(count, l, n, k) - goes
       /\ Content(b, m)' = Content(b, m) - was
  <2>1. /\ At(count, l, n, k) \in Nat /\ Content(b, m) \in Nat
        /\ At(count', l, n, k) = IF l = L /\ n = N /\ k = J THEN At(count, l, n, k) + (-1)
                                 ELSE At(count, l, n, k)
        /\ Content(b, m)' = IF b = L /\ m = N THEN Content(b, m) + (-1) ELSE Content(b, m)
    <3>1. PICK by \in Int : by = -1
      OBVIOUS
    <3>2. CountBecomes(L, N, J, by)
      BY <1>2, <3>1
    <3>3. /\ At(count, l, n, k) \in Nat /\ Content(b, m) \in Nat
          /\ At(count', l, n, k) = IF l = L /\ n = N /\ k = J THEN At(count, l, n, k) + by
                                   ELSE At(count, l, n, k)
          /\ Content(b, m)' = IF b = L /\ m = N THEN Content(b, m) + by ELSE Content(b, m)
      <4>1. L \in InnerLevels /\ N \in Nodes(L) /\ J \in 0 .. Arity[L] - 1
            /\ TypeOK /\ UNCHANGED signal
        BY <1>1, <1>2
      <4> QED
        BY <1>4, <3>2, <4>1, OneCounter
    <3> QED
      BY <3>1, <3>3
  <2> QED
    BY <1>5, <2>1
<1>13. Content(b, m) = At(count, l, n, k) + Climbers(b, m) + Descenders(b, m)
  BY <1>4, LevelsAgreeIs DEF Agrees
<1>14. Content(b, m)' = At(count', l, n, k) + Climbers(b, m)' + Descenders(b, m)'
  BY <1>5, <1>9, <1>10, <1>11, <1>12, <1>13
<1> QED
  BY <1>4, <1>14 DEF Agrees

(* A step that changes the leaves only, seen from a counter. *)
LEMMA CountersStay ==
  ASSUME TypeOK, UNCHANGED count,
         NEW l \in InnerLevels, NEW n \in Nodes(l), NEW k \in 0 .. Arity[l] - 1,
         NEW b, b = Below[l], NEW m, m = n * Arity[l] + k
  PROVE  /\ At(count, l, n, k) \in Nat /\ Content(b, m) \in Nat
         /\ At(count', l, n, k) = At(count, l, n, k)
         /\ b # WordBits => Content(b, m)' = Content(b, m)
<1>1. At(count, l, n, k) \in Nat
  BY CountersAre DEF At, TypeOK
<1>2. Content(b, m) \in Nat
  BY ChildOf, ContentIsNat
<1>3. b # WordBits => Content(b, m)' = Content(b, m)
  BY ChildOf, ContentStays
<1> QED
  BY <1>1, <1>2, <1>3

(* The leaf loses the signal that its last descending selector takes.      *)
LEMMA AgreeTakeSignal ==
  ASSUME TreeTypes, LevelsAgree, NEW t \in Selectors, TakeSignal(t)
  PROVE  LevelsAgree'
<1>1. PICK N, i : /\ level[t] = WordBits /\ node[t] = N /\ i \in Leaf(N) /\ signal' = signal \ {i}
                  /\ UNCHANGED <<count, climbs>>
  BY DEF TakeSignal, IsLeaf
<1>2. /\ \A u \in Threads : level'[u] = IF u = t THEN Capacity ELSE level[u]
      /\ \A u \in Threads : node'[u] = IF u = t THEN 0 ELSE node[u]
      /\ \A u \in Threads : index'[u] = IF u = t THEN 0 ELSE index[u]
  BY DEF TakeSignal, TreeTypes, TypeOK
<1>3. TypeOK /\ i \in signal /\ i \div WordBits = N
  BY <1>1 DEF TreeTypes, Leaf
<1> SUFFICES ASSUME NEW l \in InnerLevels, NEW n \in Nodes(l), NEW k \in 0 .. Arity[l] - 1
             PROVE  Agrees(l, n, k)'
  BY LevelsAgreeIs
<1>4. PICK b, m : b = Below[l] /\ m = n * Arity[l] + k
  OBVIOUS
<1>5. PICK was, goes : was = (IF b = WordBits /\ m = N THEN 1 ELSE 0) /\ goes = 0
  OBVIOUS
<1>6. was = (IF level[t] = b /\ node[t] = m THEN 1 ELSE 0)
  BY <1>1, <1>5
<1>7. goes = (IF level'[t] = b /\ node'[t] = m THEN 1 ELSE 0)
  <2>1. level'[t] = Capacity /\ b # Capacity
    BY <1>2, <1>4, ThreadTypes, AboveAndBelow
  <2> QED
    BY <1>5, <2>1
<1>8. OnlySelector(t)
  BY <1>2, ThreadTypes DEF OnlySelector
<1>9. Climbers(b, m) \in Nat /\ Descenders(b, m) \in Nat
  BY ClimbingAndDescending
<1>10. Descenders(b, m)' = Descenders(b, m) + goes - was
  <2>1. b = Below[l]
    BY <1>4
  <2>2. Descenders(b, m)' = Descenders(b, m) + DescendsTo(t, b, m)' - DescendsTo(t, b, m)
    BY <1>8, <2>1, OneDescends
  <2>3. DescendsTo(t, b, m) = was /\ DescendsTo(t, b, m)' = goes
    BY <1>6, <1>7, <2>1, OnTheWayDown DEF DescendsTo
  <2> QED
    BY <2>2, <2>3
<1>11. Climbers(b, m)' = Climbers(b, m)
  <2>1. \A u \in Setters : climbs'[u] = climbs[u] /\ level'[u] = level[u] /\ index'[u] = index[u]
    BY <1>1, <1>2, ThreadTypes
  <2> QED
    BY <1>4, <2>1, ClimbersStay
<1>12. /\ At(count, l, n, k) \in Nat /\ Content(b, m) \in Nat
       /\ At(count', l, n, k) = At(count, l, n, k)
       /\ b # WordBits => Content(b, m)' = Content(b, m)
  BY <1>1, <1>3, <1>4, CountersStay
<1>13. Content(b, m)' = Content(b, m) - was
  <2>1. CASE b = WordBits /\ m = N
    <3>1. Leaf(m)' = Leaf(m) \ {i} /\ i \in Leaf(m)
      BY <1>1, <1>3, <2>1 DEF Leaf
    <3>2. Cardinality(Leaf(m)') = Cardinality(Leaf(m)) - 1
      BY <1>3, <3>1, LeafIsFinite
    <3>3. Content(WordBits, m)' = Content(WordBits, m) - 1
      BY <3>2, ContentOfLeaf
    <3> QED
      BY <1>5, <2>1, <3>3
  <2>2. CASE b = WordBits /\ m # N
    <3>1. Leaf(m)' = Leaf(m)
      BY <1>1, <1>3, <2>2 DEF Leaf
    <3>2. Content(WordBits, m)' = Content(WordBits, m)
      BY <3>1, ContentOfLeaf
    <3> QED
      BY <1>5, <1>12, <2>2, <3>2
  <2>3. CASE b # WordBits
    BY <1>5, <1>12, <2>3
  <2> QED
    BY <2>1, <2>2, <2>3
<1>14. Content(b, m) = At(count, l, n, k) + Climbers(b, m) + Descenders(b, m)
  BY <1>4, LevelsAgreeIs DEF Agrees
<1>15. Content(b, m)' = At(count', l, n, k) + Climbers(b, m)' + Descenders(b, m)'
  BY <1>5, <1>9, <1>10, <1>11, <1>12, <1>13, <1>14
<1> QED
  BY <1>4, <1>15 DEF Agrees


(* A tree of one level has no counters. *)
LEMMA OneLevel == Capacity = WordBits => InnerLevels = {}
<1> SUFFICES ASSUME Capacity = WordBits, NEW l \in InnerLevels PROVE FALSE
  OBVIOUS
<1>1. Below[l] < l /\ Below[l] \in TreeLevels /\ l \in TreeLevels
  BY LevelTypes
<1>2. Below[l] >= WordBits /\ l <= Capacity
  BY <1>1, LevelsShape, NodesOf
<1> QED
  BY <1>1, <1>2, LevelTypes DEF WordBits

LEMMA AgreeStays ==
  ASSUME TreeTypes, LevelsAgree, UNCHANGED <<signal, count, climbs, level, index, node>>
  PROVE  LevelsAgree'
<1>1. TypeOK
  BY DEF TreeTypes
<1> SUFFICES ASSUME NEW l \in InnerLevels, NEW n \in Nodes(l), NEW k \in 0 .. Arity[l] - 1
             PROVE  Agrees(l, n, k)'
  BY LevelsAgreeIs
<1>2. PICK b, m : b = Below[l] /\ m = n * Arity[l] + k
  OBVIOUS
<1>3. At(count', l, n, k) = At(count, l, n, k) /\ (b # WordBits => Content(b, m)' = Content(b, m))
  BY <1>1, <1>2, CountersStay
<1>4. Content(b, m)' = Content(b, m)
  BY <1>3, LeafStays
<1>5. Climbers(b, m)' = Climbers(b, m)
  BY <1>2, ClimbersStay
<1>6. Descenders(b, m)' = Descenders(b, m)
  BY <1>2, DescendersStay
<1>7. Content(b, m) = At(count, l, n, k) + Climbers(b, m) + Descenders(b, m)
  BY <1>2, LevelsAgreeIs DEF Agrees
<1>8. Content(b, m)' = At(count', l, n, k) + Climbers(b, m)' + Descenders(b, m)'
  BY <1>3, <1>4, <1>5, <1>6, <1>7
<1> QED
  BY <1>2, <1>8 DEF Agrees

(* A new signal makes its leaf hold one more, and its setter is on the way *)
(* to the counter of that leaf.                                            *)
LEMMA AgreeSetLeaf ==
  ASSUME TreeTypes, LevelsAgree, NEW t \in Setters, NEW i \in Indices, SetLeaf(t, i)
  PROVE  LevelsAgree'
<1>1. TypeOK /\ UNCHANGED <<count, node>> /\ signal' = signal \cup {i} /\ ~climbs[t]
      /\ i \in 0 .. Capacity - 1
  BY SignalTreeAssumption DEF SetLeaf, TreeTypes
<1>2. CASE i \in signal
  <2>1. UNCHANGED <<signal, count, climbs, level, index, node>>
    BY <1>1, <1>2 DEF SetLeaf
  <2> QED
    BY <2>1, AgreeStays
<1>3. CASE i \notin signal
  <2> SUFFICES ASSUME NEW l \in InnerLevels, NEW n \in Nodes(l), NEW k \in 0 .. Arity[l] - 1
               PROVE  Agrees(l, n, k)'
    BY LevelsAgreeIs
  <2>2. PICK b, m : b = Below[l] /\ m = n * Arity[l] + k
    OBVIOUS
  <2>3. Climbers(b, m) \in Nat /\ Descenders(b, m) \in Nat
    BY ClimbingAndDescending
  <2>4. /\ At(count, l, n, k) \in Nat /\ Content(b, m) \in Nat
        /\ At(count', l, n, k) = At(count, l, n, k)
        /\ b # WordBits => Content(b, m)' = Content(b, m)
    BY <1>1, <2>2, CountersStay
  <2>5. Content(b, m) = At(count, l, n, k) + Climbers(b, m) + Descenders(b, m)
    BY <2>2, LevelsAgreeIs DEF Agrees
  <2>6. ~IsLeaf(Capacity)
    BY OneLevel DEF IsLeaf
  <2>7. /\ \A u \in Setters : climbs'[u] = IF u = t THEN TRUE ELSE climbs[u]
        /\ \A u \in Threads : level'[u] = IF u = t THEN FirstCounted ELSE level[u]
        /\ \A u \in Threads : index'[u] = IF u = t THEN i ELSE index[u]
    BY <2>6, <1>3 DEF SetLeaf, TreeTypes, TypeOK
  <2>8. PICK was, goes : /\ was = 0
                         /\ goes = (IF b = WordBits /\ m = i \div WordBits THEN 1 ELSE 0)
    OBVIOUS
  <2>9. was = (IF climbs[t] /\ level[t] = l /\ index[t] \div b = m THEN 1 ELSE 0)
    BY <1>1, <2>8
  <2>10. goes = (IF climbs'[t] /\ level'[t] = l /\ index'[t] \div b = m THEN 1 ELSE 0)
    <3>1. climbs'[t] /\ level'[t] = FirstCounted /\ index'[t] = i
      BY <2>7, ThreadTypes
    <3>2. FirstCounted = l <=> b = WordBits
      BY <2>2, <2>6, LevelsShape, AboveAndBelow DEF FirstCounted, IsLeaf
    <3> QED
      BY <2>8, <3>1, <3>2
  <2>11. Climbers(b, m)' = Climbers(b, m) + goes - was
    <3>1. b = Below[l] /\ OnlySetter(t)
      BY <2>2, <2>7, ThreadTypes DEF OnlySetter
    <3>2. Climbers(b, m)' = Climbers(b, m) + ClimbsTo(t, b, m)' - ClimbsTo(t, b, m)
      BY <3>1, OneClimbs
    <3>3. ClimbsTo(t, b, m) = was /\ ClimbsTo(t, b, m)' = goes
      BY <2>9, <2>10, <3>1, OnTheWayUp DEF ClimbsTo
    <3> QED
      BY <3>2, <3>3
  <2>12. Descenders(b, m)' = Descenders(b, m)
    <3>1. \A u \in Selectors : level'[u] = level[u] /\ node'[u] = node[u]
      BY <1>1, <2>7, ThreadTypes
    <3> QED
      BY <2>2, <3>1, DescendersStay
  <2>13. Content(b, m)' = Content(b, m) + goes
    <3>1. CASE b = WordBits /\ m = i \div WordBits
      <4>1. Leaf(m)' = Leaf(m) \cup {i} /\ i \notin Leaf(m)
        BY <1>1, <1>3, <3>1 DEF Leaf
      <4>2. Cardinality(Leaf(m)') = Cardinality(Leaf(m)) + 1
        BY <1>1, <4>1, LeafIsFinite
      <4>3. Content(WordBits, m)' = Content(WordBits, m) + 1
        BY <4>2, ContentOfLeaf
      <4> QED
        BY <2>8, <3>1, <4>3
    <3>2. CASE b = WordBits /\ m # i \div WordBits
      <4>1. Leaf(m)' = Leaf(m)
        BY <1>1, <3>2 DEF Leaf
      <4>2. Content(WordBits, m)' = Content(WordBits, m)
        BY <4>1, ContentOfLeaf
      <4> QED
        BY <2>4, <2>8, <3>2, <4>2
    <3>3. CASE b # WordBits
      BY <2>4, <2>8, <3>3
    <3> QED
      BY <3>1, <3>2, <3>3
  <2>14. Content(b, m)' = At(count', l, n, k) + Climbers(b, m)' + Descenders(b, m)'
    BY <2>3, <2>4, <2>5, <2>8, <2>11, <2>12, <2>13
  <2> QED
    BY <2>2, <2>14 DEF Agrees
<1> QED
  BY <1>2, <1>3

LEMMA AgreeNext == TreeTypes /\ LevelsAgree /\ [Next]_vars => LevelsAgree'
<1> SUFFICES ASSUME TreeTypes, LevelsAgree, [Next]_vars PROVE LevelsAgree'
  OBVIOUS
<1>1. CASE UNCHANGED vars
  BY <1>1, AgreeStays DEF vars
<1>2. ASSUME NEW t \in Setters, Setter(t) PROVE LevelsAgree'
  BY <1>2, AgreeSetLeaf, AgreeCount DEF Setter
<1>3. ASSUME NEW t \in Selectors, Selector(t) PROVE LevelsAgree'
  BY <1>1, <1>3, AgreeTakeCount, AgreeTakeSignal DEF Selector, SelectNothing
<1> QED
  BY <1>1, <1>2, <1>3 DEF Next

TreeInv == TreeTypes /\ LevelsAgree

LEMMA TreeInvariant == Spec => []TreeInv
<1>1. Init => TreeInv
  BY TypesInit, AgreeInit DEF TreeInv
<1>2. TreeInv /\ [Next]_vars => TreeInv'
  BY TypesNext, AgreeNext DEF TreeInv
<1> QED
  BY <1>1, <1>2, PTL DEF Spec

(* With any number of threads half way up or down, a node holds what its   *)
(* parent's counter says and what is on its way between the two.           *)
THEOREM NothingIsLostBetweenLevels == Spec => []LevelsAgree
<1>1. TreeInv => LevelsAgree
  BY DEF TreeInv
<1> QED
  BY <1>1, TreeInvariant, PTL


-----------------------------------------------------------------------------
(* What follows from the agreement of the levels                           *)

LEMMA ParentNode ==
  ASSUME NEW l \in InnerLevels, NEW b, b = Below[l], NEW m \in Nodes(b)
  PROVE  \E n \in Nodes(l) : \E k \in 0 .. Arity[l] - 1 : m = n * Arity[l] + k
<1> DEFINE a == Arity[l]
           c == Capacity \div l
           d == Capacity \div b
           n == m \div a
           k == m % a
<1>1. a \in Nat \ {0} /\ b \in Nat \ {0} /\ l = a * b /\ l \in TreeLevels /\ b \in TreeLevels
  BY LevelTypes
<1>2. c \in Nat \ {0} /\ Capacity = c * l /\ Nodes(l) = 0 .. c - 1
  BY <1>1, NodesOf
<1>3. d \in Nat \ {0} /\ Capacity = d * b /\ m \in 0 .. d - 1
  BY <1>1, NodesOf
<1>4. d = c * a
  <2>1. Capacity = (c * a) * b + 0 /\ Capacity \in Nat /\ c * a \in Int /\ 0 \in 0 .. b - 1
    <3> HIDE DEF c, a
    <3> QED
      BY <1>1, <1>2
  <2> HIDE DEF c, a
  <2> QED
    BY <1>1, <2>1, QuotientOf
<1>5. m \in Nat /\ m < c * a
  <2> HIDE DEF c, a, d
  <2> QED
    BY <1>1, <1>2, <1>3, <1>4
<1>6. n \in Nat /\ k \in 0 .. a - 1 /\ m = n * a + k
  <2> HIDE DEF a
  <2> QED
    BY <1>1, <1>5, RemainderOf
<1>7. n < c
  <2> HIDE DEF a, c
  <2> QED
    BY <1>1, <1>2, <1>5, QuotientBound
<1> HIDE DEF n, k, a, c
<1>8. n \in Nodes(l) /\ k \in 0 .. a - 1 /\ m = n * a + k
  BY <1>2, <1>6, <1>7
<1> USE DEF a
<1> QED
  BY <1>8

(* A word that is zero has no content. *)
LEMMA ContentOfZeroWord ==
  ASSUME TypeOK, NEW l \in TreeLevels, NEW n \in Nodes(l), WordIsZero(l, n)
  PROVE  Content(l, n) = 0
<1>1. CASE l = WordBits
  <2>1. Leaf(n) = {}
    BY <1>1 DEF WordIsZero, IsLeaf
  <2> QED
    BY <1>1, <2>1, ContentOfLeaf, FS_EmptySet
<1>2. CASE l # WordBits
  <2>1. l \in InnerLevels /\ NonZero(l, n) = {}
    BY <1>2 DEF WordIsZero, IsLeaf, InnerLevels
  <2> DEFINE K == 0 .. Arity[l] - 1
  <2>2. IsFiniteSet(K)
    BY <2>1, LevelTypes, FS_Interval
  <2>3. \A k \in K : At(count, l, n, k) \in Nat /\ ~(At(count, l, n, k) > 0)
    BY <2>1, CountersAre DEF TypeOK, At, NonZero
  <2> HIDE DEF K
  <2>4. \A k \in K : At(count, l, n, k) = 0
    BY <2>3
  <2>5. SumOf(count, l, n, K) = 0
    BY <2>2, <2>4, SumZero
  <2> QED
    BY <2>1, <2>5, ContentOfInner DEF K
<1> QED
  BY <1>1, <1>2

(* A select() that a node has let in finds a word that is not zero.        *)
THEOREM SelectFindsItsSignal == Spec => []DescentFindsSignal
<1>1. TreeInv => DescentFindsSignal
  <2> SUFFICES ASSUME TreeInv, NEW t \in Selectors, level[t] # Capacity,
                      WordIsZero(level[t], node[t])
               PROVE  FALSE
    BY DEF DescentFindsSignal
  <2>1. TypeOK /\ LevelsAgree
    BY DEF TreeInv, TreeTypes
  <2>2. PICK b, m : b = level[t] /\ m = node[t]
    OBVIOUS
  <2>3. b \in TreeLevels /\ m \in Nodes(b) /\ b # Capacity
    BY <2>1, <2>2, ThreadTypes DEF TypeOK
  <2>4. PICK l \in InnerLevels : b = Below[l]
    BY <2>3, AboveAndBelow
  <2>5. PICK n \in Nodes(l) : \E k \in 0 .. Arity[l] - 1 : m = n * Arity[l] + k
    BY <2>3, <2>4, ParentNode
  <2>6. PICK k \in 0 .. Arity[l] - 1 : m = n * Arity[l] + k
    BY <2>5
  <2>7. Content(b, m) = At(count, l, n, k) + Climbers(b, m) + Descenders(b, m)
    BY <2>1, <2>4, <2>6, LevelsAgreeIs DEF Agrees
  <2>8. Content(b, m) = 0
    BY <2>1, <2>2, <2>3, ContentOfZeroWord
  <2>9. At(count, l, n, k) \in Nat /\ Climbers(b, m) \in Nat /\ Descenders(b, m) \in Nat
    BY <2>1, CountersAre, ClimbingAndDescending DEF At, TypeOK
  <2>10. Descenders(b, m) # 0
    <3>1. t \in Descending(b, m)
      BY <2>2, <2>3 DEF Descending
    <3>2. IsFiniteSet(Descending(b, m))
      BY ClimbingAndDescending, ThreadSetsAreFinite
    <3> QED
      BY <3>1, <3>2, FS_EmptySet DEF Descenders
  <2> QED
    BY <2>7, <2>8, <2>9, <2>10
<1> QED
  BY <1>1, TreeInvariant, PTL


(* The signals that can ever be set below a node. *)
SignalsOf(l, n) == {i \in Indices : i \div l = n}

LEMMA SignalsAreFinite ==
  /\ IsFiniteSet(Indices) /\ \A i \in Indices : i \in 0 .. Capacity - 1
  /\ \A S : S \subseteq Indices => IsFiniteSet(S) /\ Cardinality(S) \in Nat
<1>1. IsFiniteSet(0 .. Capacity - 1)
  BY CapacityIsNat, FS_Interval
<1>2. IsFiniteSet(Indices) /\ \A i \in Indices : i \in 0 .. Capacity - 1
  BY <1>1, SignalTreeAssumption, FS_Subset
<1> QED
  BY <1>2, FS_Subset, FS_CardinalityType

(* The signals of a child are those of its parent that its counter counts. *)
LEMMA SignalsOfChild ==
  ASSUME NEW l \in InnerLevels, NEW n \in Nodes(l), NEW k \in 0 .. Arity[l] - 1,
         NEW b, b = Below[l], NEW m, m = n * Arity[l] + k
  PROVE  /\ SignalsOf(b, m) = {i \in Indices : CounterOf(l, i) = <<l, n, k>>}
         /\ SignalsOf(b, m) = {i \in SignalsOf(l, n) : (i % l) \div b = k}
<1>1. \A i \in Indices : i \div b = m <=> CounterOf(l, i) = <<l, n, k>>
  BY SignalsAreFinite, CounterIsChild
<1>2. \A i \in Indices : CounterOf(l, i) = <<l, n, k>> <=> i \div l = n /\ (i % l) \div b = k
  BY DEF CounterOf
<1> QED
  BY <1>1, <1>2 DEF SignalsOf

Roomy(l) == \A n \in Nodes(l) : Content(l, n) <= Cardinality(SignalsOf(l, n))

LEMMA LeafIsRoomy == TypeOK => Roomy(WordBits)
<1> SUFFICES ASSUME TypeOK, NEW n \in Nodes(WordBits)
             PROVE  Content(WordBits, n) <= Cardinality(SignalsOf(WordBits, n))
  BY DEF Roomy
<1>1. Leaf(n) \subseteq SignalsOf(WordBits, n)
  BY DEF TypeOK, Leaf, SignalsOf
<1>2. IsFiniteSet(SignalsOf(WordBits, n))
  BY SignalsAreFinite DEF SignalsOf
<1>3. Cardinality(Leaf(n)) <= Cardinality(SignalsOf(WordBits, n))
  BY <1>1, <1>2, FS_Subset
<1> QED
  BY <1>3, ContentOfLeaf

(* A counter is no larger than the signals below it if those of the level  *)
(* below are not.                                                          *)
LEMMA CounterIsBounded ==
  ASSUME TreeInv, NEW l \in InnerLevels, Roomy(Below[l]),
         NEW n \in Nodes(l), NEW k \in 0 .. Arity[l] - 1,
         NEW b, b = Below[l], NEW m, m = n * Arity[l] + k
  PROVE  At(count, l, n, k) \in Nat /\ At(count, l, n, k) <= Cardinality(SignalsOf(b, m))
<1>1. TypeOK /\ LevelsAgree
  BY DEF TreeInv, TreeTypes
<1>2. Content(b, m) = At(count, l, n, k) + Climbers(b, m) + Descenders(b, m)
  BY <1>1, LevelsAgreeIs DEF Agrees
<1>3. At(count, l, n, k) \in Nat /\ Climbers(b, m) \in Nat /\ Descenders(b, m) \in Nat
  BY <1>1, CountersAre, ClimbingAndDescending DEF At, TypeOK
<1>4. m \in Nodes(b)
  BY ChildOf
<1>5. Content(b, m) <= Cardinality(SignalsOf(b, m))
  BY <1>4 DEF Roomy
<1>6. Cardinality(SignalsOf(b, m)) \in Nat
  BY SignalsAreFinite DEF SignalsOf
<1> QED
  BY <1>2, <1>3, <1>5, <1>6

LEMMA InnerIsRoomy ==
  ASSUME TreeInv, NEW l \in InnerLevels, Roomy(Below[l])
  PROVE  Roomy(l)
<1> SUFFICES ASSUME NEW n \in Nodes(l)
             PROVE  Content(l, n) <= Cardinality(SignalsOf(l, n))
  BY DEF Roomy
<1> DEFINE K == 0 .. Arity[l] - 1
           S == SignalsOf(l, n)
           part == [i \in Indices |-> (i % l) \div Below[l]]
<1>1. IsFiniteSet(K)
  <2>1. Arity[l] \in Nat
    BY LevelTypes
  <2> QED
    BY <2>1, FS_Interval
<1>2. S \subseteq Indices /\ IsFiniteSet(S)
  BY SignalsAreFinite DEF SignalsOf
<1>3. \A i \in Indices : part[i] \in K
  BY SignalsAreFinite, CounterOfSignal
<1>4. ASSUME NEW k \in K
      PROVE  /\ At(count, l, n, k) \in Nat
             /\ At(count, l, n, k) <= Cardinality({i \in S : part[i] = k})
  <2>1. PICK b, m : b = Below[l] /\ m = n * Arity[l] + k
    OBVIOUS
  <2>2. At(count, l, n, k) \in Nat /\ At(count, l, n, k) <= Cardinality(SignalsOf(b, m))
    BY <2>1, CounterIsBounded
  <2>3. SignalsOf(b, m) = {i \in S : (i % l) \div b = k}
    BY <2>1, SignalsOfChild
  <2>4. SignalsOf(b, m) = {i \in S : part[i] = k}
    BY <1>2, <2>1, <2>3
  <2> QED
    BY <2>2, <2>4
<1>5. {i \in S : part[i] \in K} = S
  BY <1>2, <1>3
<1> HIDE DEF K, S, part
<1>6. SumOf(count, l, n, K) <= Cardinality({i \in S : part[i] \in K})
  <2>1. /\ \A k \in K : At(count, l, n, k) \in Nat
        /\ \A k \in K : At(count, l, n, k) <= Cardinality({i \in S : part[i] = k})
    BY <1>4
  <2> QED
    BY <1>1, <1>2, <2>1, SumBound
<1>7. Content(l, n) = SumOf(count, l, n, K)
  BY ContentOfInner DEF K
<1> QED
  BY <1>5, <1>6, <1>7 DEF S

(* Level by level, from the leaves up. *)
LEMMA EveryLevelIsRoomy ==
  ASSUME TreeInv
  PROVE  \A l \in TreeLevels : Roomy(l)
<1> DEFINE Good == {v \in Nat : \A l \in TreeLevels : l <= v => Roomy(l)}
<1>1. 0 \in Good
  BY LevelTypes
<1>2. ASSUME NEW v \in Good PROVE v + 1 \in Good
  <2>1. ASSUME NEW l \in TreeLevels, l <= v + 1 PROVE Roomy(l)
    <3>1. CASE l = WordBits
      BY <3>1, LeafIsRoomy DEF TreeInv, TreeTypes
    <3>2. CASE l # WordBits
      <4>1. l \in InnerLevels
        BY <3>2 DEF InnerLevels
      <4>2. Below[l] \in TreeLevels /\ Below[l] <= v
        BY <2>1, <4>1, LevelTypes
      <4>3. Roomy(Below[l])
        BY <4>2
      <4> QED
        BY <4>1, <4>3, InnerIsRoomy
    <3> QED
      BY <3>1, <3>2
  <2> QED
    BY <2>1
<1>3. Good = Nat
  <2>1. Good \subseteq Nat
    OBVIOUS
  <2> HIDE DEF Good
  <2> QED
    BY <1>1, <1>2, <2>1, NatSetInduction
<1>4. \A l \in TreeLevels : l \in Good
  BY <1>3, LevelTypes
<1> QED
  BY <1>4, LevelTypes

(* A counter never exceeds the number of signals below it, so it never     *)
(* carries into its neighbour in the word, whatever the size of the tree   *)
(* and whoever is half way through it.                                     *)
THEOREM CountersNeverCarry == Spec => []CountersFit
<1>1. TreeInv => CountersFit
  <2> SUFFICES ASSUME TreeInv, NEW c \in Counters
               PROVE  count[c] <= Cardinality({i \in Indices : CounterOf(c[1], i) = c})
    BY DEF CountersFit
  <2>1. PICK l, n, k : /\ l = c[1] /\ n = c[2] /\ k = c[3] /\ c = <<l, n, k>>
                       /\ l \in InnerLevels /\ n \in Nodes(l) /\ k \in 0 .. Arity[l] - 1
    BY CountersAre
  <2>2. PICK b, m : b = Below[l] /\ m = n * Arity[l] + k
    OBVIOUS
  <2>3. Roomy(b)
    BY <2>1, <2>2, EveryLevelIsRoomy, LevelTypes
  <2>4. At(count, l, n, k) <= Cardinality(SignalsOf(b, m))
    BY <2>1, <2>2, <2>3, CounterIsBounded
  <2>5. SignalsOf(b, m) = {i \in Indices : CounterOf(l, i) = <<l, n, k>>}
    BY <2>1, <2>2, SignalsOfChild
  <2>6. SignalsOf(b, m) = {i \in Indices : CounterOf(c[1], i) = c}
    BY <2>1, <2>5
  <2>7. At(count, l, n, k) = count[c]
    BY <2>1 DEF At
  <2> QED
    BY <2>4, <2>6, <2>7
<1> QED
  BY <1>1, TreeInvariant, PTL

-----------------------------------------------------------------------------
(* The root: what every call of set() that has returned has counted there, *)
(* and every call of select() has taken before anything else.              *)

RootContent == Content(Capacity, 0)

LEMMA RootIs ==
  /\ Capacity \in TreeLevels /\ Nodes(Capacity) = {0}
  /\ Capacity = WordBits \/ Capacity \in InnerLevels
<1>1. Capacity \in Nat \ {0} /\ Capacity \in TreeLevels
  BY CapacityIsNat, LevelsShape
<1> DEFINE q == Capacity \div Capacity
<1>2. q \in Nat \ {0} /\ Capacity = q * Capacity /\ Nodes(Capacity) = 0 .. q - 1
  BY <1>1, NodesOf
<1>3. q = 1
  <2> HIDE DEF q
  <2>1. CASE q > 1
    <3>1. q * Capacity = Capacity + (q - 1) * Capacity /\ (q - 1) * Capacity > 0
      BY <1>1, <1>2, <2>1
    <3> QED
      BY <1>1, <1>2, <3>1
  <2> QED
    BY <1>2, <2>1
<1> QED
  BY <1>1, <1>2, <1>3 DEF InnerLevels

LEMMA RootIsNat == TypeOK => RootContent \in Nat
  BY RootIs, ContentIsNat DEF RootContent

LEMMA RootInit == TreeTypes /\ Init => RootContent = 0
<1> SUFFICES ASSUME TreeTypes, Init PROVE RootContent = 0
  OBVIOUS
<1>1. TypeOK
  BY DEF TreeTypes
<1>2. WordIsZero(Capacity, 0)
  <2>1. \A k \in 0 .. Arity[Capacity] - 1 : Capacity # WordBits => count[<<Capacity, 0, k>>] = 0
    BY RootIs, CountersAre DEF Init
  <2>2. Leaf(0) = {}
    BY DEF Init, Leaf
  <2> QED
    BY <2>1, <2>2 DEF WordIsZero, NonZero, IsLeaf
<1> QED
  BY <1>1, <1>2, RootIs, ContentOfZeroWord DEF RootContent

LEMMA RootStays ==
  ASSUME UNCHANGED <<signal, count>>
  PROVE  RootContent' = RootContent
  BY RootIs, LeafStays, ContentStays DEF RootContent

(* In a tree of one word, the root's content is the signals. *)
LEMMA SignalsOfOneWord ==
  ASSUME Capacity = WordBits
  PROVE  (TypeOK => Leaf(0) = signal) /\ (TypeOK' => Leaf(0)' = signal')
<1>1. ASSUME NEW i \in Indices PROVE i \div WordBits = 0
  <2>1. i \in 0 .. WordBits - 1 /\ i = 0 * WordBits + i /\ WordBits \in Nat \ {0}
    BY SignalTreeAssumption DEF WordBits
  <2> QED
    BY <2>1, QuotientOf
<1> QED
  BY <1>1 DEF Leaf, TypeOK

LEMMA RootSetLeaf ==
  ASSUME TypeOK, TypeOK', NEW t \in Setters, NEW i \in Indices, SetLeaf(t, i), i \notin signal
  PROVE  /\ RootContent' = RootContent + IF Capacity = WordBits THEN 1 ELSE 0
         /\ climbs' = IF Capacity = WordBits THEN climbs ELSE [climbs EXCEPT ![t] = TRUE]
         /\ signal' = signal \cup {i} /\ UNCHANGED <<count, node>>
         /\ \A u \in Selectors : level'[u] = level[u]
<1>1. /\ signal' = signal \cup {i} /\ UNCHANGED <<count, node>>
      /\ climbs' = IF Capacity = WordBits THEN climbs ELSE [climbs EXCEPT ![t] = TRUE]
  BY DEF SetLeaf, IsLeaf
<1>2. \A u \in Selectors : level'[u] = level[u]
  BY ThreadTypes DEF SetLeaf, TypeOK
<1>3. CASE Capacity = WordBits
  <2>1. Leaf(0) = signal
    BY <1>3, SignalsOfOneWord
  <2>2. Leaf(0)' = signal'
    BY <1>3, SignalsOfOneWord
  <2>3. Cardinality(Leaf(0) \cup {i}) = Cardinality(Leaf(0)) + 1 /\ Leaf(0)' = Leaf(0) \cup {i}
    BY <1>1, <2>1, <2>2, LeafIsFinite
  <2>4. Content(WordBits, 0) = Cardinality(Leaf(0)) /\ Content(WordBits, 0)' = Cardinality(Leaf(0)')
    BY ContentOfLeaf
  <2>5. RootContent' = RootContent + 1
    BY <1>3, <2>3, <2>4 DEF RootContent
  <2> QED
    BY <1>1, <1>2, <1>3, <2>5
<1>4. CASE Capacity # WordBits
  <2>1. RootContent' = RootContent
    BY <1>1, <1>4, RootIs, ContentStays DEF RootContent
  <2>2. RootContent \in Nat
    BY RootIsNat
  <2> QED
    BY <1>1, <1>2, <1>4, <2>1, <2>2
<1> QED
  BY <1>3, <1>4

(* One counter changes: that is the root's content or it is not. *)
LEMMA RootCounter ==
  ASSUME TypeOK, NEW L \in InnerLevels, NEW N \in Nodes(L), NEW J \in 0 .. Arity[L] - 1,
         NEW by \in Int, CountBecomes(L, N, J, by)
  PROVE  RootContent' = RootContent + IF L = Capacity THEN by ELSE 0
<1>1. Capacity \in InnerLevels /\ 0 \in Nodes(Capacity)
  BY RootIs, OneLevel
<1>2. RootContent' = IF Capacity = L /\ 0 = N THEN RootContent + by ELSE RootContent
  BY <1>1, ContentChanges DEF RootContent
<1>3. L = Capacity => N = 0
  BY RootIs
<1> QED
  BY <1>2, <1>3, RootIsNat

LEMMA RootCount ==
  ASSUME TreeTypes, NEW t \in Setters, Count(t)
  PROVE  /\ RootContent' = RootContent + IF level[t] = Capacity THEN 1 ELSE 0
         /\ climbs[t] /\ climbs' = [climbs EXCEPT ![t] = level[t] # Capacity]
         /\ UNCHANGED signal /\ \A u \in Selectors : level'[u] = level[u]
<1>1. PICK L, i, N, J :
        /\ level[t] = L /\ L \in InnerLevels
        /\ N \in Nodes(L) /\ J \in 0 .. Arity[L] - 1 /\ CounterOf(L, index[t]) = <<L, N, J>>
  <2> DEFINE L == level[t]
             i == index[t]
  <2>1. L \in InnerLevels /\ i \in 0 .. Capacity - 1
    BY SignalTreeAssumption DEF Count, TreeTypes, TypeOK
  <2>2. i \div L \in Nodes(L) /\ (i % L) \div Below[L] \in 0 .. Arity[L] - 1
    BY <2>1, CounterOfSignal
  <2> QED
    BY <2>1, <2>2 DEF CounterOf
<1>2. TypeOK /\ CountBecomes(L, N, J, 1)
  BY <1>1 DEF Count, TreeTypes, CountBecomes
<1>3. /\ climbs[t] /\ climbs' = [climbs EXCEPT ![t] = level[t] # Capacity]
      /\ UNCHANGED signal
  BY <1>1 DEF Count, Returns
<1>4. \A u \in Selectors : level'[u] = level[u]
  BY <1>2, ThreadTypes DEF Count, TypeOK
<1> QED
  BY <1>1, <1>2, <1>3, <1>4, RootCounter

LEMMA RootTakeCount ==
  ASSUME TreeTypes, NEW t \in Selectors, TakeCount(t)
  PROVE  /\ RootContent' = RootContent - IF level[t] = Capacity THEN 1 ELSE 0
         /\ level'[t] # Capacity /\ \A u \in Selectors \ {t} : level'[u] = level[u]
         /\ UNCHANGED <<signal, climbs>>
<1>1. PICK J \in NonZero(level[t], node[t]) :
        /\ ~IsLeaf(level[t])
        /\ count' = [count EXCEPT ![<<level[t], node[t], J>>] = @ - 1]
        /\ level' = [level EXCEPT ![t] = Below[level[t]]]
        /\ UNCHANGED <<signal, climbs>>
  BY DEF TakeCount, Choosable
<1>2. PICK L, N : L = level[t] /\ N = node[t]
  OBVIOUS
<1>3. TypeOK /\ L \in InnerLevels /\ N \in Nodes(L) /\ J \in 0 .. Arity[L] - 1
  BY <1>1, <1>2, ThreadTypes DEF NonZero, InnerLevels, IsLeaf, TreeTypes, TypeOK
<1>4. CountBecomes(L, N, J, -1)
  <2>1. <<L, N, J>> \in Counters
    BY <1>3, CountersAre
  <2>2. count[<<L, N, J>>] - 1 = count[<<L, N, J>>] + (-1)
    BY <1>3, <2>1 DEF TypeOK
  <2> QED
    BY <1>1, <1>2, <2>2 DEF CountBecomes
<1>5. RootContent' = RootContent + IF L = Capacity THEN -1 ELSE 0
  BY <1>3, <1>4, RootCounter
<1>6. RootContent' = RootContent - IF L = Capacity THEN 1 ELSE 0
  BY <1>3, <1>5, RootIsNat
<1>7. Below[L] # Capacity
  BY <1>3, AboveAndBelow
<1>8. level'[t] # Capacity /\ \A u \in Selectors \ {t} : level'[u] = level[u]
  BY <1>1, <1>2, <1>3, <1>7, ThreadTypes DEF TypeOK
<1> QED
  BY <1>1, <1>2, <1>6, <1>8

LEMMA RootTakeSignal ==
  ASSUME TypeOK, TypeOK', NEW t \in Selectors, TakeSignal(t)
  PROVE  /\ RootContent' = RootContent - IF level[t] = Capacity THEN 1 ELSE 0
         /\ level'[t] = Capacity /\ \A u \in Selectors \ {t} : level'[u] = level[u]
         /\ UNCHANGED climbs /\ \E i \in signal : signal' = signal \ {i}
<1>1. PICK i \in Leaf(node[t]) : signal' = signal \ {i}
  BY DEF TakeSignal
<1>2. i \in signal /\ UNCHANGED <<count, climbs>> /\ level[t] = WordBits
      /\ level' = [level EXCEPT ![t] = Capacity]
  BY <1>1 DEF TakeSignal, Leaf, IsLeaf
<1>3. level'[t] = Capacity /\ \A u \in Selectors \ {t} : level'[u] = level[u]
  BY <1>2, ThreadTypes DEF TypeOK
<1>4. CASE Capacity = WordBits
  <2>1. Leaf(0) = signal
    BY <1>4, SignalsOfOneWord
  <2>2. Leaf(0)' = signal'
    BY <1>4, SignalsOfOneWord
  <2>3. Cardinality(Leaf(0) \ {i}) = Cardinality(Leaf(0)) - 1 /\ Leaf(0)' = Leaf(0) \ {i}
    BY <1>1, <1>2, <2>1, <2>2, LeafIsFinite
  <2>4. Content(WordBits, 0) = Cardinality(Leaf(0)) /\ Content(WordBits, 0)' = Cardinality(Leaf(0)')
    BY ContentOfLeaf
  <2>5. RootContent' = RootContent - 1
    BY <1>4, <2>3, <2>4 DEF RootContent
  <2> QED
    BY <1>1, <1>2, <1>3, <1>4, <2>5
<1>5. CASE Capacity # WordBits
  <2>1. RootContent' = RootContent
    BY <1>2, <1>5, RootIs, ContentStays DEF RootContent
  <2>2. RootContent \in Nat
    BY RootIsNat
  <2> QED
    BY <1>1, <1>2, <1>3, <1>5, <2>1, <2>2
<1> QED
  BY <1>4, <1>5

(* No counter is larger than the sum of its node. *)
LEMMA SumIsAtLeast ==
  ASSUME NEW c, NEW l, NEW n, NEW K, IsFiniteSet(K), NEW j \in K,
         \A k \in K : At(c, l, n, k) \in Nat
  PROVE  At(c, l, n, j) <= SumOf(c, l, n, K)
<1> DEFINE d == [x \in {<<l, n, k>> : k \in K} |-> IF x = <<l, n, j>> THEN 0 ELSE c[x]]
           by == 0 - At(c, l, n, j)
<1>1. /\ by \in Int /\ At(c, l, n, j) \in Nat
      /\ \A k \in K : At(d, l, n, k) = IF k = j THEN 0 ELSE At(c, l, n, k)
  BY DEF At
<1>2. /\ \A k \in K : At(d, l, n, k) \in Nat
      /\ \A k \in K : At(d, l, n, k) = IF k = j THEN At(c, l, n, k) + by ELSE At(c, l, n, k)
  <2> HIDE DEF d
  <2> QED
    BY <1>1
<1> HIDE DEF d
<1>3. SumOf(d, l, n, K) \in Nat /\ SumOf(c, l, n, K) \in Nat
  BY <1>2, SumType
<1>4. SumOf(d, l, n, K) = IF j \in K THEN SumOf(c, l, n, K) + by ELSE SumOf(c, l, n, K)
  <2>1. by \in Int
    BY <1>1
  <2> HIDE DEF by
  <2> QED
    BY <1>2, <2>1, SumChanges
<1> QED
  BY <1>1, <1>3, <1>4

LEMMA RootIsEmpty == TypeOK => (empty <=> RootContent = 0)
<1> SUFFICES ASSUME TypeOK PROVE empty <=> RootContent = 0
  OBVIOUS
<1>1. empty => RootContent = 0
  BY RootIs, ContentOfZeroWord DEF empty, RootContent
<1>2. ASSUME RootContent = 0, Capacity = WordBits PROVE empty
  <2>1. Cardinality(Leaf(0)) = 0 /\ IsFiniteSet(Leaf(0))
    BY <1>2, ContentOfLeaf, LeafIsFinite DEF RootContent
  <2>2. Leaf(0) = {}
    BY <2>1, FS_EmptySet
  <2> QED
    BY <1>2, <2>2 DEF empty, WordIsZero, IsLeaf
<1>3. ASSUME RootContent = 0, Capacity # WordBits PROVE empty
  <2> DEFINE K == 0 .. Arity[Capacity] - 1
  <2>1. Capacity \in InnerLevels /\ 0 \in Nodes(Capacity)
    BY <1>3, RootIs
  <2>2. IsFiniteSet(K)
    BY <2>1, LevelTypes, FS_Interval
  <2>3. \A k \in K : At(count, Capacity, 0, k) \in Nat
    BY <2>1, CountersAre DEF TypeOK, At
  <2>4. SumOf(count, Capacity, 0, K) = 0
    BY <1>3, <2>1, ContentOfInner DEF RootContent
  <2>5. \A k \in K : ~(At(count, Capacity, 0, k) > 0)
    <3> HIDE DEF K
    <3>1. \A k \in K : At(count, Capacity, 0, k) <= SumOf(count, Capacity, 0, K)
      BY <2>2, <2>3, SumIsAtLeast
    <3> QED
      BY <2>3, <2>4, <3>1
  <2> QED
    BY <1>3, <2>5 DEF empty, WordIsZero, IsLeaf, NonZero, At
<1> QED
  BY <1>1, <1>2, <1>3
=============================================================================
