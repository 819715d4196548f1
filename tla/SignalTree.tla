----------------------------- MODULE SignalTree -----------------------------
(***************************************************************************)
(* The signal tree with more than one level (signal_tree/*.h).  A node is  *)
(* one 64 bit atomic word.  A leaf word holds 64 signals; the word of an   *)
(* inner node holds one counter per child, the number of signals set below *)
(* that child.  set() sets the leaf bit and then counts it in one node per *)
(* level, leaf to root; select() gives up one count per level, root to     *)
(* leaf, and then takes a bit.  Each of these is one atomic operation and  *)
(* any number of threads are between two of them.                          *)
(*                                                                         *)
(* A level is named by the capacity of its nodes, as in the code's types:  *)
(* the root level is Capacity, the leaf level is 64.  Which of the non-zero*)
(* counters select() prefers is BiasSelector.tla's subject; here it takes  *)
(* any of them.                                                            *)
(***************************************************************************)
EXTENDS Integers, FiniteSetsExt

CONSTANTS
  Capacity,    \* of the tree
  Indices,     \* the signals that are ever set
  Setters,     \* threads that call set()
  Selectors,   \* threads that call select()
  MaxSets      \* bound: how many calls of set() there are

-----------------------------------------------------------------------------
(* The shape of a tree, computed at compile time.                          *)

WordBits == 64

minimum_bit_count(n) == CHOOSE k \in 1..31 : n \div 2^(k - 1) = 1

(* Sizes select_tree_size() accepts, up to the largest in its table. *)
ValidSizes == {64 * 2^k : k \in {0, 3, 5, 7, 9} \cup 11..21}

Fits(capacity, n) == n * minimum_bit_count(capacity \div n) <= WordBits

(* How many counters a node has: the most that fit, in powers of two. *)
sub_counter_arity(capacity) == Max({n \in {2^k : k \in 0..6} : Fits(capacity, n)})

counter_capacity(capacity) == capacity \div sub_counter_arity(capacity)
bits_per_counter(capacity) == minimum_bit_count(counter_capacity(capacity))

IsLeaf(level) == level = WordBits

(* Levels[c] are the levels of a tree or sub-tree of capacity c. *)
Levels[c \in Nat] ==
  {c} \cup IF c <= WordBits THEN {} ELSE Levels[counter_capacity(c)]

(* How far tree::select() shifts the bias, and how much of it a level of   *)
(* level::select() then uses up.                                           *)
number_of_bias_bits(capacity) == 65 - minimum_bit_count(capacity)
bias_bits_consumed(level) == minimum_bit_count(sub_counter_arity(level)) - 1

(* For every size signal_tree<N> may have: the counters of a node fit a    *)
(* word, each can count all signals below it, the levels come out at       *)
(* leaves of one word, each level but the root has one level above it, and *)
(* select() has one bit of bias for each choice of a half, all of which it *)
(* shifts to the top.                                                      *)
SoundShape(size) ==
  /\ Levels[size] \subseteq Nat /\ \A l \in Levels[size] : l >= WordBits
  /\ \A l \in Levels[size] :
       /\ sub_counter_arity(l) * bits_per_counter(l) <= WordBits
       /\ counter_capacity(l) < 2^bits_per_counter(l)
       /\ sub_counter_arity(l) * counter_capacity(l) = l
  /\ {WordBits, size} \subseteq Levels[size]
  /\ \A l \in Levels[size] : size % l = 0
  /\ \A l \in Levels[size] \ {WordBits} :
       /\ counter_capacity(l) \in Levels[size] \ {l}
       /\ sub_counter_arity(l) \in Nat \ {0}
       /\ \A m \in Levels[size] \ {WordBits, l} :
            counter_capacity(m) # counter_capacity(l)
  /\ \A l \in Levels[size] \ {size} :
       \E m \in Levels[size] \ {WordBits} : counter_capacity(m) = l
  /\ number_of_bias_bits(size)
       + MapThenSumSet(bias_bits_consumed, Levels[size]) = 64

ASSUME ShapeIsSound == \A size \in ValidSizes : SoundShape(size)

-----------------------------------------------------------------------------
(* The tree of this instance. *)
TreeLevels  == Levels[Capacity]
InnerLevels == TreeLevels \ {WordBits}
Arity       == [l \in TreeLevels |-> sub_counter_arity(l)]
Below       == [l \in TreeLevels |-> counter_capacity(l)]

Above(level) == CHOOSE l \in InnerLevels : Below[l] = level

Nodes(level) == 0 .. (Capacity \div level) - 1

Counters ==
  UNION {{<<l, n, k>> : n \in Nodes(l), k \in 0 .. Arity[l] - 1} : l \in InnerLevels}

Threads == Setters \cup Selectors

ASSUME SignalTreeAssumption ==
  /\ Capacity \in ValidSizes
  /\ Indices \subseteq 0 .. Capacity - 1
  /\ Setters \cap Selectors = {} /\ IsFiniteSet(Threads)
  /\ MaxSets \in Nat

VARIABLES
  signal,  \* the bits that are set in the leaf words
  count,   \* the counters of the inner words
  level,   \* the level a thread goes to next; a thread that is not in a call
           \* is at level 64 (Setters) or Capacity (Selectors)
  node,    \* Selectors: the node of that level it has been sent to
  index,   \* Setters: the signal; Selectors: the part of the index it knows
  climbs,  \* Setters: has a call of set() under way
  sets     \* number of calls of set() so far

vars == <<signal, count, level, node, index, climbs, sets>>

Leaf(n)        == {i \in signal : i \div WordBits = n}
NonZero(l, n)  == {k \in 0 .. Arity[l] - 1 : count[<<l, n, k>>] > 0}
WordIsZero(l, n) == IF IsLeaf(l) THEN Leaf(n) = {} ELSE NonZero(l, n) = {}

(* tree::empty() *)
empty == WordIsZero(Capacity, 0)

-----------------------------------------------------------------------------
(* set() *)

(* Mutant: the counter is looked up with an index that is not reduced to   *)
(* the node's own range.                                                   *)
CounterOfUnreduced(l, i) == <<l, i \div l, (i \div Below[l]) % (Arity[l] \div 2)>>

(* The counter of a level that counts a signal. *)
CounterOf(l, i) == <<l, i \div l, (i % l) \div Below[l]>>

(* Mutant: the leaf level reports to the root level directly. *)
FirstCountedAtRoot == Capacity

(* Where a signal that is new in its leaf is counted first. *)
FirstCounted == Above(WordBits)

(* Mutant: set() goes on to count a signal that was set already. *)
SetLeafAlways(t, i) ==
  /\ ~climbs[t]
  /\ sets < MaxSets
  /\ sets' = sets + 1
  /\ signal' = signal \cup {i}
  /\ climbs' = [climbs EXCEPT ![t] = TRUE]
  /\ level' = [level EXCEPT ![t] = FirstCounted]
  /\ index' = [index EXCEPT ![t] = i]
  /\ UNCHANGED <<count, node>>

(* A set() of a signal that is set already changes nothing and is not      *)
(* counted.                                                                *)
SetLeaf(t, i) ==
  /\ ~climbs[t]
  /\ sets < MaxSets
  /\ sets' = sets + 1
  /\ signal' = signal \cup {i}
  /\ IF i \in signal \/ IsLeaf(Capacity)
     THEN UNCHANGED <<climbs, level, index>>
     ELSE /\ climbs' = [climbs EXCEPT ![t] = TRUE]
          /\ level' = [level EXCEPT ![t] = FirstCounted]
          /\ index' = [index EXCEPT ![t] = i]
  /\ UNCHANGED <<count, node>>

(* Mutant: the call returns once some level has counted the signal. *)
ReturnsEarly(l) == TRUE

(* The call returns once the root has counted the signal. *)
Returns(l) == l = Capacity

(* fetch_add on the node of the signal, then on the node above it. *)
Count(t) ==
  /\ climbs[t]
  /\ count' = [count EXCEPT ![CounterOf(level[t], index[t])] = @ + 1]
  /\ climbs' = [climbs EXCEPT ![t] = ~Returns(level[t])]
  /\ level' = [level EXCEPT ![t] = IF Returns(@) THEN WordBits ELSE Above(@)]
  /\ UNCHANGED <<signal, node, index, sets>>

-----------------------------------------------------------------------------
(* select() *)

(* The root's word is zero: select() returns invalid_signal_index. *)
SelectNothing(t) ==
  /\ level[t] = Capacity
  /\ empty
  /\ UNCHANGED vars

(* Mutant: a counter is chosen without a look at its value. *)
ChoosableAny(l, n) == IF empty THEN {} ELSE 0 .. Arity[l] - 1

(* Counters the selectors may choose.  The word the choice is made from is *)
(* the word the compare-exchange replaces.                                 *)
Choosable(l, n) == NonZero(l, n)

(* Mutant: scaled by the number of counters, not by their capacity. *)
IndexPartByArity(l, k) == k * Arity[l]

(* What a level contributes to the index, in front of what its child says. *)
IndexPart(l, k) == k * Below[l]

(* The compare-exchange on a node's word that succeeds. *)
TakeCount(t) ==
  LET l == level[t]
      n == node[t]
  IN  \E k \in IF IsLeaf(l) THEN {} ELSE Choosable(l, n) :
        /\ count' = [count EXCEPT ![<<l, n, k>>] = @ - 1]
        /\ level' = [level EXCEPT ![t] = Below[l]]
        /\ node' = [node EXCEPT ![t] = n * Arity[l] + k]
        /\ index' = [index EXCEPT ![t] = @ + IndexPart(l, k)]
        /\ UNCHANGED <<signal, climbs, sets>>

(* The fetch_and on a leaf word that clears a bit that was set. *)
TakeSignal(t) ==
  /\ IsLeaf(level[t])
  /\ \E i \in Leaf(node[t]) : signal' = signal \ {i}
  /\ level' = [level EXCEPT ![t] = Capacity]
  /\ node' = [node EXCEPT ![t] = 0]
  /\ index' = [index EXCEPT ![t] = 0]
  /\ UNCHANGED <<count, climbs, sets>>

-----------------------------------------------------------------------------
Init ==
  /\ signal = {}
  /\ count = [c \in Counters |-> 0]
  /\ level = [t \in Threads |-> IF t \in Setters THEN WordBits ELSE Capacity]
  /\ node = [t \in Threads |-> 0]
  /\ index = [t \in Threads |-> 0]
  /\ climbs = [t \in Setters |-> FALSE]
  /\ sets = 0

Setter(t)   == (\E i \in Indices : SetLeaf(t, i)) \/ Count(t)
Selector(t) == SelectNothing(t) \/ TakeCount(t) \/ TakeSignal(t)

Next == (\E t \in Setters : Setter(t)) \/ (\E t \in Selectors : Selector(t))

Spec == Init /\ [][Next]_vars

(* A call of set() that has begun goes on; selectors call again and again, *)
(* as the workers of a group do.                                           *)
Fairness ==
  /\ \A t \in Setters : WF_vars(Count(t))
  /\ \A t \in Selectors : WF_vars(TakeCount(t) \/ TakeSignal(t))

FairSpec == Spec /\ Fairness

-----------------------------------------------------------------------------
(* Properties                                                              *)

Descending(l, n) == {t \in Selectors : l # Capacity /\ level[t] = l /\ node[t] = n}

(* Calls of set() that have set their bit, or counted it below, and go on  *)
(* to the counter of a node of level l.                                    *)
Climbing(l, n) ==
  {t \in Setters : /\ climbs[t]
                   /\ index[t] \div l = n
                   /\ l # Capacity
                   /\ level[t] = Above(l)}

(* How many signals a word stands for, and how many a parent's counter     *)
(* announces to be there.                                                  *)
Content(l, n) ==
  IF IsLeaf(l) THEN Cardinality(Leaf(n))
  ELSE MapThenSumSet(LAMBDA k : count[<<l, n, k>>], 0 .. Arity[l] - 1)

(* The variables have the types of the code: above all, no counter is ever *)
(* decremented below zero, which would borrow from its neighbour.          *)
TypeOK ==
  /\ signal \subseteq Indices
  /\ count \in [Counters -> Nat]
  /\ level \in [Threads -> TreeLevels]
  /\ \A t \in Threads : node[t] \in Nodes(level[t])
  /\ index \in [Threads -> 0 .. Capacity - 1]
  /\ climbs \in [Setters -> BOOLEAN]
  /\ sets \in 0 .. MaxSets

(* A counter never exceeds the number of signals below it, so no fetch_add *)
(* of node::set() carries into the neighbouring counter of the word, with  *)
(* any number of calls of set() and select() half way.                     *)
CountersFit ==
  \A c \in Counters :
    count[c] <= Cardinality({i \in Indices : CounterOf(c[1], i) = c})

(* Between two levels nothing is lost: a node holds what its parent's      *)
(* counter says, and one more for each call of set() that has not climbed  *)
(* to the parent yet and for each call of select() on its way down.        *)
LevelsAgree ==
  \A l \in InnerLevels : \A n \in Nodes(l) : \A k \in 0 .. Arity[l] - 1 :
    LET child == n * Arity[l] + k
    IN  Content(Below[l], child) =
          count[<<l, n, k>>] + Cardinality(Climbing(Below[l], child))
                             + Cardinality(Descending(Below[l], child))

(* A select() that was given a count by a node finds a word that is not    *)
(* zero in the child, whoever else takes from it: level::select() checks   *)
(* for an invalid index in the root only.                                  *)
DescentFindsSignal ==
  \A t \in Selectors :
    level[t] # Capacity => ~WordIsZero(level[t], node[t])

(* The parts of the index a select() has put together name the node it is  *)
(* in, so that it returns the index of the bit it clears and no other.     *)
IndexNamesNode ==
  \A t \in Selectors : level[t] # Capacity => index[t] = node[t] * level[t]

(* When the calls of set() are over, the tree is drained: whatever the     *)
(* interleaving of climbing and descending threads was, the selectors find *)
(* every signal, and no counter is left over.                              *)
TreeDrains ==
  <>[](signal = {} /\ \A c \in Counters : count[c] = 0)

(* What tree.h says of select() and empty(): invalid_signal_index, and     *)
(* true, if no leaf is set.  A signal whose set() has returned is a leaf   *)
(* that is set.                                                            *)
EmptyMeansNoLeafIsSet ==
  empty /\ (\A t \in Selectors : level[t] = Capacity) =>
    \A i \in signal : \E t \in Setters : climbs[t] /\ index[t] = i
=============================================================================
