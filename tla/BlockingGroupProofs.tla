------------------------ MODULE BlockingGroupProofs ------------------------
(***************************************************************************)
(* Proofs about BlockingGroup for any finite number of threads and trees:  *)
(* the counter accounts for the trees, and no wakeup is lost.              *)
(***************************************************************************)
EXTENDS BlockingGroup, FiniteSetTheorems, TLAPS

(* The types, but for the range of the counter; and only workers walk over *)
(* trees.                                                                  *)
ShapeInv ==
  /\ signal \subseteq Contracts
  /\ nonZeroCounter \in Int
  /\ stopped \in BOOLEAN
  /\ raise \in [Threads -> Raises]
  /\ pc    \in [Threads -> Steps]
  /\ wait  \in [Threads -> Waits]
  /\ todo  \in [Threads -> SUBSET Trees]
  /\ Decrementing \subseteq Workers

(* A worker that sleeps, or that has read the counter as zero and is going *)
(* to sleep, will be notified of a counter above zero.                     *)
SleepersInv ==
  \A t \in Workers :
    pc[t] \in {"asleep", "pred_stopped"} /\ nonZeroCounter > 0
    => \E u \in Threads : raise[u] = "notify"

BInv ==
  ShapeInv /\ CounterAccountsForTrees /\ SleepersInv /\ NoSleepAfterStop

-----------------------------------------------------------------------------
(* The sets that the counter is about are finite. *)
LEMMA CountedSetsAreFinite ==
  /\ IsFiniteSet(NonEmptyTrees) /\ IsFiniteSet(Incrementing) /\ IsFiniteSet(Decrementing)
  /\ Cardinality(NonEmptyTrees) \in 0 .. Cardinality(Trees)
  /\ Cardinality(Incrementing) \in 0 .. Cardinality(Threads)
  /\ Cardinality(Decrementing) \in 0 .. Cardinality(Threads)
<1>1. NonEmptyTrees \subseteq Trees /\ Incrementing \subseteq Threads
      /\ Decrementing \subseteq Threads
  BY DEF NonEmptyTrees, Incrementing, Decrementing
<1>2. QED
  BY <1>1, BlockingAssumption, FS_Subset, FS_CardinalityType

(* A step that leaves the three sets and the counter as they are keeps the *)
(* account.                                                                *)
LEMMA AccountKept ==
  ASSUME CounterAccountsForTrees,
         NonEmptyTrees' = NonEmptyTrees, Incrementing' = Incrementing,
         Decrementing' = Decrementing, nonZeroCounter' = nonZeroCounter
  PROVE  CounterAccountsForTrees'
BY DEF CounterAccountsForTrees

(* set_contract_signal() on an empty tree adds the tree and one increment  *)
(* to come; on any other tree it changes nothing.                          *)
LEMMA SetSignalAccount ==
  ASSUME BInv, NEW t \in Schedulers \cup Workers, NEW c \in Contracts, SetSignal(t, c)
  PROVE  CounterAccountsForTrees'
<1> DEFINE tr == TreeOf[c]
<1> ShapeInv /\ CounterAccountsForTrees
  BY DEF BInv
<1>1. tr \in Trees /\ t \in Threads
  BY BlockingAssumption DEF Threads
<1>2. /\ NonEmptyTrees' = NonEmptyTrees \cup {tr}
      /\ tr \in NonEmptyTrees <=> Tree(tr) # {}
  BY <1>1 DEF SetSignal, NonEmptyTrees, Tree
<1>3. Decrementing' = Decrementing /\ nonZeroCounter' = nonZeroCounter
  BY DEF SetSignal, workerVars, Decrementing
<1>4. CASE Tree(tr) = {}
  <2>1. Incrementing' = Incrementing \cup {t} /\ t \notin Incrementing
    BY <1>1, <1>4 DEF SetSignal, Incrementing, ShapeInv
  <2>2. /\ Cardinality(Incrementing') = Cardinality(Incrementing) + 1
        /\ Cardinality(NonEmptyTrees') = Cardinality(NonEmptyTrees) + 1
    BY <1>2, <1>4, <2>1, CountedSetsAreFinite, FS_AddElement
  <2>3. QED
    BY <1>3, <2>2, CountedSetsAreFinite DEF CounterAccountsForTrees, ShapeInv
<1>5. CASE Tree(tr) # {}
  <2>1. Incrementing' = Incrementing
    BY <1>1, <1>5 DEF SetSignal, Incrementing, ShapeInv
  <2>2. NonEmptyTrees' = NonEmptyTrees
    BY <1>2, <1>5
  <2>3. QED
    BY <1>3, <2>1, <2>2, AccountKept
<1>6. QED
  BY <1>4, <1>5

(* An increment to come becomes one of the counter. *)
LEMMA IncrementAccount ==
  ASSUME BInv, NEW t \in Schedulers \cup Workers, IncrementNonZeroCounter(t)
  PROVE  CounterAccountsForTrees'
<1> ShapeInv /\ CounterAccountsForTrees
  BY DEF BInv
<1>1. t \in Threads
  BY DEF Threads
<1>2. Incrementing' = Incrementing \ {t} /\ t \in Incrementing
  BY <1>1 DEF IncrementNonZeroCounter, Incrementing, ShapeInv
<1>3. Cardinality(Incrementing') = Cardinality(Incrementing) - 1
  BY <1>2, CountedSetsAreFinite, FS_RemoveElement
<1>4. /\ NonEmptyTrees' = NonEmptyTrees /\ Decrementing' = Decrementing
      /\ nonZeroCounter' = nonZeroCounter + 1
  BY DEF IncrementNonZeroCounter, workerVars, NonEmptyTrees, Tree, Decrementing
<1>5. QED
  BY <1>3, <1>4, CountedSetsAreFinite DEF CounterAccountsForTrees, ShapeInv

(* select() of the last signal of a tree takes the tree away and adds one  *)
(* decrement to come; of any other signal it changes nothing.              *)
LEMMA SelectAccount ==
  ASSUME BInv, NEW t \in Workers, NEW c \in Contracts, Select(t, c)
  PROVE  CounterAccountsForTrees'
<1> DEFINE tr == TreeOf[c]
<1> ShapeInv /\ CounterAccountsForTrees
  BY DEF BInv
<1>1. tr \in Trees /\ t \in Threads
  BY BlockingAssumption DEF Threads
<1>2. Incrementing' = Incrementing /\ nonZeroCounter' = nonZeroCounter
  BY DEF Select, Incrementing
<1>3. CASE Tree(tr) = {c}
  <2>1. NonEmptyTrees' = NonEmptyTrees \ {tr} /\ tr \in NonEmptyTrees
    BY <1>1, <1>3 DEF Select, NonEmptyTrees, Tree
  <2>2. Decrementing' = Decrementing \cup {t} /\ t \notin Decrementing
    BY <1>1, <1>3 DEF Select, At, Goto, Decrementing, ShapeInv
  <2>3. /\ Cardinality(NonEmptyTrees') = Cardinality(NonEmptyTrees) - 1
        /\ Cardinality(Decrementing') = Cardinality(Decrementing) + 1
    BY <2>1, <2>2, CountedSetsAreFinite, FS_AddElement, FS_RemoveElement
  <2>4. QED
    BY <1>2, <2>3, CountedSetsAreFinite DEF CounterAccountsForTrees, ShapeInv
<1>4. CASE Tree(tr) # {c}
  <2>1. NonEmptyTrees' = NonEmptyTrees
    BY <1>1, <1>4 DEF Select, NonEmptyTrees, Tree
  <2>2. Decrementing' = Decrementing
    BY <1>1, <1>4 DEF Select, At, Goto, Decrementing, ShapeInv
  <2>3. QED
    BY <1>2, <2>1, <2>2, AccountKept
<1>5. QED
  BY <1>3, <1>4

(* A decrement to come is taken off the counter. *)
LEMMA DecrementAccount ==
  ASSUME BInv, NEW t \in Workers, DecrementNonZeroCounter(t)
  PROVE  CounterAccountsForTrees'
<1> ShapeInv /\ CounterAccountsForTrees
  BY DEF BInv
<1>1. t \in Threads
  BY DEF Threads
<1>2. Decrementing' = Decrementing \ {t} /\ t \in Decrementing
  BY <1>1 DEF DecrementNonZeroCounter, At, Goto, Decrementing, ShapeInv
<1>3. Cardinality(Decrementing') = Cardinality(Decrementing) - 1
  BY <1>2, CountedSetsAreFinite, FS_RemoveElement
<1>4. /\ NonEmptyTrees' = NonEmptyTrees /\ Incrementing' = Incrementing
      /\ nonZeroCounter' = nonZeroCounter - 1
  BY DEF DecrementNonZeroCounter, NonEmptyTrees, Tree, Incrementing
<1>5. QED
  BY <1>3, <1>4, CountedSetsAreFinite DEF CounterAccountsForTrees, ShapeInv
-----------------------------------------------------------------------------
(* A step that leaves counter, notifiers and stopped_ alone and takes its  *)
(* thread to neither of the two steps of a sleeper keeps the sleepers safe. *)
LEMMA AwakeKept ==
  ASSUME SleepersInv, NoSleepAfterStop, NEW t \in Threads,
         UNCHANGED <<nonZeroCounter, raise, stopped>>,
         \A u \in Threads \ {t} : pc'[u] = pc[u],
         pc'[t] \notin {"asleep", "pred_stopped"}, pc[t] # "stop_notify"
  PROVE  SleepersInv' /\ NoSleepAfterStop'
BY DEF SleepersInv, NoSleepAfterStop, Threads

(* The thread that fills an empty tree has yet to count it.                *)
LEMMA SetSignalStep ==
  ASSUME BInv, NEW t \in Schedulers \cup Workers, NEW c \in Contracts, SetSignal(t, c)
  PROVE  BInv'
<1> t \in Threads
  BY DEF Threads
<1> ShapeInv /\ SleepersInv /\ NoSleepAfterStop
  BY DEF BInv
<1>1. CounterAccountsForTrees'
  BY SetSignalAccount
<1> USE DEF SetSignal, workerVars
<1>2. ShapeInv'
  BY SMTT(20) DEF ShapeInv, Raises, Waits, Steps, Decrementing
<1>3. SleepersInv'
  BY SMTT(20) DEF SleepersInv, ShapeInv
<1>4. NoSleepAfterStop'
  BY SMTT(20) DEF NoSleepAfterStop, ShapeInv
<1>. QED
  BY <1>1, <1>2, <1>3, <1>4 DEF BInv

(* Whoever raises the counter from zero has yet to notify the sleepers.    *)
LEMMA IncrementNonZeroCounterStep ==
  ASSUME BInv, NEW t \in Schedulers \cup Workers, IncrementNonZeroCounter(t)
  PROVE  BInv'
<1> t \in Threads
  BY DEF Threads
<1> ShapeInv /\ SleepersInv /\ NoSleepAfterStop
  BY DEF BInv
<1>1. CounterAccountsForTrees'
  BY IncrementAccount
<1> USE DEF IncrementNonZeroCounter, workerVars
<1>2. ShapeInv'
  BY SMTT(20) DEF ShapeInv, Raises, Waits, Steps, Decrementing
<1>3. SleepersInv'
  BY SMTT(20) DEF SleepersInv, ShapeInv
<1>4. NoSleepAfterStop'
  BY SMTT(20) DEF NoSleepAfterStop, ShapeInv
<1>. QED
  BY <1>1, <1>2, <1>3, <1>4 DEF BInv

(* With the mutex, the thread finds nobody on the way to sleep, and leaves *)
(* nobody asleep.                                                          *)
LEMMA NotifyAllStep ==
  ASSUME BInv, NEW t \in Schedulers \cup Workers, NotifyAll(t)
  PROVE  BInv'
<1> t \in Threads
  BY DEF Threads
<1> ShapeInv /\ SleepersInv /\ NoSleepAfterStop
  BY DEF BInv
<1>1. CounterAccountsForTrees'
  <2> USE DEF NotifyAll, MutexFree, WakeAll
  <2>1. Decrementing' = Decrementing
    BY DEF Decrementing, ShapeInv
  <2>2. Incrementing' = Incrementing
    BY DEF Incrementing, ShapeInv
  <2>. QED
    BY <2>1, <2>2, AccountKept DEF BInv, NonEmptyTrees, Tree
<1> USE DEF NotifyAll, MutexFree, WakeAll
<1>2. ShapeInv'
  BY SMTT(20) DEF ShapeInv, Raises, Waits, Steps, Decrementing
<1>3. \A u \in Workers : pc'[u] \notin {"asleep", "pred_stopped"}
  BY SMTT(20) DEF ShapeInv, Threads
<1>4. SleepersInv' /\ NoSleepAfterStop'
  BY <1>3 DEF SleepersInv, NoSleepAfterStop
<1>. QED
  BY <1>1, <1>2, <1>4 DEF BInv

(* A call begins awake.                                                    *)
LEMMA CallStep ==
  ASSUME BInv, NEW t \in Workers, Call(t)
  PROVE  BInv'
<1> t \in Threads
  BY DEF Threads
<1> ShapeInv /\ SleepersInv /\ NoSleepAfterStop
  BY DEF BInv
<1>1. CounterAccountsForTrees'
  <2> USE DEF Call, At, treeVars
  <2>1. Decrementing' = Decrementing
    BY DEF Decrementing, ShapeInv
  <2>2. Incrementing' = Incrementing
    BY DEF Incrementing, ShapeInv
  <2>. QED
    BY <2>1, <2>2, AccountKept DEF BInv, NonEmptyTrees, Tree
<1> USE DEF Call, At, treeVars
<1>2. ShapeInv'
  BY SMTT(20) DEF ShapeInv, Raises, Waits, Steps, Decrementing
<1>3. \A u \in Threads \ {t} : pc'[u] = pc[u]
  BY SMTT(20) DEF ShapeInv
<1>4. pc'[t] \notin {"asleep", "pred_stopped"} /\ pc[t] # "stop_notify"
  BY SMTT(20) DEF ShapeInv
<1>5. SleepersInv' /\ NoSleepAfterStop'
  BY <1>3, <1>4, AwakeKept
<1>. QED
  BY <1>1, <1>2, <1>5 DEF BInv

(* The first look at the counter leads to the mutex, or past the wait.     *)
LEMMA CheckStep ==
  ASSUME BInv, NEW t \in Workers, Check(t)
  PROVE  BInv'
<1> t \in Threads
  BY DEF Threads
<1> ShapeInv /\ SleepersInv /\ NoSleepAfterStop
  BY DEF BInv
<1>1. CounterAccountsForTrees'
  <2> USE DEF Check, At, Goto, Proceed, treeVars
  <2>1. Decrementing' = Decrementing
    BY DEF Decrementing, ShapeInv
  <2>2. Incrementing' = Incrementing
    BY DEF Incrementing, ShapeInv
  <2>. QED
    BY <2>1, <2>2, AccountKept DEF BInv, NonEmptyTrees, Tree
<1> USE DEF Check, At, Goto, Proceed, treeVars
<1>2. ShapeInv'
  BY SMTT(20) DEF ShapeInv, Raises, Waits, Steps, Decrementing
<1>3. \A u \in Threads \ {t} : pc'[u] = pc[u]
  BY SMTT(20) DEF ShapeInv
<1>4. pc'[t] \notin {"asleep", "pred_stopped"} /\ pc[t] # "stop_notify"
  BY SMTT(20) DEF ShapeInv
<1>5. SleepersInv' /\ NoSleepAfterStop'
  BY <1>3, <1>4, AwakeKept
<1>. QED
  BY <1>1, <1>2, <1>5 DEF BInv

(* The mutex is taken awake.                                               *)
LEMMA LockStep ==
  ASSUME BInv, NEW t \in Workers, Lock(t)
  PROVE  BInv'
<1> t \in Threads
  BY DEF Threads
<1> ShapeInv /\ SleepersInv /\ NoSleepAfterStop
  BY DEF BInv
<1>1. CounterAccountsForTrees'
  <2> USE DEF Lock, At, Goto, treeVars
  <2>1. Decrementing' = Decrementing
    BY DEF Decrementing, ShapeInv
  <2>2. Incrementing' = Incrementing
    BY DEF Incrementing, ShapeInv
  <2>. QED
    BY <2>1, <2>2, AccountKept DEF BInv, NonEmptyTrees, Tree
<1> USE DEF Lock, At, Goto, treeVars
<1>2. ShapeInv'
  BY SMTT(20) DEF ShapeInv, Raises, Waits, Steps, Decrementing
<1>3. \A u \in Threads \ {t} : pc'[u] = pc[u]
  BY SMTT(20) DEF ShapeInv
<1>4. pc'[t] \notin {"asleep", "pred_stopped"} /\ pc[t] # "stop_notify"
  BY SMTT(20) DEF ShapeInv
<1>5. SleepersInv' /\ NoSleepAfterStop'
  BY <1>3, <1>4, AwakeKept
<1>. QED
  BY <1>1, <1>2, <1>5 DEF BInv

(* Who goes on to stopped_ has read the counter as zero.                   *)
LEMMA PredCounterStep ==
  ASSUME BInv, NEW t \in Workers, PredCounter(t)
  PROVE  BInv'
<1> t \in Threads
  BY DEF Threads
<1> ShapeInv /\ SleepersInv /\ NoSleepAfterStop
  BY DEF BInv
<1>1. CounterAccountsForTrees'
  <2> USE DEF PredCounter, At, Goto, treeVars
  <2>1. Decrementing' = Decrementing
    BY DEF Decrementing, ShapeInv
  <2>2. Incrementing' = Incrementing
    BY DEF Incrementing, ShapeInv
  <2>. QED
    BY <2>1, <2>2, AccountKept DEF BInv, NonEmptyTrees, Tree
<1> USE DEF PredCounter, At, Goto, treeVars
<1>2. ShapeInv'
  BY SMTT(20) DEF ShapeInv, Raises, Waits, Steps, Decrementing
<1>3. SleepersInv'
  BY SMTT(20) DEF SleepersInv, ShapeInv
<1>4. NoSleepAfterStop'
  BY SMTT(20) DEF NoSleepAfterStop, ShapeInv
<1>. QED
  BY <1>1, <1>2, <1>3, <1>4 DEF BInv

(* Who falls asleep has read stopped_ as false, at that moment.            *)
LEMMA PredStoppedStep ==
  ASSUME BInv, NEW t \in Workers, PredStopped(t)
  PROVE  BInv'
<1> t \in Threads
  BY DEF Threads
<1> ShapeInv /\ SleepersInv /\ NoSleepAfterStop
  BY DEF BInv
<1>1. CounterAccountsForTrees'
  <2> USE DEF PredStopped, At, Goto, treeVars
  <2>1. Decrementing' = Decrementing
    BY DEF Decrementing, ShapeInv
  <2>2. Incrementing' = Incrementing
    BY DEF Incrementing, ShapeInv
  <2>. QED
    BY <2>1, <2>2, AccountKept DEF BInv, NonEmptyTrees, Tree
<1> USE DEF PredStopped, At, Goto, treeVars
<1>2. ShapeInv'
  BY SMTT(20) DEF ShapeInv, Raises, Waits, Steps, Decrementing
<1>3. SleepersInv'
  BY SMTT(20) DEF SleepersInv, ShapeInv
<1>4. NoSleepAfterStop'
  BY SMTT(20) DEF NoSleepAfterStop, ShapeInv
<1>. QED
  BY <1>1, <1>2, <1>3, <1>4 DEF BInv

(* A sleeper less.                                                         *)
LEMMA TimeoutStep ==
  ASSUME BInv, NEW t \in Workers, Timeout(t)
  PROVE  BInv'
<1> t \in Threads
  BY DEF Threads
<1> ShapeInv /\ SleepersInv /\ NoSleepAfterStop
  BY DEF BInv
<1>1. CounterAccountsForTrees'
  <2> USE DEF Timeout, At, treeVars
  <2>1. Decrementing' = Decrementing
    BY DEF Decrementing, ShapeInv
  <2>2. Incrementing' = Incrementing
    BY DEF Incrementing, ShapeInv
  <2>. QED
    BY <2>1, <2>2, AccountKept DEF BInv, NonEmptyTrees, Tree
<1> USE DEF Timeout, At, treeVars
<1>2. ShapeInv'
  BY SMTT(20) DEF ShapeInv, Raises, Waits, Steps, Decrementing
<1>3. \A u \in Threads \ {t} : pc'[u] = pc[u]
  BY SMTT(20) DEF ShapeInv
<1>4. pc'[t] \notin {"asleep", "pred_stopped"} /\ pc[t] # "stop_notify"
  BY SMTT(20) DEF ShapeInv
<1>5. SleepersInv' /\ NoSleepAfterStop'
  BY <1>3, <1>4, AwakeKept
<1>. QED
  BY <1>1, <1>2, <1>5 DEF BInv

(* A sleeper less.                                                         *)
LEMMA SpuriousWakeupStep ==
  ASSUME BInv, NEW t \in Workers, SpuriousWakeup(t)
  PROVE  BInv'
<1> t \in Threads
  BY DEF Threads
<1> ShapeInv /\ SleepersInv /\ NoSleepAfterStop
  BY DEF BInv
<1>1. CounterAccountsForTrees'
  <2> USE DEF SpuriousWakeup, At, Goto, treeVars
  <2>1. Decrementing' = Decrementing
    BY DEF Decrementing, ShapeInv
  <2>2. Incrementing' = Incrementing
    BY DEF Incrementing, ShapeInv
  <2>. QED
    BY <2>1, <2>2, AccountKept DEF BInv, NonEmptyTrees, Tree
<1> USE DEF SpuriousWakeup, At, Goto, treeVars
<1>2. ShapeInv'
  BY SMTT(20) DEF ShapeInv, Raises, Waits, Steps, Decrementing
<1>3. \A u \in Threads \ {t} : pc'[u] = pc[u]
  BY SMTT(20) DEF ShapeInv
<1>4. pc'[t] \notin {"asleep", "pred_stopped"} /\ pc[t] # "stop_notify"
  BY SMTT(20) DEF ShapeInv
<1>5. SleepersInv' /\ NoSleepAfterStop'
  BY <1>3, <1>4, AwakeKept
<1>. QED
  BY <1>1, <1>2, <1>5 DEF BInv

(* A wait returns awake.                                                   *)
LEMMA WaitReturnsStep ==
  ASSUME BInv, NEW t \in Workers, WaitReturns(t)
  PROVE  BInv'
<1> t \in Threads
  BY DEF Threads
<1> ShapeInv /\ SleepersInv /\ NoSleepAfterStop
  BY DEF BInv
<1>1. CounterAccountsForTrees'
  <2> USE DEF WaitReturns, At, Goto, Proceed, treeVars
  <2>1. Decrementing' = Decrementing
    BY DEF Decrementing, ShapeInv
  <2>2. Incrementing' = Incrementing
    BY DEF Incrementing, ShapeInv
  <2>. QED
    BY <2>1, <2>2, AccountKept DEF BInv, NonEmptyTrees, Tree
<1> USE DEF WaitReturns, At, Goto, Proceed, treeVars
<1>2. ShapeInv'
  BY SMTT(20) DEF ShapeInv, Raises, Waits, Steps, Decrementing
<1>3. \A u \in Threads \ {t} : pc'[u] = pc[u]
  BY SMTT(20) DEF ShapeInv
<1>4. pc'[t] \notin {"asleep", "pred_stopped"} /\ pc[t] # "stop_notify"
  BY SMTT(20) DEF ShapeInv
<1>5. SleepersInv' /\ NoSleepAfterStop'
  BY <1>3, <1>4, AwakeKept
<1>. QED
  BY <1>1, <1>2, <1>5 DEF BInv

(* Passing over an empty tree changes no count.                            *)
LEMMA PassOverStep ==
  ASSUME BInv, NEW t \in Workers, NEW tr \in Trees, PassOver(t, tr)
  PROVE  BInv'
<1> t \in Threads
  BY DEF Threads
<1> ShapeInv /\ SleepersInv /\ NoSleepAfterStop
  BY DEF BInv
<1>1. CounterAccountsForTrees'
  <2> USE DEF PassOver, At, treeVars
  <2>1. Decrementing' = Decrementing
    BY DEF Decrementing, ShapeInv
  <2>2. Incrementing' = Incrementing
    BY DEF Incrementing, ShapeInv
  <2>. QED
    BY <2>1, <2>2, AccountKept DEF BInv, NonEmptyTrees, Tree
<1> USE DEF PassOver, At, treeVars
<1>2. ShapeInv'
  BY SMTT(20) DEF ShapeInv, Raises, Waits, Steps, Decrementing
<1>3. \A u \in Threads \ {t} : pc'[u] = pc[u]
  BY SMTT(20) DEF ShapeInv
<1>4. pc'[t] \notin {"asleep", "pred_stopped"} /\ pc[t] # "stop_notify"
  BY SMTT(20) DEF ShapeInv
<1>5. SleepersInv' /\ NoSleepAfterStop'
  BY <1>3, <1>4, AwakeKept
<1>. QED
  BY <1>1, <1>2, <1>5 DEF BInv

(* The worker that empties a tree has yet to take it off the count.        *)
LEMMA SelectStep ==
  ASSUME BInv, NEW t \in Workers, NEW c \in Contracts, Select(t, c)
  PROVE  BInv'
<1> t \in Threads
  BY DEF Threads
<1> ShapeInv /\ SleepersInv /\ NoSleepAfterStop
  BY DEF BInv
<1>1. CounterAccountsForTrees'
  BY SelectAccount
<1> USE DEF Select, At, Goto
<1>2. ShapeInv'
  BY SMTT(20) DEF ShapeInv, Raises, Waits, Steps, Decrementing
<1>3. SleepersInv'
  BY SMTT(20) DEF SleepersInv, ShapeInv
<1>4. NoSleepAfterStop'
  BY SMTT(20) DEF NoSleepAfterStop, ShapeInv
<1>. QED
  BY <1>1, <1>2, <1>3, <1>4 DEF BInv

(* A lower counter wakes nobody, and needs to wake nobody.                 *)
LEMMA DecrementNonZeroCounterStep ==
  ASSUME BInv, NEW t \in Workers, DecrementNonZeroCounter(t)
  PROVE  BInv'
<1> t \in Threads
  BY DEF Threads
<1> ShapeInv /\ SleepersInv /\ NoSleepAfterStop
  BY DEF BInv
<1>1. CounterAccountsForTrees'
  BY DecrementAccount
<1> USE DEF DecrementNonZeroCounter, At, Goto
<1>2. ShapeInv'
  BY SMTT(20) DEF ShapeInv, Raises, Waits, Steps, Decrementing
<1>3. SleepersInv'
  BY SMTT(20) DEF SleepersInv, ShapeInv
<1>4. NoSleepAfterStop'
  BY SMTT(20) DEF NoSleepAfterStop, ShapeInv
<1>. QED
  BY <1>1, <1>2, <1>3, <1>4 DEF BInv

(* The end of a visit changes no count.                                    *)
LEMMA EndVisitStep ==
  ASSUME BInv, NEW t \in Workers, EndVisit(t)
  PROVE  BInv'
<1> t \in Threads
  BY DEF Threads
<1> ShapeInv /\ SleepersInv /\ NoSleepAfterStop
  BY DEF BInv
<1>1. CounterAccountsForTrees'
  <2> USE DEF EndVisit, At, Goto, treeVars
  <2>1. Decrementing' = Decrementing
    BY DEF Decrementing, ShapeInv
  <2>2. Incrementing' = Incrementing
    BY DEF Incrementing, ShapeInv
  <2>. QED
    BY <2>1, <2>2, AccountKept DEF BInv, NonEmptyTrees, Tree
<1> USE DEF EndVisit, At, Goto, treeVars
<1>2. ShapeInv'
  BY SMTT(20) DEF ShapeInv, Raises, Waits, Steps, Decrementing
<1>3. \A u \in Threads \ {t} : pc'[u] = pc[u]
  BY SMTT(20) DEF ShapeInv
<1>4. pc'[t] \notin {"asleep", "pred_stopped"} /\ pc[t] # "stop_notify"
  BY SMTT(20) DEF ShapeInv
<1>5. SleepersInv' /\ NoSleepAfterStop'
  BY <1>3, <1>4, AwakeKept
<1>. QED
  BY <1>1, <1>2, <1>5 DEF BInv

(* The stopper has yet to notify the sleepers.                             *)
LEMMA StopStep ==
  ASSUME BInv, NEW t \in Stoppers, Stop(t)
  PROVE  BInv'
<1> t \in Threads
  BY DEF Threads
<1> ShapeInv /\ SleepersInv /\ NoSleepAfterStop
  BY DEF BInv
<1>1. CounterAccountsForTrees'
  <2> USE DEF Stop, At, Goto, treeVars
  <2>1. Decrementing' = Decrementing
    BY DEF Decrementing, ShapeInv
  <2>2. Incrementing' = Incrementing
    BY DEF Incrementing, ShapeInv
  <2>. QED
    BY <2>1, <2>2, AccountKept DEF BInv, NonEmptyTrees, Tree
<1> USE DEF Stop, At, Goto, treeVars
<1>2. ShapeInv'
  BY SMTT(20) DEF ShapeInv, Raises, Waits, Steps, Decrementing
<1>3. SleepersInv'
  BY SMTT(20) DEF SleepersInv, ShapeInv
<1>4. NoSleepAfterStop'
  BY SMTT(20) DEF NoSleepAfterStop, ShapeInv
<1>. QED
  BY <1>1, <1>2, <1>3, <1>4 DEF BInv

(* With the mutex, the stopper leaves nobody asleep.                       *)
LEMMA StopNotifiesStep ==
  ASSUME BInv, NEW t \in Stoppers, StopNotifies(t)
  PROVE  BInv'
<1> t \in Threads
  BY DEF Threads
<1> ShapeInv /\ SleepersInv /\ NoSleepAfterStop
  BY DEF BInv
<1>1. CounterAccountsForTrees'
  <2> USE DEF StopNotifies, At, WakeAll, treeVars, MutexFree
  <2>1. Decrementing' = Decrementing
    BY DEF Decrementing, ShapeInv
  <2>2. Incrementing' = Incrementing
    BY DEF Incrementing, ShapeInv
  <2>. QED
    BY <2>1, <2>2, AccountKept DEF BInv, NonEmptyTrees, Tree
<1> USE DEF StopNotifies, At, WakeAll, treeVars, MutexFree
<1>2. ShapeInv'
  BY SMTT(20) DEF ShapeInv, Raises, Waits, Steps, Decrementing
<1>3. \A u \in Workers : pc'[u] \notin {"asleep", "pred_stopped"}
  BY SMTT(20) DEF ShapeInv, Threads
<1>4. SleepersInv' /\ NoSleepAfterStop'
  BY <1>3 DEF SleepersInv, NoSleepAfterStop
<1>. QED
  BY <1>1, <1>2, <1>4 DEF BInv
-----------------------------------------------------------------------------
(* At first all trees are empty, the counter is zero and nobody sleeps.    *)
LEMMA InitBInv == Init => BInv
<1> SUFFICES ASSUME Init PROVE BInv
  OBVIOUS
<1> USE DEF Init
<1>1. ShapeInv
  <2>1. /\ raise \in [Threads -> Raises] /\ pc \in [Threads -> Steps]
        /\ wait \in [Threads -> Waits] /\ todo \in [Threads -> SUBSET Trees]
    BY DEF Raises, Waits, Steps
  <2>2. Decrementing \subseteq Workers
    BY DEF Decrementing
  <2>3. signal \subseteq Contracts /\ nonZeroCounter \in Int
    OBVIOUS
  <2>4. stopped \in BOOLEAN
    BY Zenon
  <2>. QED
    BY <2>1, <2>2, <2>3, <2>4 DEF ShapeInv
<1>2. CounterAccountsForTrees
  <2>1. NonEmptyTrees = {} /\ Incrementing = {} /\ Decrementing = {}
    BY DEF NonEmptyTrees, Tree, Incrementing, Decrementing
  <2>. QED
    BY <2>1, FS_EmptySet DEF CounterAccountsForTrees
<1>3. SleepersInv /\ NoSleepAfterStop
  BY DEF SleepersInv, NoSleepAfterStop, Threads
<1>. QED
  BY <1>1, <1>2, <1>3 DEF BInv

(* No step breaks the inductive invariant.                                 *)
LEMMA NextBInv == BInv /\ [Next]_vars => BInv'
<1> SUFFICES ASSUME BInv, [Next]_vars PROVE BInv'
  OBVIOUS
<1>1. ASSUME NEW t \in Schedulers \cup Workers,
             (\E c \in Contracts : SetSignal(t, c)) \/ FinishSetSignal(t)
      PROVE  BInv'
  BY <1>1, SetSignalStep, IncrementNonZeroCounterStep, NotifyAllStep
     DEF FinishSetSignal
<1>2. ASSUME NEW t \in Workers, Call(t) \/ Wait(t) \/ SpuriousWakeup(t)
      PROVE  BInv'
  BY <1>2, CallStep, CheckStep, LockStep, PredCounterStep, PredStoppedStep,
     TimeoutStep, WaitReturnsStep, SpuriousWakeupStep
     DEF Wait
<1>3. ASSUME NEW t \in Workers, Visit(t) PROVE BInv'
  BY <1>3, PassOverStep, SelectStep, DecrementNonZeroCounterStep, EndVisitStep
     DEF Visit
<1>4. ASSUME NEW t \in Stoppers, Stop(t) \/ StopNotifies(t) PROVE BInv'
  BY <1>4, StopStep, StopNotifiesStep
<1>5. CASE UNCHANGED vars
  BY <1>5 DEF vars, BInv, ShapeInv, CounterAccountsForTrees, SleepersInv,
              NoSleepAfterStop, NonEmptyTrees, Tree, Incrementing, Decrementing
<1>. QED
  BY <1>1, <1>2, <1>3, <1>4, <1>5 DEF Next

(* The inductive invariant holds at every step of every behaviour.         *)
THEOREM BlockingInvariant == Spec => []BInv
  BY InitBInv, NextBInv, PTL DEF Spec

(* nonZeroCounter_ never drifts from the number of non-empty trees,        *)
(* whatever the order in which threads correct it.                         *)
THEOREM CounterAccounts == Spec => []CounterAccountsForTrees
<1>1. BInv => CounterAccountsForTrees
  BY DEF BInv
<1>. QED
  BY <1>1, BlockingInvariant, PTL

(* The counter stays within the number of trees plus the corrections under *)
(* way, one for each thread.                                               *)
THEOREM BlockingTypeCorrect == Spec => []TypeOK
<1>1. BInv => TypeOK
  <2> SUFFICES ASSUME BInv PROVE TypeOK
    OBVIOUS
  <2>1. ShapeInv /\ CounterAccountsForTrees
    BY DEF BInv
  <2>2. Cardinality(Decrementing) <= Cardinality(Workers)
    <3>1. IsFiniteSet(Workers) /\ Decrementing \subseteq Workers
      BY <2>1, BlockingAssumption, FS_Subset DEF Threads, ShapeInv
    <3>. QED
      BY <3>1, FS_Subset
  <2>3. /\ Cardinality(Trees) \in Nat /\ Cardinality(Workers) \in Nat
        /\ Cardinality(Threads) \in Nat
    <3>1. IsFiniteSet(Workers)
      BY BlockingAssumption, FS_Subset DEF Threads
    <3>. QED
      BY <3>1, BlockingAssumption, FS_CardinalityType
  <2>4. nonZeroCounter \in
          -Cardinality(Threads) .. Cardinality(Trees) + Cardinality(Workers)
    BY <2>1, <2>2, <2>3, CountedSetsAreFinite
       DEF CounterAccountsForTrees, ShapeInv
  <2>. QED
    BY <2>1, <2>4 DEF TypeOK, ShapeInv
<1>. QED
  BY <1>1, BlockingInvariant, PTL

(* No worker sleeps through a signal: as long as one sleeps and a signal   *)
(* is set, the thread that will wake it is under way.                      *)
THEOREM NoWakeupIsLost == Spec => []NoLostWakeup
<1>1. BInv => NoLostWakeup
  <2> SUFFICES ASSUME BInv, NEW t \in Workers, pc[t] = "asleep", signal # {},
                      Incrementing = {}
               PROVE  \E u \in Threads : raise[u] = "notify"
    BY DEF NoLostWakeup, Incrementing
  <2> ShapeInv /\ CounterAccountsForTrees /\ SleepersInv
    BY DEF BInv
  <2>1. PICK c \in signal : c \in Contracts
    BY DEF ShapeInv
  <2>2. TreeOf[c] \in NonEmptyTrees
    BY <2>1, BlockingAssumption DEF NonEmptyTrees, Tree
  <2>3. Cardinality(NonEmptyTrees) # 0 /\ Cardinality(Incrementing) = 0
    BY <2>2, CountedSetsAreFinite, FS_EmptySet
  <2>4. nonZeroCounter > 0
    BY <2>3, CountedSetsAreFinite DEF CounterAccountsForTrees, ShapeInv
  <2>. QED
    BY <2>4 DEF SleepersInv
<1>. QED
  BY <1>1, BlockingInvariant, PTL

(* stop() misses no worker that is on its way to sleep.                    *)
THEOREM StopWakesEverybody == Spec => []NoSleepAfterStop
<1>1. BInv => NoSleepAfterStop
  BY DEF BInv
<1>. QED
  BY <1>1, BlockingInvariant, PTL
=============================================================================
