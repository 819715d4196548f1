# Verification of work_contract

TLA+ models of the work_contract library (`src/src/library/work_contract`,
`src/src/include/signal_tree`), checked with TLC on small instances, and
theorems about them checked with TLAPS for every instance.

Paths below are short: `group.h`, `group.cpp`, `contract.h` and `this.h` are
`work_contract_group.h`, `work_contract_group.cpp`, `work_contract.h` and
`work_contract_this.h`; `node.h`, `level.h`, `tree.h` are in `signal_tree/`;
`7_tasks`, `6_data_ingress` and `signal_tree_benchmark` are in
`src/src/executable`.

## 1. Inventory

| Component | State | Operations | Hard behaviour | Correct when |
|---|---|---|---|---|
| Flag word of a contract (`group.h:138-148`) | `flags_`: schedule, execute, release bit | `fetch_or`, `++`, `-=` by any thread | the carry of `++` clears schedule and sets execute at once | no carry or borrow leaves the three bits |
| Contract protocol of `work_contract_group` (`group.h`, `group.cpp`) | `contracts_`, `release_`, `exception_`, `signalTree_`, `available_` | `create_contract`, `schedule`, `release`, `execute_next_contract`, `process_contract`, `process_release`, `clear_execute_flag`, `erase_contract` | schedules during a run, slots that are reused, callbacks that throw | no schedule is lost or doubled, runs do not overlap, a release is the last visit, the slot comes back |
| `work_contract` and `release_token` (`contract.h`, `group.cpp:154-201`) | `owner_`, `releaseToken_`, `id_`; the token's group pointer under a mutex | `schedule`, `release`, destructor, moves, `is_valid`; `schedule`, `orphan` | an object outlives its contract, its slot's next contract, or the group | a stale object never releases another contract; no `release()` leads into the group, or is inside it, once `stop()` is over (`schedule()` still may: section 5) |
| `stop()` and the destructor (`group.cpp:36-67`) | `stopped_` | exchange, orphan every token, wake the workers | workers and clients go on meanwhile | see above; every blocked worker returns |
| Blocking mode (`group.h:222-264, 366-385, 431-452, 572-587`) | `nonZeroCounter_`, condition variable and mutex | `set_contract_signal`, `wait`, `wait_for`, `notify_all` | the counter is corrected after the tree has changed, by several threads in any order | the counter does not drift, no wakeup is lost |
| Slot allocation (`group.cpp:70-90`, `group.h:35-67`) | `available_`, `nextAvailableTreeIndex_` | `get_available_contract` | the rotor is shared by all creators | a slot is handed out once; a free slot is found |
| Signal tree (`node.h`, `level.h`, `tree.h`) | packed counters per node, leaf words | `set`, `select`, `empty` | in a tree of several levels `set` climbs and `select` descends, one atomic operation per node | a counter never promises a leaf that is not there; who sees a tree empty is unique |
| Bias (`tree.h:13-48`, `group.h:484-512`) | `biasFlags`, `select_bias_hint`, `tls_biasFlags_` (thread local) | `default_selector`, rotation of the bias | the rotation counts in the bits of the hint, which selections add; a thread serves several groups | no set signal is passed over for ever |
| `this_contract` (`this.h`) | thread-local stack of runs | `schedule`, `release`, `get_id` | nested runs, runs that end by an exception | names the innermost run, which is this thread's; no visit is left half done by an exception |
| Examples (`7_tasks`, `6_data_ingress`) | a task per file; a queue and the contract that drains it | passes that schedule themselves, `join`, `abort`; push and schedule, self-release | schedules merge, the main thread polls `is_valid()` while workers erase | every task ends before it is joined, no value is stranded, the programs end |
| `signal_tree_benchmark` | totals per thread, a barrier | set a range, select as many | threads take each other's signals | nobody is told that the tree is empty too early |

Threads are *workers* (they call `execute_next_contract`), *clients* (they
create contracts and own or share `work_contract` objects) and *stoppers*.
They meet in the atomics of the flag words, of the signal tree and of the
counter, in the mutex of each token, and in the condition variable.  Callbacks
run on workers; what a callback does to other contracts is what a client does,
so that in the models the two are different threads.

## 2. Modules

| Module | Models |
|---|---|
| `ContractFlags` | the flag word: what `fetch_or` stores, which words oblige the caller to raise the signal |
| `ContractLifecycle` | the abstract specification: the life of a slot with every operation atomic, no threads, flags, signals or tokens |
| `WorkContractGroup` | the contract protocol, objects, tokens and `stop()`, one atomic operation or mutex acquisition per step; refines `ContractLifecycle` |
| `BlockingGroup` | the blocking mode: several trees, the counter, waiting with and without a timeout, `stop()` |
| `SignalTree` | a signal tree of any size of `select_tree_size`: its shape, and one atomic operation per node in `set` and `select` |
| `BiasSelector` | which leaf `default_selector` selects, and how `execute_next_contract` rotates its bias |
| `SlotAllocator` | `get_available_contract`: the rotor, the trees of free slots, concurrent creators |
| `ThisContract` | the thread-local guards of `process_contract`, and the destructors that end a visit, over nested, throwing and releasing callbacks |
| `CharCountTasks` | the programs of `7_tasks`, on `ContractLifecycle` |
| `DataIngress` | the program of `6_data_ingress`, on `ContractLifecycle` |
| `SignalTreeBenchmark` | `signal_tree_benchmark`, on `SignalTree` |
| `MCWorkContractGroup`, `MCBlockingGroup` | constants and symmetry for TLC |
| `MCClients` | the client side for TLC: one of `ThisContract`, `CharCountTasks`, `DataIngress`, `SignalTreeBenchmark` |
| `WorkContractGroupProofs` | carries and borrows of the flag word; types, mutual exclusion, one ticket per schedule, quiet free slots; that the contract protocol implements `ContractLifecycle` |
| `WorkContractGroupTokenProofs` | objects, tokens, callbacks, `stop()` |
| `BlockingGroupProofs` | the counter's account, no lost wakeup, `stop()` wakes everybody |
| `SlotAllocatorProofs` | one owner per slot, a reason for every failure |
| `SignalTreeProofs` | the shape of a tree, what its counters count, where a `select` arrives |
| `BiasSelectorProofs` | the selection ends at a set leaf, the rotation never meets a bit it cannot get past |
| `ThisContractProofs` | what `this_contract` names; that exceptions strand no contract |
| `MCClientsProofs` | the example programs, the benchmark of the signal tree; the theorems about `this_contract`, for the module the run checks |

### WorkContractGroup and the code

`flags`, `signal`, `available`, `releaseToken` are `contracts_[c].flags_`, the
set leaves of `signalTree_` and `available_`, and `releaseToken_`.  A slot is
reused; its g-th contract is `<<c, g>>`, which also names its token and the
client's object.  `live` is the set of tokens whose `workContractGroup_` is not
null, `held` and `owner` the objects whose `releaseToken_` and `owner_` are not
null.  `work[c]` says whose callbacks slot `c` holds.  `pc`, `cur`, `tok` are
the program counter and locals of each thread; `owes[t]` is the slot whose
signal the thread found it must raise (`set_contract_signal` at the end of
`schedule`, `release` and `clear_execute_flag`) and has not raised yet.  `gen`
and `asked` are history: how often a slot was handed out, and whether its
present contract was scheduled.

| Code | Actions |
|---|---|
| `create_contract` | `GetAvailableContract`, `ResetFlags`, `InstallCallbacks`, `Publish` |
| `schedule`, `release`, `set_contract_signal` | `Schedule`, `Release` (inside the callers' actions), `SetSignal` |
| `work_contract::schedule` | `HandleSchedule` |
| `work_contract::release`, destructor; `release_token::schedule` | `HandleRelease`, `LockToken`, `TokenRelease`, `UnlockToken` |
| `execute_next_contract`, `process_contract` | `Select`, `BeginContract`, `ThisSchedule`, `ThisRelease`, `ClearExecuteFlag` |
| `process_release`, `erase_contract`, `release_token::orphan` | `EraseContract`, `OrphanToken`, `FreeSlot` |
| `stop` | `StopBegin`, `StopScan`, `StopOrphan`, `StopReturn` |

`ClearExecuteFlag` and `EraseContract` stand for every way a callback ends:
both are destructors of guards, so a return, an exception that was handled and
one that leaves `execute_next_contract` come to the same; the ways there are
steps of `ThisContract`.  The mutex of a token
is a predicate over program counters (`TokenLocked`), since it is held exactly
while a thread is inside `release_token::schedule`.  `stop()` reads the token
pointer twice (`StopScan`, `StopOrphan`); if it became null between the two,
the thread ends in `null_dereference`.  The second read and the mutex of the
token are one step, which leaves out that the worker destroys the token between
them: the same race with freed memory for null.  `Publish` assigns the token,
makes the object and, if it was asked to, schedules in one step: until the
caller has the object nobody but `stop()` could tell the difference, and in the
runs and theorems that have it nothing is created during `stop()`.

Two constants describe clients.  `ScheduleAfterReuse`: do they call
`schedule()` through the object of a contract that released itself and whose
slot another contract has?  `CreateDuringStop`: does `create_contract()`
overlap or follow `stop()`?

### BlockingGroup and the code

A tree has 64 leaves in one word, so `set` and the successful `fetch_and` of
`select` are one step each; `raise[t]` is what `set_contract_signal` has left
to do after it: increment the counter, then notify.  `pc` follows a worker
through `wait_for`, `wait`, the loop over the trees and the decrement.  The
mutex of the condition variable is again a predicate over program counters;
the predicate of the wait is two reads (`PredCounter`, `PredStopped`), a
notification needs the mutex, a sleeper wakes by a notification, a timeout or
for no reason.  Any thread of `Schedulers` and any worker in a visit may raise
any signal, which is more than the protocol does.

### SignalTree and the code

A level is named by the capacity of its nodes (2048, 512 and 64 in the run), a
node by level and number, as in `level<T>::nodes_`; the geometry comes from the
code's own arithmetic (`sub_counter_arity`, `child_level`).  `count` holds the
counters of the inner words: packing them in a word is represented by what it
needs, that no counter leaves its range (`CountersFit`).  That the arithmetic
comes out right for each size in the table of `select_tree_size` (`ShapeIsSound`)
is a formula without variables, which TLC evaluates as an `ASSUME`.

| Code | Actions |
|---|---|
| `node::set` on a leaf: `fetch_or` | `SetLeaf` |
| `level::set`, `node::set` on an inner node: `fetch_add`, level by level | `Count` |
| `node::select` on an inner node: the compare-exchange that succeeds | `TakeCount` |
| `node::select` on a leaf: the `fetch_and` that clears a set bit | `TakeSignal` |
| `select` on a root that is zero | `SelectNothing` |

A compare-exchange or `fetch_and` that fails changes nothing and is no step.
Any non-zero counter may be chosen, which covers `default_selector` and
`largest_child_selector`.  That a node below the root is zero is not an outcome
in the model, because `level::select` has no way to deal with it;
`DescentFindsSignal` says that it does not happen.

### BiasSelector and the code

One worker, with its `biasFlags` and `select_bias_hint`, on one-level trees as
the group has them; `subTree` is `biasFlags / capacity`, `bias` and `hint` are
the sets of the low bits that are 1.  A step is one turn of the loop of
`execute_next_contract`, which goes on in the next call where `biasFlags` says.
Other threads set signals and take them (`SetSignal`, `TakenByAnother`).
`ExecuteAnotherGroup` is a call on another group with a bias of that group's:
all it shares with this one is the thread's hint.

The overload without a bias goes by `tls_biasFlags_`, which a thread has one of
and not one per group.  For a thread that calls a single group that is the same
thing.  For a thread that calls several it is the mutant
`ExecuteAnotherGroupWithThisBias`: the other group moves the bias on in between,
and a signal of this one may be passed over for ever.  Such a thread should use
the overload that takes a bias.

### SlotAllocator and the code

The slots of `available_` are numbered through all trees; `rotor` is
`nextAvailableTreeIndex_`, with its overflow.  `Look` is `empty()`, `Select` the
load in `node::select` and `Take` the `fetch_and`, after which a loser goes on
with what the `fetch_and` left (`Try`).  `contracts` counts how many contracts
have each slot, `foundEmpty` and `passed` are history: the trees a call found
empty, and those the rotor gave to others during the call.  In
`WorkContractGroup`, taking a free slot is one step, and `create_contract()` is
only called when one is free; when it fails is what this module is about.

### ThisContract and the code

`stack` is the C++ stack of a thread as far as the library is on it: one record
per visit, with the step it is at and the `prev_` of its guard; `tls` is
`tlsThisContract_`, as a depth in that stack.  A run makes a guard, a release
does not (`process_release` has no guard), so that `this_contract` in the
callback of a release names an outer run or goes through null.

| Code | Actions |
|---|---|
| `process_contract`: `++flags_`, the choice between work and release | `Begin` |
| constructor and destructor of `this_contract` | `MakeGuard`, `DestroyGuard` |
| a callback throws, the exception callback is called (`process_exception`) | `Throw` |
| a callback or the exception callback returns | `Return` |
| an exception leaves `process_contract` or `process_release`: there is no exception callback, it throws itself, or a release threw what is no `std::exception` | `Escape` |
| `~auto_clear_execute_flag`, `~auto_erase_contract` | `EndRun`, `EndRelease` |

After `Escape` a visit goes through its destructors as after `Return`, and the
exception arrives in the outer callback, which may catch it or end by `Throw` or
`Escape` in its turn.  (An exception that nobody catches ends the program.)

### The clients and the code

`CharCountTasks` and `DataIngress` run on `ContractLifecycle`, which the group
is shown to implement, extended by what a client sees of an erase besides: the
callable goes (`DestroyTask`), `is_valid()` becomes false (`Orphan`), the slot
comes back (`Free`).  A pass of `char_count_task::operator()` is `Pass`, which
loads, processes or reports, and `ScheduleAgain`, its last line, which comes even
after `this_contract::release()`.  After `abort()`, `join()` does not wait for a
pass that is under way: the client's object has given up its token.  In
`DataIngress`, the main thread's last `schedule()` may come after the contract
was erased; that it does nothing then is assumed there, and is shown of the
group: the execute flag of an erased contract stays set until its slot is used
again (`FreeSlotIsQuiet`), and a `schedule()` that finds it set is no step of
`ContractLifecycle` (`ImplementsLifecycle`).

`SignalTreeBenchmark` drives the actions of `SignalTree` with the benchmark's
loops, its barrier and its totals.

`MCClients` is the sum of these four, which have nothing in common: the variable
`client` is chosen at the start and a behaviour is one of that client's.

## 3. Runs

| Run | Checks | Shows |
|---|---|---|
| `group_safety` | `TypeOK`, `MutualExclusion`, `OneTicketPerSchedule`, `FreeSlotIsQuiet`, `InvokesOwnCallbacks`, `TokenNamesLiveContract`, `InvalidOnlyAfterErase`, `VisitsOnlyWhenAsked`, `StopCutsOffReleases` | two slots, each used twice, two clients, two workers, and `stop()` against all of them; of objects after `stop()` only that releases, destructors among them, stay out of the group |
| `group_liveness` | `ImplementsLifecycle`, `ImplementsFairLifecycle`, `ReleaseFreesSlot` | two slots, each used twice: every slot lives the atomic life of `ContractLifecycle`; with fair threads nothing queued stays queued, and a release frees the slot |
| `blocking_safety` | `TypeOK`, `CounterAccountsForTrees`, `NoLostWakeup`, `NoSleepAfterStop` | two trees, three contracts, two schedulers, a timed and an untimed worker, a stopper |
| `blocking_liveness` | `SignalsAreServed`, `CallsReturnAfterStop` | workers that keep calling serve every signal until the group is stopped; then every call under way returns |
| `signal_tree` | `TypeOK`, `CountersFit`, `LevelsAgree`, `DescentFindsSignal`, `IndexNamesNode`, `TreeDrains` | a tree of 2048 signals in three levels, two threads in `set`, two in `select` |
| `bias` | `TypeOK`, `BiasWithinHint`, `SelectsSetSignal`, `NoSignalStarves` | two sub-trees of eight signals, of which six are scheduled at any time, and other groups in between |
| `slots` | `FreeOrTaken`, `FailureIsExplained`, `CreateReturns` | two creators and the workers' erases on two trees of two slots, a rotor that overflows |
| `clients` | `NamesInnermostRun`, `NamedContractIsOurs`, `NoneStrandedByExceptions`; `JoinedMeansReported`, `PassesHaveTheTask`; `NothingStranded`, `ProcessedInOrder`; `EveryoneGetsTheirShare`; `ProgramsEnd` | nested callbacks of two threads, each of which may throw; two files, two workers and aborts; five values through the queue; two threads in the benchmark; both programs end |
| `stale_handle` | `ScheduleAfterReleaseIsIdempotent` fails | finding 1 |
| `stop_races_erase` | `StopToleratesWorkers` fails | finding 2 |
| `timed_call` | `TimedCallReturns` fails | finding 3 |
| `empty_tree` | `EmptyMeansNoLeafIsSet` fails | finding 4 |

`ImplementsFairLifecycle` is `ImplementsLifecycle`, which is also proved, with
the fairness of the abstract specification.

**Bounds.**  `MaxGen` bounds how often a slot is used; two suffices for every
confusion between a contract and its successor, which is what tokens and stale
objects are about (one in `stop_races_erase`, which needs no successor).  Two
slots show that operations on one leave the other alone.  Two workers and two
clients are needed for a double visit, a race of two releases, a schedule during
a run; a third adds no new kind of step, and the safety properties are proved
for any number.  In the blocking runs, two trees and two signals in one of them
are needed for the counter to be off in both directions; no counter in these
models grows without bound.  In `signal_tree`, the four signals are two in one
leaf word, one in the next leaf of the same node and one at the far end, so that
threads meet at every level or only at the root; five calls of `set` (`MaxSets`)
let a signal be set again while its first `set` or a `select` is half way.  In
`bias`, three bits are enough for a bit with others below and above it, and the
six signals compete at every choice between two halves.  `group_liveness` has
one client, which two workers and the contracts themselves race.  In `slots`,
two trees and three slots' worth of capacity make the group round up; a rotor
modulo 4 overflows at once, and loses its place if it is not a multiple of the
number of trees.  In `clients`, three contracts nest three deep on one thread; a
file of one block (`MaxBlocks`) or none has each kind of pass; five values
(`LastValue`) pile up in the queue; three signals per thread leave a thread
something to take from the other's range while that one still sets.

Deadlock is not checked in the runs of `WorkContractGroup`, since when every slot was used
`MaxGen` times the system has nothing left to do, nor in `clients`, whose
programs end.  It is checked in the others.

**Fairness.**  In `WorkContractGroup`: weak fairness of what a thread does
inside the library and of the end of callbacks (threads are scheduled, callbacks
return), none of what clients choose to do; strong fairness of the selection of
each set signal, which is what the rotation of the bias in
`execute_next_contract` is for, with workers that keep calling.  In
`BlockingGroup` the same, strong fairness for whoever asks for the mutex, and
weak fairness of the timeout; nobody has to schedule, to stop or to be woken for
no reason.  `LoopSpec` adds workers that call again.  In `SignalTree`, a `set`
that has begun goes on and selectors call again and again (weak fairness); in
`BiasSelector`, the worker calls again and again, and nothing is assumed of
which signal it selects: `NoSignalStarves` is what the other liveness runs
assume of the selection.  In `SlotAllocator` threads run, and `CreateReturns`
does without workers that erase for ever.  In the two example programs threads
run, and a contract that is queued infinitely often while a worker is in its
loop is selected, which is `ContractLifecycle`'s promise; nobody has to abort.
`7_tasks` needs at least one worker thread.

**Mutants.**  Beside the definition they change, marked "Mutant:", are
plausible bugs (a forgotten signal, a flag word stored instead of subtracted, a
slot freed before its token is orphaned, a missing mutex, ...), one for every
property; each makes its property fail.

### Findings

1. `stale_handle`: `work_contract::schedule()` looks at neither token nor
   validity.  After a contract released itself and its slot was given away, its
   object schedules the slot's next contract; a comment in
   `7_tasks/example_common.h:88-90` says that scheduling a released contract is
   idempotent, which holds only of `this_contract::schedule()` within the run.
2. `stop_races_erase`: `stop()` tests a token pointer and calls through it
   without a lock (`group.cpp:54-56`) while a worker may exchange it with null
   (`group.cpp:105`), although `DESIGN.md:58` does not require that workers be
   gone first.
3. `timed_call`: `execute_next_contract(duration)` waits twice, the second time
   without a limit (`group.h:584-585`); the timeout that `DESIGN.md:55`
   recommends for noticing that the program stops does not bound the call.
4. `empty_tree`: in a tree of several levels (which the group does not use by
   default), thread A has set leaf 0 and not counted it yet; B's `set` of leaf 1
   has returned; a `select` gives up B's count and takes leaf 0.  Until A gets to
   the root, leaf 1 is set, its `set` is over, and `select` and `empty` report an
   empty tree, against the comments at `tree.h:144-145` and `158`.  The delay
   ends with A's climb (`TreeDrains`).

## 4. Proofs

All are checked by `tlapm`; they assume the named assumptions on the constants
and where it is said `ScheduleAfterReuse = FALSE` and `CreateDuringStop =
FALSE`.  Four of the assumptions say more than that a constant is a number or
a set is finite.  `ShapeIsSound` (`SignalTree`) is a closed formula about the
arithmetic of the tree's types, one conjunct per size the code accepts; the
provers cannot compute it, TLC does, for every size.  `PowersOfTwo`
(`BiasSelector`) says that `2^(d+1) = 2^d + 2^d`, which they do not know.
`SlotAssumption` (`SlotAllocator`) says that `subTreeCount` gives a power of two
that is large enough and divides the range of the rotor: the first is what the
code takes `minimum_power_of_two` for (a function of the submodule, which is not
in the repository), the second holds of a 64 bit rotor.  `BenchmarkAssumption`
(`MCClients`) is `ShapeIsSound` for the benchmark's tree, and that its threads do
at most `capacity / num_threads` operations; the benchmark's do exactly that many.

* **`WorkContractGroupProofs`: the flag word.**  What each flag operation does
  to it, by the eight cases: `++` on a pending word clears schedule and sets
  execute and leaves release alone; `-=` on an executing word does not borrow.
* **`WorkContractGroupProofs`: `Spec => []IInv`**, from which follow
  `TypeCorrect`, `Exclusion`, `OneTicket` and `FreeIsQuiet`.  `IInv` adds to the
  properties why they persist: a visit owns the execute flag (`VisitsInv`); a
  slot without a contract keeps its predecessor's execute flag, so that a late
  `schedule()` through a stale object raises nothing, until its creator resets
  it, and it is the creator's alone (`UnbornInv`); the schedule flag without the
  execute flag is one ticket: the leaf, or one thread (`TicketsInv`); objects
  and tokens are of incarnations that were born (`HandlesInv`).  `OneTicket` is
  not inductive without `UnbornInv`: freeing a slot with its flags reset would
  let a stale `schedule()` raise the signal of a free slot.
* **`WorkContractGroupTokenProofs`: `Spec => []DInv`** for clients with
  `ScheduleAfterReuse = FALSE`, hence `OwnCallbacks`, `TokensNameTheLiving`,
  `InvalidAfterErase` and `VisitsAreAsked`: a slot in creation belongs to its
  creator and no object of the contract to be exists (`CreatorsInv`); an alive
  slot holds its own callbacks and token, and the worker that erases it holds
  the token that was in it (`AliveInv`); a token leads to the group only until
  its contract is past `orphan()` (`TokensInv`).  **`Spec => []SInv`**, with
  `CreateDuringStop = FALSE` as well, gives `NoReleaseAfterStop`, which is about
  `release()` and not about `schedule()`: a contract reachable through its token
  after `stopped_` was set is in a slot that `stop()` has yet to visit, or is
  about to be orphaned by `stop()` or by the worker that took the token out
  (`CutOffInv`).
* **`WorkContractGroupProofs`: `Spec => ImplementsLifecycle`**, for any
  clients.  The abstract state of a slot is read off its flag word and off where
  the threads are; given `IInv`, a step leaves both alone (`Stutters`), or sets
  flags only and is a `Schedule` or `Release` of the abstract specification, or
  nothing to a slot that is free or being released (`Requests`), or is one of
  `ResetFlags`, `BeginContract`, `ClearExecuteFlag`, `FreeSlot`, which are
  `Create`, `Serve`, `Finish`, `Free`.
* **`BlockingGroupProofs`: `Spec => []BInv`**, hence `CounterAccounts`,
  `BlockingTypeCorrect`, `NoWakeupIsLost`, `StopWakesEverybody`.  The account is
  kept by cardinalities of the sets of non-empty trees, of threads about to
  increment and of threads about to decrement; `SleepersInv` says that a worker
  that sleeps, or has read the counter as zero under the mutex, will be notified
  of a positive counter.
* **`SlotAllocatorProofs`: `Spec => []FreeOrTaken`**, which with the types is
  inductive, and **`Spec => []FailureIsExplained`**.  The rotor modulo the
  number of trees is the position of the tree that is next.  A call that has had
  `n` turns has seen the last `n` trees up to that position (`SeesLastTrees`):
  found them empty, is at one, or they went to others meanwhile.  After as many
  turns as there are trees these are all of them, wherever the rotor overflowed.
* **`SignalTreeProofs`**, for every size of a tree the code accepts and any
  number of threads.  `LevelsAgree` is inductive together with `TypeOK`,
  `IndexNamesNode` and where climbing threads are (`TreeTypes`); a step changes
  the content of two nodes at most, by one, and moves one thread in or out of one
  set of threads on their way.  `DescentFindsSignal` follows, since the thread
  itself is one of those on their way into the node.  `CountersFit` follows level
  by level from the leaves (`EveryLevelIsRoomy`): a node holds at most what is
  below it if its children do.  Two things here are recursive and yet proved:
  the sum of a node's counters (`MapThenSumSet`), and `Roomy` by level.  The
  induction is over a set of numbers, `NatSetInduction`, which takes no operator
  and follows from `WellFoundedInduction`; sums are shown to be what their
  recursion says by building the function set by set (`AreSums`).
* **`BiasSelectorProofs`: `Spec => []BiasWithinHint`**, `TypeOK` and
  **`SelectsSetSignal`**.  The lowest bit in which hint and bias differ is a bit
  of the hint, so setting it keeps the bias within the hint; `BiasWithinHint` is
  inductive by itself.  For the selection, `default_selector`'s blocks exist
  (`Way`), each is half of the one above, and if that has a set leaf the half
  that is chosen has one: by induction downwards, the block of one leaf has.
* **`ThisContractProofs`: `Spec => []TInv`**, hence `NamesInnermost` and
  `NamedIsOurs`: visits below the top of a stack are in a callback (`StackInv`);
  `tlsThisContract_` points to the innermost guard and each guard to the next
  one outwards (`LinksInv`); a contract is on at most one stack, once, with its
  execute flag set (`OwnersInv`).  `NoneStranded`: conversely an execute flag
  that is set has a visit on some stack, and a release flag without a schedule
  flag a release, which is inductive with `OwnersInv`, since the visit that ends
  is the contract's only one.

* **`MCClientsProofs`** proves about `FairSpec`, what the run checks, and is
  split as that is: a step of one client leaves the others' invariants alone.
  - `7_tasks`, `[]TasksInv`, hence `JoinedHasReported` and
    `TasksOutliveTheirPasses`: at most one worker executes a contract (`Apart`),
    and the phase of the contract says where it is (`VisitInv`); what was read is
    counted, but for the block that a pass holds (`CountInv`); a task that was
    not aborted does not begin to go before it has reported, and `join()` gets
    past it only after it is gone (`LifeInv`).
  - `6_data_ingress`, `[]IngressInv`, hence `NoValueIsStranded` and
    `ValuesInOrder`: what was pushed is what was processed followed by the queue
    (`QueueInv`); the contract begins to go only after the last value
    (`IngressLife`).  `NothingStranded` is inductive with these.
  - `this_contract`: the theorems of `ThisContractProofs`, by `INSTANCE`.
  - `signal_tree_benchmark`, `[]BenchInv`, hence `TotalsAgree`.  The tree is an
    instance of `SignalTreeProofs`, whose invariant holds since the benchmark's
    steps are steps of a tree (`RaceTree`).  Where a thread's loops are says how
    many signals it has set and selected, and how many of its calls have counted
    in the root and taken a count from it.  Over all threads these add up
    (`Lead`): the signals that are set are the sets less the selections, the
    content of the root is what was counted less what was taken (`BenchInv`).
    No thread is ahead of itself, so one that has a `select` to make finds the
    root not zero (`NeverInvalid`), and when all have ended both differences
    are nil.  A signal is set once, since the ranges of two threads are disjoint
    (`RangesAreApart`) and the loop is past it (`RangeInv`).

Only model-checked: liveness (`ImplementsFairLifecycle`, `ReleaseFreesSlot`,
`SignalsAreServed`, `CallsReturnAfterStop`, `TreeDrains`, `NoSignalStarves`,
`CreateReturns`, `ProgramsEnd`), which is beyond the prover.  Every safety
property that a run checks is proved.

## 5. Not modelled

* Memory orders: every atomic operation of the library is sequentially
  consistent, and the models interleave.
* Data races on one `work_contract` object that is moved or released by one
  thread and used by another without synchronisation (`owner_`, `id_` are plain
  members).  A move construction only renames the object.
* The end of the group as such.  `stop()` and the destructor leave `owner_` of
  the objects alone, so `work_contract::schedule()`, which goes by it, leads into
  the group after `stop()` and into freed memory after the destructor.  The
  comment at `group.cpp:59-62` takes it that a stopped group is not scheduled any
  more, but nothing sees to it: clients have to have made their last `schedule()`
  by then, and no property is stated of those that have not.
* `deschedule()` is declared (`contract.h:44`) and defined nowhere.
* `bit.h`, `synchronization_mode`, `non_copyable`, `non_movable` belong to a
  submodule that is not part of the repository.
* `create_contract()` during or after `stop()`: nobody orphans the token of such
  a contract.  The runs with a stopper take `CreateDuringStop = FALSE`.
  Nor is a second call of `stop()`, which returns at once.
* `this_contract::schedule()` outside a run goes through null.
* The shift of the hint in trees of several levels, which no group has.
* Examples 1 to 5, which create, schedule and release a contract or two, all of
  them steps of the models above; `benchmark`, which compares throughput with
  other libraries and has nothing to be right or wrong.  Affinity, clocks and
  output of `signal_tree_benchmark`.

## 6. Plan

No safety property is left to prove.  What would say more:

* An abstract specification of the signal tree for callers of `set` and
  `select`: a count of calls of `set` that reached the root and of signals that
  are set, of which `SignalTree` is a refinement.  `LevelsAgree` and
  `DescentFindsSignal` are most of its proof.
* The two halves of `WorkContractGroup`'s signals, its own set `signal` and the
  tree of `BlockingGroup`, joined by a refinement rather than by the argument
  that `BlockingGroup` lets any thread raise any signal.
