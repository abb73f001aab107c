# A TLA+ verification of swansong

Swansong is a Rust library for graceful shutdown. A `Swansong` names a *node*
of a tree; `Guard`s are the work that delays the shutdown of their node and of
all its ancestors; `Interrupt`s wrap values that should end when their node
stops; `ShuttingDown` and `ShutdownCompletion` are futures that resolve when the
node stops, and when it has stopped and no guard is left in its subset (the
node and all its descendants). Everything is built from atomics, one small
lock per shard, `Arc`/`Weak` ownership and two `event-listener` events per node.

This directory holds TLA+ models of that code, the TLC configurations that
check them, and TLAPS proofs of what they check, for every size of the system. `PROJECT.json` is the
machine-readable index: components, runs, mutants, the map from definitions to
source lines, findings, hazards and theorems. In this file, `inner.rs`,
`shard.rs` and so on are the files of `src/src/implementation/`, `lib.rs` is
`src/src/lib.rs`, and `spec.md` and `invariants.md` are in `src/docs/`.

## 1. The system

| component | state | operations | talks to |
|---|---|---|---|
| `Inner`, a node (`inner.rs`) | `state`: stop bit, arrived bit, number of arrived shards, index of the parent shard arrived at; `swansong_count`; strong link to the parent; shards; `stop_event`, `zero_event` | `new_root`, `new_child`, `arrive`, `depart`, `stop`, `drop` (collection), `guard_count_subtree`, `guard_infos_subtree` | its shards, a shard of its parent, its children (through registries) |
| `Shard` (`shard.rs`) | `state`: stop bit, arrived bit, local guards, child nodes arrived here; behind a lock: slab of wakers, guard registry, slab of weak children | `arrive`, `arrive_if_arrived`, `arrive_nonempty`, `depart`, `flush`, `stop`, `register_child`, `deregister_child`, `children`, `provenance`, `guard_infos` | its node (through a `Weak`) |
| `Guard` (`guard.rs`) | its shard; for a child's guard, a strong pin on the node; optional provenance | create, create through an interrupt, clone, drop | shard, node |
| `Swansong` (`lib.rs`) | a strong link to the node, counted in `swansong_count` | `clone`, `drop`, `shut_down`, `child`, `guard`, `guarded`, `interrupt`, `shutting_down`, `into_future`, `block_on_shutdown_completion`, `state`, `guard_count`, `guard_report` | node |
| `StopListener`, `Interrupt` (`shard.rs`, `interrupt.rs`, `interrupt/*`) | its shard, the registration (key and waker) | `poll` and `poll_next` (register), reads, writes and `next` (never register), drop, `into_inner` | shard |
| `ShuttingDown`, `ShutdownCompletion` | strong link to the node, optional event listener | `poll`, `block`, drop | node, events |
| `GuardRegistry`, `GuardReport` (`guard.rs`, `guard_report.rs`) | weak links to guards' records, a sweep threshold | `register`, `sweep`, `live`, `from_infos` | shard lock |
| `Guarded` (`guarded.rs`) | a guard and a value | create, clone, drop, `into_inner`; otherwise delegation | guard |

**How counting works.** Counts form a chain. A shard counts its guards and the
children that arrived at it; a node counts its arrived shards; a nonempty child
is arrived at one shard of its parent. The first unit on an empty shard first
*arrives* one level up and only then becomes visible by a `compare_exchange`;
if another thread won meanwhile, the arrival above is taken back, which may
cascade. While running, an empty shard stays arrived (hysteresis). After the
stop, whoever empties a shard *flushes* it, that is departs from the node, and
so on up. A stopped node whose count is zero is complete.

**How a stop travels.** `stop` sets the node's bit, latches and drains each
shard (waking the interrupts registered there), notifies `stop_event`, takes a
snapshot of the live children and stops each, and notifies `zero_event` if the
node was empty when the bit was set; if it was not, the departure that empties
it notifies. A new child registers first and then looks at its parent's bit.

**What is hard.** Threads race on the words at every level, and the words mix
counters and flags; a guard may *piggy-back* on an arrival another thread has
made; departures race with the latch, with new arrivals and with each other; a
child may be created, stopped and collected while a stop takes its snapshot;
the last strong reference of a node may be dropped by any thread, including
the one that is stopping it; wakers are registered, replaced on migration and
removed while a drain runs; keys of the slab are reused; events must not be
lost. `PROJECT.json` lists these hazards one by one, at their lines.

**What makes each component correct.** Node and shards: counts are exact, a
live guard is counted all the way up, emptiness is noticed, the stop latches
and reaches everyone. Ownership: nothing is collected under a guard, a handle
or a completion; a collected child leaves nothing behind. Completion: never
resolves over a guard; is not forgotten. Wrappers: a guard is given up once, and
not before the value it protects. Interrupts: never sleep through a
stop; registrations do not disturb each other. Registry: bounded by the peak of
live records, loses none; a report misses no guard in a tree that changes under
it, and is exact when nothing moves.

## 2. The modules

| module | models |
|---|---|
| `Shutdown` | the abstract specification: nodes, guards as a set, stops and their causes, completions |
| `GuardTree` | nodes, shards, guards, handles, children, stops, collection, completions: the core |
| `GuardTreeRefinement` | the mapping under which `GuardTree` implements `Shutdown` |
| `GuardCount` | `guard_count()` and `guard_report()` walking a tree of `GuardTree` that keeps changing |
| `PackedWords` | the integers behind the records of `GuardTree` |
| `Wrappers` | `Interrupt` and `Guarded` as owners of a guard and a value, over `Shutdown` |
| `StopSignal` | interrupts, the slab of wakers, `ShuttingDown`, latching and draining of one node |
| `GuardRegistry` | the registries of provenance records, their sweeps, the aggregation of a report |
| `GuardTreeProofs` | proofs about `GuardTree`: exact counts, guards and completions, latching |
| `GuardTreeOwnership` | proofs, on top of it: who keeps which node alive, departures, notifications, collections |
| `GuardTreeRefinementProofs` | proofs, on top of it: stops, quiescence, the refinement of `Shutdown` |
| `GuardCountProofs` | proofs about `GuardCount`, on top of those: the registries, the walk |
| `PackedWordsProofs`, `WrappersProofs`, `StopSignalProofs`, `GuardRegistryProofs` | proofs about those modules |
| `MC...` | instances: the trees Family, Pair and Chain of `MCGuardTree`, and symmetries |

`GuardTree`, `StopSignal` and `GuardRegistry` are separate because their state
hardly interacts: the stop bit of a shard is the only thing `GuardTree` and
`StopSignal` share (both set it in `Shard::stop`, before anything else there),
and a registry touches no count; where a report finds the shards whose
registries it reads is a matter of the tree, and in `GuardCount`. `GuardCount` and `PackedWords` extend
`GuardTree`, with all its interleavings. `Wrappers` extends `Shutdown`: what a
wrapper promises is about guards and completions, not about counts, and the
refinement says that the counts keep the promises of `Shutdown`.

### Shutdown and the refinement

A node is `live` or not, `governed` by a handle or not, and `stopped` or not; a
guard is a `member` of a node; a node may have a `completion`. A node stops
only because a caller is inside `shut_down` for it (`asking`), because it is the
root and nobody governs it, or because its parent is stopped (`MustStop`).
`shut_down` returns only when its node is stopped (`Answer`); a completion
resolves only when the node is stopped and no member of it or of a descendant
is left (`Resolve`); a node is collected only when it has no handle, completion,
child or, unless it is the root, guard.

`GuardTreeRefinement` maps a guard to the node of the shard that counts it, from
the step that publishes it to the step that uncounts it; a node is governed
while a client, `child()` or `block_on_shutdown_completion` has a handle; a
thread is asking from the call of `shut_down` to its last step; the states of a
completion short of "resolved" are all pending. Everything else (shards,
arrivals, latches, registries, notifications) is hidden. `Implements` says that
every step of `GuardTree` is a step of `Shutdown` or none, and `StopsHappen` and
`CompletionResolves` that the implementation is as live as the abstract
`Stop` and `Resolve` would be under weak fairness. They are written `[]<>~E`, where
`E` is what enables the action: weak fairness of an action that
disables itself.

### GuardTree

*State.* `shardState` and `nodeState` are the two packed words, as records of a
set of flags and counters. `home[g]` is the shard that counts guard `g` (or
`NoShard`); `handles`, `future`, `life` and `registered` are the handles that
clients hold, a tracked `ShutdownCompletion`, whether the `Inner` exists, and the registry
entry of a child. `Arc` counts are not stored: `Pinned(n)` says who holds one.

*Control.* A thread is inside at most one operation. Its *walk* is the chain of
calls `Shard::arrive -> Inner::arrive -> Shard::arrive of the parent -> ...`
and back: `pc` and `cell` name the next atomic access and the word it is on;
`saved` is the word each suspended `arrive` loaded; `from` is the child a
suspended `arrive` counts; `seen` is the word of `Inner::depart`; `resume` is
where the loop of a losing arrival continues. Its *agenda* is a stack of tasks
left for after the walk: latch these shards, snapshot, stop these children,
notify, release an `Arc`, deregister, and so on. Recursive calls (`child.stop()`
in `stop`, dropping the parent's `Arc` in `drop`) push tasks.

*Actions.*

| code | actions |
|---|---|
| `Shard::arrive`, `Inner::arrive` | `ArriveShard`, `ArriveNode`, `CasShard`, `CasNode` |
| `Shard::depart`, `Shard::flush`, `Inner::depart` | `DepartShard`, `Flush`, `DepartNode`, `DepartNotify`, `Unarrive` |
| `Inner::stop`, `Shard::stop`, `live_children` | `Stop`, `Latch`, `Snapshot`, `StopKids`, `StopNotify` |
| `Drop for Inner`, dropping an `Arc` | `Release`, `Latch`, `Deregister` |
| `Inner::new_child`, `Swansong::child` | `NewChild`, `Register`, `Check`, `Adopt` |
| `Guard::new`, `for_shard`, `clone`, `drop` | `NewGuard`, `ForShard`, `Guarded`, `CloneGuard`, `DropGuard`, `Upgrade`, `GuardReturned` |
| `Swansong` clone, drop, `shut_down`, `into_future` | `CloneSwansong`, `DropSwansong`, `ShutDown`, `Watch`, `AwaitSwansong` |
| `block_on_shutdown_completion` | `BlockOnShutdown`, `Poll`, `Unblock` |
| `ShutdownCompletion` | `Poll` (one action, five states), `DropFuture` |

*Abstractions.* Atomics are sequentially consistent (the counting words use
`SeqCst` throughout; the relaxed reads that remain are of bits that latch or of
diagnostics). A load followed by a `compare_exchange_weak` loop on an arrived
word is one step, since the loop retries until the word it read is the word it
replaces. Shards are latched and snapshotted in any order, not in index order.
A completion goes through the loop of `poll` and `block` step by step: the
relaxed check at the head, which may miss what another thread has just done,
`listen`, the second check, the wait, and the notification, which may come at
any time after `listen`. Its two reads of the word are one step, since the stop
bit latches. At most one completion of a node is tracked at a time; another one
may be dropped at once. The registry of children is a function from child to
shard; the wakers that `Shard::stop` drains are in `StopSignal`. A handle moved
into `block_on_shutdown_completion` is no longer in `handles`, but counts in
`SwansongCount` until the call returns. An interrupt is not part of the state:
`ForShard` may ask for a guard on any shard of a node that exists or has existed,
once `child()` has returned the first handle that an interrupt can come from
(`Constructing`).

### GuardCount

`BeginCount` and `BeginReport` put the walk on the thread's agenda: `Tally` reads
one shard's word, or its registry of guards for a report, `Gather` upgrades the
children registered at one shard, and when all the shards of a node are done the
subtree of each child follows. `guard_count_subtree` drops the children's `Arc`s
when it has counted them all (`CountKids`); `guard_infos_subtree` consumes its
`Vec` and drops each child once it has been through it (`ReportKids`). Either may
collect a child in the middle of the walk. `census` holds the sum, or the guards
whose records were found, and, for the properties, the guards that were in the
subset throughout and how many there were at the start. The other steps are those
of `GuardTree`, each with the update of that history (`Witness`).

The root keeps a guard report. A guard's record is in the registry of its shard
from before it is counted until after it is uncounted, with one exception:
`Guard::for_shard` on an arrived root shard counts the guard (`CountFirst`), and
records it in the thread's next step (`RecordLate`). In between nobody has the
guard, so that no other step moves it (`KeepsLate`); `late` holds it. The
registry itself is abstracted to the set of counted guards of the shard that are
not late (`Recorded`): that a registry holds every live record whatever is
swept is `RegistryExact` of `GuardRegistry`.

### PackedWords

The layout of the two words and the tests that the code makes of them
(`state & STOPPED`, `state & !STOPPED == ARRIVED`, `state & SHARDS_MASK`, the
parent's index), with the widths as constants. `WidthAssumption` is the load
the widths allow: fewer guards than the low field holds, and fewer children plus
threads than the middle one. The run uses the smallest widths that satisfy it,
so that a single unit more than the protocol needs would carry.

### Wrappers

An `Interrupt` has a listener, a value and an optional guard; a `Guarded` a guard
and a value. Dropping either drops the fields in the order of declaration, one
per step, with anything in between; `into_inner` moves the value out and drops
the rest. `Interrupt::guarded` counts the new guard before the assignment drops
the old one, which is `spare` in between.

### StopSignal

One node with its shards. `latched` are the shards' stop bits, `waiters` their
slabs, with the free list through vacant slots as in the code (keys are the
code's plus one). An interrupt is created on any shard (the shard is the
creating thread's), polled by any task (`BeginPoll`, the check), then its value
is ready or is a read or write (`Delegated`), or it calls `poll_stopped`:
`Confirm` when its registered waker would wake the task, without the lock, else
`Register` under the lock. A waker is identified with its task. `DropInterrupt`
removes the registration by key. A `ShuttingDown` runs `Check`, `Listen`,
`Recheck`, `Notified`. A caller is a `shut_down` (`ShutDown`, then `Latch`,
`Drain`, `Wake`, `NextShard` for each shard, then `Notify`), or the collection
of the node (`Collect`, with the same steps except the notification). The last
drop of a root handle is a `ShutDown` followed by a `Collect`. A caller calls
at most once, which bounds the number of stops.

The stop bit of the node and of the shards are read with `Relaxed` loads in the
polls; the model reads them in order. What a relaxed load may miss before the
lock or the wake orders it is covered by polls that ran a little earlier.

### GuardRegistry

The shards of one node, or of a subtree that stays as it is, with their
registries, under a root made by `with_guard_report()`; how a report gets from
node to node while children come and go is in `GuardCount`. An entry is the name of a guard's record, or `Dangling`
once the last `Arc` of the record is gone. Records are made by `Record` (before
counting, `Guard::at_location` and clones) or `RecordLate` (after counting,
`Guard::for_shard` on an arrived root shard), and dropped after the guard is
uncounted (`Depart`, `DropInfo`). A report visits the shards one at a time
(`SweepShard`, `Upgrade` under the lock), then counts the guards of each creation
site and drops the records (`Aggregate`). `peak` and `quiet` are history variables
used by properties only.

## 3. The runs

All runs use `CHECK_DEADLOCK FALSE`: a program whose handles and guards are all
dropped, or whose clients do nothing, really stops. The counts are distinct
states.

| run | instance | properties | states |
|---|---|---|---|
| `MCPackedWords_traffic` | Family: a root with 2 shards, a child; 2 threads, 2 guards, 2 root handles | `TypeOK`, `ControlOK`, `CountsExact`, `PackedAgrees`, `StopLatches` | 408k |
| `MCGuardCount_census` | Chain: 3 generations; 2 threads, 1 guard | `CountBracketed`, `ReportMissesNone`, `GuardCounted`, `NoChildLeftRunning`, `GuardsRegistered` | 561k |
| `MCGuardTree_collection` | Pair: root and child with 1 shard each; 2 root handles, 1 completion, 1 guard, through interrupts | `Implements`, `CountsExact`, `ChainAlive`, `CollectedDeparted`, `EmptyChildDeparts`, `ExactWhenQuiet` | 442k |
| `MCGuardTree_liveness` | Pair under `FairSpec`; 2 threads, 1 guard, a completion per node | `NoLostNotification`, `ResolvesEmpty`, `CompletionResolves`, `StopsHappen` | 207k |
| `MCWrappers_wrapped` | root and child, 2 wrappers, 3 guards | `WrapTypeOK`, `GuardsHeldOnce`, `InterruptDelays` | 201k |
| `MCStopSignal_slab` | 1 shard, 3 interrupts, 2 tasks, 2 callers | `TypeOK`, `RegistrationsIntact`, `NoLostWake` | 257k |
| `MCStopSignal_ending` | 2 shards, 1 interrupt, 2 tasks, 1 observer, 2 callers, `FairSpec` | `NoLostStopEvent`, `InterruptsEnd`, `ShuttingDownResolves` | 41k |
| `MCGuardRegistry_reports` | 2 shards, 2 guards, 2 creation sites, 2 reporters | `TypeOK`, `RegistryBounded`, `RegistryExact`, `ReportExactWhenQuiet` | 1029k |

What each shows:

- *traffic*: with a root shard per thread, so that racing arrivals of the child
  go to different parent shards, every count is exactly what it stands for at
  every step, no thread's control state is confused, no read-modify-write loses
  a stop bit, and no unit carries into, or borrows from, another field.
- *census*: `guard_count()` misses no guard that was there all the time and counts
  none twice, and `guard_report()` has the record of each that had been handed out
  when it began, while children are created, stopped and collected around them, also
  by themselves as their last owners, and guards come and go, also through interrupts;
  the registries lead both to every guard. Through a node that is neither root nor leaf, a
  live guard is counted all the way up, and stops that race with the creation
  of children leave nobody running.
- *collection*: whatever the threads do is allowed by `Shutdown`. Counts stay
  exact, also when a root is collected while its last guards drop (a root's guard
  does not pin it, and its departure may find the node gone, or become its last
  owner). Handles, completions and guards keep what they need alive, and a collected child has
  left the counts and the registry; when all is quiet, `guard_count()` and
  `state()` are exact.
- *liveness*: completions, also those made before the stop (by `into_future` or
  `block_on_shutdown_completion`), neither resolve early nor sleep on a complete
  node without a notification coming, and those of stopped empty nodes resolve;
  a node with a cause to stop is stopped.
- *wrapped*: whatever is done with wrappers, every guard is given up exactly
  once; a guarded interrupt has a guard at every moment until its value is gone,
  also while it is guarded again.
- *slab*: registrations survive key reuse, waker replacement and stale drops,
  and nobody who registered sleeps through a drain.
- *ending*: pending interrupts and observers end after a stop or collection,
  across several shards and several concurrent stops.
- *reports*: registries stay within twice the peak of live records, lose none
  that is live and hold none twice; reports are exact, site by site, when nothing
  moves.

*Bounds.* `Guard` bounds the guards alive at once, and identities are reused
without limit; `MaxHandles` the handles of each node and `MaxFutures` the
completions tracked at a time; `Node` the nodes that ever exist (in `GuardTree` a
collected node does not come back); `Thread` the operations in flight; `Calls`
restricts a run to the operations its question is about; one `guard_count()` or
`guard_report()` runs at a time. In *census*, `shut_down` is called on the middle
generation only (`Stoppable`): the root stops when its handle drops, which may be
at the same time, and the youngest when either stop, or the check of `new_child`,
reaches it; the proofs are for any `Stoppable`. Two threads are what a lost
`compare_exchange` takes; what a third could add is covered by the proofs, which
are for any number.
Two guards let one guard keep the count that the other is leaving. Two root
shards let a child be arrived at either, so that the loser's parent shard
differs from the winner's. Three generations are the least where an arrival
cascades through a node that is neither root nor leaf. Two root handles make a
handle's drop differ from the last one's, and allow one to be dropped while the
other is blocked on. In `Wrappers`, three guards let an interrupt be guarded
again while another wrapper has a guard. In `StopSignal`, three interrupts make a
free list with two vacant slots in either order, and two tasks a migration.
`MIN_SWEEP_THRESHOLD` is 16 in the code and 1 in the runs, so that sweeps
happen; it is a parameter of the module and only scales the bound. The widths
of `PackedWords` are 6, 4 and 2 instead of 2^32, 2^30 and 2^16.

*Symmetry* permutes guards and, where no shard is assigned to a thread,
threads; in `StopSignal` interrupts, tasks and callers; in `GuardRegistry`
guards and reporters; in `Wrappers` wrappers and guards. No liveness run uses symmetry.

*Fairness.* A thread inside an operation keeps running
(`WF(Walk(t) \/ Proceed(t))`): swansong has no unbounded wait inside an
operation, apart from the shard lock, whose critical sections are single steps.
An executor polls a future that is new or was woken, which is the contract of
wakers; a future inside its poll, or a thread inside `block`, runs until it waits. No client is obliged to call anything, in particular not to drop a guard or
to stop a node: properties are conditional on that.

*Mutants.* Each property of a passing run is paired with a plausible bug in a
mapped definition that makes the run fail, listed in `PROJECT.json`. The
mutated forms are next to the definitions in the modules (`KeepBoth` beside
`TakeBack`, and so on) and are used by nothing else.

### What the violation runs show

Four statements of the documentation do not hold of the code:

- `child_doc`: `Swansong::child` says the parent is not complete until the child
  `Swansong` and its completions are dropped (`lib.rs:351-353`). Only guards
  count; `spec.md` 5.2 agrees with the code.
- `block_doc`: `spec.md` 2 says that a root nobody governs is shut down, so that no
  observer waits for ever. `block_on_shutdown_completion` consumes a handle and
  drops it only when the completion has resolved (`lib.rs:225-227`); given the
  last handle of a root, it waits for a stop that nobody can request. Awaiting
  the handle, which the comment presents as its equivalent, stops the root.
- `guarded_doc`: a `Guarded` "will delay shutdown until it is dropped"
  (`guarded.rs:15-16`). Its guard is its first field and is dropped before the
  wrapped value, so that shutdown may complete before the value is gone.
  `Interrupt` has its fields in the other order, and `InterruptDelays` holds.
- `shut_down_doc`: `spec.md` 3.5 says any interrupt polled after `shut_down()`
  observes the stop. A second `shut_down()` returns while the first is still
  latching shards, and an interrupt polled after it may be pending; it is woken
  soon after (`InterruptsEnd`), which is what `invariants.md` L1 and L2 promise.

Four more statements differ from the code in ways that need no run. `Interrupt`
says that it ends when all clones of the `Swansong` have dropped
(`interrupt.rs:18-21`); that is so for a root, while a child that a guard keeps
alive runs on (`lib.rs:411`), as `spec.md` 5.8 wants. `guard.rs:16` says that a
guard holds the only strong reference to its record; a report in progress holds
one too (`shard.rs:350`), so that another report may list a guard dropped before
it began, which is why `ReportExactWhenQuiet` excludes that case.
`guard.rs:57-59` says that the sweeps keep memory "bounded by the live guard
count"; they keep it within twice the largest number of guards that were ever
alive on the shard at once (`RegistryBounded`, and the least threshold of 16). When
1000 guards of a shard are dropped, their entries stay until registrations
reach the threshold or a report sweeps the shard, however few guards are alive
by then. And `lib.rs:262-266` lists
`AsyncBufRead` among the traits of `Interrupt`, and no such implementation
exists (`Guarded` has one).

## 4. The proofs

Every invariant and every action property of the passing runs, and the
refinement, are theorems, for every value of the constants that satisfies the
assumptions: any tree, any number of shards, threads, guards and calls, and any
assignment of threads to shards. The theorems of `GuardCountProofs` are about
`CountSpec`, those of the other modules about the specification without
walks.

| module | theorem | statement |
|---|---|---|
| `GuardTreeProofs` | `Invariance` | `Spec => []IInv` |
| | `TypeCorrect`, `ControlCorrect` | `TypeOK`, `ControlOK`: in particular no counter goes below zero |
| | `CountsCorrect` | `CountsExact` |
| | `GuardsAreCounted` | `GuardCounted` (S3, as the words see it) |
| | `CompletionsFindNoGuard` | `ResolvesEmpty` (S3, as clients see it) |
| | `StopBitsLatch` | `StopLatches` (S1) |
| `GuardTreeOwnership` | `Ownership` | `[](IInv /\ OwnInv)` |
| | `OwnersKeepChain` | `ChainAlive` (`spec.md` 3.4, 5.5) |
| | `CollectedUnused` | `NoUseAfterCollection`: no walk or task is on a collected node |
| | `NotificationsArrive` | `NoLostNotification` |
| | `EmptiedChildrenDepart` | `EmptyChildDeparts` |
| | `CollectionComplete` | `CollectedDeparted` |
| `GuardTreeRefinementProofs` | `StopsReachChildren` | `NoChildLeftRunning` (`spec.md` 5.6) |
| | `QuietExact` | `ExactWhenQuiet` (S5) |
| | `Refinement` | `Implements`: `GuardTree` implements `Shutdown` |
| `GuardCountProofs` | `CountInvariance` | `CountSpec => [](TreeInv /\ CensusInv)` |
| | `CountsBracketed` | `CountBracketed` (S5) |
| | `ReportsMissNone` | `ReportMissesNone` |
| | `GuardsAreRegistered` | `GuardsRegistered` |
| | `CountsHarmless` | `GuardCounted`, `ChainAlive` and `NoChildLeftRunning`, walks included |
| `PackedWordsProofs` | `PackedWordsAgree` | `PackedAgrees` |
| `WrappersProofs` | `WrappersTyped`, `WrappersHoldOnce`, `InterruptsDelay` | `WrapTypeOK`, `GuardsHeldOnce`, `InterruptDelays` |
| `StopSignalProofs` | `SignalTyped`, `RegistrationsStayIntact` | `TypeOK`, `RegistrationsIntact` |
| | `StopEventsArrive`, `WakesArrive` | `NoLostStopEvent`, `NoLostWake` (L1, L4) |
| `GuardRegistryProofs` | `RegistryTyped`, `RegistriesExact`, `RegistriesBounded` | `TypeOK`, `RegistryExact`, `RegistryBounded` |
| | `ReportsExactWhenQuiet` | `ReportExactWhenQuiet` |

*Assumptions.* `TreeAssumption`, `ShardAssumption` and `ThreadAssumption`: the
constants have their types, the sets that counts count are finite, and
threads, shards and nodes are different things. `RootAssumption`: following
`Parent` from any node leads to the root, which is so because a child is made
from a parent that exists. `WidthAssumption`: the fields of the packed words hold
the load. `WrapperAssumption`, `StopSignalAssumption`, `RegistryAssumption`: types,
finiteness, and that names for nothing name nothing.

### Counts (`GuardTreeProofs`, `PackedWordsProofs`)

The invariant `IInv` is `TypeOK`, `ControlOK` and `CountsExact`.
`CountsExact` says that each counter is the cardinality of a set of *tokens*: a
shard's `local` counts the guards whose home it is; its `kids` the children
arrived there plus the threads that have arrived there for a child and have not
yet published or taken back that arrival; a node's `count` its arrived shards
plus the threads between a shard and the node. Threads, shards and nodes are
disjoint (`ThreadAssumption`), so a step that publishes an arrival exchanges a
thread for a shard in the set and leaves the cardinality alone; a lost
`compare_exchange` keeps the thread's token until its departure removes it.
That is why the invariant needs the control state: without the tokens in flight
no count is exact. `ControlOK` supplies that a walk is on cells of the right
kind, that a thread which will count a guard holds one, and that `seen` is an
emptied word. Each action then has a lemma that says which token sets change
(`CardAdd`, `CardRemove`, `CardSwap`), and frame lemmas for everything it
leaves alone.

`GuardCounted` follows from `IInv` without further induction: a guard makes its
home shard's `local` positive, so that the shard is arrived (`UnarrivedEmpty`),
so that the node's `count` is positive, so that the node is arrived at a shard
of its parent, whose `kids` is positive, and so on: the set of nodes with a
positive count contains the guard's node and is closed under `Parent`, and
`Ancestors` is the least such set. `ResolvesEmpty` follows because only `Poll`
resolves a completion, and only on a zero count.

For `PackedAgrees`, the token sets are smaller than the fields by
`WidthAssumption`, so that no field carries; one more invariant says that a node
that has not arrived keeps no index (`AtCleared`).

### Ownership (`GuardTreeOwnership`)

`OwnInv` has three parts. `KeptAlive`: a node with a handle, a completion, a
guard (unless it is the root) or a live child is live. `AgendaInv`: each task
may rely on what its kind needs (`JobOK`); a task that works on a node has a task
further down the same agenda that holds an `Arc` of it (`UsesKept`); and one
thread only tears a node down (`CollectedOnce`). `WalksInv`: the chain of
suspended arrivals of a thread goes from the node of the guard it makes, which
the agenda keeps, to where it is (`ChainOK`), and every walk is on an ancestor of
a node that the agenda keeps (`WalkKept`). The proof needs that a tree has no
cycles, which follows from `RootAssumption` because `Ancestors` is a least set.

### Departures (`GuardTreeOwnership`)

`DepartInv` follows what is emptied. An arrived child that counts nothing has a
thread that departs for it and has seen the word as it is (`EmptyDue`), a latched
shard that counts nothing and is still arrived has one that flushes it
(`FlushDue`), a collection in progress has latched the shards it has been
through and is about to deregister (`DropProgress`), and a child that does not
exist is in no registry and no count (`Absent`, `CollectedDeparted`). They hold together only with
the reasons for the steps: a shard is latched only if its node *quits*, that is,
is stopped or being dropped (`StopCause`, `SavedStops`), and a shard departs only
from a node that quits or that keeps another arrived shard (`DepartCause`), so
that no departure brings a running node to zero unnoticed.
`NoLostNotification` is proved apart: what brings a node to complete, the stop
or the departure, puts the notification on its own agenda or walk.

### Stops and quiescence (`GuardTreeRefinementProofs`)

`StopInv`: a shard of a stopped node is latched or on the list of a stop that
latches it; a live child of a stopped parent is stopped, or some task leads to its
stop: a stop or check of it, a snapshot that has it, or a snapshot that has
yet to visit the shard at which it is registered. The race of `new_child` with
`stop` is the case where the child registers at a shard already visited: then the
check after the registration is still on the creator's agenda (`RegisterFirst`,
`RegisterDue`), and it finds the bit.

`ExactWhenQuiet` follows from all layers (`AllInv`) and two arguments about the
tree. For `state()`: a stopped node that counts something while nobody moves has
a guard or a child that does (`QuietCounts`), and a lowest such node is a
contradiction. For `guard_count()`: the nodes it visits are below the node, all
live nodes below are visited (each is registered, at a shard of a live parent),
and the sum of the local counts is the cardinality of the disjoint union of the
guards they count (`SumIs`).

### The refinement (`GuardTreeRefinementProofs`)

The mapping is in section 2. `CauseInv` supplies why a stop happens: a task
`stop` on an agenda is caused by a `shut_down` of the node by the same thread, by
the loss of the last handle of the root, or by a stopped parent (`StopCaused`);
with it, that `shut_down` and `block_on_shutdown_completion` hold what they
claim (`WatchLast`, `BlockAlone`, `BlockOnce`), and that the children of a stopping
node come after its own stop (`KidsAfter`). The simulation has one lemma per
group of actions: most change nothing that a client sees (`Unseen`), publishing
a guard is `Enter`, uncounting it is `Leave`, `Stop` is `Stop` with its cause,
dropping the last `Arc` is `Collect` by `OwnInv`, `Poll` on a complete word is
`Resolve` by `GuardCounted`, and so on.

### Counts and reports of a moving tree (`GuardCountProofs`)

`TreeInv` is `IInv`, `OwnInv` and `StopInv` with one more layer, and it is
inductive for `CountNext` (`TreeNext`): the tasks that a walk adds hold and
release `Arc`s as those of a snapshot do.

The additional layer, `ChildInv`, is about children that `child()` has not
returned yet: nobody has a handle, a guard or a child of one, or is creating a guard
on one (`AdoptUntouched`, `AskedBorn`), and each is about to be returned by one
thread, after its registration (`AdoptOnce`, `AdoptDue`). Whatever has a guard below it is
therefore live and past its registration (`NoneBelow`), which gives
`GuardsRegistered`: `new_child` registers the child before anybody can put a
guard under it, and `Drop for Inner` deregisters it when nobody can any more.

`CensusInv` is about the visits (`tally` and `gather` tasks) on the agenda of a
thread that counts or reports. Two sets of shards bound what the sum lacks:

- `Due`, what the visits will reach as the registries are now: the shards a
  `tally` still lists, and for a `gather` those below a child that it has found
  or will find at a shard it has yet to visit. The sum is at least the number of
  guards that were there throughout and whose home is not due; a report has the
  records of all of those (`through` has no late guard, and a guard is late only
  when it is new). A step other than
  the count's own cannot take the home of a guard out of `Due`, because the
  entries above a guard stay (`RegisteredStays`), and a guard that stays does not
  move (`HomeMoves`).
- `Remaining`, what they might reach whatever the registries say: for a `gather`
  everything strictly below its node. The visits have disjoint regions
  (`VisitsApart`), since siblings have disjoint subtrees (`KidsApart`), and all are
  in the subtree (`VisitsUnder`). So a shard that is tallied leaves `Remaining` for
  good, and as long as no guard has come, the sum and the guards that remain are
  together at most what there was at the start.

When the walk returns, `return` is the only task left (`ReturnsLast`) and both sets
are empty: the two bounds are `CountBracketed`, and what a report has is
`ReportMissesNone`. The order in which the children are released makes no
difference to either set (`KidTasks`, `ReportTasks`): the tasks of a child not yet
visited stand for its subtree, whether the `Arc`s of its siblings are still held or
not. Two sets are needed: a `gather`
may never find a child that is registered late, so that what remains is not all
due, and the registries change under it, so that regions drawn from them would
not stay disjoint.

### The other modules

*Wrappers.* `Stages` says which fields a wrapper has left and in which order they
go, so that the guard of an interrupt is the last; `Homes` that a guard it holds
is counted at its node. `InterruptDelays` follows: a guard at or below a node
keeps it from resolving in `Shutdown`.

*StopSignal.* `SlabSound` says that the free list is one path from `next_vacant`
to one past the end: its links stay among the vacant slots, no two are the same,
and none leads back to the head. With `FreeListComplete` (every vacant slot is on
the path) it makes an insertion never reuse an occupied key. `Standing` relates registrations, the tasks that
polled last, the latch and the shards that callers have yet to drain;
`RegistrationsIntact` and `NoLostWake` are proved on top of it.

*GuardRegistry.* What a sweep keeps is computed by a recursive function over the
registry. Facts about it are proved by induction on prefixes, as the absence of
a least counterexample among the naturals (`LeastNumber`, from the
well-foundedness of `<`). `ExactInv` makes the entries that are not dangling the
live records, once each. For `RegistryBounded`, the threshold is at most twice the
peak, since it is set to twice what survived a sweep, all of it alive. When
nothing moves, a report has the guards of the shards visited and nothing else
(`QuietInv`); its total is then the cardinality of a disjoint union, as above.

### Only model-checked

- Liveness (`CompletionResolves`, `StopsHappen`, `InterruptsEnd`,
  `ShuttingDownResolves`): fairness and `ENABLED` are out of the prover's reach.
  Their safety cores are proved: `NoLostNotification`, `NoLostWake`,
  `NoLostStopEvent`, `NoChildLeftRunning` say that what must happen is on
  somebody's agenda.

## 5. Not modelled, and why

- Weak memory: reads are in order, apart from the relaxed check of a completion.
  The loom models of the repository (`loom_models.rs`) explore it for small cases.
- Words beyond their widths: 2^32 guards on a shard or 2^30 children arrived at
  one overflow into the next field; the code does not check, and `PackedWords`
  assumes that the load is smaller.
- Panics and poisoned locks: wakers run executor code, but outside the locks.
- Lock ownership: critical sections are single steps (two in `GuardRegistry`), and
  nothing is dropped inside one that could take the same lock again.
- Who holds what, where it makes no difference to what can happen: the `Arc` that a
  `ShuttingDown` holds is not in `Pinned` of `GuardTree`, which the pin of a
  completion stands for.
- Records of guards that are not counted. `GuardCount` leaves out those of guards
  about to be counted, or uncounted and about to be dropped, which a report may
  list besides what `ReportMissesNone` asks for; `GuardRegistry` has them, on
  shards that stay. A root without provenance has no records, and its
  `guard_report()` is its `guard_count()`.
- The ages of a report's entries and the order by age: each age is read from the
  clock when its record is visited, so the order is that of the reported ages.
  Formatting and logging.
- The delegation of traits in `Guarded` and in the I/O wrappers of `Interrupt`
  beyond the check that starts an operation. `Delegated` of `StopSignal` stands
  for `poll_read`, `poll_read_vectored`, `poll_write`, `poll_write_vectored` and
  `Iterator::next` alike (`async_read.rs`, `async_write.rs`, `iterator.rs`);
  `poll_flush`, `poll_close`, `poll_shutdown`, `is_write_vectored` and `size_hint`
  pass through without a check, as do `Deref`, `Eq` and `Debug`.
- `thread_index` and `root_shard_count`: the assignment of threads to shards is
  arbitrary in the models.
- `stop/iterator.rs`, which no module declares, `sync.rs`, tests and benches.

## 6. Plan

The modules of the plan exist, and their safety properties are proved. What could
come next, in this order:

1. For `Shutdown` itself, as a reader of the abstract specification would want
   it: what the completions of a node and of its ancestors promise each other.
2. The lock of a shard as a step of its own, so that what is dropped inside a
   critical section and outside of it (`shard.rs:339`) becomes a property.

What needs fairness stays with TLC.
