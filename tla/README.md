# Masa: TLA+ models, checks and proofs

Masa is a set of Rust libraries that let a *policy* - a stack of modules -
observe and steer the RPCs of a microservice: it admits and rejects requests,
stamps them with scheduling metadata, carries information from a request to the
child RPCs it makes, and decides in which order the tasks of the runtime run.
For that it patches tokio (run queues, schedulers, poll hooks), tonic (the
server and client code that calls the modules) and adds libraries of its own.

This directory models the parts in which control is hard: the run queues, the
two schedulers, the shared queues below them, the thread-local request context,
the hooks around child RPCs, and two policies that live in those hooks: the
price table of Rajomon and the fanout estimation of Masa. Paths below are
relative to `src/`.

- [Inventory](#inventory) - components, state, interactions, hard behaviours
- [Modules](#modules) - what models what
- [Runs](#runs) - what TLC checks and shows
- [Bounds](#bounds) and [fairness](#fairness)
- [Proofs](#proofs)
- [Observations without a run](#observations-without-a-run)
- [What is not modelled](#what-is-not-modelled) and [plan](#plan)

`PROJECT.json` holds the machine-readable form: the line of the source behind
every definition, the runs, a mutant for every property (a plausible bug in the
code that the property catches), the hazards and the findings.

## Inventory

| component | source | state | operations |
|---|---|---|---|
| run queue contract | `libs/rpcstack-sched/src/queue.rs` | per queue | `push`, `pop`, `on_poll_start`, `on_poll_end`, `on_task_exit` |
| TailClipper queue | `libs/rpcstack-sched/src/builtin/tailclipper.rs` | heap, round-robin window of C, infrastructure lane | `push` (with eviction), `pop`, `fill` |
| other run queues | `libs/rpcstack-sched/src/builtin/{prio_heap,fifo}.rs`, `custom.rs` | one heap or deque | `push`, `pop` |
| multi-thread scheduler, feature `sched_mt` | `libs/tokio/tokio/src/runtime/scheduler/multi_thread/{worker,idle,park}.rs` | packed idle counters, sleepers, parker of each worker, core of each worker, driver lock | run loop, `park`, `unpark`, `notify_parked`, `schedule_task`, shutdown |
| shared priority queue | `.../multi_thread/prio_queue.rs` | lane under a lock, atomic flag, main queue | `push`, `pop`, `is_empty` |
| MultiQueue | `libs/multiqueue-prio-queue/src/lib.rs` | N heaps, N locks, N counters | `push`, `pop`, `pop_any`, `is_empty` |
| current-thread executor | `.../scheduler/current_thread/mod.rs`, `defer.rs`, `inject*` | core (run queue, tick, exits), injection queue, deferred wakers, owned tasks, woken flag | `block_on`, `spawn`, `schedule`, `park`, `park_yield`, `end_poll`, `release`, `unhandled_panic`, `shutdown2` |
| task state machine | `libs/tokio/tokio/src/runtime/task/{state,harness,list}.rs` | running, notified, cancelled, complete | wake, poll, abort, shutdown |
| poll hooks and parent context | `libs/tonic/tonic/src/server/grpc.rs`, `libs/tonic/tonic/src/masa/`, `libs/tokio/tokio/src/masa/`, `task/spawn.rs` | thread-local `PARENT_CTX`, hook in the task header and around spawned futures, hand-made reference counts | `masa_unary`, `spawn_with_meta`, `PollHookFuture::poll` |
| module stack, child RPCs | `libs/rpcstack/src/module.rs`, `libs/rpcstack-tonic/src/hooks.rs`, `libs/tonic/tonic-build/src/client.rs` | per request: one lock, one state per module | `before_poll`, `after_poll`, `before_child_rpc`, `seal_child_rpc`, `after_child_rpc`, `finalize` |
| Rajomon | `libs/rajomon/src/` | per process: own price, price per (parent, child), cached maximum per parent, latency window; per request: remaining tokens; client: token bucket | `new` (admission), `before_poll`, `before_child_rpc`, `after_child_rpc`, `finalize`, the price worker (`update_prices`, `decay_downstream_prices`), client bucket |
| Masa policy | `libs/masa-policy/src/` | per request: records of its child RPCs, path prefix; shared: estimators, budgets | `begin_child`, `record_child_complete`, `recover_path_groups`, `flush`; deadline guard, admission, estimates |
| extensions, wire sections | `libs/rpcstack/src/{extensions,wire}.rs`, `libs/rpcstack-wire/` | typed map, byte sections | propose, resolve, encode, decode |

How they interact. A handler's task is polled by one of the two schedulers,
which takes it from a run queue (current thread) or from the shared priority
queue (multi thread; its main part is a mutex heap or a MultiQueue). The server
code around the handler (`masa_unary`) makes the request's context visible in a
thread-local for exactly the time of each poll, and calls the module stack
before and after it. A child RPC that the handler, or a task it spawned, issues
finds its request there and calls the stack under the request's lock. A policy
is a set of modules in that stack: Rajomon's module reads and writes a price
table that all requests and a timer share without a lock over it; Masa's
estimation module writes down the intervals of the child RPCs of its request
and learns from them when the request is finalized.

What is hard. (1) `sched_mt` replaces work stealing by one shared queue but
keeps tokio's protocol of searching workers, which was designed for stealing.
(2) The current-thread executor adds callbacks to the run queue whose order
depends on when a task's exit is noticed. (3) Lock-free reads next to locked
data: the lane's flag, the shards' counters. (4) A raw pointer in a thread-local
and references counted by hand across task spawns, drops and panics. (5) Hooks
of several modules for several children of one request, any of which may reject
at any point. (6) A table of prices, and copies of its maxima, that requests and
a timer update entry by entry. (7) Groups and paths that are predicted when a
child is issued and settled when the request ends. The `hazards` of `PROJECT.json` list these line by line.

What makes each component correct:

- TailClipper queue: no task lost or doubled, the window holds the oldest
  tasks, never more than C, its loops end, and every dispatch is one that
  oldest-first limited sharing allows;
- multi-thread scheduler: counters and sleepers agree, no unpark lost, no task
  polled twice at once, work taken up, shutdown ends;
- shared queues: exact counters and flag, scans that miss nothing that was
  there throughout, infrastructure first, no deadlock between locks;
- current-thread executor: each woken task held once, exits reported once and
  in order, nothing left after shutdown, no starvation;
- context: visible exactly during the right polls, alive while visible, freed
  in the end;
- module stack: hooks nest, each end that comes told once, only sealed children
  sent, one stack call at a time, every request that runs to its end finalized;
- Rajomon: an admitted request can pay for its children, copies of maxima are
  exact after an undisturbed tick, prices go down when the load is gone;
- fanout estimation: the groups learned are the groups that happened, and what
  is looked up at issue is what is recorded in the end.

## Modules

| module | models | composes / used by |
|---|---|---|
| `LimitedSharing` | abstract: what a priority run queue promises | refined by `TailClipperQueue` |
| `TailClipperQueue` | the TailClipper run queue, loops step by step | |
| `SeqLemmas`, `TailClipperProofs` | lemmas on sequences; the theorems about the queue | |
| `SchedMt` | multi-thread scheduler: workers, idle, parkers, driver, task bits | uses the shared queue at its linearisation points |
| `SchedMtProofs` | the theorems about the scheduler | |
| `SharedPrioQueue` | the shared queue, one access per step | justifies what `SchedMt` assumes |
| `SharedPrioQueueProofs` | the theorems about the shared queue | |
| `MultiQueue` | sharded queue, locks and counters | |
| `MultiQueueProofs` | the theorems about the sharded queue | |
| `CurrentThread` | the executor of one thread, other threads, driver, shutdown | any run queue (a set: any order) |
| `CurrentThreadProofs` | the theorems about the executor | |
| `ParentContext` | thread-local, hooks, references | |
| `ParentContextProofs` | the theorems about the context | |
| `ChildRpc` | one request's module stack and its child RPCs | composed by `Fanout` |
| `Fanout` | the estimation module of the Masa policy: records, groups, path prefix | `ChildRpc` with this module at position `Est` of its stack |
| `Rajomon` | Rajomon in a server: price table, requests, price worker | |
| `PolicyProofs` | the theorems about the module stack, the estimation module (records, groups and paths) and the price table | extends `Fanout` and `Rajomon`; the general names of `Rajomon` (`RajomonSpec`, `TableTypes`, ...) are its own for that reason |
| `MC_*` | instances for TLC | |

Correspondence of state and actions, where it is not one to one:

- **TailClipperQueue.** `heap` is the `BinaryHeap` as a set (its pop returns any
  least element, so ties are a choice), `rr_queue` the window, `infra_rr_queue`
  the lane, `key` the meta each task was pushed with. `push` and `pop` are runs
  of steps under `pc`: `fill` takes one task per step, the eviction loop swaps
  once per step.
- **SchedMt.** `num_searching` and `num_unparked` are the halves of
  `idle::State`, `sleepers` the locked list, `token` the `NOTIFIED` state of a
  parker, `driver` who holds the driver, `task`/`notified` the state word of a
  task, `main`/`infra` the shared queue. A worker's `pc` follows `Context::run`;
  a `notify` is a call, with its return point in `ret`. `worker_to_notify` is
  one step because its unlocked check is repeated under the lock. `steal_work`
  returns `None` under `sched_mt`, so no action makes a worker a searcher but
  notification and self-unpark.
- **SharedPrioQueue.** Lock, lane, flag and heap are separate steps. `Lane` is
  the lane as the flag shows it, and `LaneAtomic` with `FlagExact` says it
  changes in one step: that is what `SchedMt` relies on. `stay` is a history
  variable: the items present since the call began.
- **MultiQueue.** `lock`, `heap`, `len` per sub-queue; try-locks that fail are
  transitions of the retry logic, random choices are nondeterministic.
- **CurrentThread.** `tasks` is the run queue (a set), `inject` the injection
  queue, `defer` the deferred wakers, `exited` the exits not reported yet,
  `told` what the run queue has been told of each task. `LoopEnd` covers the
  event interval, `Park`/`ParkYield` the two parks, `PanicSelf`/`PanicOther` the
  steps of `unhandled_panic` with the borrowed core.
- **ParentContext.** `tls` is `PARENT_CTX` per thread, `header` the hook in a
  task's header, `wrap` the hook around a spawned future, `refs` the strong
  count. `origin` and `leaked` are history variables. Requests may also be
  dropped between polls (client reset, shutdown), tasks aborted, polls may panic.
- **ChildRpc.** `cat` is the position of the stack's recursion, `open`, `sealed`
  and `told` which modules were told what about each child, `lock` the mutex of
  the request's state. A request may be given up: `DropRequest` drops
  `masa_unary` at one of its awaits (client reset, shutdown), `HandlerPanics`
  unwinds through it. Both end the request without `finalize`, as the code does.
- **Fanout.** Extends `ChildRpc`: its actions are those of the stack, and where
  the stack reaches position `Est` they are conjoined with the module's hook.
  `children` is the record per child, `tracker` what the child carries back
  (`ChildRPCTracker`), `path_prefix` and `folded` the groups already folded. A
  signature is the set of the child RPCs itself and a path the sequence of
  signatures: two paths the program's hashes tell apart are apart here.
  `RecoverPathGroups` is the sweep of `recover_path_groups` as a fold;
  `GroupsAreComponents` compares it with the definition of connected components.
- **Rajomon.** `downstream` is `downstream_prices`, `max_down` the copies of the
  maxima. One load or store of an atomic and one access to one DashMap entry
  are a step each; an iteration visits its entries one at a time in any order.
  `WrapSub` and `WrapMul` are the unchecked operations of a release build,
  `SatAdd` the saturating sum; `u64` is `0 .. Top`. `alone` is a history variable: the
  parents whose decay no learner has overlapped in the current tick.

Each module's header comment says where its steps are cut and why. Steps that
are coarser than the code, or leave a branch out:

- `SchedMt.Schedule` makes a task notified (`task/state.rs:209`) and pushes it
  (`worker.rs:1051`) in one step. In between nobody but the waker can queue the
  task, and a further wake changes nothing.
- `SchedMt.PreShutdown` cancels all tasks in one step; the code goes through
  them one by one (`worker.rs:865`) while other workers may still poll some.
- `CurrentThread.Shutdown` runs with the thread-local available. When the
  runtime is dropped while the thread's locals are destroyed
  (`current_thread/mod.rs:255`), `release` finds no context and exits are not
  reported, as its comment says (line 636); `DownClean` does not speak of it.
- `Fanout`: the estimation module accepts every child RPC. The `?` on its
  proposal after `begin_child` (`est/module.rs:213`) could reject one and leave
  its record open, if an owner had resolved the decision before; owners resolve
  in `seal_child_rpc`, which starts when all have accepted (`Nested`).
- `Rajomon.RequestEnds` drops the child RPCs in flight. One of a spawned task
  can outlive `finalize` and learn a price then; for the table this is a request
  that is still being served, since `finalize` writes nothing to it.

## Runs

Every property has a mutant of the model that breaks it, in `PROJECT.json`.

| run | checks | shows |
|---|---|---|
| `tailclipper` | `IInv`, `WindowOldest`, `FullAfterPush`, `NeverMovesBack`, `ImplementsLimitedSharing`, `CallsEnd` | through every push, refill and eviction the window is right, a task never moves back in it, every dispatch is one of the C oldest, and the unbounded eviction loop ends |
| `sched_mt` | `SchedInv`, `WokenHasToken`, `OneHolder` | idle counters, sleepers and flags agree in every interleaving; whoever takes a worker off the list wakes it; a task is in one place |
| `sched_mt_live` | `WorkTakenUp`, `WakeKept`, `ShutdownEnds` | a wake during a poll is not lost; close ends every worker without help of the driver; queued work is taken up as long as the driver delivers events |
| `sched_mt_lost` | violates `NoStrandedWork` | without driver events work may be stranded, see below |
| `multiqueue` | `QueueInv`, `ScansComplete`, `LocksReleased` | exact counters, one owner per item, complete scans, no deadlock; deadlock checking is on |
| `shared_prio_queue` | `QueueInv`, `InfraFirst`, `EmptyComplete`, `LaneAtomic` | the flag read without the lock never hides infrastructure work that was there, and `is_empty` is never wrongly true; deadlock checking is on |
| `current_thread` | `LoopInv`, `ExitsExact`, `DownClean`, `CallbackOrder`, `RemoteServed`, `MainPolled`, `DeferServed` | no task lost or doubled; exits told in time and in the documented order; shutdown leaves nothing; nobody starves |
| `parent_context` | `ContextInv`, `ParentVisible`, `ParentFound` | the context is visible exactly in the right polls and references are exact, however requests and tasks end |
| `parent_panic` | violates `ContextReset` | see below |
| `child_rpc` | `StackInv`, `ToldOnce`, `Nested`, `FinalizedOnce`, `Finishes`, `GroupsAreComponents`, `BaseIsLowerBound`, `PrefixAsRecorded` | in `Fanout`: child hooks nest and are told once whoever rejects, only sealed children leave, one stack call at a time, a request that was not given up is finalized by all modules; the groups recovered are the connected components of the intervals, the open siblings at issue are in the child's group, and the path at issue is the recorded one when fanouts are joined and no late child ended another's record |
| `rajomon` | `TableInv`, `AdmittedCovers`, `PricesDecay` | an admitted request can pay for the dearest child its admission knew of; a tick no learner overlaps leaves the copy of the maximum exact; the own price, the latency signal and all entries go to zero when traffic stops |
| `rajomon_stale` | violates `StalePriceDecays` | see below |

The three violations are disagreements between the code and what a comment or
document of the repository says of it:

- `sched_mt_lost`: `transition_to_parked` makes its last look at the queue only
  if the worker was the last *searcher* ("When the final worker transitions
  **out** of searching to parked, it must check all the queues one last time").
  Under `sched_mt` workers rarely search, since `steal_work` is a stub. The
  trace: every worker has found the queue empty and is about to give up its
  place; an outside thread pushes a task, sees all workers counted awake and
  notifies nobody; the workers, none of them a searcher, park without another
  look. The task waits for an unrelated
  event. `WorkTakenUp` shows that an event, any event, repairs it.
- `parent_panic`: a poll that panics skips the reset of the thread-local, and
  the thread goes on showing the context of a request that is gone.
  `ParentVisible` and `ParentFound` show how far this reaches: until the next
  handler or hooked task is polled there, and no handler is ever confused.
- `rajomon_stale`: a request hears a child's price, computes the maximum of its
  method's entries, and is overtaken by ticks that halve the entry to zero and
  store the maximum zero; then it stores its own, older one. No later tick
  visits the method, because `decay_downstream_prices` recomputes only parents
  with an entry above zero (`shared.rs:202`): the admission price of the method
  stays up until some request gets through and hears a price, which is the
  "stale-price deadlock" the comment at `shared.rs:187` says decay breaks.
  `PricesDecay` and `TickExact` show how far it reaches: everything but this copy
  decays, and a tick over a method with a positive entry repairs it.

## Bounds

Nothing in the models grows without bound except through the number of tasks,
items, requests and children, which are constants. Two of each actor are enough
to have every pair of operations overlap; where a third matters it is there:

- `tailclipper`: four tasks for a window of two, so the window is full while two
  tasks compete behind it; three metadata values, so there are ties. Tasks come
  back, so behaviours are infinite.
- `sched_mt`: two workers, one outside thread, an infrastructure task and one
  that waits for the driver. The liveness run has one task, which is enough for
  its properties: each speaks of one task and of idle workers.
- `multiqueue`: three sub-queues, so that a pop leaves one out; two threads and
  two items, of different rank.
- `shared_prio_queue`: three threads and three infrastructure tasks, so that the
  lane stays non-empty after a pop; two user tasks.
- `current_thread`: two tasks, one outside thread, both intervals two, so that a
  tick hits and misses them.
- `parent_context`: two threads, two requests, two spawned tasks: a task that
  outlives its request shares a thread with the other one, and spawns a task.
- `child_rpc`: three modules with the estimation module in the middle, so that a
  module before and one behind it may reject; two children of the handler, one
  of a spawned task. Three intervals are enough for one that spans two others
  and for a fanout after a finished group. Time has as many values as there are
  ends; an end and the next begin may fall on one value.
- `rajomon`: one request slot, reused without bound, next to the price worker:
  the hooks of a request are serialised, and one learner suffices to race with
  the worker. Two children of one method, so an iteration can be overtaken;
  tokens below, at and above the prices; `Top` 3, so that sums saturate and
  subtractions wrap.

Symmetry is used only in runs without liveness properties, on sets of
interchangeable model values. Runs say `CHECK_DEADLOCK FALSE` where the system
may stop: all tasks are done, the runtime is down, every request has ended.

## Fairness

- Threads: weak fairness of each thread's next step. The operating system
  schedules every runnable thread; a thread blocked on a lock, a condition
  variable or the driver has no enabled step.
- Polls return: a poll that could wake for ever is ended (weak fairness in
  `CurrentThread`, strong in `SchedMt`, where wakes of other threads interleave
  with it). This is the contract of cooperative tasks.
- Nobody has to wake a task, call `block_on`, answer a child RPC, spawn, abort
  or push: these have no fairness.
- In `Rajomon` the price worker's tick is fair (it runs on a timer) and a thread
  inside a hook goes on. Requests, polls and answers of children are not fair.
- Driver events have none either. `WorkTakenUp` alone has them as a premise
  (`Eventful`), because without it the property is false.

## Proofs

TLAPS proves every safety property the passing runs check, for every value of
the constants. A theorem assumes the `ASSUME` of its module and nothing
else: special values such as `NoTask` are not members of the sets they are used
with, parameters such as C, the intervals or the number of sub-queues are in the
range the code builds them with, and sets whose size is counted are finite. Each
inductive invariant was checked by TLC before it was proved. A proof that a step
keeps an invariant has one step per action and below it one per conjunct the
action can disturb. `SeqLemmas` holds what the queue operations do to the
length, the elements and the injectivity of a sequence.

| module | theorems | property of a run |
|---|---|---|
| `TailClipperProofs` | `InductiveInvariant`, `WindowHoldsOldest` | `IInv`, `WindowOldest` |
| | `PushFillsWindow`, `WindowMovesForward` | `FullAfterPush`, `NeverMovesBack` |
| | `SharesAmongOldest` | `ImplementsLimitedSharing` |
| | `TypeCorrect`, `TasksInOnePlace`, `WindowStaysBounded`, `PushSwapsOnce` | parts of `IInv` |
| `SchedMtProofs` | `IdleIsExact`, `WokenWorkerWakes`, `TaskHasOneHolder` (from `SchedInvariant`) | `SchedInv`, `WokenHasToken`, `OneHolder` |
| `SharedPrioQueueProofs` | `FlagIsExact`, `PopsInfraFirst`, `IsEmptyComplete`, `LaneIsAtomic` (from `SharedInvariant`) | `QueueInv`, `InfraFirst`, `EmptyComplete`, `LaneAtomic` |
| `MultiQueueProofs` | `CountersExact`, `ScansMissNothing` (from `MultiInvariant`) | `QueueInv`, `ScansComplete` |
| `CurrentThreadProofs` | `WokenTaskHeldOnce`, `ExitsReported`, `ShutdownIsClean`, `CallbacksInOrder` (from `LoopInvariant`) | `LoopInv`, `ExitsExact`, `DownClean`, `CallbackOrder` |
| `ParentContextProofs` | `ContextInvariant`, `ParentShownRight`, `ParentIsFound`, `ReferencesExact` | `ContextInv`, `ParentVisible`, `ParentFound`, part of `ContextInv` |
| `PolicyProofs` | `OneStackCall`, `EndToldOnce`, `HooksNest`, `RequestFinalizedOnce` (from `StackInvariant`) | `StackInv`, `ToldOnce`, `Nested`, `FinalizedOnce` |
| | `FanoutIsStack`, `RecordsInOrder`, `TrackersFit`, `PathsFold` | |
| | `GroupsRecovered`, `BaseInGroup`, `PrefixRecorded` | `GroupsAreComponents`, `BaseIsLowerBound`, `PrefixAsRecorded` |
| | `TicksAreExact`, `AdmissionCovers` (from `PriceInvariant`) | `TableInv`, `AdmittedCovers` |

Why each needs its strengthening:

- **TailClipper.** "Between calls no waiting task is older than one in the
  window" is not inductive: inside `push` the pushed task may be older than the
  window, and the eviction loop must repair exactly that. `IInv` keeps the order
  inside calls for every waiting task but the one being pushed
  (`OrderedButCur`), says that the eviction loop runs with a window that cannot
  be filled, and needs that a task is in one place (`OnePlace`), because an
  eviction moves two tasks between heap and window. That the loop swaps once
  follows: after a swap the pushed task is in the window, so nothing that waits
  is older. The refinement maps heap and window together to the set of
  runnable tasks of `LimitedSharing`; a dispatched task is among the C
  oldest because the window holds no more than C and nothing outside it is
  older.
- **SchedMt.** The count of searchers is exact only while the runtime is open: a
  worker that was counted as a searcher and then leaves at shutdown stays in it. `Counted`
  therefore says what is left of them once `closed` is set (`num_unparked` is
  still exact, `num_searching` an upper bound). `Place` counts a worker inside
  `notify_parked` as being where it was called from, so that a notification made
  on the way to sleep is part of the park. `Called` covers a sleeper from the
  moment it is taken off the list, when no token is there yet and only the
  notifier knows of it. `Held` ties the state word of a task to the queues and
  the workers. The layers depend on each other in this order only.
- **SharedPrioQueue.** The flag lags behind the lane between two stores under
  the lock. `LockHeld` and `Back` say who may be there and which task it is
  about; `Stays` and `Looked` say what a call has ruled out so far. `FlagDown` is
  the heart: a flag read as down without the lock means that no push that has
  returned left a task in the lane.
- **MultiQueue.** The same for N counters: `Counters` says that a counter is off
  by one exactly while a thread owes it an update, and `Guards` that this
  thread has the lock of that sub-queue, so that there is one. Hence a counter
  that reads zero hides at most the item of a push that has not returned
  (`ZeroMeansNoneSettled`), and a scan that passed a sub-queue left nothing that
  stayed (`Passed`).
- **CurrentThread.** Which callback is allowed depends on what the run loop is
  doing with the task, so `Said` ties `told` and `exited` to `pc`; that needs to
  know who owns a live task (`Lives`), because the exits shutdown reports are
  those of the owned tasks. An unhandled panic breaks parts of this for good, since it
  leaves tasks behind, and the invariant says which parts. `Holds` (a woken task
  is held once) needs only `Control` and `Lives` and ends with the closing of
  the runtime.
- **ParentContext.** What a thread shows is right only because of what its poll
  entered with, so the invariant ties the thread-local to the hook of the task
  in the poll (`ShownRight`); that needs one thread per task (`PolledOnce`),
  because the end of one poll would clear what another shows, and that a hook
  around a future is of the request its spawner worked for while that hook
  exists (`HooksOwn`). None of this reads the counts, so `StructStep` proves it
  alone. The counts follow: `HoldersSplit` turns the number of headers with a
  request's hook into zero or one, and `CountUpdate` says by how much changing
  one value of a function changes the number of arguments with a given value.
- **Module stack.** `LockHeld`: whoever is inside a stack call has the lock.
  `Shape`: where a child RPC is says which modules know of it, have sealed it
  and were told of its end, as a prefix or a suffix of the stack; `ToldDown`
  carries the module the telling began at, so that at the end it is known to be
  exactly those up to the rejecter. `Handled`: the same for the modules that
  have finalized the request, and where `ended_by` and `ready` can be set, so
  that a request given up at an await is one no module has ended. `FanoutIsStack` carries
  the theorems over to the composition the run checks: `Fanout` takes no step
  that is not one of the stack.
- **Fanout records.** `RecordsInOrder` says that the records are sorted by their
  starts, that an end is after its start and that everything folded has ended.
  It justifies a simplification of the model: `RecoverPathGroups` leaves out the
  `sort_by_key` of `fanout.rs:591`, which changes nothing on such records.
- **Fanout groups.** What the sweep computes takes induction over the records.
  The library's induction theorems cannot be used here, so the proofs take the
  least number of records for which the claim fails (`LeastNat`): `SweepSteps`
  gives the value of the fold after each record, `VisitRecord` is the inductive
  step. Its claim, `Grouping`, adds to the groups the function that says which
  one each record is in: groups are apart and in order (`InTime`), every record
  but the first of a group begins before an earlier one ends (`Linked`), a
  signature is its members (`Described`) and the end of a group the largest
  (`MaxEnds`, without which a record could not be placed). Connectedness follows
  from `Linked` by the least member on the other side. `BaseIsLowerBound` needs
  that a tracker is about the record it points at, also when flushes and late
  children come in between (`TrackersFit`).
- **Fanout path.** `PrefixAsRecorded` compares two computations of the path: the
  one `begin_child` folds in parts, and the one over all records at the end.
  They agree because a cut between records that are apart in time splits the
  groups (`CutSweep`, `PathInParts`). `PrefixInv` says what every fold and
  tracker is the path of, and where it was cut (`CutBefore`), or that one of the
  three things the property excludes has happened (`Excluded`): these stay until
  the next flush, because the end of a record that has one is not written again
  (`EndedOnce`, from the stack's telling of an end once). `GroupAfterCut` then
  finds the group of the child.
- **Rajomon.** `TickExact` speaks of the state between two ticks, so the
  invariant follows a tick (`Decays`): a parent no learner is about still has a
  positive entry to be halved, or is among the parents to be recomputed, or is
  being recomputed with the largest entry met or still ahead (`Scanned`), or its
  copy is exact. `Served` says that a learner writes entries of its own method
  only, and that the tokens of a request between its two loads cover both
  prices, from which `AdmissionCovers` is arithmetic on wrapping subtraction.

Only model-checked:

- liveness (`CallsEnd`, `WorkTakenUp`, `WakeKept`, `ShutdownEnds`,
  `LocksReleased`, `RemoteServed`, `MainPolled`, `DeferServed`, `Finishes`,
  `PricesDecay`): fairness and `ENABLED` are out of the prover's reach;
- `ContextReset`, `NoStrandedWork` and `StalePriceDecays` are refuted by their
  runs.

## Observations without a run

Met while modelling, visible in the source, and not among the runs:

- `should_notify_others` (`worker.rs:784`) counts the worker's lifo slot and
  local queue, which stay empty under `sched_mt`: a worker back from the driver
  with several runnable tasks wakes nobody ("If there are tasks available to
  steal, but this worker is not looking for tasks to steal, notify another
  worker", `worker.rs:779`). The model has no notification there either.
- `shutdown_core` (`worker.rs:1133`) drains the injection queue and not the
  shared priority queue, where the tasks of a `sched_mt` runtime wait.
- `spawn_with_meta` (`task/spawn.rs:194`) copies the hook of the spawning
  task's header, and a spawned task's own header has none: a task spawned by a
  spawned task runs without a parent (`docs/MASA_POLICY_IMPL.md:283` speaks of
  "any spawned task"). `ParentFound` speaks of hooked tasks for this reason.
- `docs/POLICY_MODULES.md:77` says "`finalize` pairs with `new`, which cannot
  reject, so every module finalizes". `masa_unary` calls `finalize` by falling
  through its last await (`grpc.rs:334`), with no drop guard: a request whose
  message cannot be decoded (`grpc.rs:297`), whose stream the client resets,
  which the runtime drops at shutdown or whose handler panics ran every module's
  `new` (`module.rs:424`) and no `finalize`, also after many polls. These are
  `DecodeFails`, `DropRequest` and `HandlerPanics` of `ChildRpc`; `FinalizedOnce`
  says that they are the only ones.
- Under `UnhandledPanic::ShutdownRuntime` the shutdown of the other tasks runs
  with the core borrowed (`current_thread/mod.rs:692`), and releasing the first
  of them borrows it again (line 642): that second panic ends the shutdown and
  the rest of the tasks stay alive until the runtime is dropped, while
  `builder.rs:827` says "All other spawned tasks will immediately terminate".
  The two panics are `PanicSelf` and `PanicOther` of `CurrentThread`.
- A child RPC whose future is dropped while it waits for its response
  (`tonic-build/src/client.rs:375`) is never reported by `after_child_rpc`,
  while `docs/POLICY_MODULES.md:75` says that a module that counts a child in
  `before_child_rpc` "always sees it end in `after_child_rpc`, sent or not".
  `DropChild` and `LosesHandler` of `ChildRpc`; its record in the estimation
  module stays open. `ToldOnce` says so: exactly once when the client's call
  has returned, not at all when it was dropped.
- Rajomon: `new` loads the own price for the decision and again for
  `tokens - own` (`module.rs:111`); a tick that raises it in between makes the
  subtraction wrap to a huge budget, or panic in a debug build. `AdmittedCovers`
  excludes exactly this order.
- Rajomon: two learners of one method, or a learner and the worker, can store
  their maxima in the other order, and the copy is then below an entry until the
  next tick or answer. `child_price` (`shared.rs:113`) takes whichever parent's
  entry for the child the map yields first, `accumulated_price` the maximum of
  one parent; the two need not agree. The flag that starts the worker is set
  before the runtime is looked for (`shared.rs:296`): a first request outside a
  runtime leaves the process without one.
- Fanout: the path prefix folds every leading record that has ended, also
  members of a group that is still open. If A and B overlap, A ends and C is
  issued while B is open, C is looked up under the path [{A}] and recorded under
  the root, with A and B; `state/request.rs:24` speaks of a "Prefix formed by
  completed fanout groups before the current open group". `PrefixAsRecorded` has
  joined fanouts as its premise for this reason.
- Fanout: a sibling that a later module rejects, that is dropped, or that
  returns early stays in the lower bound of others and is in no group
  (`state/request.rs:88` calls the bound "guaranteed to be a multiset-subset");
  `BaseIsLowerBound` speaks of those that complete. A record that never ends
  also keeps everything behind it from being folded.
- Fanout: `flush` takes the records, and a child of a spawned task that ends
  later still has its index: it finds no record, or that of a child issued after
  the flush. With four spawned children the latter is enough to make a path
  differ from the recorded one: a child of before the flush ends the record of
  one issued after it, which is still running; the next child, issued while a
  third is open, folds that record into its path; when the child the record is
  about ends, its end moves, and all three are recorded as one group.
  `PrefixAsRecorded` excludes this (`Misdirected`); the attempt to prove it
  without that premise is what showed the order of events.

## What is not modelled

Statistics (latency estimators, histograms, predictive admission), the deadline
budget and its guards, the token bucket of Rajomon's client, the typed map of
extensions, the codec of wire sections, timing facts given to the run queue,
task dumps, metrics, `block_in_place`, the join handle and the reference count
of tasks, streaming RPCs (they install no hooks), the several callers of one
`block_on` and the hand-off of the core between them, root RPC hooks,
`validate_stack`. Applications, benchmarks, experiment tooling and vendored code
outside Masa's patches are out of scope: nine tenths of the repository's lines
are tokio, tonic, hyper and applications as they come. The driver is modelled
from its use: it blocks, is unparked, and wakes tasks.

## Plan

Done: the modules above, in the order run queue, multi-thread scheduler, shared
queues, current-thread executor, context, child RPCs, Rajomon's server, fanout
estimation in the stack; the theorems about all of them.

Theorems that could follow: that `SchedMt` with the queue of `SharedPrioQueue`
in place of its two atomic variables implements `SchedMt`.

Models that would follow: the hand-off of the core between `block_on` callers
(composed with `CurrentThread` it is beyond a run as it stands); heap, FIFO and
custom run queues as `LimitedSharing` with `Sharing = 1`; the client bucket; the
codec of wire sections against a reference definition.
