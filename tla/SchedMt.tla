------------------------------ MODULE SchedMt ------------------------------
(***************************************************************************)
(* The multi-thread scheduler under the feature sched_mt (libs/tokio/      *)
(* tokio/src/runtime/scheduler/multi_thread): worker threads that take     *)
(* every task from one shared priority queue, park when they find none and *)
(* are unparked through the packed idle counters and the sleeper set.      *)
(*                                                                         *)
(* One action is the longest run of a thread's code between two accesses   *)
(* to state another thread can change.  SharedPrioQueue's operations       *)
(* appear as their linearisation points (module SharedPrioQueue models     *)
(* them step by step): pop looks at the infrastructure lane and then at    *)
(* the main queue, is_empty at the main queue and then at the lane.        *)
(* worker_to_notify is one step: its unlocked check is repeated under the  *)
(* lock, and the thread changes nothing in between.                        *)
(***************************************************************************)
EXTENDS Naturals, Sequences, FiniteSets, Functions

CONSTANTS Worker,         \* worker threads
          Remote,         \* threads outside the runtime that wake tasks
          Task,           \* spawned tasks
          InfraTask,      \* the tasks with the infrastructure Meta
          IoTask,         \* the tasks that wait for the I/O driver
          Prio,           \* the Meta of each task; smaller runs first
          EventInterval,  \* config.event_interval
          MayClose,       \* whether the runtime may be shut down
          NoTask, NoWorker

ASSUME SchedAssumption ==
  /\ IsFiniteSet(Worker) /\ Worker # {}
  /\ Worker \cap Remote = {}
  /\ InfraTask \subseteq Task /\ IoTask \subseteq Task
  /\ Prio \in [Task -> Nat]
  /\ EventInterval \in Nat \ {0}
  /\ MayClose \in BOOLEAN
  /\ NoTask \notin Task /\ NoWorker \notin Worker

VARIABLES
  task,           \* the state of each task
  notified,       \* woken while it runs: polled again after this poll
  main, infra,    \* SharedPrioQueue: the heap and the infrastructure lane
  num_searching, num_unparked,  \* the two halves of Idle::state
  sleepers,       \* Synced::sleepers
  pc, ret,        \* where each thread is, and where it returns after a notify
  target,         \* the worker a notifying thread is about to unpark
  is_searching, is_shutdown, tick, cur, defer,  \* per worker: Core, Context
  token,          \* per worker: its Parker is NOTIFIED
  driver,         \* the worker that holds the I/O driver
  closed,         \* the injection queue was closed: shutdown was requested
  owned_closed    \* close_and_shutdown_all has run

taskVars == <<task, notified, main, infra>>
idleVars == <<num_searching, num_unparked, sleepers>>
coreVars == <<is_searching, is_shutdown, tick, cur, defer>>
parkVars == <<token, driver>>
stopVars == <<closed, owned_closed>>
vars == <<task, notified, main, infra, num_searching, num_unparked, sleepers,
          pc, ret, target, is_searching, is_shutdown, tick, cur, defer,
          token, driver, closed, owned_closed>>

Thread == Worker \cup Remote

PCs == {"idle", "top", "maint", "pop_infra", "pop_main", "found", "poll",
        "none", "park0", "events0", "wake_defer", "check_main", "check_infra",
        "to_parked", "final_main", "final_infra", "parking", "on_driver",
        "on_events", "on_condvar", "unparked", "from_main", "from_infra",
        "self_unpark", "is_parked", "shutdown", "done",
        "notify", "unpark", "notify_all"}

TypeOK ==
  /\ task \in [Task -> {"idle", "queued", "running", "done"}]
  /\ notified \in [Task -> BOOLEAN]
  /\ main \subseteq Task \ InfraTask
  /\ infra \in Seq(InfraTask)
  /\ num_searching \in Nat /\ num_unparked \in Nat
  /\ sleepers \subseteq Worker
  /\ pc \in [Thread -> PCs] /\ ret \in [Thread -> PCs]
  /\ target \in [Thread -> Worker \cup {NoWorker}]
  /\ is_searching \in [Worker -> BOOLEAN]
  /\ is_shutdown \in [Worker -> BOOLEAN]
  /\ tick \in [Worker -> 0 .. EventInterval - 1]
  /\ cur \in [Worker -> Task \cup {NoTask}]
  /\ defer \in [Worker -> SUBSET Task]
  /\ token \in [Worker -> BOOLEAN]
  /\ driver \in Worker \cup {NoWorker}
  /\ closed \in BOOLEAN /\ owned_closed \in BOOLEAN

Init ==
  /\ task = [t \in Task |-> "idle"]
  /\ notified = [t \in Task |-> FALSE]
  /\ main = {} /\ infra = <<>>
  /\ num_searching = 0 /\ num_unparked = Cardinality(Worker)
  /\ sleepers = {}
  /\ pc = [p \in Thread |-> IF p \in Worker THEN "top" ELSE "idle"]
  /\ ret = [p \in Thread |-> "idle"]
  /\ target = [p \in Thread |-> NoWorker]
  /\ is_searching = [w \in Worker |-> FALSE]
  /\ is_shutdown = [w \in Worker |-> FALSE]
  /\ tick = [w \in Worker |-> 0]
  /\ cur = [w \in Worker |-> NoTask]
  /\ defer = [w \in Worker |-> {}]
  /\ token = [w \in Worker |-> FALSE]
  /\ driver = NoWorker
  /\ closed = FALSE /\ owned_closed = FALSE

-----------------------------------------------------------------------------
\* Steps of thread p from one place to another.
Goto(p, from, to) == pc[p] = from /\ pc' = [pc EXCEPT ![p] = to]

\* Thread p calls notify_parked_local or notify_parked_remote, then goes on
\* at back.
CallNotify(p, back) ==
  /\ pc' = [pc EXCEPT ![p] = "notify"]
  /\ ret' = [ret EXCEPT ![p] = back]

\* The call made by p ends.
Return(p) ==
  /\ pc' = [pc EXCEPT ![p] = ret[p]]
  /\ ret' = [ret EXCEPT ![p] = "idle"]

\* SharedPrioQueue::push.
Enqueue(t) ==
  IF t \in InfraTask
  THEN infra' = Append(infra, t) /\ UNCHANGED main
  ELSE main' = main \cup {t} /\ UNCHANGED infra

\* Mutant: a wake queues the task whatever its state.
Schedule_Again(t) ==
  /\ task[t] # "done"
  /\ task' = [task EXCEPT ![t] = "queued"]
  /\ Enqueue(t)
  /\ UNCHANGED notified

\* Waking an idle task makes it runnable and queues it.  Between the two
\* nobody else can queue it.
Schedule(t) ==
  /\ task[t] = "idle"
  /\ task' = [task EXCEPT ![t] = "queued"]
  /\ Enqueue(t)
  /\ UNCHANGED notified

\* Waking a running task has it polled once more.
MarkNotified(t) ==
  /\ task[t] = "running"
  /\ notified' = [notified EXCEPT ![t] = TRUE]
  /\ UNCHANGED <<task, main, infra>>

-----------------------------------------------------------------------------
(* Notification: Idle::worker_to_notify and Parker's unpark.               *)

ShouldWakeup == num_searching = 0 /\ num_unparked < Cardinality(Worker)

\* worker_to_notify finds a searcher or no sleeper.
NotifyNone(p) ==
  /\ pc[p] = "notify"
  /\ ~(ShouldWakeup /\ sleepers # {})
  /\ Return(p)
  /\ UNCHANGED <<taskVars, idleVars, target, coreVars, parkVars, stopVars>>

\* worker_to_notify takes a sleeper out and counts it as searching.
NotifyPick(p, w) ==
  /\ ShouldWakeup
  /\ w \in sleepers
  /\ Goto(p, "notify", "unpark")
  /\ sleepers' = sleepers \ {w}
  /\ num_searching' = num_searching + 1
  /\ num_unparked' = num_unparked + 1
  /\ target' = [target EXCEPT ![p] = w]
  /\ UNCHANGED <<taskVars, ret, coreVars, parkVars, stopVars>>

\* Unparker::unpark.
Unpark(p) ==
  /\ pc[p] = "unpark"
  /\ Return(p)
  /\ token' = [token EXCEPT ![target[p]] = TRUE]
  /\ target' = [target EXCEPT ![p] = NoWorker]
  /\ UNCHANGED <<taskVars, idleVars, coreVars, driver, stopVars>>
-----------------------------------------------------------------------------
(* The run loop of a worker: Context::run.                                 *)

\* The loop head: leave after shutdown, else count the tick; every
\* event_interval ticks the worker polls the driver.
Tick(w) ==
  /\ ~is_shutdown[w]
  /\ tick' = [tick EXCEPT ![w] = (@ + 1) % EventInterval]
  /\ Goto(w, "top", IF tick'[w] = 0 THEN "maint" ELSE "pop_infra")
  /\ UNCHANGED <<taskVars, idleVars, ret, target, is_searching, is_shutdown,
                 cur, defer, parkVars, stopVars>>

\* Context::maintenance calls park_timeout with a zero timeout.
Maintenance(w) ==
  /\ Goto(w, "maint", "park0")
  /\ ret' = [ret EXCEPT ![w] = "pop_infra"]
  /\ UNCHANGED <<taskVars, idleVars, target, coreVars, parkVars, stopVars>>

\* SharedPrioQueue::pop, first half: the infrastructure lane.
PopInfra(w) ==
  /\ IF infra # <<>>
     THEN /\ Goto(w, "pop_infra", "found")
          /\ cur' = [cur EXCEPT ![w] = Head(infra)]
          /\ infra' = Tail(infra)
     ELSE Goto(w, "pop_infra", "pop_main") /\ UNCHANGED <<infra, cur>>
  /\ UNCHANGED <<task, notified, main, idleVars, ret, target, is_searching,
                 is_shutdown, tick, defer, parkVars, stopVars>>

\* SharedPrioQueue::pop, second half: a task with the smallest Meta.
PopMain(w) ==
  /\ \/ \E t \in main :
          /\ \A u \in main : Prio[t] <= Prio[u]
          /\ Goto(w, "pop_main", "found")
          /\ cur' = [cur EXCEPT ![w] = t]
          /\ main' = main \ {t}
     \/ main = {} /\ Goto(w, "pop_main", "none") /\ UNCHANGED <<main, cur>>
  /\ UNCHANGED <<task, notified, infra, idleVars, ret, target, is_searching,
                 is_shutdown, tick, defer, parkVars, stopVars>>

\* run_task up to the poll: the worker stops searching and, as the last
\* searcher, notifies another one.  A task that was cancelled in the queue
\* is dropped.
RunTask(w) ==
  /\ pc[w] = "found"
  /\ LET t    == cur[w]
         next == IF task[t] = "done" THEN "top" ELSE "poll"
     IN  /\ task' = IF task[t] = "done" THEN task ELSE [task EXCEPT ![t] = "running"]
         /\ cur' = IF task[t] = "done" THEN [cur EXCEPT ![w] = NoTask] ELSE cur
         /\ is_searching' = [is_searching EXCEPT ![w] = FALSE]
         /\ num_searching' = IF is_searching[w] THEN num_searching - 1 ELSE num_searching
         /\ IF is_searching[w] /\ num_searching = 1
            THEN CallNotify(w, next)
            ELSE pc' = [pc EXCEPT ![w] = next] /\ UNCHANGED ret
  /\ UNCHANGED <<notified, main, infra, num_unparked, sleepers, target,
                 is_shutdown, tick, defer, parkVars, stopVars>>

\* The polled task wakes or spawns task u: schedule_task finds the worker's
\* core, with its parker, in the context.
PollWake(w, u) ==
  /\ pc[w] = "poll"
  /\ \/ Schedule(u) /\ CallNotify(w, "poll")
     \/ MarkNotified(u) /\ UNCHANGED <<pc, ret>>
  /\ UNCHANGED <<idleVars, target, coreVars, parkVars, stopVars>>

\* Mutant: a wake during the poll is overwritten by the transition to idle.
PollPending_Forgets(w, yields) ==
  /\ Goto(w, "poll", "top")
  /\ defer' = IF yields THEN [defer EXCEPT ![w] = @ \cup {cur[w]}] ELSE defer
  /\ cur' = [cur EXCEPT ![w] = NoTask]
  /\ notified' = [notified EXCEPT ![cur[w]] = FALSE]
  /\ task' = [task EXCEPT ![cur[w]] = "idle"]
  /\ UNCHANGED <<main, infra, idleVars, ret, target, is_searching, is_shutdown,
                 tick, parkVars, stopVars>>

\* The poll returns Pending; a task that asked to yield is on the defer list.
\* One woken meanwhile is queued again (yield_now), one cancelled meanwhile
\* is finished.
PollPending(w, yields) ==
  /\ pc[w] = "poll"
  /\ LET t == cur[w]
     IN  /\ defer' = IF yields THEN [defer EXCEPT ![w] = @ \cup {t}] ELSE defer
         /\ cur' = [cur EXCEPT ![w] = NoTask]
         /\ notified' = [notified EXCEPT ![t] = FALSE]
         /\ IF owned_closed
            THEN /\ task' = [task EXCEPT ![t] = "done"]
                 /\ pc' = [pc EXCEPT ![w] = "top"]
                 /\ UNCHANGED <<main, infra, ret>>
            ELSE IF notified[t]
            THEN /\ task' = [task EXCEPT ![t] = "queued"]
                 /\ Enqueue(t)
                 /\ CallNotify(w, "top")
            ELSE /\ task' = [task EXCEPT ![t] = "idle"]
                 /\ pc' = [pc EXCEPT ![w] = "top"]
                 /\ UNCHANGED <<main, infra, ret>>
  /\ UNCHANGED <<idleVars, target, is_searching, is_shutdown, tick, parkVars,
                 stopVars>>

\* The poll returns Ready: the task is complete.
PollReady(w) ==
  /\ Goto(w, "poll", "top")
  /\ task' = [task EXCEPT ![cur[w]] = "done"]
  /\ notified' = [notified EXCEPT ![cur[w]] = FALSE]
  /\ cur' = [cur EXCEPT ![w] = NoTask]
  /\ UNCHANGED <<main, infra, idleVars, ret, target, is_searching, is_shutdown,
                 tick, defer, parkVars, stopVars>>

\* No task: with deferred tasks the worker only polls the driver, else it
\* parks.  steal_work finds nothing and does not start a search.
NoTaskFound(w) ==
  /\ pc[w] = "none"
  /\ IF defer[w] # {}
     THEN /\ pc' = [pc EXCEPT ![w] = "park0"]
          /\ ret' = [ret EXCEPT ![w] = "top"]
     ELSE pc' = [pc EXCEPT ![w] = "check_main"] /\ UNCHANGED ret
  /\ UNCHANGED <<taskVars, idleVars, target, coreVars, parkVars, stopVars>>

-----------------------------------------------------------------------------
(* park_timeout with a zero timeout.  The parker is out of the core, so    *)
(* what is woken here is queued without a notification.                    *)

\* The driver is polled when no other worker holds it.
Park0(w) ==
  /\ Goto(w, "park0", IF driver = NoWorker THEN "events0" ELSE "wake_defer")
  /\ driver' = IF driver = NoWorker THEN w ELSE driver
  /\ UNCHANGED <<taskVars, idleVars, ret, target, coreVars, token, stopVars>>

\* The driver wakes a task whose event is ready.
DriverWake(w, t) ==
  /\ pc[w] \in {"events0", "on_events"}
  /\ t \in IoTask
  /\ Schedule(t) \/ MarkNotified(t)
  /\ UNCHANGED <<idleVars, pc, ret, target, coreVars, parkVars, stopVars>>

Park0Polled(w) ==
  /\ Goto(w, "events0", "wake_defer")
  /\ driver' = NoWorker
  /\ UNCHANGED <<taskVars, idleVars, ret, target, coreVars, token, stopVars>>

\* Defer::wake wakes the deferred tasks one by one.
DeferWake(w, t) ==
  /\ pc[w] = "wake_defer"
  /\ t \in defer[w]
  /\ defer' = [defer EXCEPT ![w] = @ \ {t}]
  /\ \/ Schedule(t)
     \/ MarkNotified(t)
     \/ task[t] \in {"queued", "done"} /\ UNCHANGED taskVars
  /\ UNCHANGED <<idleVars, pc, ret, target, is_searching, is_shutdown, tick,
                 cur, parkVars, stopVars>>

\* park_timeout returns; should_notify_others sees the local queues only,
\* which stay empty.  Maintenance also reads the shutdown flag.
Park0Return(w) ==
  /\ defer[w] = {}
  /\ pc[w] = "wake_defer"
  /\ Return(w)
  /\ is_shutdown' = [is_shutdown EXCEPT ![w] = @ \/ (ret[w] = "pop_infra" /\ closed)]
  /\ UNCHANGED <<taskVars, idleVars, target, is_searching, tick, cur,
                 defer, parkVars, stopVars>>
-----------------------------------------------------------------------------
(* Context::park, Core::transition_to_parked and transition_from_parked.   *)

\* SharedPrioQueue::is_empty: some tests of the queue, in its order.  Thread
\* w goes to busy as soon as one half is not empty, else to empty.
TestMain(w, from, busy, empty) ==
  /\ Goto(w, from, IF main # {} THEN busy ELSE empty)
  /\ UNCHANGED <<taskVars, idleVars, ret, target, coreVars, parkVars, stopVars>>

TestInfra(w, from, busy, empty) ==
  /\ Goto(w, from, IF infra # <<>> THEN busy ELSE empty)
  /\ UNCHANGED <<taskVars, idleVars, ret, target, coreVars, parkVars, stopVars>>

\* has_pending_work before parking: with work the worker does not park.
CheckMain(w)  == TestMain(w, "check_main", "top", "check_infra")
CheckInfra(w) == TestInfra(w, "check_infra", "top", "to_parked")

\* Idle::transition_worker_to_parked.  Only a worker that was searching, and
\* the last one, looks at the queue once more.
ToParked(w) ==
  /\ Goto(w, "to_parked", IF is_searching[w] /\ num_searching = 1
                          THEN "final_main" ELSE "parking")
  /\ num_unparked' = num_unparked - 1
  /\ num_searching' = IF is_searching[w] THEN num_searching - 1 ELSE num_searching
  /\ sleepers' = sleepers \cup {w}
  /\ is_searching' = [is_searching EXCEPT ![w] = FALSE]
  /\ UNCHANGED <<taskVars, ret, target, is_shutdown, tick, cur, defer,
                 parkVars, stopVars>>

\* notify_if_work_pending.
FinalCheck(w, from, nonempty, otherwise) ==
  /\ pc[w] = from
  /\ IF nonempty
     THEN CallNotify(w, "parking")
     ELSE pc' = [pc EXCEPT ![w] = otherwise] /\ UNCHANGED ret
  /\ UNCHANGED <<taskVars, idleVars, target, coreVars, parkVars, stopVars>>

FinalMain(w)  == FinalCheck(w, "final_main", main # {}, "final_infra")
FinalInfra(w) == FinalCheck(w, "final_infra", infra # <<>>, "parking")

\* Mutant: the parker's state is reset before it blocks, not compared.
Park_Blindly(w) ==
  /\ Goto(w, "parking", IF is_shutdown[w] THEN "top"
                        ELSE IF driver = NoWorker THEN "on_driver"
                        ELSE "on_condvar")
  /\ token' = IF is_shutdown[w] THEN token ELSE [token EXCEPT ![w] = FALSE]
  /\ driver' = IF pc'[w] = "on_driver" THEN w ELSE driver
  /\ UNCHANGED <<taskVars, idleVars, ret, target, coreVars, stopVars>>

\* Parker::park: a notification is consumed at once, else the worker blocks
\* on the driver or, when another worker has it, on its condition variable.
\* The loop around it ends on shutdown.
Park(w) ==
  /\ Goto(w, "parking", IF is_shutdown[w] THEN "top"
                        ELSE IF token[w] THEN "unparked"
                        ELSE IF driver = NoWorker THEN "on_driver"
                        ELSE "on_condvar")
  /\ token' = IF is_shutdown[w] THEN token ELSE [token EXCEPT ![w] = FALSE]
  /\ driver' = IF pc'[w] = "on_driver" THEN w ELSE driver
  /\ UNCHANGED <<taskVars, idleVars, ret, target, coreVars, stopVars>>

\* park_condvar returns: only a notification ends the wait.
CondvarWake(w) ==
  /\ token[w]
  /\ Goto(w, "on_condvar", "unparked")
  /\ token' = [token EXCEPT ![w] = FALSE]
  /\ UNCHANGED <<taskVars, idleVars, ret, target, coreVars, driver, stopVars>>

\* The driver's poll returns: for an unpark, or for an event or a timer.
DriverUnparked(w) ==
  /\ token[w]
  /\ Goto(w, "on_driver", "on_events")
  /\ UNCHANGED <<taskVars, idleVars, ret, target, coreVars, parkVars, stopVars>>

DriverEvent(w) ==
  /\ ~token[w]
  /\ Goto(w, "on_driver", "on_events")
  /\ UNCHANGED <<taskVars, idleVars, ret, target, coreVars, parkVars, stopVars>>

\* park_driver returns, a notification that arrived meanwhile is consumed.
DriverDone(w) ==
  /\ Goto(w, "on_events", "unparked")
  /\ token' = [token EXCEPT ![w] = FALSE]
  /\ driver' = NoWorker
  /\ UNCHANGED <<taskVars, idleVars, ret, target, coreVars, stopVars>>

\* Mutant: Core::maintenance not called in the park loop.
Unparked_NoMaintenance(w) ==
  /\ Goto(w, "unparked", "from_main")
  /\ UNCHANGED <<taskVars, idleVars, ret, target, coreVars, parkVars, stopVars>>

\* Core::maintenance after the wait.
Unparked(w) ==
  /\ Goto(w, "unparked", "from_main")
  /\ is_shutdown' = [is_shutdown EXCEPT ![w] = @ \/ closed]
  /\ UNCHANGED <<taskVars, idleVars, ret, target, is_searching, tick, cur,
                 defer, parkVars, stopVars>>

\* Mutant: queued work does not end the park loop.
FromMain_Ignored(w) == TestMain(w, "from_main", "is_parked", "from_infra")

\* has_pending_work after the wait.
FromMain(w)  == TestMain(w, "from_main", "self_unpark", "from_infra")
FromInfra(w) == TestInfra(w, "from_infra", "self_unpark", "is_parked")

\* Mutant: a worker a notifier took out is not marked as searching.
SelfUnpark_NotSearching(w) ==
  /\ Goto(w, "self_unpark", "top")
  /\ sleepers' = sleepers \ {w}
  /\ num_unparked' = IF w \in sleepers THEN num_unparked + 1 ELSE num_unparked
  /\ UNCHANGED <<taskVars, num_searching, ret, target, coreVars, parkVars,
                 stopVars>>

\* Idle::unpark_worker_by_id: with work the worker leaves the sleepers by
\* itself; one that a notifier took out before is already counted searching.
SelfUnpark(w) ==
  /\ Goto(w, "self_unpark", "top")
  /\ sleepers' = sleepers \ {w}
  /\ num_unparked' = IF w \in sleepers THEN num_unparked + 1 ELSE num_unparked
  /\ is_searching' = [is_searching EXCEPT ![w] = w \notin sleepers]
  /\ UNCHANGED <<taskVars, num_searching, ret, target, is_shutdown, tick, cur,
                 defer, parkVars, stopVars>>

\* Idle::is_parked: a worker no notifier took out parks again.
IsParked(w) ==
  /\ Goto(w, "is_parked", IF w \in sleepers THEN "parking" ELSE "top")
  /\ is_searching' = [is_searching EXCEPT ![w] = @ \/ w \notin sleepers]
  /\ UNCHANGED <<taskVars, idleVars, ret, target, is_shutdown, tick, cur,
                 defer, parkVars, stopVars>>

-----------------------------------------------------------------------------
(* Shutdown.                                                               *)

\* pre_shutdown: every task that is not being polled is cancelled where it
\* is, all in one step; one that is being polled ends with its poll.
PreShutdown(w) ==
  /\ is_shutdown[w]
  /\ Goto(w, "top", "shutdown")
  /\ owned_closed' = TRUE
  /\ task' = [t \in Task |-> IF task[t] = "running" THEN "running" ELSE "done"]
  /\ UNCHANGED <<notified, main, infra, idleVars, ret, target, coreVars,
                 parkVars, closed>>

\* shutdown_core: the last worker drains the injection queue, which sched_mt
\* leaves empty.
ShutdownCore(w) ==
  /\ Goto(w, "shutdown", "done")
  /\ UNCHANGED <<taskVars, idleVars, ret, target, coreVars, parkVars, stopVars>>

-----------------------------------------------------------------------------
(* Threads outside the runtime.                                            *)

\* schedule_task without a core: push, then notify_parked_remote.
RemoteWake(r, t) ==
  /\ pc[r] = "idle"
  /\ \/ Schedule(t) /\ CallNotify(r, "idle")
     \/ MarkNotified(t) /\ UNCHANGED <<pc, ret>>
  /\ UNCHANGED <<idleVars, target, coreVars, parkVars, stopVars>>

\* Handle::close and notify_all.
Close(r) ==
  /\ MayClose /\ ~closed
  /\ Goto(r, "idle", "notify_all")
  /\ closed' = TRUE
  /\ UNCHANGED <<taskVars, idleVars, ret, target, coreVars, parkVars,
                 owned_closed>>

NotifyAll(r) ==
  /\ Goto(r, "notify_all", "idle")
  /\ token' = [w \in Worker |-> TRUE]
  /\ UNCHANGED <<taskVars, idleVars, ret, target, coreVars, driver, stopVars>>
-----------------------------------------------------------------------------
Notification(p) ==
  \/ NotifyNone(p)
  \/ \E w \in Worker : NotifyPick(p, w)
  \/ Unpark(p)

\* What a worker does next by itself, once it is scheduled by the system.
WorkerStep(w) ==
  \/ Tick(w) \/ Maintenance(w) \/ PopInfra(w) \/ PopMain(w) \/ RunTask(w)
  \/ NoTaskFound(w) \/ Park0(w) \/ Park0Polled(w)
  \/ \E t \in Task : DeferWake(w, t)
  \/ Park0Return(w)
  \/ CheckMain(w) \/ CheckInfra(w) \/ ToParked(w) \/ FinalMain(w) \/ FinalInfra(w)
  \/ Park(w) \/ CondvarWake(w) \/ DriverUnparked(w) \/ DriverDone(w)
  \/ Unparked(w) \/ FromMain(w) \/ FromInfra(w) \/ SelfUnpark(w) \/ IsParked(w)
  \/ PreShutdown(w) \/ ShutdownCore(w)
  \/ Notification(w)

PollEnds(w) == PollReady(w) \/ \E y \in BOOLEAN : PollPending(w, y)

RemoteStep(r) == NotifyAll(r) \/ Notification(r)

Next ==
  \/ \E w \in Worker :
       \/ WorkerStep(w)
       \/ PollEnds(w)
       \/ \E t \in Task : PollWake(w, t) \/ DriverWake(w, t)
       \/ DriverEvent(w)
  \/ \E r \in Remote :
       \/ RemoteStep(r)
       \/ \E t \in Task : RemoteWake(r, t)
       \/ Close(r)

Spec == Init /\ [][Next]_vars

\* The operating system runs every thread that can run, and a poll returns
\* after finitely many wakes (cooperative tasks).  No task has to be woken and
\* no event has to occur.
Fairness ==
  /\ \A w \in Worker : WF_vars(WorkerStep(w)) /\ SF_vars(PollEnds(w))
  /\ \A r \in Remote : WF_vars(RemoteStep(r))

FairSpec == Spec /\ Fairness

\* A premise of WorkTakenUp: a worker blocked on the driver sees an event
\* from time to time.
Eventful == \A w \in Worker : WF_vars(DriverEvent(w))

-----------------------------------------------------------------------------
(***************************************************************************)
(* Properties                                                              *)
(***************************************************************************)

\* From Idle::transition_worker_to_parked to the end of the park loop.
InPark == {"final_main", "final_infra", "parking", "on_driver", "on_events",
           "on_condvar", "unparked", "from_main", "from_infra", "self_unpark",
           "is_parked"}

Parked(w) == pc[w] \in InPark \/ (pc[w] \in {"notify", "unpark"} /\ ret[w] = "parking")

\* The workers Idle counts as searching: by their own flag, or taken out of
\* the sleepers by a notifier and not yet back in the run loop.
Searchers == {w \in Worker : is_searching[w] \/ (Parked(w) /\ w \notin sleepers)}

\* The packed counters of Idle agree with the sleepers and with the workers'
\* own flags, although each of them is changed by a different thread at a
\* different time: no decrement can underflow into the other half and
\* notify_should_wakeup never misjudges.  (A worker that shuts down leaves
\* its count behind.)
CountersExact ==
  ~closed => /\ num_unparked + Cardinality(sleepers) = Cardinality(Worker)
             /\ num_searching = Cardinality(Searchers)

\* A worker is among the sleepers only while it is parked.
SleepersParked == ~closed => \A w \in sleepers : Parked(w)

\* The idle accounting as a whole: types, packed counters and sleepers
\* (Idle, and the parts of Core and Parker that feed it).
SchedInv == TypeOK /\ CountersExact /\ SleepersParked

\* Whoever takes a blocked worker out of the sleepers also wakes it: no
\* unpark is lost between worker_to_notify, unpark and the parker.
WokenHasToken ==
  \A w \in Worker :
    pc[w] \in {"parking", "on_driver", "on_condvar"} /\ w \notin sleepers
      => token[w] \/ \E p \in Thread : target[p] = w

Places(t) ==
  Cardinality({w \in Worker : cur[w] = t})
    + (IF t \in main THEN 1 ELSE 0)
    + Cardinality({i \in DOMAIN infra : infra[i] = t})

\* A task waits in one place of one queue or is held by one worker, and never
\* both: wakes from workers, the driver and other threads at once never have
\* it polled by two workers or queued twice.
OneHolder ==
  \A t \in Task :
    /\ Places(t) <= 1
    /\ task[t] = "idle" => Places(t) = 0
    /\ task[t] \in {"queued", "running"} => Places(t) = 1

Work == main # {} \/ infra # <<>>

\* While the driver delivers events queued work is taken up by some worker,
\* unless the scheduler is closed (Context::run, Core::next_task and
\* Context::park).  Without events it may not be: see NoStrandedWork.
WorkTakenUp ==
  Eventful => (Work ~> closed \/ \E w \in Worker : pc[w] = "found")

\* A task woken during its poll is queued again or finished: its wake is not
\* lost (transition_to_idle, poll_inner), unless the scheduler is closed.
WakeKept ==
  \A t \in Task :
    notified[t] ~> closed \/ (~notified[t] /\ task[t] \in {"queued", "done"})

\* After close every worker leaves its run loop, parked ones included, with
\* no event from the driver (Handle::close, notify_all, park).
ShutdownEnds == closed ~> \A w \in Worker : pc[w] = "done"

\* Work is never left in the queue while every worker sleeps and nobody is
\* about to wake one (Core::transition_to_parked: the final check is there
\* "in case work materialized between the last work scan and transitioning
\* out of searching").
NoStrandedWork ==
  Work /\ ~closed =>
    \/ \E w \in Worker : pc[w] \notin {"on_driver", "on_condvar"} \/ token[w]
    \/ \E r \in Remote : pc[r] \in {"notify", "unpark", "notify_all"}
=============================================================================
