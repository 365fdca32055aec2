--------------------------- MODULE CurrentThread ---------------------------
(***************************************************************************)
(* The current-thread scheduler (libs/tokio/tokio/src/runtime/scheduler/   *)
(* current_thread/mod.rs) with a pluggable RunQueue: one thread runs       *)
(* block_on, other threads wake, abort and spawn tasks through the         *)
(* injection queue and the driver's unpark.                                *)
(*                                                                         *)
(* The local run queue is the set of its tasks: the RunQueue contract      *)
(* (libs/rpcstack-sched/src/queue.rs) promises no order, so pop may return *)
(* any of them.  told is what the queue has been told about each task by   *)
(* push, on_poll_start, on_poll_end and on_task_exit.  An action is the    *)
(* longest run of a thread between two accesses to state shared with       *)
(* another thread, or between two callbacks.                               *)
(***************************************************************************)
EXTENDS Naturals, Sequences, FiniteSets, Functions

CONSTANTS Task,             \* the tasks that may be spawned
          Remote,           \* threads outside the runtime
          GlobalInterval,   \* Core::global_queue_interval
          EventInterval,    \* config.event_interval
          ShutdownOnPanic,  \* config.unhandled_panic is ShutdownRuntime
          Main,             \* the waker of the future given to block_on
          NoTask

ASSUME CurrentThreadAssumption ==
  /\ GlobalInterval \in Nat \ {0} /\ EventInterval \in Nat \ {0}
  /\ ShutdownOnPanic \in BOOLEAN
  /\ Main \notin Task /\ NoTask \notin Task

VARIABLES
  state, notified, cancelled,  \* per task: task::State
  owned, owned_closed,         \* OwnedTasks
  tasks, told,                 \* the run queue, and what it was told
  inject, inject_closed,       \* the injection queue
  woken, unparked,             \* Shared::woken; the driver was unparked
  pc, cur, tick, left,         \* the run loop of block_on
  defer,                       \* Context::defer
  exited, unhandled_panic,     \* Core
  rpc, held                    \* per remote thread: its call, its Notified

taskVars == <<state, notified, cancelled>>
ownedVars == <<owned, owned_closed>>
queueVars == <<tasks, told>>
injectVars == <<inject, inject_closed>>
wakeVars == <<woken, unparked>>
loopVars == <<pc, cur, tick, left>>
coreVars == <<defer, exited, unhandled_panic>>
remoteVars == <<rpc, held>>
vars == <<taskVars, ownedVars, queueVars, injectVars, wakeVars, loopVars,
          coreVars, remoteVars>>

PCs == {"off", "outer", "main", "loop", "run", "poll", "panic", "end", "flush",
        "park", "parked", "yield", "events", "defer",
        "closing", "exits", "close_inject", "drain_inject", "down"}

Tellings == {"fresh", "known", "polling", "pending", "ready", "gone"}

TypeOK ==
  /\ state \in [Task -> {"none", "idle", "running", "complete"}]
  /\ notified \in [Task -> BOOLEAN] /\ cancelled \in [Task -> BOOLEAN]
  /\ owned \subseteq Task /\ owned_closed \in BOOLEAN
  /\ tasks \subseteq Task /\ told \in [Task -> Tellings]
  /\ inject \in Seq(Task) /\ inject_closed \in BOOLEAN
  /\ woken \in BOOLEAN /\ unparked \in BOOLEAN
  /\ pc \in PCs /\ cur \in Task \cup {NoTask}
  /\ tick \in 0 .. GlobalInterval - 1 /\ left \in 0 .. EventInterval
  /\ defer \subseteq Task \cup {Main}
  /\ exited \in Seq(Task) /\ unhandled_panic \in BOOLEAN
  /\ rpc \in [Remote -> {"idle", "push", "unpark"}]
  /\ held \in [Remote -> Task \cup {NoTask}]

Init ==
  /\ state = [t \in Task |-> "none"]
  /\ notified = [t \in Task |-> FALSE] /\ cancelled = [t \in Task |-> FALSE]
  /\ owned = {} /\ owned_closed = FALSE
  /\ tasks = {} /\ told = [t \in Task |-> "fresh"]
  /\ inject = <<>> /\ inject_closed = FALSE
  /\ woken = FALSE /\ unparked = FALSE
  /\ pc = "off" /\ cur = NoTask /\ tick = 0 /\ left = 0
  /\ defer = {} /\ exited = <<>> /\ unhandled_panic = FALSE
  /\ rpc = [r \in Remote |-> "idle"] /\ held = [r \in Remote |-> NoTask]

-----------------------------------------------------------------------------
(* What a thread does to a task.                                           *)

Live(t) == state[t] \in {"idle", "running"}

\* Core::push_task.  The queue hears of a task when it is first pushed.
PushTask(t) ==
  /\ tasks' = tasks \cup {t}
  /\ told' = [told EXCEPT ![t] = IF @ \in {"fresh", "gone"} THEN "known" ELSE @]

\* Harness::complete and Handle::release, with the core in the context.
Complete(t) ==
  /\ state' = [state EXCEPT ![t] = "complete"]
  /\ owned' = owned \ {t}
  /\ exited' = Append(exited, t)

\* Mutant: the notified bit is not tested before a wake submits the task.
WakeHere_Again(t) ==
  /\ Live(t)
  /\ notified' = [notified EXCEPT ![t] = TRUE]
  /\ IF state[t] = "idle" THEN PushTask(t) ELSE UNCHANGED queueVars
  /\ UNCHANGED <<state, cancelled>>

\* A wake on the runtime's thread: transition_to_notified, and an idle task
\* is pushed.
WakeHere(t) ==
  /\ Live(t) /\ ~notified[t]
  /\ notified' = [notified EXCEPT ![t] = TRUE]
  /\ IF state[t] = "idle" THEN PushTask(t) ELSE UNCHANGED queueVars
  /\ UNCHANGED <<state, cancelled>>

\* Wake::wake_by_ref of the handle: the waker of the block_on future.
WakeMain == woken' = TRUE /\ unparked' = TRUE

-----------------------------------------------------------------------------
(* Code of futures and hooks on the runtime's thread.  The core is in the  *)
(* context.                                                                *)

\* A future is polled or dropped, or the before_park hook runs.
InUserCode == pc \in {"main", "poll", "park"} \/ (pc = "closing" /\ cur # NoTask)

\* Somebody, or the driver handling events, wakes a task.
LocalWake(t) ==
  /\ InUserCode \/ pc = "events"
  /\ WakeHere(t)
  /\ UNCHANGED <<ownedVars, injectVars, wakeVars, loopVars, coreVars, remoteVars>>

LocalWakeMain ==
  /\ InUserCode \/ pc = "events"
  /\ WakeMain
  /\ UNCHANGED <<taskVars, ownedVars, queueVars, injectVars, loopVars, coreVars,
                 remoteVars>>

\* The main future calls yield_now.
MainYield ==
  /\ pc = "main"
  /\ defer' = defer \cup {Main}
  /\ UNCHANGED <<taskVars, ownedVars, queueVars, injectVars, wakeVars, loopVars,
                 exited, unhandled_panic, remoteVars>>

\* Handle::spawn; a task bound after the runtime was closed ends at once.
LocalSpawn(t) ==
  /\ InUserCode
  /\ state[t] = "none"
  /\ IF owned_closed
     THEN Complete(t) /\ UNCHANGED <<notified, queueVars>>
     ELSE /\ state' = [state EXCEPT ![t] = "idle"]
          /\ notified' = [notified EXCEPT ![t] = TRUE]
          /\ owned' = owned \cup {t}
          /\ PushTask(t)
          /\ UNCHANGED exited
  /\ UNCHANGED <<cancelled, owned_closed, injectVars, wakeVars, loopVars, defer,
                 unhandled_panic, remoteVars>>

\* AbortHandle::abort: transition_to_notified_and_cancel.
LocalAbort(t) ==
  /\ InUserCode
  /\ Live(t) /\ ~cancelled[t]
  /\ cancelled' = [cancelled EXCEPT ![t] = TRUE]
  /\ notified' = [notified EXCEPT ![t] = TRUE]
  /\ IF state[t] = "idle" /\ ~notified[t] THEN PushTask(t) ELSE UNCHANGED queueVars
  /\ UNCHANGED <<state, ownedVars, injectVars, wakeVars, loopVars, coreVars,
                 remoteVars>>

-----------------------------------------------------------------------------
(* CoreGuard::block_on.                                                    *)

Goto(from, to) == pc = from /\ pc' = to

\* take_core, waker_ref: the future is polled when the loop is entered.
BlockOn ==
  /\ Goto("off", "outer")
  /\ woken' = TRUE
  /\ UNCHANGED <<taskVars, ownedVars, queueVars, injectVars, unparked, cur, tick,
                 left, coreVars, remoteVars>>

\* reset_woken, the head of the outer loop.
Outer ==
  /\ Goto("outer", IF woken THEN "main" ELSE "loop")
  /\ woken' = FALSE
  /\ left' = EventInterval
  /\ UNCHANGED <<taskVars, ownedVars, queueVars, injectVars, unparked, cur, tick,
                 coreVars, remoteVars>>

\* Mutant: the woken flag is reset after the poll and not before it.
MainPending_ResetsLate ==
  /\ Goto("main", "loop")
  /\ woken' = FALSE
  /\ UNCHANGED <<taskVars, ownedVars, queueVars, injectVars, unparked, cur, tick,
                 left, coreVars, remoteVars>>

MainPending ==
  /\ Goto("main", "loop")
  /\ UNCHANGED <<taskVars, ownedVars, queueVars, injectVars, wakeVars, cur, tick,
                 left, coreVars, remoteVars>>

\* The main future is ready: the core goes back to its slot, the context and
\* its deferred wakers are dropped.
MainReady ==
  /\ Goto("main", "off")
  /\ defer' = {}
  /\ UNCHANGED <<taskVars, ownedVars, queueVars, injectVars, wakeVars, cur, tick,
                 left, exited, unhandled_panic, remoteVars>>

\* block_on returns None, and panics, after an unhandled panic of a task.
Unhandled ==
  /\ left > 0 /\ unhandled_panic
  /\ Goto("loop", "off")
  /\ defer' = {}
  /\ UNCHANGED <<taskVars, ownedVars, queueVars, injectVars, wakeVars, cur, tick,
                 left, exited, unhandled_panic, remoteVars>>

\* Mutant: the injection queue is only looked at when the local one is empty.
RemoteFirst_Never == FALSE

\* next_task looks at the injection queue first on every tick that is a
\* multiple of the interval.
RemoteFirst == (tick + 1) % GlobalInterval = 0

\* The body of the loop over event_interval.
CanPick == pc = "loop" /\ left > 0 /\ ~unhandled_panic

\* The task t, local or injected, is about to be polled.
StartPoll(t) ==
  /\ CanPick
  /\ tick' = (tick + 1) % GlobalInterval
  /\ pc' = "run" /\ cur' = t
  /\ told' = [told EXCEPT ![t] = "polling"]
  /\ UNCHANGED <<taskVars, ownedVars, inject_closed, wakeVars, left, coreVars,
                 remoteVars>>

\* next_task finds a local task.
NextLocal(t) ==
  /\ t \in tasks
  /\ ~RemoteFirst \/ inject = <<>>
  /\ tasks' = tasks \ {t}
  /\ StartPoll(t)
  /\ UNCHANGED inject

\* next_task finds an injected task.
NextRemote ==
  /\ inject # <<>>
  /\ RemoteFirst \/ tasks = {}
  /\ inject' = Tail(inject)
  /\ StartPoll(Head(inject))
  /\ UNCHANGED tasks

\* next_task finds nothing; on_idle; the thread yields to the driver when
\* tasks were deferred and parks else.
NextNone ==
  /\ CanPick
  /\ tasks = {} /\ inject = <<>>
  /\ tick' = (tick + 1) % GlobalInterval
  /\ pc' = IF defer # {} THEN "yield" ELSE "park"
  /\ UNCHANGED <<taskVars, ownedVars, queueVars, injectVars, wakeVars, cur, left,
                 coreVars, remoteVars>>

\* Mutant: after event_interval polls the loop goes on without the driver.
LoopEnd_NoYield ==
  /\ left = 0
  /\ Goto("loop", "outer")
  /\ UNCHANGED <<taskVars, ownedVars, queueVars, injectVars, wakeVars, cur, tick,
                 left, coreVars, remoteVars>>

\* After event_interval polls the thread yields to the driver.
LoopEnd ==
  /\ left = 0
  /\ Goto("loop", "yield")
  /\ UNCHANGED <<taskVars, ownedVars, queueVars, injectVars, wakeVars, cur, tick,
                 left, coreVars, remoteVars>>

-----------------------------------------------------------------------------
(* The poll of a task: Harness::poll.                                      *)

\* transition_to_running: a cancelled task ends, a complete one is skipped.
Run ==
  /\ pc = "run"
  /\ IF state[cur] = "complete"
     THEN pc' = "end" /\ UNCHANGED <<state, notified, owned, exited>>
     ELSE /\ notified' = [notified EXCEPT ![cur] = FALSE]
          /\ IF cancelled[cur]
             THEN Complete(cur) /\ pc' = "end"
             ELSE /\ state' = [state EXCEPT ![cur] = "running"]
                  /\ pc' = "poll"
                  /\ UNCHANGED <<owned, exited>>
  /\ UNCHANGED <<cancelled, owned_closed, queueVars, injectVars, wakeVars, cur,
                 tick, left, defer, unhandled_panic, remoteVars>>

\* The future is pending; one that asked to yield has its waker deferred.
\* transition_to_idle: a task woken meanwhile is pushed again, one cancelled
\* meanwhile ends.
PollPending(yields) ==
  /\ Goto("poll", "end")
  /\ defer' = IF yields THEN defer \cup {cur} ELSE defer
  /\ IF cancelled[cur]
     THEN Complete(cur) /\ UNCHANGED queueVars
     ELSE /\ state' = [state EXCEPT ![cur] = "idle"]
          /\ IF notified[cur] THEN PushTask(cur) ELSE UNCHANGED queueVars
          /\ UNCHANGED <<owned, exited>>
  /\ UNCHANGED <<notified, cancelled, owned_closed, injectVars, wakeVars, cur,
                 tick, left, unhandled_panic, remoteVars>>

\* The future is ready, or panicked and the panic is ignored.
PollReady ==
  /\ Goto("poll", "end")
  /\ Complete(cur)
  /\ UNCHANGED <<notified, cancelled, owned_closed, queueVars, injectVars,
                 wakeVars, cur, tick, left, defer, unhandled_panic, remoteVars>>

\* Handle::unhandled_panic under ShutdownRuntime: the core stays borrowed.
PollPanic ==
  /\ ShutdownOnPanic
  /\ Goto("poll", "panic")
  /\ unhandled_panic' = TRUE
  /\ owned_closed' = TRUE
  /\ UNCHANGED <<taskVars, owned, queueVars, injectVars, wakeVars, cur, tick,
                 left, defer, exited, remoteVars>>

\* close_and_shutdown_all meets the task that panicked, which is running.
PanicSelf ==
  /\ pc = "panic" /\ cur \in owned
  /\ owned' = owned \ {cur}
  /\ cancelled' = [cancelled EXCEPT ![cur] = TRUE]
  /\ UNCHANGED <<state, notified, owned_closed, queueVars, injectVars, wakeVars,
                 loopVars, coreVars, remoteVars>>

\* It meets another task: release borrows the core a second time, and that
\* panic unwinds through block_on, which puts the core back.
PanicOther(t) ==
  /\ t \in owned \ {cur}
  /\ Goto("panic", "off")
  /\ cur' = NoTask
  /\ owned' = owned \ {t}
  /\ state' = [state EXCEPT ![t] = "complete"]
  /\ cancelled' = [cancelled EXCEPT ![t] = TRUE]
  /\ defer' = {}
  /\ UNCHANGED <<notified, owned_closed, queueVars, injectVars, wakeVars, tick,
                 left, exited, unhandled_panic, remoteVars>>

\* All are shut down, the panicked task completes.
PanicDone ==
  /\ owned = {}
  /\ Goto("panic", "end")
  /\ Complete(cur)
  /\ UNCHANGED <<notified, cancelled, owned_closed, queueVars, injectVars,
                 wakeVars, cur, tick, left, defer, unhandled_panic, remoteVars>>

\* Mutant: the outcome is taken from the task's own result, not from exited.
EndPoll_Pending ==
  /\ Goto("end", "flush")
  /\ told' = [told EXCEPT ![cur] = "pending"]
  /\ left' = left - 1
  /\ UNCHANGED <<taskVars, ownedVars, tasks, injectVars, wakeVars, cur, tick,
                 coreVars, remoteVars>>

\* end_poll: on_poll_end with its outcome.
EndPoll ==
  /\ Goto("end", "flush")
  /\ told' = [told EXCEPT ![cur] = IF cur \in Range(exited) THEN "ready" ELSE "pending"]
  /\ left' = left - 1
  /\ UNCHANGED <<taskVars, ownedVars, tasks, injectVars, wakeVars, cur, tick,
                 coreVars, remoteVars>>

\* flush_exits: on_task_exit for each task that finished.
FlushExits ==
  /\ told' = [t \in Task |-> IF t \in Range(exited) THEN "gone" ELSE told[t]]
  /\ exited' = <<>>

\* Mutant: flush_exits is not called after a poll.
Flush_Skip ==
  /\ Goto("flush", "loop")
  /\ cur' = NoTask
  /\ UNCHANGED <<taskVars, ownedVars, tasks, told, exited, injectVars, wakeVars,
                 tick, left, defer, unhandled_panic, remoteVars>>

\* end_poll flushes the exits, the loop goes on.
Flush ==
  /\ Goto("flush", "loop")
  /\ cur' = NoTask
  /\ FlushExits
  /\ UNCHANGED <<taskVars, ownedVars, tasks, injectVars, wakeVars, tick, left,
                 defer, unhandled_panic, remoteVars>>

-----------------------------------------------------------------------------
(* Context::park and park_yield.                                           *)

\* The thread does not park if the hook queued a task.
Park ==
  /\ Goto("park", IF tasks = {} THEN "parked" ELSE "outer")
  /\ UNCHANGED <<taskVars, ownedVars, queueVars, injectVars, wakeVars, cur, tick,
                 left, coreVars, remoteVars>>

\* The driver returns because it was unparked.
Unparked ==
  /\ unparked
  /\ Goto("parked", "events")
  /\ unparked' = FALSE
  /\ UNCHANGED <<taskVars, ownedVars, queueVars, injectVars, woken, cur, tick,
                 left, coreVars, remoteVars>>

\* The driver returns for an event or a timer.
DriverEvent ==
  /\ ~unparked
  /\ Goto("parked", "events")
  /\ UNCHANGED <<taskVars, ownedVars, queueVars, injectVars, wakeVars, cur, tick,
                 left, coreVars, remoteVars>>

\* park_timeout with a zero timeout.
ParkYield ==
  /\ Goto("yield", "events")
  /\ unparked' = FALSE
  /\ UNCHANGED <<taskVars, ownedVars, queueVars, injectVars, woken, cur, tick,
                 left, coreVars, remoteVars>>

EventsDone ==
  /\ Goto("events", "defer")
  /\ UNCHANGED <<taskVars, ownedVars, queueVars, injectVars, wakeVars, cur, tick,
                 left, coreVars, remoteVars>>

\* Defer::wake.
DeferWake(x) ==
  /\ pc = "defer" /\ x \in defer
  /\ defer' = defer \ {x}
  /\ \/ x = Main /\ WakeMain /\ UNCHANGED <<taskVars, queueVars>>
     \/ x \in Task /\ WakeHere(x) /\ UNCHANGED wakeVars
     \/ /\ x \in Task /\ (notified[x] \/ ~Live(x))
        /\ UNCHANGED <<taskVars, queueVars, wakeVars>>
  /\ UNCHANGED <<ownedVars, injectVars, loopVars, exited, unhandled_panic,
                 remoteVars>>

DeferDone ==
  /\ defer = {}
  /\ Goto("defer", "outer")
  /\ UNCHANGED <<taskVars, ownedVars, queueVars, injectVars, wakeVars, cur, tick,
                 left, coreVars, remoteVars>>

-----------------------------------------------------------------------------
(* Shutdown of the runtime: CurrentThread::shutdown and shutdown2.         *)

\* The thread-local of the thread that shuts down is available; while it is
\* being destroyed, the exits below could not be reported.
Shutdown ==
  /\ Goto("off", "closing")
  /\ owned_closed' = TRUE
  /\ UNCHANGED <<taskVars, owned, queueVars, injectVars, wakeVars, cur, tick, left,
                 coreVars, remoteVars>>

\* close_and_shutdown_all takes the next task: transition_to_shutdown, and
\* its future is dropped; cur says whose.  A task that a panic left running
\* is only marked.
CloseTask(t) ==
  /\ pc = "closing" /\ cur = NoTask /\ t \in owned
  /\ owned' = owned \ {t}
  /\ cancelled' = [cancelled EXCEPT ![t] = TRUE]
  /\ state' = [state EXCEPT ![t] = "running"]
  /\ cur' = IF state[t] = "idle" THEN t ELSE NoTask
  /\ UNCHANGED <<notified, owned_closed, queueVars, injectVars, wakeVars, pc, tick,
                 left, coreVars, remoteVars>>

\* The task whose future was dropped completes.
ClosedTask ==
  /\ pc = "closing" /\ cur # NoTask
  /\ cur' = NoTask
  /\ Complete(cur)
  /\ UNCHANGED <<notified, cancelled, owned_closed, queueVars, injectVars, wakeVars,
                 pc, tick, left, defer, unhandled_panic, remoteVars>>

\* No task is left.
CloseDone ==
  /\ cur = NoTask /\ owned = {}
  /\ Goto("closing", "exits")
  /\ UNCHANGED <<taskVars, ownedVars, queueVars, injectVars, wakeVars, cur, tick,
                 left, coreVars, remoteVars>>

\* flush_exits, then the local queue is drained.
DrainLocal ==
  /\ Goto("exits", "close_inject")
  /\ FlushExits
  /\ tasks' = {}
  /\ UNCHANGED <<taskVars, ownedVars, injectVars, wakeVars, cur, tick, left, defer,
                 unhandled_panic, remoteVars>>

\* Mutant: the injection queue is drained and never closed.
CloseInject_Open ==
  /\ Goto("close_inject", "drain_inject")
  /\ UNCHANGED <<taskVars, ownedVars, queueVars, injectVars, wakeVars, cur, tick,
                 left, coreVars, remoteVars>>

CloseInject ==
  /\ Goto("close_inject", "drain_inject")
  /\ inject_closed' = TRUE
  /\ UNCHANGED <<taskVars, ownedVars, queueVars, inject, wakeVars, cur, tick, left,
                 coreVars, remoteVars>>

DrainInject ==
  /\ pc = "drain_inject"
  /\ IF inject = <<>>
     THEN pc' = "down" /\ UNCHANGED inject
     ELSE inject' = Tail(inject) /\ UNCHANGED pc
  /\ UNCHANGED <<taskVars, ownedVars, queueVars, inject_closed, wakeVars, cur, tick,
                 left, coreVars, remoteVars>>

-----------------------------------------------------------------------------
(* Threads outside the runtime: Handle::schedule without a context.        *)

\* Thread r has made task t runnable and holds its Notified.
Submit(r, t) ==
  /\ rpc' = [rpc EXCEPT ![r] = "push"]
  /\ held' = [held EXCEPT ![r] = t]

RemoteWake(r, t) ==
  /\ rpc[r] = "idle"
  /\ Live(t) /\ ~notified[t]
  /\ notified' = [notified EXCEPT ![t] = TRUE]
  /\ IF state[t] = "idle" THEN Submit(r, t) ELSE UNCHANGED remoteVars
  /\ UNCHANGED <<state, cancelled, ownedVars, queueVars, injectVars, wakeVars,
                 loopVars, coreVars>>

RemoteAbort(r, t) ==
  /\ rpc[r] = "idle"
  /\ Live(t) /\ ~cancelled[t]
  /\ cancelled' = [cancelled EXCEPT ![t] = TRUE]
  /\ notified' = [notified EXCEPT ![t] = TRUE]
  /\ IF state[t] = "idle" /\ ~notified[t] THEN Submit(r, t) ELSE UNCHANGED remoteVars
  /\ UNCHANGED <<state, ownedVars, queueVars, injectVars, wakeVars, loopVars, coreVars>>

\* OwnedTasks::bind tests the closed flag; the exit of a task that ends here
\* is not reported, the run queue never heard of it.
RemoteSpawn(r, t) ==
  /\ rpc[r] = "idle"
  /\ state[t] = "none"
  /\ IF owned_closed
     THEN /\ state' = [state EXCEPT ![t] = "complete"]
          /\ UNCHANGED <<notified, owned, remoteVars>>
     ELSE /\ state' = [state EXCEPT ![t] = "idle"]
          /\ notified' = [notified EXCEPT ![t] = TRUE]
          /\ owned' = owned \cup {t}
          /\ Submit(r, t)
  /\ UNCHANGED <<cancelled, owned_closed, queueVars, injectVars, wakeVars, loopVars,
                 coreVars>>

\* Inject::push drops the task when the queue is closed.
RemotePush(r) ==
  /\ rpc[r] = "push"
  /\ rpc' = [rpc EXCEPT ![r] = "unpark"]
  /\ held' = [held EXCEPT ![r] = NoTask]
  /\ inject' = IF inject_closed THEN inject ELSE Append(inject, held[r])
  /\ UNCHANGED <<taskVars, ownedVars, queueVars, inject_closed, wakeVars, loopVars,
                 coreVars>>

RemoteWakeMain(r) ==
  /\ rpc[r] = "idle"
  /\ woken' = TRUE
  /\ rpc' = [rpc EXCEPT ![r] = "unpark"]
  /\ UNCHANGED <<taskVars, ownedVars, queueVars, injectVars, unparked, loopVars,
                 coreVars, held>>

RemoteUnpark(r) ==
  /\ rpc[r] = "unpark"
  /\ unparked' = TRUE
  /\ rpc' = [rpc EXCEPT ![r] = "idle"]
  /\ UNCHANGED <<taskVars, ownedVars, queueVars, injectVars, woken, loopVars, coreVars,
                 held>>

-----------------------------------------------------------------------------
\* What block_on and shutdown2 do by themselves once they were called.
LoopStep ==
  \/ Outer \/ Unhandled \/ (\E t \in Task : NextLocal(t)) \/ NextRemote \/ NextNone
  \/ LoopEnd \/ Run \/ PanicSelf \/ (\E t \in Task : PanicOther(t)) \/ PanicDone
  \/ EndPoll \/ Flush \/ Park \/ Unparked \/ ParkYield \/ EventsDone
  \/ (\E x \in Task \cup {Main} : DeferWake(x)) \/ DeferDone
  \/ (\E t \in Task : CloseTask(t)) \/ ClosedTask \/ CloseDone \/ DrainLocal
  \/ CloseInject \/ DrainInject

\* The ends of polls.
PollEnd ==
  \/ MainPending \/ MainReady
  \/ (\E y \in BOOLEAN : PollPending(y)) \/ PollReady \/ PollPanic

UserCode ==
  \/ \E t \in Task : LocalWake(t) \/ LocalSpawn(t) \/ LocalAbort(t)
  \/ LocalWakeMain \/ MainYield

RemoteStep(r) == RemotePush(r) \/ RemoteUnpark(r)

RemoteCall(r) ==
  \/ \E t \in Task : RemoteWake(r, t) \/ RemoteAbort(r, t) \/ RemoteSpawn(r, t)
  \/ RemoteWakeMain(r)

Next ==
  \/ LoopStep \/ PollEnd \/ UserCode
  \/ BlockOn \/ Shutdown \/ DriverEvent
  \/ \E r \in Remote : RemoteStep(r) \/ RemoteCall(r)

Spec == Init /\ [][Next]_vars

\* The operating system runs every thread that can run and every poll
\* returns.  Nobody has to call block_on, wake a task or cause an event.
FairSpec ==
  /\ Spec
  /\ WF_vars(LoopStep) /\ WF_vars(PollEnd)
  /\ \A r \in Remote : WF_vars(RemoteStep(r))

-----------------------------------------------------------------------------
(***************************************************************************)
(* Properties                                                              *)
(***************************************************************************)

Count(t) ==
  (IF t \in tasks THEN 1 ELSE 0)
    + Cardinality({i \in DOMAIN inject : inject[i] = t})
    + Cardinality({r \in Remote : held[r] = t})
    + (IF cur = t /\ pc = "run" THEN 1 ELSE 0)

\* A task that was woken is held exactly once, by the local queue, the
\* injection queue, a waking thread or the run loop: wakes, aborts and spawns
\* from several threads never lose it and never queue it twice, until the
\* runtime is shut down (task::State with Handle::schedule).
HeldOnce ==
  ~owned_closed =>
    \A t \in Task :
      Count(t) = IF state[t] = "idle" /\ notified[t] THEN 1 ELSE 0

\* The run loop's state: types, and who holds which task.
LoopInv == TypeOK /\ HeldOnce

\* Exits waiting to be reported are of complete tasks, each there once and
\* none reported before.  (Handle::release, Core::flush_exits)
ExitsFresh ==
  \A i \in DOMAIN exited :
    /\ state[exited[i]] = "complete" /\ told[exited[i]] # "gone"
    /\ \A j \in DOMAIN exited : exited[i] = exited[j] => i = j

\* Between two polls every task that is complete and that the run queue has
\* heard of was reported gone, and only those: the state a queue keeps per
\* task does not outlive the task and is not dropped early.
ExitsTold ==
  pc = "loop" /\ ~unhandled_panic =>
    \A t \in Task :
      /\ state[t] = "complete" => told[t] \in {"fresh", "gone"}
      /\ told[t] = "gone" => state[t] = "complete"

\* Exits are reported to the run queue for the right tasks, once and in time
\* (Handle::release, Core::end_poll, Core::flush_exits).
ExitsExact == ExitsFresh /\ ExitsTold

\* The callbacks follow the order RunQueue documents: on_poll_start and
\* on_poll_end alternate, on_task_exit follows the on_poll_end that said
\* Ready, and without a poll it is only called in shutdown; nothing is said
\* of a task that is gone.
CallbackOrder ==
  [][\A t \in Task : told'[t] # told[t] =>
       <<told[t], told'[t]>> \in
         {<<"fresh", "known">>, <<"fresh", "polling">>, <<"known", "polling">>,
          <<"pending", "polling">>, <<"polling", "pending">>, <<"polling", "ready">>,
          <<"ready", "gone">>}
         \cup (IF pc = "exits" THEN Tellings \X {"gone"} ELSE {})]_vars

\* After shutdown no queue holds a task, now or later, no task is left alive
\* and the run queue was told of every exit (unless block_on was left by an
\* unhandled panic; the thread's locals are there, see Shutdown).
DownClean ==
  pc = "down" =>
    /\ tasks = {} /\ inject = <<>> /\ owned = {} /\ exited = <<>>
    /\ ~unhandled_panic => \A t \in Task : ~Live(t) /\ told[t] \in {"fresh", "gone"}

\* block_on runs.
Running == pc \notin {"off", "closing", "exits", "close_inject", "drain_inject", "down"}

\* An injected task is taken up however busy the local queue is, and although
\* the thread may be about to park when it is pushed.
RemoteServed ==
  \A t \in Task :
    (Running /\ t \in Range(inject)) ~> (t \notin Range(inject) \/ ~Running)

\* A wake of the main future starts a poll of it: the wake is not lost while
\* an earlier poll runs, the thread parks or local tasks keep it busy.
MainPolled == (Running /\ woken) ~> ((pc = "main" /\ ~woken) \/ ~Running)

\* A task that yielded is woken although local tasks keep the thread busy.
DeferServed ==
  \A t \in Task : (Running /\ t \in defer) ~> (t \notin defer \/ ~Running)
=============================================================================
