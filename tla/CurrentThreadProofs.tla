------------------------ MODULE CurrentThreadProofs ------------------------
(***************************************************************************)
(* For every number of tasks and outside threads and any two intervals: a  *)
(* woken task is held exactly once, the run queue hears of polls and exits *)
(* in the order RunQueue documents, and shutdown leaves nothing behind.    *)
(*                                                                         *)
(* The invariant has five layers.  Control says which task the run loop    *)
(* has and when the runtime counts as closed; Lives who owns a live task;  *)
(* Said what the run queue was told, with the exits it will be told of;    *)
(* Drained what shutdown has emptied; Holds who holds a woken task.  Parts *)
(* of them end with an unhandled panic, which leaves tasks behind that     *)
(* nobody owns, and Holds with the closing of the runtime.                 *)
(***************************************************************************)
EXTENDS CurrentThread, SeqLemmas

Polling == {"run", "poll", "panic", "end", "flush"}
Closing == {"closing", "exits", "close_inject", "drain_inject", "down"}

\* The run loop has a task from the pick to the end of the poll, shutdown
\* while it drops a future; polls start only while the runtime is open.
Control ==
  /\ TypeOK
  /\ pc \in Polling => cur # NoTask
  /\ pc \in Polling \ {"flush"} => left > 0
  /\ pc \notin Polling \cup {"closing"} => cur = NoTask
  /\ \A r \in Remote : rpc[r] = "push" <=> held[r] # NoTask
  /\ pc \in {"run", "poll"} => ~owned_closed
  /\ pc = "panic" => unhandled_panic
  /\ unhandled_panic => owned_closed
  /\ pc \in Closing => owned_closed
  /\ owned_closed => unhandled_panic \/ pc \in Closing
  /\ inject_closed => owned_closed
  /\ pc \in {"drain_inject", "down"} => inject_closed

\* Owned tasks are alive and, until a panic, live tasks are owned or being
\* dropped, and a running one is the one the loop has.
Lives ==
  /\ \A t \in owned : Live(t)
  /\ pc \in {"poll", "panic"} \/ (pc = "closing" /\ cur # NoTask) => state[cur] = "running"
  /\ ~unhandled_panic =>
       \A t \in Task : /\ Live(t) => t \in owned \/ (pc = "closing" /\ cur = t)
                       /\ state[t] = "running" => cur = t /\ pc \in {"poll", "closing"}
  /\ pc \in Closing \ {"closing"} => owned = {}

\* What the run queue was told of each task, and the exits it still has to
\* hear of.
Said ==
  /\ \A t \in Task : /\ state[t] = "none" => told[t] = "fresh"
                     /\ told[t] = "gone" => state[t] = "complete"
  /\ IsInjective(exited)
  /\ \A t \in Range(exited) : state[t] = "complete" /\ told[t] # "gone"
  /\ pc \in {"run", "poll", "panic", "end"} => told[cur] = "polling"
  /\ pc = "flush" => (told[cur] = "ready" <=> cur \in Range(exited))
  /\ pc \in {"end", "flush"} => Range(exited) \subseteq {cur}
  /\ pc \in {"run", "poll", "panic"} \/ (~owned_closed /\ pc \notin {"end", "flush"}) => exited = <<>>
  /\ ~unhandled_panic =>
       \A t \in Task :
         /\ state[t] = "complete" => told[t] \in {"fresh", "gone"} \/ t \in Range(exited)
         /\ told[t] = "polling" => cur = t /\ pc \in {"run", "poll", "end"}
         /\ told[t] = "ready" => cur = t /\ pc = "flush"

\* What shutdown has emptied stays empty.
Drained ==
  /\ pc \in {"close_inject", "drain_inject", "down"} => tasks = {} /\ exited = <<>>
  /\ pc = "down" => inject = <<>>

Injected(t) == t \in Range(inject)
InHand(t) == \E r \in Remote : held[r] = t
Picked(t) == cur = t /\ pc = "run"

\* Task t is held by somebody exactly when it is idle and was woken, and then
\* by one alone.
HeldRight(t) ==
  /\ state[t] = "idle" /\ notified[t] <=> t \in tasks \/ Injected(t) \/ InHand(t) \/ Picked(t)
  /\ t \in tasks => ~Injected(t) /\ ~InHand(t) /\ ~Picked(t)
  /\ Injected(t) => ~InHand(t) /\ ~Picked(t)
  /\ InHand(t) => ~Picked(t)

Holds ==
  ~owned_closed =>
    /\ IsInjective(inject)
    /\ \A r, q \in Remote : held[r] = held[q] /\ held[r] # NoTask => r = q
    /\ \A t \in Task : HeldRight(t)

LoopIInv == Control /\ Lives /\ Said /\ Drained /\ Holds

-----------------------------------------------------------------------------
(***************************************************************************)
(* Types                                                                   *)
(***************************************************************************)

LEMMA PushTaskTypes ==
  ASSUME TypeOK, NEW t \in Task, PushTask(t)
  PROVE  tasks' \subseteq Task /\ told' \in [Task -> Tellings]
  <1>1. tasks' \subseteq Task
    BY DEF TypeOK, PushTask
  <1>2. "known" \in Tellings /\ told[t] \in Tellings
    BY DEF TypeOK, Tellings
  <1>3. told' \in [Task -> Tellings]
    BY <1>2 DEF TypeOK, PushTask
  <1> QED BY <1>1, <1>3

LEMMA CompleteTypes ==
  ASSUME TypeOK, NEW t \in Task, Complete(t)
  PROVE  /\ state' \in [Task -> {"none", "idle", "running", "complete"}]
         /\ owned' \subseteq Task /\ exited' \in Seq(Task)
  <1>1. Append(exited, t) \in Seq(Task)
    BY AppendFacts DEF TypeOK
  <1> QED BY <1>1 DEF TypeOK, Complete

\* A task is woken or aborted on the runtime's thread.
LEMMA WakeTypes ==
  ASSUME TypeOK, NEW t \in Task, NEW c \in BOOLEAN,
         notified' = [notified EXCEPT ![t] = TRUE],
         cancelled' = IF c THEN [cancelled EXCEPT ![t] = TRUE] ELSE cancelled,
         PushTask(t) \/ UNCHANGED queueVars
  PROVE  /\ notified' \in [Task -> BOOLEAN] /\ cancelled' \in [Task -> BOOLEAN]
         /\ tasks' \subseteq Task /\ told' \in [Task -> Tellings]
  <1>1. notified' \in [Task -> BOOLEAN] /\ cancelled' \in [Task -> BOOLEAN]
    BY DEF TypeOK
  <1>2. CASE PushTask(t)
    BY <1>1, <1>2, PushTaskTypes
  <1>3. CASE UNCHANGED queueVars
    BY <1>1, <1>3 DEF TypeOK, queueVars
  <1> QED BY <1>2, <1>3

LEMMA LoopTypes ==
  ASSUME TypeOK,
         \/ BlockOn \/ Outer \/ MainPending \/ MainReady \/ Unhandled \/ NextNone \/ LoopEnd
         \/ Park \/ Unparked \/ DriverEvent \/ ParkYield \/ EventsDone \/ DeferDone
         \/ MainYield \/ LocalWakeMain
  PROVE  TypeOK'
  <1>1. UNCHANGED <<taskVars, ownedVars, queueVars, injectVars, cur, exited, unhandled_panic, remoteVars>>
    BY DEF BlockOn, Outer, MainPending, MainReady, Unhandled, NextNone, LoopEnd, Park, Unparked,
           DriverEvent, ParkYield, EventsDone, DeferDone, MainYield, LocalWakeMain, loopVars, coreVars
  <1>2. pc' \in PCs
    BY DEF BlockOn, Outer, MainPending, MainReady, Unhandled, NextNone, LoopEnd, Park, Unparked,
           DriverEvent, ParkYield, EventsDone, DeferDone, MainYield, LocalWakeMain, loopVars, Goto,
           TypeOK, PCs
  <1>3. woken' \in BOOLEAN /\ unparked' \in BOOLEAN
    BY DEF BlockOn, Outer, MainPending, MainReady, Unhandled, NextNone, LoopEnd, Park, Unparked,
           DriverEvent, ParkYield, EventsDone, DeferDone, MainYield, LocalWakeMain, WakeMain,
           wakeVars, TypeOK
  <1>4. tick' \in 0 .. GlobalInterval - 1
    <2>1. (tick + 1) % GlobalInterval \in 0 .. GlobalInterval - 1
      BY CurrentThreadAssumption DEF TypeOK
    <2> QED BY <2>1 DEF BlockOn, Outer, MainPending, MainReady, Unhandled, NextNone, LoopEnd, Park,
            Unparked, DriverEvent, ParkYield, EventsDone, DeferDone, MainYield, LocalWakeMain,
            loopVars, TypeOK
  <1>5. left' \in 0 .. EventInterval
    BY CurrentThreadAssumption
       DEF BlockOn, Outer, MainPending, MainReady, Unhandled, NextNone, LoopEnd, Park, Unparked,
           DriverEvent, ParkYield, EventsDone, DeferDone, MainYield, LocalWakeMain, loopVars, TypeOK
  <1>6. defer' \subseteq Task \cup {Main}
    BY DEF BlockOn, Outer, MainPending, MainReady, Unhandled, NextNone, LoopEnd, Park, Unparked,
           DriverEvent, ParkYield, EventsDone, DeferDone, MainYield, LocalWakeMain, coreVars, TypeOK
  <1> QED BY <1>1, <1>2, <1>3, <1>4, <1>5, <1>6
          DEF TypeOK, taskVars, ownedVars, queueVars, injectVars, remoteVars

LEMMA UserTypes ==
  ASSUME TypeOK, NEW t \in Task, LocalWake(t) \/ LocalAbort(t) \/ LocalSpawn(t) \/ DeferWake(t) \/ DeferWake(Main)
  PROVE  TypeOK'
  <1>1. CASE LocalWake(t)
    <2>1. /\ notified' = [notified EXCEPT ![t] = TRUE] /\ cancelled' = cancelled
          /\ PushTask(t) \/ UNCHANGED queueVars
          /\ UNCHANGED <<state, ownedVars, injectVars, wakeVars, loopVars, coreVars, remoteVars>>
      BY <1>1 DEF LocalWake, WakeHere
    <2>2. /\ notified' \in [Task -> BOOLEAN] /\ cancelled' \in [Task -> BOOLEAN]
          /\ tasks' \subseteq Task /\ told' \in [Task -> Tellings]
      BY <2>1, WakeTypes
    <2> QED BY <2>1, <2>2 DEF TypeOK, ownedVars, injectVars, wakeVars, loopVars, coreVars, remoteVars
  <1>2. CASE LocalAbort(t)
    <2>1. /\ notified' = [notified EXCEPT ![t] = TRUE] /\ cancelled' = [cancelled EXCEPT ![t] = TRUE]
          /\ PushTask(t) \/ UNCHANGED queueVars
          /\ UNCHANGED <<state, ownedVars, injectVars, wakeVars, loopVars, coreVars, remoteVars>>
      BY <1>2 DEF LocalAbort
    <2>2. /\ notified' \in [Task -> BOOLEAN] /\ cancelled' \in [Task -> BOOLEAN]
          /\ tasks' \subseteq Task /\ told' \in [Task -> Tellings]
      BY <2>1, WakeTypes
    <2> QED BY <2>1, <2>2 DEF TypeOK, ownedVars, injectVars, wakeVars, loopVars, coreVars, remoteVars
  <1>3. CASE LocalSpawn(t)
    <2>1. UNCHANGED <<cancelled, owned_closed, injectVars, wakeVars, loopVars, defer, unhandled_panic, remoteVars>>
      BY <1>3 DEF LocalSpawn
    <2>2. CASE owned_closed
      <3>1. Complete(t) /\ UNCHANGED <<notified, queueVars>>
        BY <1>3, <2>2 DEF LocalSpawn
      <3> QED BY <2>1, <3>1, CompleteTypes DEF TypeOK, queueVars, injectVars, wakeVars, loopVars, remoteVars
    <2>3. CASE ~owned_closed
      <3>1. /\ state' = [state EXCEPT ![t] = "idle"] /\ notified' = [notified EXCEPT ![t] = TRUE]
            /\ owned' = owned \cup {t} /\ PushTask(t) /\ exited' = exited
        BY <1>3, <2>3 DEF LocalSpawn
      <3>2. /\ state' \in [Task -> {"none", "idle", "running", "complete"}]
            /\ notified' \in [Task -> BOOLEAN] /\ owned' \subseteq Task
        BY <3>1 DEF TypeOK
      <3> QED BY <2>1, <3>1, <3>2, PushTaskTypes DEF TypeOK, injectVars, wakeVars, loopVars, remoteVars
    <2> QED BY <2>2, <2>3
  <1>4. ASSUME NEW x \in {t, Main}, DeferWake(x)
        PROVE  TypeOK'
    <2>1. /\ defer' \subseteq Task \cup {Main}
          /\ UNCHANGED <<ownedVars, injectVars, loopVars, exited, unhandled_panic, remoteVars>>
      BY <1>4 DEF DeferWake, TypeOK
    <2>2. CASE x \in Task /\ WakeHere(x) /\ UNCHANGED wakeVars
      <3>1. /\ notified' = [notified EXCEPT ![x] = TRUE] /\ cancelled' = cancelled /\ state' = state
            /\ PushTask(x) \/ UNCHANGED queueVars
        BY <2>2 DEF WakeHere
      <3>2. /\ notified' \in [Task -> BOOLEAN] /\ cancelled' \in [Task -> BOOLEAN]
            /\ tasks' \subseteq Task /\ told' \in [Task -> Tellings]
        BY <2>2, <3>1, WakeTypes
      <3> QED BY <2>1, <2>2, <3>1, <3>2 DEF TypeOK, ownedVars, injectVars, wakeVars, loopVars, remoteVars
    <2>3. CASE UNCHANGED <<taskVars, queueVars>> /\ (WakeMain \/ UNCHANGED wakeVars)
      BY <2>1, <2>3 DEF TypeOK, WakeMain, taskVars, ownedVars, queueVars, injectVars, wakeVars,
             loopVars, remoteVars
    <2> QED BY <1>4, <2>2, <2>3 DEF DeferWake
  <1> QED BY <1>1, <1>2, <1>3, <1>4

\* The poll of a task, from the pick to the report of its end.
LEMMA PollTypes ==
  ASSUME Control,
         \/ (\E t \in Task : NextLocal(t)) \/ NextRemote \/ Run
         \/ (\E y \in BOOLEAN : PollPending(y)) \/ PollReady \/ PollPanic
         \/ PanicSelf \/ (\E t \in Task : PanicOther(t)) \/ PanicDone \/ EndPoll \/ Flush
  PROVE  TypeOK'
  <1>1. TypeOK /\ (pc \in Polling => cur \in Task)
    BY DEF Control, TypeOK
  <1>2. ASSUME NEW t \in Task, StartPoll(t), inject' \in Seq(Task), tasks' \subseteq Task
        PROVE  TypeOK'
    <2>1. (tick + 1) % GlobalInterval \in 0 .. GlobalInterval - 1
      BY <1>1, CurrentThreadAssumption DEF TypeOK
    <2>2. "run" \in PCs /\ "polling" \in Tellings
      BY DEF PCs, Tellings
    <2>3. told' \in [Task -> Tellings]
      BY <1>1, <1>2, <2>2 DEF StartPoll, TypeOK
    <2> QED BY <1>1, <1>2, <2>1, <2>2, <2>3
            DEF StartPoll, TypeOK, taskVars, ownedVars, wakeVars, coreVars, remoteVars
  <1>3. ASSUME NEW t \in Task, NextLocal(t) PROVE TypeOK'
    BY <1>1, <1>2, <1>3 DEF NextLocal, TypeOK
  <1>4. CASE NextRemote
    <2>1. Head(inject) \in Task /\ Tail(inject) \in Seq(Task)
      BY <1>1, <1>4 DEF NextRemote, TypeOK
    <2> QED BY <1>1, <1>2, <1>4, <2>1 DEF NextRemote, TypeOK
  <1>5. CASE Run
    <2>1. cur \in Task /\ UNCHANGED <<cancelled, owned_closed, queueVars, injectVars, wakeVars, cur,
                                      tick, left, defer, unhandled_panic, remoteVars>>
      BY <1>1, <1>5 DEF Run, Polling
    <2>2. pc' \in PCs /\ notified' \in [Task -> BOOLEAN]
      BY <1>1, <1>5 DEF Run, PCs, TypeOK
    <2>3. /\ state' \in [Task -> {"none", "idle", "running", "complete"}]
          /\ owned' \subseteq Task /\ exited' \in Seq(Task)
      <3>1. CASE Complete(cur)
        BY <1>1, <2>1, <3>1, CompleteTypes
      <3>2. CASE UNCHANGED <<owned, exited>> /\ (state' = state \/ state' = [state EXCEPT ![cur] = "running"])
        BY <1>1, <3>2 DEF TypeOK
      <3> QED BY <1>5, <3>1, <3>2 DEF Run
    <2> QED BY <1>1, <2>1, <2>2, <2>3 DEF TypeOK, queueVars, injectVars, wakeVars, remoteVars
  <1>6. ASSUME NEW y \in BOOLEAN, PollPending(y) PROVE TypeOK'
    <2>1. /\ cur \in Task /\ pc' = "end"
          /\ UNCHANGED <<notified, cancelled, owned_closed, injectVars, wakeVars, cur, tick, left,
                         unhandled_panic, remoteVars>>
      BY <1>1, <1>6 DEF PollPending, Goto, Polling
    <2>2. defer' \subseteq Task \cup {Main}
      BY <1>1, <1>6, <2>1 DEF PollPending, TypeOK
    <2>3. CASE Complete(cur) /\ UNCHANGED queueVars
      BY <1>1, <2>1, <2>2, <2>3, CompleteTypes
         DEF TypeOK, PCs, queueVars, injectVars, wakeVars, remoteVars
    <2>4. CASE /\ state' = [state EXCEPT ![cur] = "idle"] /\ UNCHANGED <<owned, exited>>
               /\ PushTask(cur) \/ UNCHANGED queueVars
      <3>1. state' \in [Task -> {"none", "idle", "running", "complete"}]
        BY <1>1, <2>4 DEF TypeOK
      <3>2. tasks' \subseteq Task /\ told' \in [Task -> Tellings]
        <4>1. CASE PushTask(cur)
          BY <1>1, <2>1, <4>1, PushTaskTypes
        <4>2. CASE UNCHANGED queueVars
          BY <1>1, <4>2 DEF TypeOK, queueVars
        <4> QED BY <2>4, <4>1, <4>2
      <3> QED BY <1>1, <2>1, <2>2, <2>4, <3>1, <3>2 DEF TypeOK, PCs, injectVars, wakeVars, remoteVars
    <2> QED BY <1>6, <2>3, <2>4 DEF PollPending
  <1>7. CASE PollReady \/ PanicDone
    <2>1. /\ cur \in Task /\ pc' = "end" /\ Complete(cur)
          /\ UNCHANGED <<notified, cancelled, owned_closed, queueVars, injectVars, wakeVars, cur, tick,
                         left, defer, unhandled_panic, remoteVars>>
      BY <1>1, <1>7 DEF PollReady, PanicDone, Goto, Polling
    <2> QED BY <1>1, <2>1, CompleteTypes DEF TypeOK, PCs, queueVars, injectVars, wakeVars, remoteVars
  <1>8. CASE PollPanic
    BY <1>1, <1>8 DEF PollPanic, Goto, TypeOK, PCs, taskVars, queueVars, injectVars, wakeVars, remoteVars
  <1>9. CASE PanicSelf
    BY <1>1, <1>9 DEF PanicSelf, TypeOK, queueVars, injectVars, wakeVars, loopVars, coreVars, remoteVars
  <1>10. ASSUME NEW t \in Task, PanicOther(t) PROVE TypeOK'
    BY <1>1, <1>10 DEF PanicOther, Goto, TypeOK, PCs, queueVars, injectVars, wakeVars, remoteVars
  <1>11. CASE EndPoll
    <2>1. left' \in 0 .. EventInterval
      BY <1>11, CurrentThreadAssumption DEF EndPoll, Goto, Control, Polling, TypeOK
    <2>2. told' \in [Task -> Tellings]
      <3>1. PICK v \in Tellings : told' = [told EXCEPT ![cur] = v]
        BY <1>11 DEF EndPoll, Tellings
      <3> QED BY <1>1, <3>1 DEF TypeOK
    <2> QED BY <1>1, <1>11, <2>1, <2>2
            DEF EndPoll, Goto, TypeOK, PCs, taskVars, ownedVars, injectVars, wakeVars, coreVars, remoteVars
  <1>12. CASE Flush
    <2>1. told' \in [Task -> Tellings]
      BY <1>1, <1>12 DEF Flush, FlushExits, TypeOK, Tellings
    <2> QED BY <1>1, <1>12, <2>1
            DEF Flush, FlushExits, Goto, TypeOK, PCs, taskVars, ownedVars, injectVars, wakeVars, remoteVars
  <1> QED BY <1>3, <1>4, <1>5, <1>6, <1>7, <1>8, <1>9, <1>10, <1>11, <1>12

LEMMA ShutdownTypes ==
  ASSUME TypeOK,
         \/ Shutdown \/ (\E t \in Task : CloseTask(t)) \/ ClosedTask \/ CloseDone \/ DrainLocal
         \/ CloseInject \/ DrainInject
  PROVE  TypeOK'
  <1>1. CASE Shutdown
    BY <1>1 DEF Shutdown, Goto, TypeOK, PCs, taskVars, queueVars, injectVars, wakeVars, coreVars, remoteVars
  <1>2. ASSUME NEW t \in Task, CloseTask(t) PROVE TypeOK'
    BY <1>2 DEF CloseTask, TypeOK, queueVars, injectVars, wakeVars, coreVars, remoteVars
  <1>3. CASE ClosedTask
    <2>1. cur \in Task /\ Complete(cur)
      BY <1>3 DEF ClosedTask, TypeOK
    <2> QED BY <1>3, <2>1, CompleteTypes
            DEF ClosedTask, TypeOK, queueVars, injectVars, wakeVars, remoteVars
  <1>4. CASE CloseDone
    BY <1>4 DEF CloseDone, Goto, TypeOK, PCs, taskVars, ownedVars, queueVars, injectVars, wakeVars,
           coreVars, remoteVars
  <1>5. CASE DrainLocal
    <2>1. told' \in [Task -> Tellings]
      BY <1>5 DEF DrainLocal, FlushExits, TypeOK, Tellings
    <2> QED BY <1>5, <2>1
            DEF DrainLocal, FlushExits, Goto, TypeOK, PCs, taskVars, ownedVars, injectVars, wakeVars, remoteVars
  <1>6. CASE CloseInject
    BY <1>6 DEF CloseInject, Goto, TypeOK, PCs, taskVars, ownedVars, queueVars, wakeVars, coreVars, remoteVars
  <1>7. CASE DrainInject
    <2>1. inject # <<>> => Tail(inject) \in Seq(Task)
      BY TailFacts DEF TypeOK
    <2> QED BY <1>7, <2>1 DEF DrainInject, TypeOK, PCs, taskVars, ownedVars, queueVars, wakeVars, coreVars, remoteVars
  <1> QED BY <1>1, <1>2, <1>3, <1>4, <1>5, <1>6, <1>7

LEMMA RemoteTypes ==
  ASSUME Control, NEW r \in Remote,
         \/ RemotePush(r) \/ RemoteUnpark(r) \/ RemoteWakeMain(r)
         \/ \E t \in Task : RemoteWake(r, t) \/ RemoteAbort(r, t) \/ RemoteSpawn(r, t)
  PROVE  TypeOK'
  <1>1. TypeOK
    BY DEF Control
  <1>2. ASSUME NEW t \in Task, Submit(r, t) \/ UNCHANGED remoteVars
        PROVE  /\ rpc' \in [Remote -> {"idle", "push", "unpark"}]
               /\ held' \in [Remote -> Task \cup {NoTask}]
    BY <1>1, <1>2 DEF Submit, remoteVars, TypeOK
  <1>3. ASSUME NEW t \in Task, RemoteWake(r, t) PROVE TypeOK'
    <2>1. Submit(r, t) \/ UNCHANGED remoteVars
      BY <1>3 DEF RemoteWake
    <2> QED BY <1>1, <1>2, <1>3, <2>1
            DEF RemoteWake, TypeOK, ownedVars, queueVars, injectVars, wakeVars, loopVars, coreVars
  <1>4. ASSUME NEW t \in Task, RemoteAbort(r, t) PROVE TypeOK'
    <2>1. Submit(r, t) \/ UNCHANGED remoteVars
      BY <1>4 DEF RemoteAbort
    <2> QED BY <1>1, <1>2, <1>4, <2>1
            DEF RemoteAbort, TypeOK, ownedVars, queueVars, injectVars, wakeVars, loopVars, coreVars
  <1>5. ASSUME NEW t \in Task, RemoteSpawn(r, t) PROVE TypeOK'
    <2>1. Submit(r, t) \/ UNCHANGED remoteVars
      BY <1>5 DEF RemoteSpawn
    <2>2. /\ state' \in [Task -> {"none", "idle", "running", "complete"}]
          /\ notified' \in [Task -> BOOLEAN] /\ owned' \subseteq Task
      BY <1>1, <1>5 DEF RemoteSpawn, TypeOK
    <2> QED BY <1>1, <1>2, <1>5, <2>1, <2>2
            DEF RemoteSpawn, TypeOK, queueVars, injectVars, wakeVars, loopVars, coreVars
  <1>6. CASE RemotePush(r)
    <2>1. held[r] \in Task
      BY <1>1, <1>6 DEF RemotePush, Control, TypeOK
    <2>2. inject' \in Seq(Task)
      BY <1>1, <1>6, <2>1, AppendFacts DEF RemotePush, TypeOK
    <2> QED BY <1>1, <1>6, <2>2
            DEF RemotePush, TypeOK, taskVars, ownedVars, queueVars, wakeVars, loopVars, coreVars
  <1>7. CASE RemoteUnpark(r) \/ RemoteWakeMain(r)
    BY <1>1, <1>7 DEF RemoteUnpark, RemoteWakeMain, TypeOK, taskVars, ownedVars, queueVars,
           injectVars, loopVars, coreVars
  <1> QED BY <1>3, <1>4, <1>5, <1>6, <1>7

-----------------------------------------------------------------------------
(***************************************************************************)
(* The steps that leave the tasks alone                                    *)
(***************************************************************************)

Free == {"off", "outer", "main", "loop", "park", "parked", "yield", "events", "defer"}

LEMMA QuietInv ==
  ASSUME LoopIInv, TypeOK',
         UNCHANGED <<taskVars, ownedVars, queueVars, injectVars, cur, exited, unhandled_panic, held>>,
         pc' = pc \/ (pc \in Free /\ pc' \in Free),
         pc' = pc => left' = left,
         \A r \in Remote : rpc'[r] = "push" <=> rpc[r] = "push"
  PROVE  LoopIInv'
  <1>1. Control /\ Lives /\ Said /\ Drained /\ Holds
    BY DEF LoopIInv
  <1>2. UNCHANGED <<state, notified, owned, owned_closed, tasks, told, inject, inject_closed>>
    BY DEF taskVars, ownedVars, queueVars, injectVars
  <1>3. pc' = pc \/ (pc \notin Polling \cup Closing /\ pc' \notin Polling \cup Closing)
    BY DEF Free, Polling, Closing
  <1>4. \A t \in Task : Live(t)' <=> Live(t)
    BY <1>2 DEF Live
  <1>5. Control'
    BY <1>1, <1>2, <1>3 DEF Control, Polling, Closing
  <1>6. Lives'
    <2>1. \A t \in owned' : Live(t)'
      BY <1>1, <1>2, <1>4 DEF Lives, Control, TypeOK
    <2>2. (pc \in {"poll", "panic"} \/ (pc = "closing" /\ cur # NoTask) => state[cur] = "running")'
      BY <1>1, <1>2, <1>3 DEF Lives, Polling, Closing
    <2>3. ~unhandled_panic' =>
            \A t \in Task : /\ Live(t)' => t \in owned' \/ (pc' = "closing" /\ cur' = t)
                            /\ state'[t] = "running" => cur' = t /\ pc' \in {"poll", "closing"}
      BY <1>1, <1>2, <1>3, <1>4 DEF Lives, Polling, Closing
    <2>4. pc' \in Closing \ {"closing"} => owned' = {}
      BY <1>1, <1>2, <1>3 DEF Lives
    <2> QED BY <2>1, <2>2, <2>3, <2>4 DEF Lives
  <1>7. Said'
    BY <1>1, <1>2, <1>3 DEF Said, Polling
  <1>8. Drained'
    BY <1>1, <1>2, <1>3 DEF Drained, Closing
  <1>9. Holds'
    <2>1. ASSUME NEW t \in Task PROVE HeldRight(t)' <=> HeldRight(t)
      <3>1. (Picked(t)' <=> Picked(t)) /\ (Injected(t)' <=> Injected(t)) /\ (InHand(t)' <=> InHand(t))
        BY <1>2, <1>3 DEF Picked, Injected, InHand, Polling
      <3> QED BY <1>2, <3>1 DEF HeldRight
    <2> QED BY <1>1, <1>2, <2>1 DEF Holds
  <1> QED BY <1>5, <1>6, <1>7, <1>8, <1>9 DEF LoopIInv

\* The run loop between two polls, and the wakes of the main future.
LEMMA QuietSteps ==
  ASSUME LoopIInv,
         \/ BlockOn \/ Outer \/ MainPending \/ MainReady \/ Unhandled \/ NextNone \/ LoopEnd
         \/ Park \/ Unparked \/ DriverEvent \/ ParkYield \/ EventsDone \/ DeferDone
         \/ MainYield \/ LocalWakeMain
         \/ \E r \in Remote : RemoteWakeMain(r) \/ RemoteUnpark(r)
  PROVE  LoopIInv'
  <1>1. Control /\ TypeOK
    BY DEF LoopIInv, Control
  <1>2. TypeOK'
    BY <1>1, LoopTypes, RemoteTypes
  <1>3. UNCHANGED <<taskVars, ownedVars, queueVars, injectVars, cur, exited, unhandled_panic, held>>
    BY DEF BlockOn, Outer, MainPending, MainReady, Unhandled, NextNone, LoopEnd, Park, Unparked,
           DriverEvent, ParkYield, EventsDone, DeferDone, MainYield, LocalWakeMain, RemoteWakeMain,
           RemoteUnpark, loopVars, coreVars, remoteVars
  <1>4. pc' = pc \/ (pc \in Free /\ pc' \in Free)
    BY DEF BlockOn, Outer, MainPending, MainReady, Unhandled, NextNone, CanPick, LoopEnd, Park, Unparked,
           DriverEvent, ParkYield, EventsDone, DeferDone, MainYield, LocalWakeMain, RemoteWakeMain,
           RemoteUnpark, loopVars, Goto, Free
  <1>5. \A r \in Remote : rpc'[r] = "push" <=> rpc[r] = "push"
    BY <1>1 DEF BlockOn, Outer, MainPending, MainReady, Unhandled, NextNone, LoopEnd, Park, Unparked,
           DriverEvent, ParkYield, EventsDone, DeferDone, MainYield, LocalWakeMain, RemoteWakeMain,
           RemoteUnpark, remoteVars, TypeOK
  <1>6. pc' = pc => left' = left
    BY DEF BlockOn, Outer, MainPending, MainReady, Unhandled, NextNone, CanPick, LoopEnd, Park, Unparked,
           DriverEvent, ParkYield, EventsDone, DeferDone, MainYield, LocalWakeMain, RemoteWakeMain,
           RemoteUnpark, loopVars, Goto
  <1> QED BY <1>2, <1>3, <1>4, <1>5, <1>6, QuietInv

-----------------------------------------------------------------------------
(***************************************************************************)
(* Wakes, aborts and spawns                                                *)
(***************************************************************************)

\* The run queue hears of a live task at most that it exists.
LEMMA PushTaskTells ==
  ASSUME TypeOK, NEW t \in Task, told[t] # "gone", PushTask(t)
  PROVE  \A u \in Task : told'[u] = told[u] \/ (u = t /\ told[u] = "fresh" /\ told'[u] = "known")
  BY DEF TypeOK, PushTask

\* A step of one task: what the others hold stays.
LEMMA OneTaskHeld ==
  ASSUME Holds, NEW t \in Task, ~owned_closed' => ~owned_closed,
         ~owned_closed' =>
           /\ \A u \in Task : u # t => /\ state'[u] = state[u] /\ notified'[u] = notified[u]
                                       /\ u \in tasks' <=> u \in tasks
                                       /\ Injected(u)' <=> Injected(u)
                                       /\ InHand(u)' <=> InHand(u)
                                       /\ Picked(u)' <=> Picked(u)
           /\ HeldRight(t) => HeldRight(t)'
           /\ IsInjective(inject) => IsInjective(inject')
           /\ \A r, q \in Remote : held'[r] = held'[q] /\ held'[r] # NoTask => r = q
  PROVE  Holds'
  <1> SUFFICES ASSUME ~owned_closed'
               PROVE  /\ IsInjective(inject')
                      /\ \A r, q \in Remote : held'[r] = held'[q] /\ held'[r] # NoTask => r = q
                      /\ \A u \in Task : HeldRight(u)'
    BY DEF Holds
  <1>1. \A u \in Task : HeldRight(u)
    BY DEF Holds
  <1>2. \A u \in Task : HeldRight(u)'
    BY <1>1 DEF HeldRight
  <1> QED BY <1>2 DEF Holds

\* A live task is woken or aborted on the runtime's thread.
LEMMA WakeInv ==
  ASSUME LoopIInv, NEW t \in Task, Live(t), TypeOK',
         pc \in {"main", "poll", "park", "events", "defer", "closing"},
         notified' = [notified EXCEPT ![t] = TRUE],
         IF state[t] = "idle" /\ ~notified[t] THEN PushTask(t) ELSE UNCHANGED queueVars,
         UNCHANGED <<state, ownedVars, injectVars, loopVars, exited, unhandled_panic, remoteVars>>
  PROVE  LoopIInv'
  <1>1. Control /\ Lives /\ Said /\ Drained /\ Holds /\ TypeOK
    BY DEF LoopIInv, Control
  <1>2. UNCHANGED <<owned, owned_closed, inject, inject_closed, pc, cur, left, rpc, held>>
    BY DEF ownedVars, injectVars, loopVars, remoteVars
  <1>3. \A u \in Task : told'[u] = told[u] \/ (u = t /\ told[u] = "fresh" /\ told'[u] = "known")
    <2>1. told[t] # "gone"
      BY <1>1 DEF Said, Live
    <2> QED BY <1>1, <2>1, PushTaskTells DEF queueVars
  <1>4. Control'
    BY <1>1, <1>2 DEF Control
  <1>5. Lives'
    BY <1>1, <1>2 DEF Lives, Live
  <1>6. Said'
    <2>1. \A u \in Range(exited) : u \in Task
      BY <1>1 DEF TypeOK, Range
    <2>2. pc \notin {"run", "panic", "end", "flush"} /\ (pc = "poll" => cur \in Task)
      BY <1>1 DEF Control, TypeOK, Polling
    <2>3. state[t] \in {"idle", "running"}
      BY DEF Live
    <2> QED BY <1>1, <1>2, <1>3, <2>1, <2>2, <2>3 DEF Said
  <1>7. Drained'
    BY <1>1, <1>2 DEF Drained
  <1>8. Holds'
    <2>1. ASSUME NEW u \in Task, u # t
          PROVE  notified'[u] = notified[u] /\ (u \in tasks' <=> u \in tasks)
      BY <1>1, <2>1 DEF TypeOK, PushTask, queueVars
    <2>2. \A u \in Task : /\ Injected(u)' <=> Injected(u)
                          /\ InHand(u)' <=> InHand(u)
                          /\ Picked(u)' <=> Picked(u)
      BY <1>2 DEF Injected, InHand, Picked
    <2>3. HeldRight(t) => HeldRight(t)'
      <3>1. notified'[t] = TRUE
        BY <1>1 DEF TypeOK
      <3>2. CASE state[t] = "idle" /\ ~notified[t]
        BY <2>2, <3>1, <3>2 DEF HeldRight, PushTask
      <3>3. CASE ~(state[t] = "idle" /\ ~notified[t])
        BY <2>2, <3>1, <3>3 DEF HeldRight, queueVars
      <3> QED BY <3>2, <3>3
    <2>4. ~owned_closed => \A r, q \in Remote : held'[r] = held'[q] /\ held'[r] # NoTask => r = q
      BY <1>1, <1>2 DEF Holds
    <2> QED BY <1>1, <1>2, <2>1, <2>2, <2>3, <2>4, OneTaskHeld
  <1> QED BY <1>4, <1>5, <1>6, <1>7, <1>8 DEF LoopIInv

LEMMA WakeSteps ==
  ASSUME LoopIInv,
         \/ \E t \in Task : LocalWake(t) \/ LocalAbort(t)
         \/ \E x \in Task \cup {Main} : DeferWake(x)
  PROVE  LoopIInv'
  <1>1. Control /\ TypeOK /\ Lives
    BY DEF LoopIInv, Control
  <1>2. ASSUME NEW t \in Task, LocalWake(t) PROVE LoopIInv'
    <2>1. TypeOK'
      BY <1>1, <1>2, UserTypes
    <2>2. pc \in {"main", "poll", "park", "events", "defer", "closing"}
      BY <1>2 DEF LocalWake, InUserCode
    <2>3. /\ Live(t) /\ notified' = [notified EXCEPT ![t] = TRUE]
          /\ IF state[t] = "idle" /\ ~notified[t] THEN PushTask(t) ELSE UNCHANGED queueVars
          /\ UNCHANGED <<state, ownedVars, injectVars, loopVars, exited, unhandled_panic, remoteVars>>
      BY <1>2 DEF LocalWake, WakeHere, coreVars
    <2> QED BY <2>1, <2>2, <2>3, WakeInv
  <1>3. ASSUME NEW t \in Task, LocalAbort(t) PROVE LoopIInv'
    <2>1. TypeOK'
      BY <1>1, <1>3, UserTypes
    <2>2. pc \in {"main", "poll", "park", "events", "defer", "closing"}
      BY <1>3 DEF LocalAbort, InUserCode
    <2>3. /\ Live(t) /\ notified' = [notified EXCEPT ![t] = TRUE]
          /\ IF state[t] = "idle" /\ ~notified[t] THEN PushTask(t) ELSE UNCHANGED queueVars
          /\ UNCHANGED <<state, ownedVars, injectVars, loopVars, exited, unhandled_panic, remoteVars>>
      BY <1>3 DEF LocalAbort, coreVars
    <2> QED BY <2>1, <2>2, <2>3, WakeInv
  <1>4. ASSUME NEW x \in Task \cup {Main}, DeferWake(x) PROVE LoopIInv'
    <2>1. UNCHANGED <<ownedVars, injectVars, loopVars, exited, unhandled_panic, remoteVars>> /\ pc = "defer"
      BY <1>4 DEF DeferWake
    <2>2. CASE x \in Task /\ WakeHere(x)
      <3>1. TypeOK'
        BY <1>1, <1>4, <2>2, UserTypes
      <3>2. /\ Live(x) /\ notified' = [notified EXCEPT ![x] = TRUE]
            /\ IF state[x] = "idle" /\ ~notified[x] THEN PushTask(x) ELSE UNCHANGED queueVars
            /\ state' = state
        BY <2>2 DEF WakeHere
      <3> QED BY <2>1, <2>2, <3>1, <3>2, WakeInv
    <2>3. CASE UNCHANGED <<taskVars, queueVars>>
      <3>1. woken' \in BOOLEAN /\ unparked' \in BOOLEAN
        BY <1>1, <1>4 DEF DeferWake, WakeMain, wakeVars, TypeOK
      <3>2. defer' \subseteq Task \cup {Main}
        BY <1>1, <1>4 DEF DeferWake, TypeOK
      <3>3. TypeOK'
        BY <1>1, <2>1, <2>3, <3>1, <3>2 DEF TypeOK, taskVars, queueVars, ownedVars, injectVars, loopVars, remoteVars
      <3> QED BY <2>1, <2>3, <3>3, QuietInv DEF loopVars, remoteVars
    <2> QED BY <1>4, <2>2, <2>3 DEF DeferWake
  <1> QED BY <1>2, <1>3, <1>4

\* A live task is woken or aborted by a thread outside the runtime.
LEMMA RemoteWakeInv ==
  ASSUME LoopIInv, NEW r \in Remote, NEW t \in Task, Live(t), TypeOK', rpc[r] = "idle",
         notified' = [notified EXCEPT ![t] = TRUE],
         IF state[t] = "idle" /\ ~notified[t] THEN Submit(r, t) ELSE UNCHANGED remoteVars,
         UNCHANGED <<state, ownedVars, queueVars, injectVars, loopVars, coreVars>>
  PROVE  LoopIInv'
  <1>1. Control /\ Lives /\ Said /\ Drained /\ Holds /\ TypeOK
    BY DEF LoopIInv, Control
  <1>2. UNCHANGED <<owned, owned_closed, tasks, told, inject, inject_closed, pc, cur, left, exited,
                    unhandled_panic>>
    BY DEF ownedVars, queueVars, injectVars, loopVars, coreVars
  <1>3. held[r] = NoTask /\ t # NoTask
    BY <1>1, CurrentThreadAssumption DEF Control
  <1>4. \A q \in Remote : rpc'[q] = "push" <=> held'[q] # NoTask
    BY <1>1, <1>3 DEF Control, TypeOK, Submit, remoteVars
  <1>5. Control'
    BY <1>1, <1>2, <1>4 DEF Control
  <1>6. Lives' /\ Said' /\ Drained'
    BY <1>1, <1>2 DEF Lives, Said, Drained, Live
  <1>7. Holds'
    <2>1. ASSUME NEW u \in Task, u # t PROVE notified'[u] = notified[u] /\ (InHand(u)' <=> InHand(u))
      <3>1. \A q \in Remote : held'[q] = u <=> held[q] = u
        BY <1>1, <1>3, <2>1, CurrentThreadAssumption DEF TypeOK, Submit, remoteVars
      <3> QED BY <1>1, <2>1, <3>1 DEF TypeOK, InHand
    <2>2. \A u \in Task : (Injected(u)' <=> Injected(u)) /\ (Picked(u)' <=> Picked(u))
      BY <1>2 DEF Injected, Picked
    <2>3. HeldRight(t) => HeldRight(t)'
      <3>1. notified'[t] = TRUE
        BY <1>1 DEF TypeOK
      <3>2. CASE state[t] = "idle" /\ ~notified[t]
        <4>1. held'[r] = t
          BY <1>1, <3>2 DEF TypeOK, Submit
        <4>2. InHand(t)'
          BY <4>1 DEF InHand
        <4> QED BY <1>2, <2>2, <3>1, <3>2, <4>2 DEF HeldRight
      <3>3. CASE ~(state[t] = "idle" /\ ~notified[t])
        <4>1. InHand(t)' <=> InHand(t)
          BY <3>3 DEF InHand, remoteVars
        <4> QED BY <1>2, <2>2, <3>1, <3>3, <4>1 DEF HeldRight
      <3> QED BY <3>2, <3>3
    <2>4. ASSUME ~owned_closed, NEW p \in Remote, NEW q \in Remote, held'[p] = held'[q], held'[p] # NoTask
          PROVE  p = q
      <3>1. CASE UNCHANGED remoteVars
        BY <1>1, <2>4, <3>1 DEF Holds, remoteVars
      <3>2. CASE ~UNCHANGED remoteVars
        <4>1. ~InHand(t)
          BY <1>1, <2>4, <3>2 DEF Holds, HeldRight
        <4>2. held' = [held EXCEPT ![r] = t]
          BY <3>2 DEF Submit
        <4> QED BY <1>1, <2>4, <4>1, <4>2 DEF Holds, InHand, TypeOK
      <3> QED BY <3>1, <3>2
    <2> QED BY <1>1, <1>2, <2>1, <2>2, <2>3, <2>4, OneTaskHeld
  <1> QED BY <1>5, <1>6, <1>7 DEF LoopIInv

LEMMA RemoteWakeSteps ==
  ASSUME LoopIInv, NEW r \in Remote, NEW t \in Task, RemoteWake(r, t) \/ RemoteAbort(r, t)
  PROVE  LoopIInv'
  <1>1. TypeOK'
    BY RemoteTypes DEF LoopIInv
  <1>2. /\ Live(t) /\ rpc[r] = "idle" /\ notified' = [notified EXCEPT ![t] = TRUE]
        /\ IF state[t] = "idle" /\ ~notified[t] THEN Submit(r, t) ELSE UNCHANGED remoteVars
        /\ UNCHANGED <<state, ownedVars, queueVars, injectVars, loopVars, coreVars>>
    BY DEF RemoteWake, RemoteAbort
  <1> QED BY <1>1, <1>2, RemoteWakeInv

\* A thread outside the runtime injects the task it holds, or drops it.
LEMMA RemotePushInv ==
  ASSUME LoopIInv, NEW r \in Remote, RemotePush(r)
  PROVE  LoopIInv'
  <1>1. Control /\ Lives /\ Said /\ Drained /\ Holds /\ TypeOK
    BY DEF LoopIInv, Control
  <1>2. TypeOK'
    BY <1>1, RemoteTypes
  <1>3. UNCHANGED <<state, notified, owned, owned_closed, tasks, told, inject_closed, pc, cur, left, exited,
                    unhandled_panic>>
    BY DEF RemotePush, taskVars, ownedVars, queueVars, loopVars, coreVars
  <1>4. held[r] \in Task
    BY <1>1 DEF RemotePush, Control, TypeOK
  <1>5. \A q \in Remote : rpc'[q] = "push" <=> held'[q] # NoTask
    BY <1>1 DEF RemotePush, Control, TypeOK
  <1>6. Control'
    BY <1>1, <1>2, <1>3, <1>5 DEF Control
  <1>7. Lives' /\ Said'
    BY <1>1, <1>3 DEF Lives, Said, Live
  <1>8. Drained'
    BY <1>1, <1>3 DEF Drained, Control, RemotePush
  <1>9. Holds'
    <2> SUFFICES ASSUME ~owned_closed PROVE Holds'
      BY <1>3 DEF Holds
    <2>1. PICK t \in Task : t = held[r]
      BY <1>4
    <2>2. /\ \A u \in Task : HeldRight(u)
          /\ IsInjective(inject) /\ \A p, q \in Remote : held[p] = held[q] /\ held[p] # NoTask => p = q
      BY <1>1 DEF Holds
    <2>3. InHand(t) /\ ~Injected(t) /\ t \notin tasks /\ ~Picked(t)
      BY <2>1, <2>2 DEF InHand, HeldRight
    <2>4. /\ Range(inject') = Range(inject) \cup {t} /\ IsInjective(inject')
      <3>1. inject' = Append(inject, t)
        BY <1>1, <2>1 DEF RemotePush, Control
      <3> QED BY <1>1, <1>4, <2>2, <2>3, <3>1, AppendFacts DEF Injected, TypeOK
    <2>5. \A q \in Remote : held'[q] = IF q = r THEN NoTask ELSE held[q]
      BY <1>1 DEF RemotePush, TypeOK
    <2>6. \A p, q \in Remote : held'[p] = held'[q] /\ held'[p] # NoTask => p = q
      BY <2>2, <2>5
    <2>7. \A u \in Task : /\ Picked(u)' <=> Picked(u)
                          /\ u # t => (Injected(u)' <=> Injected(u)) /\ (InHand(u)' <=> InHand(u))
      BY <1>3, <2>1, <2>4, <2>5, CurrentThreadAssumption DEF Picked, Injected, InHand
    <2>8. Injected(t)' /\ ~InHand(t)'
      BY <2>1, <2>2, <2>4, <2>5, CurrentThreadAssumption DEF Injected, InHand
    <2>9. HeldRight(t)'
      BY <1>3, <1>4, <2>2, <2>3, <2>7, <2>8 DEF HeldRight
    <2> QED BY <1>1, <1>3, <1>4, <2>4, <2>6, <2>7, <2>9, OneTaskHeld
  <1> QED BY <1>6, <1>7, <1>8, <1>9 DEF LoopIInv

\* A task is spawned while the runtime is open: it is idle, owned and woken.
LEMMA SpawnOpen ==
  ASSUME LoopIInv, NEW t \in Task, state[t] = "none", TypeOK', ~owned_closed,
         state' = [state EXCEPT ![t] = "idle"], notified' = [notified EXCEPT ![t] = TRUE],
         owned' = owned \cup {t},
         \/ PushTask(t) /\ UNCHANGED remoteVars
         \/ UNCHANGED queueVars /\ \E r \in Remote : rpc[r] = "idle" /\ Submit(r, t),
         UNCHANGED <<owned_closed, injectVars, loopVars, exited, unhandled_panic>>
  PROVE  LoopIInv'
  <1>1. Control /\ Lives /\ Said /\ Drained /\ Holds /\ TypeOK
    BY DEF LoopIInv, Control
  <1>2. UNCHANGED <<inject, inject_closed, pc, cur, left>>
    BY DEF injectVars, loopVars
  <1>3. told[t] = "fresh" /\ t # NoTask
    BY <1>1, CurrentThreadAssumption DEF Said
  <1>4. \A u \in Task : told'[u] = told[u] \/ (u = t /\ told'[u] = "known")
    BY <1>1, <1>3, PushTaskTells DEF queueVars
  <1>5. /\ \A u \in Task : /\ state'[u] = IF u = t THEN "idle" ELSE state[u]
                           /\ notified'[u] = IF u = t THEN TRUE ELSE notified[u]
        /\ \A u \in Task : u \in owned' <=> u \in owned \/ u = t
    BY <1>1 DEF TypeOK
  <1>6. pc \notin Closing /\ ~unhandled_panic
    BY <1>1 DEF Control
  <1>7. \A q \in Remote : rpc'[q] = "push" <=> held'[q] # NoTask
    BY <1>1, <1>3 DEF Control, TypeOK, Submit, remoteVars
  <1>8. Control'
    BY <1>1, <1>2, <1>7 DEF Control
  <1>9. Lives'
    <2>1. \A u \in owned' : Live(u)'
      <3> TAKE u \in owned'
      <3>1. u \in Task /\ (u \in owned \/ u = t)
        BY <1>1 DEF TypeOK
      <3> QED BY <1>1, <1>5, <3>1 DEF Lives, Live
    <2>2. pc = "poll" => cur \in Task /\ state[cur] = "running"
      BY <1>1 DEF Control, TypeOK, Polling, Lives
    <2>3. (pc \in {"poll", "panic"} \/ (pc = "closing" /\ cur # NoTask) => state[cur] = "running")'
      BY <1>1, <1>2, <1>5, <1>6, <2>2 DEF Control, Closing
    <2>4. \A u \in Task : /\ Live(u)' => u \in owned'
                          /\ state'[u] = "running" => cur' = u /\ pc' \in {"poll", "closing"}
      BY <1>1, <1>2, <1>5, <1>6 DEF Lives, Live, Closing
    <2> QED BY <1>2, <1>6, <2>1, <2>3, <2>4 DEF Lives
  <1>10. Said'
    <2>1. \A u \in Range(exited) : u \in Task /\ u # t
      BY <1>1 DEF TypeOK, Range, Said
    <2>2. pc \in Polling => cur \in Task /\ (pc # "flush" => cur # t)
      BY <1>1, <1>3 DEF Control, TypeOK, Polling, Said
    <2>3. /\ \A u \in Task : /\ state'[u] = "none" => told'[u] = "fresh"
                             /\ told'[u] = "gone" => state'[u] = "complete"
          /\ \A u \in Range(exited) : state'[u] = "complete" /\ told'[u] # "gone"
      <3>1. \A u \in Task : /\ state[u] = "none" => told[u] = "fresh"
                            /\ told[u] = "gone" => state[u] = "complete"
        BY <1>1 DEF Said
      <3>2. \A u \in Range(exited) : state[u] = "complete" /\ told[u] # "gone"
        BY <1>1 DEF Said
      <3>3. ASSUME NEW u \in Task
            PROVE  /\ state'[u] = "none" => told'[u] = "fresh"
                   /\ told'[u] = "gone" => state'[u] = "complete"
        <4>1. CASE u = t
          <5>1. state'[u] = "idle"
            BY <1>5, <4>1
          <5>2. told'[u] \in {"fresh", "known"}
            BY <1>3, <1>4, <4>1
          <5> QED BY <5>1, <5>2
        <4>2. CASE u # t
          <5>1. told'[u] = told[u] /\ state'[u] = state[u]
            BY <1>4, <1>5, <4>2
          <5> QED BY <3>1, <5>1
        <4> QED BY <4>1, <4>2
      <3>4. ASSUME NEW u \in Range(exited) PROVE state'[u] = "complete" /\ told'[u] # "gone"
        <4>1. told'[u] = told[u] /\ state'[u] = state[u]
          BY <1>4, <1>5, <2>1
        <4> QED BY <3>2, <4>1
      <3> QED BY <3>3, <3>4
    <2>4. /\ pc \in {"run", "poll", "panic", "end"} => told'[cur] = "polling"
          /\ pc = "flush" => (told'[cur] = "ready" <=> cur \in Range(exited))
      BY <1>1, <1>3, <1>4, <2>1, <2>2 DEF Said, Polling
    <2>5. \A u \in Task :
            /\ state'[u] = "complete" => told'[u] \in {"fresh", "gone"} \/ u \in Range(exited)
            /\ told'[u] = "polling" => cur = u /\ pc \in {"run", "poll", "end"}
            /\ told'[u] = "ready" => cur = u /\ pc = "flush"
      BY <1>1, <1>3, <1>4, <1>5, <1>6 DEF Said
    <2> QED BY <1>1, <1>2, <2>3, <2>4, <2>5 DEF Said
  <1>11. Drained'
    BY <1>1, <1>2, <1>6 DEF Drained, Closing
  <1>12. Holds'
    <2>1. /\ \A u \in Task : HeldRight(u)
          /\ IsInjective(inject) /\ \A p, q \in Remote : held[p] = held[q] /\ held[p] # NoTask => p = q
      BY <1>1 DEF Holds
    <2>2. t \notin tasks /\ ~Injected(t) /\ ~InHand(t) /\ ~Picked(t)
      BY <2>1 DEF HeldRight
    <2>3. \A u \in Task : (Injected(u)' <=> Injected(u)) /\ (Picked(u)' <=> Picked(u))
      BY <1>2 DEF Injected, Picked
    <2>4. CASE PushTask(t) /\ UNCHANGED remoteVars
      <3>1. \A u \in Task : InHand(u)' <=> InHand(u)
        BY <2>4 DEF InHand, remoteVars
      <3>2. \A u \in Task : u \in tasks' <=> u \in tasks \/ u = t
        BY <2>4 DEF PushTask
      <3>3. HeldRight(t)'
        BY <1>5, <2>2, <2>3, <3>1, <3>2 DEF HeldRight
      <3>4. \A p, q \in Remote : held'[p] = held'[q] /\ held'[p] # NoTask => p = q
        BY <2>1, <2>4 DEF remoteVars
      <3> QED BY <1>1, <1>2, <1>5, <2>3, <3>1, <3>2, <3>3, <3>4, OneTaskHeld
    <2>5. ASSUME UNCHANGED queueVars, NEW r \in Remote, rpc[r] = "idle", Submit(r, t) PROVE Holds'
      <3>1. \A q \in Remote : held'[q] = IF q = r THEN t ELSE held[q]
        BY <1>1, <2>5 DEF Submit, TypeOK
      <3>2. held[r] = NoTask
        BY <1>1, <2>5 DEF Control
      <3>3. \A u \in Task : InHand(u)' <=> InHand(u) \/ u = t
        BY <3>1, <3>2, CurrentThreadAssumption DEF InHand
      <3>4. HeldRight(t)'
        BY <1>5, <2>2, <2>3, <2>5, <3>3 DEF HeldRight, queueVars
      <3>5. \A p, q \in Remote : held'[p] = held'[q] /\ held'[p] # NoTask => p = q
        BY <2>1, <2>2, <3>1 DEF InHand
      <3> QED BY <1>1, <1>2, <1>5, <2>3, <2>5, <3>3, <3>4, <3>5, OneTaskHeld DEF queueVars
    <2> QED BY <2>4, <2>5
  <1> QED BY <1>8, <1>9, <1>10, <1>11, <1>12 DEF LoopIInv

\* The exit of a task that completes is noted once.
LEMMA CompleteNotes ==
  ASSUME TypeOK, Said, NEW t \in Task, state[t] # "complete", Complete(t)
  PROVE  /\ Range(exited') = Range(exited) \cup {t} /\ IsInjective(exited')
         /\ \A u \in Task : state'[u] = IF u = t THEN "complete" ELSE state[u]
         /\ \A u \in Task : u \in owned' <=> u \in owned /\ u # t
         /\ \A u \in Range(exited') : u \in Task /\ state'[u] = "complete" /\ told[u] # "gone"
  <1>1. t \notin Range(exited) /\ told[t] # "gone"
    BY DEF Said
  <1>2. IsInjective(exited) /\ exited' = Append(exited, t) /\ exited \in Seq(Task)
    BY DEF Said, Complete, TypeOK
  <1>3. Range(exited') = Range(exited) \cup {t} /\ IsInjective(exited')
    BY <1>1, <1>2, AppendFacts
  <1>4. /\ \A u \in Task : state'[u] = IF u = t THEN "complete" ELSE state[u]
        /\ \A u \in Task : u \in owned' <=> u \in owned /\ u # t
    BY DEF Complete, TypeOK
  <1>5. \A u \in Range(exited) : u \in Task
    BY DEF TypeOK, Range
  <1> QED BY <1>1, <1>3, <1>4, <1>5 DEF Said

\* A task is spawned after the runtime was closed: it is complete at once, and
\* its exit is noted where the core is at hand.
LEMMA SpawnClosed ==
  ASSUME LoopIInv, NEW t \in Task, state[t] = "none", TypeOK', owned_closed,
         \/ InUserCode /\ Complete(t)
         \/ state' = [state EXCEPT ![t] = "complete"] /\ UNCHANGED <<owned, exited>>,
         UNCHANGED <<notified, owned_closed, queueVars, injectVars, loopVars, unhandled_panic, remoteVars>>
  PROVE  LoopIInv'
  <1>1. Control /\ Lives /\ Said /\ Drained /\ Holds /\ TypeOK
    BY DEF LoopIInv, Control
  <1>2. UNCHANGED <<tasks, told, inject, inject_closed, pc, cur, left, rpc, held>>
    BY DEF queueVars, injectVars, loopVars, remoteVars
  <1>3. told[t] = "fresh" /\ t \notin owned
    BY <1>1 DEF Said, Lives, Live
  <1>4. /\ \A u \in Task : state'[u] = IF u = t THEN "complete" ELSE state[u]
        /\ \A u \in Task : u \in owned' <=> u \in owned
    <2>1. state' = [state EXCEPT ![t] = "complete"] /\ (owned' = owned \/ owned' = owned \ {t})
      BY DEF Complete
    <2> QED BY <1>1, <1>3, <2>1 DEF TypeOK
  <1>5. /\ IsInjective(exited')
        /\ \A u \in Range(exited') : u \in Task /\ state'[u] = "complete" /\ told[u] # "gone"
        /\ \A u \in Range(exited) : u \in Range(exited')
        /\ exited' = exited \/ (pc \in {"main", "poll", "park", "closing"} /\ t \in Range(exited'))
    <2>1. CASE InUserCode /\ Complete(t)
      <3>1. pc \in {"main", "poll", "park", "closing"}
        BY <2>1 DEF InUserCode
      <3> QED BY <1>1, <2>1, <3>1, CompleteNotes
    <2>2. CASE UNCHANGED <<owned, exited>>
      <3>1. \A u \in Range(exited) : u \in Task /\ state[u] = "complete" /\ told[u] # "gone"
        BY <1>1 DEF TypeOK, Said, Range
      <3> QED BY <1>1, <1>4, <2>2, <3>1 DEF Said
    <2> QED BY <2>1, <2>2
  <1>6. Control'
    BY <1>1, <1>2 DEF Control
  <1>7. owned' = owned /\ (cur \in Task => cur # t \/ pc \notin {"poll", "panic", "closing"})
    <2>1. owned' = owned
      BY <1>1, <1>4 DEF TypeOK
    <2>2. pc \in {"poll", "panic", "closing"} /\ cur \in Task => state[cur] = "running"
      BY <1>1, CurrentThreadAssumption DEF Lives
    <2> QED BY <2>1, <2>2
  <1>8. Lives'
    <2>1. \A u \in owned' : Live(u)'
      BY <1>1, <1>3, <1>4, <1>7 DEF Lives, Live, TypeOK
    <2>2. (pc \in {"poll", "panic"} \/ (pc = "closing" /\ cur # NoTask) => state[cur] = "running")'
      BY <1>1, <1>2, <1>4, <1>7 DEF Lives, Control, TypeOK, Polling
    <2>3. ~unhandled_panic' =>
            \A u \in Task : /\ Live(u)' => u \in owned' \/ (pc' = "closing" /\ cur' = u)
                            /\ state'[u] = "running" => cur' = u /\ pc' \in {"poll", "closing"}
      BY <1>1, <1>2, <1>4, <1>7 DEF Lives, Live
    <2>4. pc' \in Closing \ {"closing"} => owned' = {}
      BY <1>1, <1>2, <1>7 DEF Lives
    <2> QED BY <2>1, <2>2, <2>3, <2>4 DEF Lives
  <1>9. Said'
    <2>1. \A u \in Task : /\ state'[u] = "none" => told[u] = "fresh"
                          /\ told[u] = "gone" => state'[u] = "complete"
      BY <1>1, <1>3, <1>4 DEF Said
    <2>2. /\ pc \in {"run", "poll", "panic", "end"} => told[cur] = "polling"
          /\ pc = "flush" => (told[cur] = "ready" <=> cur \in Range(exited'))
          /\ pc \in {"end", "flush"} => Range(exited') \subseteq {cur}
          /\ pc \in {"run", "poll", "panic"} \/ (~owned_closed /\ pc \notin {"end", "flush"}) => exited' = <<>>
      <3>1. pc # "poll"
        BY <1>1 DEF Control
      <3> QED BY <1>1, <1>5, <3>1 DEF Said
    <2>3. ~unhandled_panic =>
            \A u \in Task :
              /\ state'[u] = "complete" => told[u] \in {"fresh", "gone"} \/ u \in Range(exited')
              /\ told[u] = "polling" => cur = u /\ pc \in {"run", "poll", "end"}
              /\ told[u] = "ready" => cur = u /\ pc = "flush"
      BY <1>1, <1>3, <1>4, <1>5 DEF Said
    <2> QED BY <1>2, <1>5, <2>1, <2>2, <2>3 DEF Said
  <1>10. Drained'
    BY <1>1, <1>2, <1>5 DEF Drained
  <1>11. Holds'
    BY DEF Holds
  <1> QED BY <1>6, <1>8, <1>9, <1>10, <1>11 DEF LoopIInv

LEMMA SpawnSteps ==
  ASSUME LoopIInv, NEW t \in Task, LocalSpawn(t) \/ \E r \in Remote : RemoteSpawn(r, t)
  PROVE  LoopIInv'
  <1>1. TypeOK' /\ state[t] = "none"
    BY UserTypes, RemoteTypes DEF LoopIInv, Control, LocalSpawn, RemoteSpawn
  <1>2. UNCHANGED <<owned_closed, injectVars, loopVars, unhandled_panic>>
    BY DEF LocalSpawn, RemoteSpawn, coreVars
  <1>3. CASE owned_closed
    <2>1. \/ InUserCode /\ Complete(t)
          \/ state' = [state EXCEPT ![t] = "complete"] /\ UNCHANGED <<owned, exited>>
      BY <1>3 DEF LocalSpawn, RemoteSpawn, coreVars
    <2>2. UNCHANGED <<notified, queueVars, remoteVars>>
      BY <1>3 DEF LocalSpawn, RemoteSpawn
    <2> QED BY <1>1, <1>2, <1>3, <2>1, <2>2, SpawnClosed
  <1>4. CASE ~owned_closed
    <2>1. /\ state' = [state EXCEPT ![t] = "idle"] /\ notified' = [notified EXCEPT ![t] = TRUE]
          /\ owned' = owned \cup {t} /\ exited' = exited
      BY <1>4 DEF LocalSpawn, RemoteSpawn, coreVars
    <2>2. \/ PushTask(t) /\ UNCHANGED remoteVars
          \/ UNCHANGED queueVars /\ \E r \in Remote : rpc[r] = "idle" /\ Submit(r, t)
      BY <1>4 DEF LocalSpawn, RemoteSpawn
    <2> QED BY <1>1, <1>2, <1>4, <2>1, <2>2, SpawnOpen
  <1> QED BY <1>3, <1>4

-----------------------------------------------------------------------------
(***************************************************************************)
(* The poll of a task                                                      *)
(***************************************************************************)

\* Task t leaves its queue and is about to be polled.
LEMMA StartInv ==
  ASSUME LoopIInv, NEW t \in Task, StartPoll(t), TypeOK',
         t \in tasks \/ Injected(t),
         \A u \in Task : u # t => (u \in tasks' <=> u \in tasks) /\ (Injected(u)' <=> Injected(u)),
         t \notin tasks', ~Injected(t)',
         IsInjective(inject')
  PROVE  LoopIInv'
  <1>1. Control /\ Lives /\ Said /\ Drained /\ Holds /\ TypeOK
    BY DEF LoopIInv, Control
  <1>2. /\ pc = "loop" /\ left > 0 /\ ~unhandled_panic /\ ~owned_closed /\ cur = NoTask
        /\ pc' = "run" /\ cur' = t /\ t # NoTask
    BY <1>1, CurrentThreadAssumption DEF StartPoll, CanPick, Control, Closing, Polling
  <1>3. UNCHANGED <<state, notified, owned, owned_closed, inject_closed, left, exited, unhandled_panic, rpc, held>>
    BY DEF StartPoll, taskVars, ownedVars, coreVars, remoteVars
  <1>4. \A u \in Task : told'[u] = IF u = t THEN "polling" ELSE told[u]
    BY <1>1 DEF StartPoll, TypeOK
  <1>5. HeldRight(t) /\ state[t] = "idle" /\ notified[t] /\ ~InHand(t)
    BY <1>1, <1>2 DEF Holds, HeldRight
  <1>6. Control'
    BY <1>1, <1>2, <1>3 DEF Control, Polling, Closing
  <1>7. Lives'
    <2>1. \A u \in owned' : Live(u)'
      BY <1>1, <1>3 DEF Lives, Live
    <2>2. \A u \in Task : (Live(u)' => u \in owned') /\ state'[u] # "running"
      BY <1>1, <1>2, <1>3, CurrentThreadAssumption DEF Lives, Live
    <2> QED BY <1>2, <2>1, <2>2 DEF Lives, Closing
  <1>8. Said'
    <2>1. exited' = <<>> /\ Range(exited') = {} /\ IsInjective(exited')
      <3>1. exited = <<>>
        BY <1>1, <1>2 DEF Said
      <3> QED BY <1>1, <1>3, <3>1 DEF Range, Said
    <2>2. \A u \in Task : /\ state[u] = "none" => told'[u] = "fresh"
                          /\ told'[u] = "gone" => state[u] = "complete"
      BY <1>1, <1>4, <1>5 DEF Said
    <2>3. \A u \in Task : /\ state[u] = "complete" => told'[u] \in {"fresh", "gone"}
                          /\ told'[u] = "polling" => u = t
                          /\ told'[u] # "ready"
      <3>1. exited = <<>> /\ Range(exited) = {}
        BY <1>3, <2>1
      <3> QED BY <1>1, <1>2, <1>4, <1>5, <3>1 DEF Said
    <2> QED BY <1>2, <1>3, <1>4, <2>1, <2>2, <2>3 DEF Said
  <1>9. Drained'
    BY <1>2 DEF Drained
  <1>10. Holds'
    <2>1. \A u \in Task : (InHand(u)' <=> InHand(u)) /\ ~Picked(u) /\ (Picked(u)' <=> u = t)
      BY <1>2, <1>3 DEF InHand, Picked
    <2>2. HeldRight(t)'
      BY <1>3, <1>5, <2>1 DEF HeldRight
    <2>3. \A r, q \in Remote : held'[r] = held'[q] /\ held'[r] # NoTask => r = q
      BY <1>1, <1>2, <1>3 DEF Holds
    <2> QED BY <1>1, <1>3, <2>1, <2>2, <2>3, OneTaskHeld
  <1> QED BY <1>6, <1>7, <1>8, <1>9, <1>10 DEF LoopIInv

LEMMA StartSteps ==
  ASSUME LoopIInv, (\E t \in Task : NextLocal(t)) \/ NextRemote
  PROVE  LoopIInv'
  <1>1. Control /\ Holds /\ TypeOK /\ TypeOK'
    BY PollTypes DEF LoopIInv, Control
  <1>2. ASSUME NEW t \in Task, StartPoll(t)
        PROVE  IsInjective(inject) /\ HeldRight(t)
    <2>1. ~owned_closed
      BY <1>1, <1>2 DEF StartPoll, CanPick, Control, Closing
    <2> QED BY <1>1, <2>1 DEF Holds
  <1>3. ASSUME NEW t \in Task, NextLocal(t) PROVE LoopIInv'
    <2>1. StartPoll(t) /\ t \in tasks /\ tasks' = tasks \ {t} /\ inject' = inject
      BY <1>3 DEF NextLocal
    <2>2. IsInjective(inject) /\ ~Injected(t)
      BY <1>2, <2>1 DEF HeldRight
    <2>3. \A u \in Task : Injected(u)' <=> Injected(u)
      BY <2>1 DEF Injected
    <2> QED BY <1>1, <2>1, <2>2, <2>3, StartInv
  <1>4. CASE NextRemote
    <2>1. PICK t \in Task : t = Head(inject)
      BY <1>1, <1>4 DEF NextRemote, TypeOK
    <2>2. StartPoll(t) /\ tasks' = tasks /\ inject # <<>> /\ inject' = Tail(inject)
      BY <1>4, <2>1 DEF NextRemote
    <2>3. IsInjective(inject) /\ HeldRight(t)
      BY <1>2, <2>2
    <2>4. /\ Head(inject) \in Range(inject) /\ IsInjective(inject')
          /\ Range(inject') = Range(inject) \ {Head(inject)}
      BY <1>1, <2>2, <2>3, TailFacts DEF TypeOK
    <2>5. Injected(t) /\ t \notin tasks
      BY <2>1, <2>3, <2>4 DEF Injected, HeldRight
    <2>6. \A u \in Task : Injected(u)' <=> Injected(u) /\ u # t
      BY <2>1, <2>4 DEF Injected
    <2> QED BY <1>1, <2>2, <2>4, <2>5, <2>6, StartInv
  <1> QED BY <1>3, <1>4

\* The task that is polled is complete: it was cancelled, ready or panicked.
LEMMA PollCompletes ==
  ASSUME LoopIInv, TypeOK', pc \in {"run", "poll", "panic"}, pc' = "end", Complete(cur),
         notified' = notified \/ notified' = [notified EXCEPT ![cur] = FALSE],
         UNCHANGED <<owned_closed, queueVars, injectVars, cur, left, unhandled_panic, remoteVars>>
  PROVE  LoopIInv'
  <1>1. Control /\ Lives /\ Said /\ Drained /\ Holds /\ TypeOK
    BY DEF LoopIInv, Control
  <1>2. UNCHANGED <<tasks, told, inject, inject_closed, rpc, held>>
    BY DEF queueVars, injectVars, remoteVars
  <1>3. PICK t \in Task : t = cur /\ t = cur'
    BY <1>1 DEF Control, TypeOK, Polling
  <1>4. exited = <<>> /\ told[t] = "polling" /\ Range(exited) = {} /\ pc \notin Closing
    BY <1>1, <1>3 DEF Said, Range, Closing
  <1>5. state[t] # "complete"
    <2>1. CASE pc = "run"
      <3>1. ~owned_closed /\ Picked(t)
        BY <1>1, <1>3, <2>1 DEF Control, Picked
      <3> QED BY <1>1, <3>1 DEF Holds, HeldRight
    <2>2. CASE pc # "run"
      BY <1>1, <1>3, <2>2 DEF Lives
    <2> QED BY <2>1, <2>2
  <1>6. /\ Range(exited') = {t} /\ IsInjective(exited')
        /\ \A u \in Task : state'[u] = IF u = t THEN "complete" ELSE state[u]
        /\ \A u \in Task : u \in owned' <=> u \in owned /\ u # t
    BY <1>1, <1>3, <1>4, <1>5, CompleteNotes
  <1>7. Control'
    BY <1>1, <1>2, <1>4 DEF Control, Polling, Closing
  <1>8. Lives'
    <2>1. \A u \in owned' : Live(u)'
      <3> TAKE u \in owned'
      <3>1. u \in Task
        BY DEF TypeOK
      <3> QED BY <1>1, <1>6, <3>1 DEF Lives, Live
    <2>2. ~unhandled_panic' => \A u \in Task : (Live(u)' => u \in owned') /\ state'[u] # "running"
      BY <1>1, <1>3, <1>4, <1>6 DEF Lives, Live, Closing
    <2> QED BY <2>1, <2>2 DEF Lives, Closing
  <1>9. Said'
    <2>1. \A u \in Task : /\ state'[u] = "none" => told[u] = "fresh"
                          /\ told[u] = "gone" => state'[u] = "complete"
      BY <1>1, <1>6 DEF Said
    <2>2. ~unhandled_panic =>
            \A u \in Task : /\ state'[u] = "complete" => told[u] \in {"fresh", "gone"} \/ u = t
                            /\ told[u] = "polling" => u = t
                            /\ told[u] # "ready"
      BY <1>1, <1>3, <1>4, <1>6 DEF Said
    <2> QED BY <1>2, <1>3, <1>4, <1>6, <2>1, <2>2 DEF Said
  <1>10. Drained'
    BY DEF Drained
  <1>11. Holds'
    <2> SUFFICES ASSUME ~owned_closed PROVE Holds'
      BY DEF Holds
    <2>1. HeldRight(t) /\ \A r, q \in Remote : held'[r] = held'[q] /\ held'[r] # NoTask => r = q
      BY <1>1, <1>2 DEF Holds
    <2>2. \A u \in Task : (Injected(u)' <=> Injected(u)) /\ (InHand(u)' <=> InHand(u)) /\ ~Picked(u)'
      BY <1>2 DEF Injected, InHand, Picked
    <2>3. Picked(t) \/ state[t] = "running"
      BY <1>1, <1>3 DEF Picked, Lives
    <2>4. HeldRight(t)'
      BY <1>2, <1>6, <2>1, <2>2, <2>3 DEF HeldRight
    <2>5. \A u \in Task : u # t => ~Picked(u) /\ notified'[u] = notified[u]
      BY <1>1, <1>3 DEF Picked, TypeOK
    <2> QED BY <1>1, <1>2, <1>6, <2>1, <2>2, <2>4, <2>5, OneTaskHeld
  <1> QED BY <1>7, <1>8, <1>9, <1>10, <1>11 DEF LoopIInv

\* The task is polled, or its poll ends and it is idle again.
LEMMA PollGoesOn ==
  ASSUME LoopIInv, TypeOK', NEW t \in Task, t = cur, cur' = cur,
         \/ /\ pc = "run" /\ pc' = "poll" /\ notified' = [notified EXCEPT ![t] = FALSE]
            /\ state' = [state EXCEPT ![t] = "running"] /\ UNCHANGED queueVars
         \/ /\ pc = "poll" /\ pc' = "end" /\ notified' = notified
            /\ state' = [state EXCEPT ![t] = "idle"]
            /\ IF notified[t] THEN PushTask(t) ELSE UNCHANGED queueVars,
         UNCHANGED <<ownedVars, injectVars, left, exited, unhandled_panic, remoteVars>>
  PROVE  LoopIInv'
  <1>1. Control /\ Lives /\ Said /\ Drained /\ Holds /\ TypeOK
    BY DEF LoopIInv, Control
  <1>2. UNCHANGED <<owned, owned_closed, inject, inject_closed, rpc, held>>
    BY DEF ownedVars, injectVars, remoteVars
  <1>3. /\ exited = <<>> /\ Range(exited) = {} /\ told[t] = "polling"
        /\ ~owned_closed /\ ~unhandled_panic /\ pc \notin Closing
    BY <1>1 DEF Control, Said, Range, Closing
  <1>4. told' = told
    BY <1>1, <1>3 DEF PushTask, queueVars, TypeOK
  <1>5. HeldRight(t) /\ \A u \in Task : Picked(u) <=> u = t /\ pc = "run"
    BY <1>1, <1>3 DEF Holds, Picked
  <1>6. Live(t) /\ t \in owned
    <2>1. Live(t)
      BY <1>1, <1>5 DEF HeldRight, Lives, Live
    <2> QED BY <1>1, <1>3, <2>1 DEF Lives, Closing
  <1>7. \A u \in Task : u # t => state'[u] = state[u] /\ notified'[u] = notified[u] /\ state[u] # "running"
    BY <1>1, <1>3 DEF TypeOK, Lives
  <1>8. state'[t] = (IF pc = "run" THEN "running" ELSE "idle")
    BY <1>1 DEF TypeOK
  <1>9. Control'
    BY <1>1, <1>2, <1>3 DEF Control, Polling, Closing
  <1>10. Lives'
    <2>1. \A u \in owned' : Live(u)'
      <3> TAKE u \in owned'
      <3>1. u \in Task
        BY DEF TypeOK
      <3> QED BY <1>1, <1>2, <1>7, <1>8, <3>1 DEF Lives, Live
    <2>2. \A u \in Task : (Live(u)' => u \in owned') /\ (state'[u] = "running" => u = t /\ pc' = "poll")
      BY <1>1, <1>2, <1>3, <1>6, <1>7, <1>8 DEF Lives, Live, Closing
    <2>3. pc' \notin Closing /\ (pc' = "poll" => state'[t] = "running") /\ pc' # "panic"
      BY <1>8 DEF Closing
    <2> QED BY <2>1, <2>2, <2>3 DEF Lives, Closing
  <1>11. Said'
    <2>1. \A u \in Task : /\ state'[u] = "none" => told[u] = "fresh"
                          /\ told[u] = "gone" => state'[u] = "complete"
                          /\ state'[u] = "complete" => told[u] \in {"fresh", "gone"}
                          /\ told[u] = "polling" => u = t
                          /\ told[u] # "ready"
      BY <1>1, <1>3, <1>7, <1>8 DEF Said
    <2>2. pc' \in {"poll", "end"}
      OBVIOUS
    <2>3. IsInjective(exited)
      BY <1>1 DEF Said
    <2> QED BY <1>3, <1>4, <2>1, <2>2, <2>3 DEF Said
  <1>12. Drained'
    BY DEF Drained
  <1>13. Holds'
    <2>1. \A u \in Task : (Injected(u)' <=> Injected(u)) /\ (InHand(u)' <=> InHand(u)) /\ ~Picked(u)'
      BY <1>2 DEF Injected, InHand, Picked
    <2>2. \A r, q \in Remote : held'[r] = held'[q] /\ held'[r] # NoTask => r = q
      BY <1>1, <1>2, <1>3 DEF Holds
    <2>3. \A u \in Task : u # t => (u \in tasks' <=> u \in tasks)
      BY DEF PushTask, queueVars
    <2>4. HeldRight(t)'
      <3>1. CASE pc = "run"
        BY <1>5, <1>8, <2>1, <3>1 DEF HeldRight, queueVars
      <3>2. CASE pc = "poll"
        <4>1. state[t] = "running" /\ t \notin tasks /\ ~Injected(t) /\ ~InHand(t)
          BY <1>1, <1>5, <3>2 DEF Lives, HeldRight
        <4>2. notified'[t] = notified[t] /\ (t \in tasks' <=> notified[t])
          BY <3>2, <4>1 DEF PushTask, queueVars
        <4> QED BY <1>8, <2>1, <3>2, <4>1, <4>2 DEF HeldRight
      <3> QED BY <3>1, <3>2
    <2> QED BY <1>1, <1>2, <1>5, <1>7, <2>1, <2>2, <2>3, <2>4, OneTaskHeld
  <1> QED BY <1>9, <1>10, <1>11, <1>12, <1>13 DEF LoopIInv

LEMMA PollSteps ==
  ASSUME LoopIInv, Run \/ (\E y \in BOOLEAN : PollPending(y)) \/ PollReady \/ PanicDone
  PROVE  LoopIInv'
  <1>1. Control /\ Holds /\ TypeOK /\ TypeOK'
    BY PollTypes DEF LoopIInv, Control
  <1>2. PICK t \in Task : t = cur
    BY <1>1 DEF Run, PollPending, PollReady, PanicDone, Goto, Control, TypeOK, Polling
  <1>3. CASE Run
    <2>1. state[t] # "complete"
      <3>1. ~owned_closed /\ Picked(t)
        BY <1>1, <1>2, <1>3 DEF Run, Control, Picked
      <3> QED BY <1>1, <3>1 DEF Holds, HeldRight
    <2>2. pc = "run" /\ UNCHANGED <<owned_closed, queueVars, injectVars, cur, left, unhandled_panic, remoteVars>>
      BY <1>3 DEF Run
    <2>3. CASE cancelled[cur]
      <3>1. Complete(cur) /\ pc' = "end" /\ notified' = [notified EXCEPT ![cur] = FALSE]
        BY <1>2, <1>3, <2>1, <2>3 DEF Run
      <3> QED BY <1>1, <2>2, <3>1, PollCompletes
    <2>4. CASE ~cancelled[cur]
      <3>1. /\ pc' = "poll" /\ notified' = [notified EXCEPT ![t] = FALSE]
            /\ state' = [state EXCEPT ![t] = "running"] /\ UNCHANGED <<owned, exited>>
        BY <1>2, <1>3, <2>1, <2>4 DEF Run
      <3> QED BY <1>1, <1>2, <2>2, <3>1, PollGoesOn DEF ownedVars
    <2> QED BY <2>3, <2>4
  <1>4. ASSUME NEW y \in BOOLEAN, PollPending(y) PROVE LoopIInv'
    <2>1. /\ pc = "poll" /\ pc' = "end"
          /\ UNCHANGED <<notified, owned_closed, injectVars, cur, left, unhandled_panic, remoteVars>>
      BY <1>4 DEF PollPending, Goto
    <2>2. CASE cancelled[cur]
      <3>1. Complete(cur) /\ UNCHANGED queueVars
        BY <1>4, <2>2 DEF PollPending
      <3> QED BY <1>1, <2>1, <3>1, PollCompletes
    <2>3. CASE ~cancelled[cur]
      <3>1. /\ state' = [state EXCEPT ![t] = "idle"] /\ UNCHANGED <<owned, exited>>
            /\ IF notified[t] THEN PushTask(t) ELSE UNCHANGED queueVars
        BY <1>2, <1>4, <2>3 DEF PollPending
      <3> QED BY <1>1, <1>2, <2>1, <3>1, PollGoesOn DEF ownedVars
    <2> QED BY <2>2, <2>3
  <1>5. CASE PollReady \/ PanicDone
    <2>1. /\ pc \in {"poll", "panic"} /\ pc' = "end" /\ Complete(cur)
          /\ UNCHANGED <<notified, owned_closed, queueVars, injectVars, cur, left, unhandled_panic, remoteVars>>
      BY <1>5 DEF PollReady, PanicDone, Goto
    <2> QED BY <1>1, <2>1, PollCompletes
  <1> QED BY <1>3, <1>4, <1>5

\* A panic of the polled task closes the runtime and shuts the tasks down.
LEMMA PanicSteps ==
  ASSUME LoopIInv, PollPanic \/ PanicSelf \/ (\E t \in Task : PanicOther(t))
  PROVE  LoopIInv'
  <1>1. Control /\ Lives /\ Said /\ Drained /\ TypeOK /\ TypeOK'
    BY PollTypes DEF LoopIInv, Control
  <1>2. UNCHANGED <<tasks, told, inject, inject_closed, left, exited, rpc, held>>
    BY DEF PollPanic, PanicSelf, PanicOther, queueVars, injectVars, loopVars, coreVars, remoteVars
  <1>3. /\ pc \in {"poll", "panic"} /\ cur \in Task /\ owned_closed' /\ unhandled_panic'
        /\ exited = <<>> /\ state[cur] = "running"
    BY <1>1 DEF PollPanic, PanicSelf, PanicOther, Goto, Control, Polling, TypeOK, ownedVars,
           loopVars, coreVars, Said, Lives
  <1>4. Holds'
    BY <1>3 DEF Holds
  <1>5. CASE PollPanic \/ PanicSelf
    <2>1. /\ pc' = "panic" /\ cur' = cur /\ state' = state
          /\ owned' \subseteq owned
      BY <1>5 DEF PollPanic, PanicSelf, Goto, loopVars, taskVars
    <2>2. Control'
      BY <1>1, <1>2, <1>3, <2>1 DEF Control, Polling, Closing
    <2>3. Lives'
      BY <1>1, <1>3, <2>1 DEF Lives, Live, Closing
    <2>4. Said'
      BY <1>1, <1>2, <1>3, <2>1 DEF Said
    <2>5. Drained'
      BY <2>1 DEF Drained
    <2> QED BY <1>4, <2>2, <2>3, <2>4, <2>5 DEF LoopIInv
  <1>6. ASSUME NEW t \in Task, PanicOther(t) PROVE LoopIInv'
    <2>1. /\ pc' = "off" /\ cur' = NoTask /\ t \in owned
          /\ \A u \in Task : state'[u] = IF u = t THEN "complete" ELSE state[u]
          /\ owned' = owned \ {t}
      BY <1>1, <1>6 DEF PanicOther, Goto, TypeOK
    <2>2. Control'
      BY <1>1, <1>2, <1>3, <2>1 DEF Control, Polling, Closing
    <2>3. Lives'
      <3>1. \A u \in owned' : Live(u)'
        <4> TAKE u \in owned'
        <4>1. u \in Task /\ u \in owned /\ u # t
          BY <1>1, <2>1 DEF TypeOK
        <4> QED BY <1>1, <2>1, <4>1 DEF Lives, Live
      <3> QED BY <1>3, <2>1, <3>1 DEF Lives, Closing
    <2>4. Said'
      <3>1. \A u \in Task : /\ state'[u] = "none" => told[u] = "fresh"
                            /\ told[u] = "gone" => state'[u] = "complete"
        BY <1>1, <2>1 DEF Said
      <3>2. exited' = <<>> /\ Range(exited') = {} /\ IsInjective(exited')
        BY <1>1, <1>2, <1>3 DEF Said, Range
      <3> QED BY <1>2, <1>3, <2>1, <3>1, <3>2 DEF Said
    <2>5. Drained'
      BY <2>1 DEF Drained
    <2> QED BY <1>4, <2>2, <2>3, <2>4, <2>5 DEF LoopIInv
  <1> QED BY <1>5, <1>6

\* The run queue is told of the end of the poll, then of the exits.
LEMMA EndSteps ==
  ASSUME LoopIInv, EndPoll \/ Flush
  PROVE  LoopIInv'
  <1>1. Control /\ Lives /\ Said /\ Drained /\ Holds /\ TypeOK /\ TypeOK'
    BY PollTypes DEF LoopIInv, Control
  <1>2. UNCHANGED <<state, notified, owned, owned_closed, tasks, inject, inject_closed, unhandled_panic, rpc, held>>
    BY DEF EndPoll, Flush, taskVars, ownedVars, injectVars, coreVars, remoteVars
  <1>3. PICK t \in Task : t = cur
    BY <1>1 DEF EndPoll, Flush, Goto, Control, TypeOK, Polling
  <1>4. /\ pc \in {"end", "flush"} /\ Range(exited) \subseteq {t}
        /\ cur' \in {cur, NoTask} /\ pc' \in {"flush", "loop"} /\ (pc' = "flush" <=> cur' = cur)
        /\ (pc' = "loop" <=> cur' = NoTask) /\ t # NoTask
    BY <1>1, <1>3, CurrentThreadAssumption DEF EndPoll, Flush, Goto, Said
  <1>5. Control'
    BY <1>1, <1>2, <1>3, <1>4 DEF Control, Polling, Closing
  <1>6. Lives'
    <2>1. \A u \in owned' : Live(u)'
      BY <1>1, <1>2 DEF Lives, Live
    <2>2. ~unhandled_panic => \A u \in Task : (Live(u)' => u \in owned') /\ state'[u] # "running"
      BY <1>1, <1>2, <1>4 DEF Lives, Live
    <2> QED BY <1>2, <1>4, <2>1, <2>2 DEF Lives, Closing
  <1>7. Drained'
    BY <1>4 DEF Drained
  <1>8. Holds'
    <2>1. ASSUME NEW u \in Task PROVE HeldRight(u)' <=> HeldRight(u)
      <3>1. (Picked(u)' <=> Picked(u)) /\ (Injected(u)' <=> Injected(u)) /\ (InHand(u)' <=> InHand(u))
        BY <1>2, <1>4 DEF Picked, Injected, InHand
      <3> QED BY <1>2, <3>1 DEF HeldRight
    <2> QED BY <1>1, <1>2, <2>1 DEF Holds
  <1>9. CASE EndPoll
    <2>1. /\ \A u \in Task : told'[u] = IF u # t THEN told[u]
                                        ELSE IF t \in Range(exited) THEN "ready" ELSE "pending"
          /\ exited' = exited /\ pc' = "flush" /\ pc = "end" /\ cur' = t
      BY <1>1, <1>3, <1>9 DEF EndPoll, Goto, TypeOK, coreVars
    <2>2. told[t] = "polling" /\ state[t] # "none"
      BY <1>1, <1>3, <2>1 DEF Said
    <2>3. /\ \A u \in Task : /\ state[u] = "none" => told'[u] = "fresh"
                             /\ told'[u] = "gone" => state[u] = "complete"
          /\ \A u \in Range(exited) : state[u] = "complete" /\ told'[u] # "gone"
      BY <1>1, <1>4, <2>1, <2>2 DEF Said
    <2>4. ~unhandled_panic =>
            \A u \in Task :
              /\ state[u] = "complete" => told'[u] \in {"fresh", "gone"} \/ u \in Range(exited)
              /\ told'[u] # "polling" /\ (told'[u] = "ready" => u = t)
      BY <1>1, <1>3, <2>1, <2>2 DEF Said
    <2>5. told'[t] = "ready" <=> t \in Range(exited)
      BY <2>1
    <2>6. IsInjective(exited)
      BY <1>1 DEF Said
    <2>7. Said'
      BY <1>2, <1>4, <2>1, <2>3, <2>4, <2>5, <2>6 DEF Said
    <2> QED BY <1>5, <1>6, <1>7, <1>8, <2>7 DEF LoopIInv
  <1>10. CASE Flush
    <2>1. /\ \A u \in Task : told'[u] = IF u \in Range(exited) THEN "gone" ELSE told[u]
          /\ exited' = <<>> /\ pc' = "loop" /\ pc = "flush"
      BY <1>10 DEF Flush, FlushExits, Goto
    <2>2. Range(exited') = {} /\ IsInjective(exited')
      BY <2>1 DEF Range, IsInjective
    <2>3. \A u \in Task : /\ state[u] = "none" => told'[u] = "fresh"
                          /\ told'[u] = "gone" => state[u] = "complete"
      BY <1>1, <2>1 DEF Said
    <2>4. ~unhandled_panic =>
            \A u \in Task : /\ state[u] = "complete" => told'[u] \in {"fresh", "gone"}
                            /\ told'[u] # "polling" /\ told'[u] # "ready"
      BY <1>1, <1>3, <2>1 DEF Said
    <2>5. Said'
      BY <1>2, <2>1, <2>2, <2>3, <2>4 DEF Said
    <2> QED BY <1>5, <1>6, <1>7, <1>8, <2>5 DEF LoopIInv
  <1> QED BY <1>9, <1>10

-----------------------------------------------------------------------------
(***************************************************************************)
(* Shutdown                                                                *)
(***************************************************************************)

\* A task is shut down: its future is dropped, then it is complete.
LEMMA CloseTaskInv ==
  ASSUME LoopIInv, (\E t \in Task : CloseTask(t)) \/ ClosedTask
  PROVE  LoopIInv'
  <1>1. Control /\ Lives /\ Said /\ Drained /\ TypeOK /\ TypeOK'
    BY ShutdownTypes DEF LoopIInv, Control
  <1>2. /\ pc = "closing" /\ pc' = "closing" /\ owned_closed
        /\ UNCHANGED <<owned_closed, tasks, told, inject, inject_closed, left, unhandled_panic, rpc, held>>
    BY <1>1 DEF CloseTask, ClosedTask, queueVars, injectVars, coreVars, remoteVars, Control, Closing
  <1>3. Drained' /\ Holds'
    BY <1>2 DEF Drained, Holds
  <1>4. Control'
    BY <1>1, <1>2 DEF Control, Polling, Closing
  <1>5. ASSUME NEW t \in Task, CloseTask(t) PROVE LoopIInv'
    <2>1. /\ cur = NoTask /\ t \in owned /\ exited' = exited
          /\ cur' = IF state[t] = "idle" THEN t ELSE NoTask
          /\ \A u \in Task : state'[u] = IF u = t THEN "running" ELSE state[u]
          /\ \A u \in Task : u \in owned' <=> u \in owned /\ u # t
      BY <1>1, <1>5 DEF CloseTask, TypeOK, coreVars
    <2>2. Live(t) /\ t # NoTask
      BY <1>1, <2>1, CurrentThreadAssumption DEF Lives
    <2>3. Lives'
      <3>1. \A u \in owned' : Live(u)'
        <4> TAKE u \in owned'
        <4>1. u \in Task
          BY <1>1 DEF TypeOK
        <4> QED BY <1>1, <2>1, <4>1 DEF Lives, Live
      <3>2. cur' # NoTask => cur' = t /\ state'[t] = "running"
        BY <2>1
      <3>3. ~unhandled_panic =>
              /\ cur' = t
              /\ \A u \in Task : /\ Live(u)' => u \in owned' \/ u = t
                                 /\ state'[u] = "running" => u = t
        <4>1. ASSUME ~unhandled_panic PROVE state[t] = "idle" /\ \A u \in Task : state[u] # "running"
          BY <1>1, <2>1, <2>2, <4>1, CurrentThreadAssumption DEF Lives, Live
        <4>2. ASSUME ~unhandled_panic, NEW u \in Task, u # t, Live(u) PROVE u \in owned
          BY <1>1, <2>1, <4>2, CurrentThreadAssumption DEF Lives
        <4> QED BY <2>1, <4>1, <4>2 DEF Live
      <3> QED BY <1>2, <3>1, <3>2, <3>3 DEF Lives, Closing
    <2>4. Said'
      <3>1. \A u \in Range(exited) : u \in Task /\ u # t /\ state[u] = "complete" /\ told[u] # "gone"
        BY <1>1, <2>2 DEF TypeOK, Range, Said, Live
      <3>2. \A u \in Task : /\ state'[u] = "none" => told[u] = "fresh"
                            /\ told[u] = "gone" => state'[u] = "complete"
        BY <1>1, <2>1, <2>2 DEF Said, Live
      <3>3. ~unhandled_panic =>
              \A u \in Task :
                /\ state'[u] = "complete" => told[u] \in {"fresh", "gone"} \/ u \in Range(exited)
                /\ told[u] # "polling" /\ told[u] # "ready"
        BY <1>1, <1>2, <2>1 DEF Said
      <3>4. IsInjective(exited)
        BY <1>1 DEF Said
      <3> QED BY <1>2, <2>1, <3>1, <3>2, <3>3, <3>4 DEF Said
    <2> QED BY <1>3, <1>4, <2>3, <2>4 DEF LoopIInv
  <1>6. CASE ClosedTask
    <2>1. PICK t \in Task : t = cur
      BY <1>1, <1>6 DEF ClosedTask, TypeOK
    <2>2. cur' = NoTask /\ Complete(t) /\ state[t] = "running"
      BY <1>1, <1>6, <2>1 DEF ClosedTask, Lives
    <2>3. /\ Range(exited') = Range(exited) \cup {t} /\ IsInjective(exited')
          /\ \A u \in Task : state'[u] = IF u = t THEN "complete" ELSE state[u]
          /\ \A u \in Task : u \in owned' <=> u \in owned /\ u # t
          /\ \A u \in Range(exited') : u \in Task /\ state'[u] = "complete" /\ told[u] # "gone"
      BY <1>1, <2>2, CompleteNotes
    <2>4. Lives'
      <3>1. \A u \in owned' : Live(u)'
        <4> TAKE u \in owned'
        <4>1. u \in Task
          BY <1>1 DEF TypeOK
        <4> QED BY <1>1, <2>3, <4>1 DEF Lives, Live
      <3>2. ~unhandled_panic => \A u \in Task : (Live(u)' => u \in owned') /\ state'[u] # "running"
        BY <1>1, <2>1, <2>3 DEF Lives, Live
      <3> QED BY <1>2, <2>2, <3>1, <3>2 DEF Lives, Closing
    <2>5. Said'
      <3>1. \A u \in Task : /\ state'[u] = "none" => told[u] = "fresh"
                            /\ told[u] = "gone" => state'[u] = "complete"
        BY <1>1, <2>3 DEF Said
      <3>2. ~unhandled_panic =>
              \A u \in Task :
                /\ state'[u] = "complete" => told[u] \in {"fresh", "gone"} \/ u \in Range(exited')
                /\ told[u] # "polling" /\ told[u] # "ready"
        BY <1>1, <1>2, <2>3 DEF Said
      <3> QED BY <1>2, <2>3, <3>1, <3>2 DEF Said
    <2> QED BY <1>3, <1>4, <2>4, <2>5 DEF LoopIInv
  <1> QED BY <1>5, <1>6

\* The steps of shutdown2 around it.
LEMMA CloseSteps ==
  ASSUME LoopIInv, Shutdown \/ CloseDone \/ DrainLocal \/ CloseInject \/ DrainInject
  PROVE  LoopIInv'
  <1>1. Control /\ Lives /\ Said /\ Drained /\ TypeOK /\ TypeOK'
    BY ShutdownTypes DEF LoopIInv, Control
  <1>2. UNCHANGED <<state, notified, owned, cur, left, unhandled_panic, rpc, held>>
    BY DEF Shutdown, CloseDone, DrainLocal, CloseInject, DrainInject, taskVars, ownedVars, coreVars, remoteVars
  <1>3. /\ cur = NoTask /\ pc \in {"off"} \cup (Closing \ {"down"}) /\ pc' \in Closing
        /\ pc' # "closing" => owned = {}
        /\ owned_closed'
    BY <1>1 DEF Shutdown, CloseDone, DrainLocal, CloseInject, DrainInject, Goto, Control, Polling,
           Closing, ownedVars, Lives
  <1>4. Holds'
    BY <1>3 DEF Holds
  <1>5. Control'
    <2>1. pc' \in {"drain_inject", "down"} => inject_closed'
      BY <1>1 DEF Shutdown, CloseDone, DrainLocal, CloseInject, DrainInject, Goto, injectVars, Control
    <2> QED BY <1>1, <1>2, <1>3, <2>1 DEF Control, Polling, Closing
  <1>6. Lives'
    <2>1. \A u \in owned' : Live(u)'
      BY <1>1, <1>2 DEF Lives, Live
    <2>2. ~unhandled_panic => \A u \in Task : (Live(u)' => u \in owned') /\ state'[u] # "running"
      BY <1>1, <1>2, <1>3, CurrentThreadAssumption DEF Lives, Live
    <2> QED BY <1>2, <1>3, <2>1, <2>2 DEF Lives, Closing
  <1>7. CASE DrainLocal
    <2>1. /\ \A u \in Task : told'[u] = IF u \in Range(exited) THEN "gone" ELSE told[u]
          /\ exited' = <<>> /\ tasks' = {} /\ pc' = "close_inject" /\ pc = "exits"
      BY <1>7 DEF DrainLocal, FlushExits, Goto
    <2>2. Range(exited') = {} /\ IsInjective(exited')
      BY <2>1 DEF Range, IsInjective
    <2>3. \A u \in Task : /\ state[u] = "none" => told'[u] = "fresh"
                          /\ told'[u] = "gone" => state[u] = "complete"
      BY <1>1, <2>1 DEF Said
    <2>4. ~unhandled_panic =>
            \A u \in Task : /\ state[u] = "complete" => told'[u] \in {"fresh", "gone"}
                            /\ told'[u] # "polling" /\ told'[u] # "ready"
      BY <1>1, <2>1 DEF Said
    <2>5. Said' /\ Drained'
      BY <1>2, <2>1, <2>2, <2>3, <2>4 DEF Said, Drained
    <2> QED BY <1>4, <1>5, <1>6, <2>5 DEF LoopIInv
  <1>8. CASE ~DrainLocal
    <2>1. UNCHANGED <<told, exited, tasks>>
      BY <1>8 DEF Shutdown, CloseDone, CloseInject, DrainInject, queueVars, coreVars
    <2>2. Said'
      BY <1>1, <1>2, <1>3, <2>1 DEF Said, Closing
    <2>3. Drained'
      BY <1>1, <1>8, <2>1 DEF Drained, Shutdown, CloseDone, CloseInject, DrainInject, Goto
    <2> QED BY <1>4, <1>5, <1>6, <2>2, <2>3 DEF LoopIInv
  <1> QED BY <1>7, <1>8

-----------------------------------------------------------------------------
(***************************************************************************)
(* The theorems                                                            *)
(***************************************************************************)

LEMMA InitInv ==
  ASSUME Init PROVE LoopIInv
  <1>1. TypeOK
    <2>1. 0 \in 0 .. GlobalInterval - 1 /\ 0 \in 0 .. EventInterval
      BY CurrentThreadAssumption
    <2>2. /\ state \in [Task -> {"none", "idle", "running", "complete"}] /\ told \in [Task -> Tellings]
          /\ notified \in [Task -> BOOLEAN] /\ cancelled \in [Task -> BOOLEAN]
      BY DEF Init, Tellings
    <2>3. /\ rpc \in [Remote -> {"idle", "push", "unpark"}]
          /\ held \in [Remote -> Task \cup {NoTask}]
      BY DEF Init
    <2>4. /\ owned_closed \in BOOLEAN /\ inject_closed \in BOOLEAN /\ woken \in BOOLEAN
          /\ unparked \in BOOLEAN /\ unhandled_panic \in BOOLEAN
      BY DEF Init
    <2>5. inject \in Seq(Task) /\ exited \in Seq(Task)
      BY DEF Init
    <2>6. /\ owned \subseteq Task /\ tasks \subseteq Task /\ defer \subseteq Task \cup {Main}
          /\ cur \in Task \cup {NoTask} /\ pc \in PCs
      BY DEF Init, PCs
    <2>7. tick \in 0 .. GlobalInterval - 1 /\ left \in 0 .. EventInterval
      BY <2>1 DEF Init
    <2> QED BY <2>2, <2>3, <2>4, <2>5, <2>6, <2>7 DEF TypeOK
  <1>2. Range(exited) = {} /\ Range(inject) = {} /\ IsInjective(exited) /\ IsInjective(inject)
    BY DEF Init, Range, IsInjective
  <1>3. Control
    BY <1>1 DEF Init, Control, Polling, Closing
  <1>4. Lives
    BY DEF Init, Lives, Live, Closing
  <1>5. Said
    BY <1>2 DEF Init, Said
  <1>6. Drained
    BY DEF Init, Drained
  <1>7. Holds
    BY <1>2, CurrentThreadAssumption DEF Init, Holds, HeldRight, Injected, InHand, Picked
  <1> QED BY <1>3, <1>4, <1>5, <1>6, <1>7 DEF LoopIInv

LEMMA NextInv ==
  ASSUME LoopIInv, [Next]_vars PROVE LoopIInv'
  <1>1. CASE UNCHANGED vars
    <2>1. UNCHANGED <<taskVars, ownedVars, queueVars, injectVars, cur, exited, unhandled_panic, held, pc, left, rpc>>
      BY <1>1 DEF vars, loopVars, coreVars, remoteVars
    <2>2. TypeOK'
      BY <1>1 DEF LoopIInv, Control, TypeOK, vars, taskVars, ownedVars, queueVars, injectVars,
             wakeVars, loopVars, coreVars, remoteVars
    <2> QED BY <2>1, <2>2, QuietInv
  <1>2. CASE LoopStep
    BY <1>2, QuietSteps, WakeSteps, StartSteps, PollSteps, PanicSteps, EndSteps, CloseTaskInv, CloseSteps
       DEF LoopStep
  <1>3. CASE PollEnd
    BY <1>3, QuietSteps, PollSteps, PanicSteps DEF PollEnd
  <1>4. CASE UserCode
    BY <1>4, QuietSteps, WakeSteps, SpawnSteps DEF UserCode
  <1>5. CASE BlockOn \/ Shutdown \/ DriverEvent
    BY <1>5, QuietSteps, CloseSteps
  <1>6. ASSUME NEW r \in Remote, RemoteStep(r) \/ RemoteCall(r) PROVE LoopIInv'
    BY <1>6, QuietSteps, RemotePushInv, RemoteWakeSteps, SpawnSteps DEF RemoteStep, RemoteCall
  <1> QED BY <1>1, <1>2, <1>3, <1>4, <1>5, <1>6 DEF Next

\* The layered invariant holds in every reachable state of the run loop and
\* the threads that call into it.
THEOREM LoopInvariant == Spec => []LoopIInv
  BY InitInv, NextInv, PTL DEF Spec

\* In the counts of the property the invariant's holders are at most one each.
LEMMA CountIsHolders ==
  ASSUME LoopIInv PROVE HeldOnce
  <1> SUFFICES ASSUME ~owned_closed, NEW t \in Task
               PROVE  Count(t) = IF state[t] = "idle" /\ notified[t] THEN 1 ELSE 0
    BY DEF HeldOnce
  <1>1. /\ HeldRight(t) /\ IsInjective(inject) /\ inject \in Seq(Task)
        /\ \A r, q \in Remote : held[r] = held[q] /\ held[r] # NoTask => r = q
    BY DEF LoopIInv, Control, TypeOK, Holds
  <1> DEFINE I == {i \in DOMAIN inject : inject[i] = t}
             H == {r \in Remote : held[r] = t}
  <1>2. Cardinality(I) = IF Injected(t) THEN 1 ELSE 0
    <2>1. (\A x, y \in I : x = y) /\ (I = {} <=> ~Injected(t))
      BY <1>1 DEF IsInjective, Injected, Range
    <2> HIDE DEF I
    <2> QED BY <2>1, AtMostOne
  <1>3. Cardinality(H) = IF InHand(t) THEN 1 ELSE 0
    <2>1. (\A x, y \in H : x = y) /\ (H = {} <=> ~InHand(t))
      BY <1>1, CurrentThreadAssumption DEF InHand
    <2> HIDE DEF H
    <2> QED BY <2>1, AtMostOne
  <1>4. Count(t) = (IF t \in tasks THEN 1 ELSE 0) + Cardinality(I) + Cardinality(H)
                     + (IF Picked(t) THEN 1 ELSE 0)
    BY DEF Count, Picked
  <1> HIDE DEF I, H
  <1> QED BY <1>1, <1>2, <1>3, <1>4 DEF HeldRight

\* A woken task is held exactly once until the runtime is closed, whatever
\* threads wake, abort and spawn (task::State with Handle::schedule).
THEOREM WokenTaskHeldOnce == Spec => []LoopInv
  <1>1. LoopIInv => LoopInv
    BY CountIsHolders DEF LoopInv, LoopIInv, Control
  <1> QED BY <1>1, LoopInvariant, PTL

\* Exits are reported to the run queue for the right tasks, once and in time
\* (Handle::release, Core::end_poll, Core::flush_exits).
THEOREM ExitsReported == Spec => []ExitsExact
  <1>1. ASSUME LoopIInv PROVE ExitsFresh
    <2>1. Said
      BY <1>1 DEF LoopIInv
    <2> QED BY <2>1 DEF Said, ExitsFresh, IsInjective, Range
  <1>2. ASSUME LoopIInv PROVE ExitsTold
    <2>1. Said /\ Control
      BY <1>2 DEF LoopIInv
    <2>2. pc = "loop" /\ ~unhandled_panic => Range(exited) = {}
      BY <2>1 DEF Said, Control, Closing, Range
    <2> QED BY <2>1, <2>2 DEF Said, ExitsTold
  <1> QED BY <1>1, <1>2, LoopInvariant, PTL DEF ExitsExact

\* Shutdown leaves nothing in a queue and no task alive or unreported
\* (CurrentThread::shutdown2).
THEOREM ShutdownIsClean == Spec => []DownClean
  <1>1. ASSUME LoopIInv, pc = "down"
        PROVE  /\ tasks = {} /\ inject = <<>> /\ owned = {} /\ exited = <<>>
               /\ ~unhandled_panic => \A t \in Task : ~Live(t) /\ told[t] \in {"fresh", "gone"}
    <2>1. Control /\ Lives /\ Said /\ Drained /\ TypeOK
      BY <1>1 DEF LoopIInv, Control
    <2>2. tasks = {} /\ inject = <<>> /\ owned = {} /\ exited = <<>> /\ Range(exited) = {}
      BY <1>1, <2>1 DEF Drained, Lives, Closing, Range
    <2>3. ASSUME ~unhandled_panic, NEW t \in Task
          PROVE  ~Live(t) /\ told[t] \in {"fresh", "gone"}
      <3>1. ~Live(t)
        BY <1>1, <2>1, <2>2, <2>3 DEF Lives
      <3>2. state[t] \in {"none", "complete"}
        BY <2>1, <3>1 DEF Live, TypeOK
      <3> QED BY <2>1, <2>2, <2>3, <3>1, <3>2 DEF Said
    <2> QED BY <2>2, <2>3
  <1>2. LoopIInv => DownClean
    BY <1>1 DEF DownClean
  <1> QED BY <1>2, LoopInvariant, PTL

Told == {<<"fresh", "known">>, <<"fresh", "polling">>, <<"known", "polling">>,
         <<"pending", "polling">>, <<"polling", "pending">>, <<"polling", "ready">>,
         <<"ready", "gone">>}

\* The steps that tell the run queue something of a task, and what.
LEMMA Tells ==
  ASSUME LoopIInv, Next, NEW t \in Task, told'[t] # told[t]
  PROVE  <<told[t], told'[t]>> \in Told \/ (pc = "exits" /\ told'[t] = "gone")
  <1>1. Control /\ Lives /\ Said /\ Holds /\ TypeOK
    BY DEF LoopIInv, Control
  <1>2. ASSUME NEW u \in Task, PushTask(u), told[u] # "gone"
        PROVE  <<told[t], told'[t]>> \in Told
    <2>1. told[t] = "fresh" /\ told'[t] = "known"
      BY <1>1, <1>2, PushTaskTells
    <2> QED BY <2>1 DEF Told
  <1>3. ASSUME NEW u \in Task, StartPoll(u), u \in tasks \/ Injected(u)
        PROVE  <<told[t], told'[t]>> \in Told
    <2>1. /\ ~unhandled_panic /\ ~owned_closed /\ pc = "loop"
          /\ t = u /\ told'[t] = "polling" /\ told[t] \in Tellings
      BY <1>1, <1>3 DEF StartPoll, CanPick, Control, Closing, TypeOK
    <2>2. state[t] = "idle"
      BY <1>1, <1>3, <2>1 DEF Holds, HeldRight
    <2>3. told[t] \in {"fresh", "known", "pending"}
      BY <1>1, <2>1, <2>2 DEF Said, Tellings
    <2> QED BY <2>1, <2>3 DEF Told
  <1>4. CASE \E u \in Task : LocalWake(u) \/ LocalAbort(u) \/ DeferWake(u)
    <2>1. PICK u \in Task : Live(u) /\ PushTask(u)
      BY <1>4, CurrentThreadAssumption
         DEF LocalWake, LocalAbort, DeferWake, WakeHere, queueVars
    <2>2. told[u] # "gone"
      BY <1>1, <2>1 DEF Said, Live
    <2> QED BY <1>2, <2>1, <2>2
  <1>5. CASE \E u \in Task : LocalSpawn(u)
    <2>1. PICK u \in Task : state[u] = "none" /\ PushTask(u)
      BY <1>5 DEF LocalSpawn, queueVars
    <2>2. told[u] # "gone"
      BY <1>1, <2>1 DEF Said
    <2> QED BY <1>2, <2>1, <2>2
  <1>6. CASE \E y \in BOOLEAN : PollPending(y)
    <2>1. PushTask(cur) /\ cur \in Task /\ told[cur] # "gone"
      BY <1>1, <1>6 DEF PollPending, Goto, queueVars, Control, Polling, TypeOK, Said
    <2> QED BY <1>2, <2>1
  <1>7. CASE (\E u \in Task : NextLocal(u)) \/ NextRemote
    <2>1. CASE NextRemote
      <3>1. Head(inject) \in Task /\ Injected(Head(inject)) /\ StartPoll(Head(inject))
        BY <1>1, <2>1, TailFacts DEF NextRemote, Injected, TypeOK
      <3> QED BY <1>3, <3>1
    <2>2. CASE \E u \in Task : NextLocal(u)
      BY <1>3, <2>2 DEF NextLocal
    <2> QED BY <1>7, <2>1, <2>2
  <1>8. CASE EndPoll
    <2>1. t = cur /\ told[t] = "polling" /\ told'[t] \in {"ready", "pending"}
      BY <1>1, <1>8 DEF EndPoll, Goto, TypeOK, Said
    <2> QED BY <2>1 DEF Told
  <1>9. CASE Flush
    <2>1. t = cur /\ told[t] = "ready" /\ told'[t] = "gone"
      BY <1>1, <1>9 DEF Flush, FlushExits, Goto, Said
    <2> QED BY <2>1 DEF Told
  <1>10. CASE DrainLocal
    BY <1>10 DEF DrainLocal, FlushExits, Goto
  <1>11. CASE DeferWake(Main)
    BY <1>11, CurrentThreadAssumption DEF DeferWake, queueVars
  <1>12. ASSUME \/ BlockOn \/ Outer \/ MainPending \/ MainReady \/ Unhandled \/ NextNone \/ LoopEnd
                \/ Park \/ Unparked \/ DriverEvent \/ ParkYield \/ EventsDone \/ DeferDone
                \/ MainYield \/ LocalWakeMain \/ Run \/ PollReady \/ PollPanic \/ PanicSelf
                \/ (\E u \in Task : PanicOther(u)) \/ PanicDone
                \/ Shutdown \/ (\E u \in Task : CloseTask(u)) \/ ClosedTask \/ CloseDone
                \/ CloseInject \/ DrainInject
         PROVE  told' = told
    BY <1>12 DEF BlockOn, Outer, MainPending, MainReady, Unhandled, NextNone, LoopEnd, Park, Unparked,
           DriverEvent, ParkYield, EventsDone, DeferDone, MainYield, LocalWakeMain, Run, PollReady,
           PollPanic, PanicSelf, PanicOther, PanicDone, Shutdown, CloseTask, ClosedTask, CloseDone,
           CloseInject, DrainInject, queueVars
  <1>13. ASSUME NEW r \in Remote, RemoteStep(r) \/ RemoteCall(r) PROVE told' = told
    BY <1>13 DEF RemoteStep, RemoteCall, RemotePush, RemoteUnpark, RemoteWake, RemoteAbort,
           RemoteSpawn, RemoteWakeMain, queueVars
  <1>14. CASE LoopStep
    BY <1>4, <1>7, <1>8, <1>9, <1>10, <1>11, <1>12, <1>14 DEF LoopStep
  <1>15. CASE PollEnd
    BY <1>6, <1>12, <1>15 DEF PollEnd
  <1>16. CASE UserCode
    BY <1>4, <1>5, <1>12, <1>16 DEF UserCode
  <1> QED BY <1>12, <1>13, <1>14, <1>15, <1>16 DEF Next

\* on_poll_start, on_poll_end and on_task_exit reach the run queue in the
\* order RunQueue documents, for every interleaving of wakes, aborts, spawns,
\* polls, panics and shutdown (Core::push_task, next_task, end_poll,
\* flush_exits).
THEOREM CallbacksInOrder == Spec => CallbackOrder
  <1> DEFINE Ordered == \A t \in Task : told'[t] # told[t] =>
                          <<told[t], told'[t]>> \in
                            Told \cup (IF pc = "exits" THEN Tellings \X {"gone"} ELSE {})
  <1>1. ASSUME LoopIInv, Next PROVE Ordered
    <2>1. \A t \in Task : told[t] \in Tellings
      BY <1>1 DEF LoopIInv, Control, TypeOK
    <2> QED BY <1>1, <2>1, Tells
  <1>2. ASSUME UNCHANGED vars PROVE Ordered
    BY <1>2 DEF vars, queueVars
  <1>3. LoopIInv /\ [Next]_vars => [Ordered]_vars
    BY <1>1, <1>2
  <1>4. Spec => [][Ordered]_vars
    BY <1>3, LoopInvariant, PTL DEF Spec
  <1> QED BY <1>4 DEF CallbackOrder, Told
=============================================================================
