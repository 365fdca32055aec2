--------------------------- MODULE SchedMtProofs ---------------------------
(***************************************************************************)
(* For every number of workers, outside threads and tasks: the packed idle *)
(* counters are exact, a worker taken out of the sleepers is woken, and a  *)
(* task has one holder.                                                    *)
(*                                                                         *)
(* The invariant has four layers, proved one after the other.  Control     *)
(* says where a thread can be and what it holds there; Counted, Called and *)
(* Held say of the idle counters, of the unparks and of the tasks what     *)
(* makes the property of each inductive.  The runtime may be shut down in  *)
(* the middle of all this, so Counted says more than the property: what    *)
(* the counters still promise once closed is set.                          *)
(***************************************************************************)
EXTENDS SchedMt, SeqLemmas, FiniteSetTheorems

\* Where thread p is when a call of notify_parked is part of the place it was
\* made from.
Place(p) == IF pc[p] \in {"notify", "unpark"} THEN ret[p] ELSE pc[p]

Types ==
  /\ task \in [Task -> {"idle", "queued", "running", "done"}]
  /\ notified \in [Task -> BOOLEAN]
  /\ main \subseteq Task \ InfraTask
  /\ infra \in Seq(InfraTask)
  /\ sleepers \subseteq Worker
  /\ pc \in [Thread -> PCs] /\ ret \in [Thread -> PCs]
  /\ target \in [Thread -> Worker \cup {NoWorker}]
  /\ is_searching \in [Worker -> BOOLEAN]
  /\ is_shutdown \in [Worker -> BOOLEAN]
  /\ tick \in [Worker -> 0 .. EventInterval - 1]
  /\ cur \in [Worker -> Task \cup {NoTask}]
  /\ defer \in [Worker -> SUBSET Task]
  /\ token \in [Worker -> BOOLEAN]
  /\ driver \in Worker \cup {NoWorker}
  /\ closed \in BOOLEAN /\ owned_closed \in BOOLEAN

\* Where a thread goes back to from the calls that remember it.
Returns ==
  /\ \A p \in Thread : pc[p] = "unpark" <=> target[p] # NoWorker
  /\ \A r \in Remote : /\ pc[r] \in {"idle", "notify", "unpark", "notify_all"}
                       /\ pc[r] \in {"notify", "unpark"} => ret[r] = "idle"
  /\ \A w \in Worker : /\ pc[w] \notin {"idle", "notify_all"}
                       /\ pc[w] \in {"notify", "unpark"} => ret[w] \in {"top", "poll", "parking"}
                       /\ pc[w] \in {"park0", "events0", "wake_defer"} => ret[w] \in {"top", "pop_infra"}

\* A worker has a task exactly from the pop to the end of the poll, does not
\* search while it is parked, and knows of a shutdown only after close.
Cores ==
  \A w \in Worker :
    /\ cur[w] # NoTask <=> Place(w) \in {"found", "poll"}
    /\ is_searching[w] => Place(w) \notin InPark
    /\ is_shutdown[w] => closed

Control == Types /\ Returns /\ Cores

\* The idle counters.  The first is exact also during shutdown; the second
\* may then count a worker that has left.
Counted ==
  /\ num_unparked \in Nat /\ num_unparked + Cardinality(sleepers) = Cardinality(Worker)
  /\ num_searching \in Nat /\ num_searching >= Cardinality(Searchers)
  /\ ~closed => num_searching = Cardinality(Searchers)
  /\ \A w \in sleepers :
       Place(w) \in InPark \/ (is_shutdown[w] /\ pc[w] \in {"top", "shutdown", "done"})

\* A worker that goes to sleep is here until its Parker lets it go on.
Sleepy == {"final_main", "final_infra", "parking", "on_driver", "on_condvar"}

\* A parking worker that a notifier took out is going to be unparked.
Called ==
  \A w \in Worker :
    Place(w) \in Sleepy /\ w \notin sleepers => token[w] \/ \E p \in Thread : target[p] = w

\* A task is in one queue, once, or with one worker; an idle one is nowhere
\* and one that is to be polled is somewhere.
Held ==
  /\ IsInjective(infra)
  /\ \A w, v \in Worker : w # v /\ cur[w] # NoTask => cur[w] # cur[v]
  /\ \A w \in Worker : cur[w] \notin main /\ cur[w] \notin Range(infra)
  /\ \A t \in Task :
       IF task[t] = "idle"
       THEN t \notin main /\ t \notin Range(infra) /\ \A w \in Worker : cur[w] # t
       ELSE task[t] # "done" => t \in main \/ t \in Range(infra) \/ \E w \in Worker : cur[w] = t

SchedIInv == Control /\ Counted /\ Called /\ Held

-----------------------------------------------------------------------------
(***************************************************************************)
(* A step of one thread that leaves the sleepers and the counters alone    *)
(***************************************************************************)

\* What the threads other than p are.
OthersSame(p) ==
  /\ \A q \in Thread : q # p => pc'[q] = pc[q] /\ ret'[q] = ret[q]
  /\ \A v \in Worker : v # p => cur'[v] = cur[v]

\* What must hold of thread p itself after its step (Returns and Cores).
PlacedRight(p) ==
  /\ pc'[p] = "unpark" <=> target'[p] # NoWorker
  /\ p \in Remote => /\ pc'[p] \in {"idle", "notify", "unpark", "notify_all"}
                     /\ pc'[p] \in {"notify", "unpark"} => ret'[p] = "idle"
  /\ p \in Worker =>
       /\ pc'[p] \notin {"idle", "notify_all"}
       /\ pc'[p] \in {"notify", "unpark"} => ret'[p] \in {"top", "poll", "parking"}
       /\ pc'[p] \in {"park0", "events0", "wake_defer"} => ret'[p] \in {"top", "pop_infra"}
       /\ cur'[p] # NoTask <=> Place(p)' \in {"found", "poll"}

\* A step of p that neither enters nor leaves the park loop, or leaves it for
\* the shutdown, and consumes its notification only to go on.
Plain(p) ==
  /\ UNCHANGED <<num_searching, num_unparked, sleepers, target, is_searching>>
  /\ Types' /\ OthersSame(p) /\ PlacedRight(p)
  /\ closed => closed'
  /\ \A v \in Worker :
       /\ is_shutdown[v] => is_shutdown'[v]
       /\ is_shutdown'[v] => closed'
       /\ token[v] => token'[v] \/ (v = p /\ Place(p)' \notin Sleepy)
  /\ p \in Worker =>
       /\ \/ Place(p)' \in InPark <=> Place(p) \in InPark
          \/ is_shutdown[p] /\ pc'[p] = "top" /\ Place(p) \in InPark
       /\ is_shutdown[p] /\ pc[p] \in {"top", "shutdown", "done"}
            => pc'[p] \in {"top", "shutdown", "done"}
       /\ Place(p)' \in Sleepy => Place(p) \in Sleepy

\* A worker Idle counts as searching.
InSearch(w) ==
  w \in Worker /\ (is_searching[w] \/ (Place(w) \in InPark /\ w \notin sleepers))

LEMMA SearchersAre ==
  ASSUME Control
  PROVE  /\ \A w : w \in Searchers <=> InSearch(w)
         /\ IsFiniteSet(Searchers) /\ Cardinality(Searchers) \in Nat
         /\ IsFiniteSet(sleepers) /\ Cardinality(sleepers) \in Nat
  <1>1. \A w \in Worker : Parked(w) <=> Place(w) \in InPark
    BY DEF Parked, Place, InPark, Control, Returns
  <1>2. \A w : w \in Searchers <=> InSearch(w)
    BY <1>1 DEF Searchers, InSearch
  <1>3. Searchers \subseteq Worker /\ sleepers \subseteq Worker /\ IsFiniteSet(Worker)
    BY SchedAssumption DEF Searchers, Control, Types
  <1>4. IsFiniteSet(Searchers) /\ IsFiniteSet(sleepers)
    BY <1>3, FS_Subset
  <1>5. Cardinality(Searchers) \in Nat /\ Cardinality(sleepers) \in Nat
    BY <1>3, <1>4, FS_CardinalityType
  <1> QED BY <1>2, <1>4, <1>5

\* The same of the next state.
LEMMA SearchersNext ==
  ASSUME Control'
  PROVE  /\ \A w : w \in Searchers' <=> InSearch(w)'
         /\ IsFiniteSet(Searchers') /\ Cardinality(Searchers') \in Nat
         /\ IsFiniteSet(sleepers') /\ Cardinality(sleepers') \in Nat
  <1>1. \A w \in Worker : Parked(w)' <=> Place(w)' \in InPark
    BY DEF Parked, Place, InPark, Control, Returns
  <1>2. \A w : w \in Searchers' <=> InSearch(w)'
    BY <1>1 DEF Searchers, InSearch
  <1>3. Searchers' \subseteq Worker /\ sleepers' \subseteq Worker /\ IsFiniteSet(Worker)
    BY SchedAssumption DEF Searchers, Control, Types
  <1>4. IsFiniteSet(Searchers') /\ IsFiniteSet(sleepers')
    BY <1>3, FS_Subset
  <1>5. Cardinality(Searchers') \in Nat /\ Cardinality(sleepers') \in Nat
    BY <1>3, <1>4, FS_CardinalityType
  <1> QED BY <1>2, <1>4, <1>5

LEMMA PlainInv ==
  ASSUME Control, Counted, Called, NEW p \in Thread, Plain(p)
  PROVE  Control' /\ Counted' /\ Called'
  <1>1. \A q \in Thread : q # p => pc'[q] = pc[q] /\ ret'[q] = ret[q] /\ Place(q)' = Place(q)
    BY DEF Plain, OthersSame, Place
  <1>2. \A w \in Worker : w \in Thread
    BY DEF Thread
  <1>3. Types' /\ Returns'
    <2>1. \A r \in Remote : r \in Thread
      BY DEF Thread
    <2>2. \A q \in Thread : target'[q] = target[q]
      BY DEF Plain
    <2> QED BY <2>1, <2>2, <1>1, <1>2 DEF Plain, PlacedRight, Control, Returns
  <1>4. \A w \in Worker : Place(w)' \in InPark =>
           Place(w) \in InPark
    BY <1>1, <1>2 DEF Plain, InPark, Place
  <1>5. Cores'
    BY <1>1, <1>2, <1>4 DEF Control, Cores, Plain, OthersSame, PlacedRight
  <1>6. Control'
    BY <1>3, <1>5 DEF Control
  <1>7. \A w \in Worker : ~closed' => (Place(w)' \in InPark <=> Place(w) \in InPark)
    BY <1>1, <1>2 DEF Plain, Control, Cores
  <1>8. Counted'
    <2>1. Searchers' \subseteq Searchers
      BY <1>4, <1>6, SearchersAre, SearchersNext DEF Plain, InSearch
    <2>2. ~closed' => Searchers' = Searchers
      <3>1. ~closed' => \A w : w \in Searchers' <=> w \in Searchers
        BY <1>6, <1>7, SearchersAre, SearchersNext DEF Plain, InSearch
      <3> QED BY <3>1
    <2>3. Cardinality(Searchers') <= Cardinality(Searchers)
      BY <2>1, SearchersAre, FS_Subset
    <2>4. \A w \in sleepers : Place(w)' \in InPark \/ (is_shutdown'[w] /\ pc'[w] \in {"top", "shutdown", "done"})
      <3> SUFFICES ASSUME NEW w \in sleepers
                   PROVE  Place(w)' \in InPark \/ (is_shutdown'[w] /\ pc'[w] \in {"top", "shutdown", "done"})
        OBVIOUS
      <3>1. w \in Worker /\ w \in Thread
        BY <1>2 DEF Control, Types
      <3>2. Place(w) \in InPark \/ (is_shutdown[w] /\ pc[w] \in {"top", "shutdown", "done"})
        BY DEF Counted
      <3>3. CASE w # p
        BY <3>1, <3>2, <3>3, <1>1 DEF Plain
      <3>4. CASE w = p
        BY <3>1, <3>2, <3>4 DEF Plain
      <3> QED BY <3>3, <3>4
    <2>5. Cardinality(Searchers') \in Nat
      BY <1>6, SearchersNext
    <2>6. UNCHANGED <<num_searching, num_unparked, sleepers>> /\ (closed => closed')
      BY DEF Plain
    <2> QED BY <2>2, <2>3, <2>4, <2>5, <2>6, SearchersAre DEF Counted
  <1>9. Called'
    <2> SUFFICES ASSUME NEW w \in Worker, Place(w)' \in Sleepy, w \notin sleepers'
                 PROVE  token'[w] \/ \E q \in Thread : target'[q] = w
      BY DEF Called
    <2>1. Place(w) \in Sleepy /\ w \notin sleepers
      BY <1>1, <1>2 DEF Plain
    <2>2. token[w] => token'[w]
      BY DEF Plain
    <2> QED BY <2>1, <2>2 DEF Called, Plain
  <1> QED BY <1>6, <1>8, <1>9

-----------------------------------------------------------------------------
(***************************************************************************)
(* Which steps are plain                                                   *)
(***************************************************************************)

\* A worker goes from one place of its loop to another, without a task.
LEMMA WorkerMove ==
  ASSUME Control, NEW w \in Worker,
         UNCHANGED <<taskVars, idleVars, target, is_searching, is_shutdown, cur, defer, stopVars>>,
         pc' \in [Thread -> PCs], ret' \in [Thread -> PCs],
         tick' \in [Worker -> 0 .. EventInterval - 1], token' \in [Worker -> BOOLEAN],
         driver' \in Worker \cup {NoWorker},
         \A q \in Thread : q # w => pc'[q] = pc[q] /\ ret'[q] = ret[q],
         \A v \in Worker : v # w => token'[v] = token[v],
         pc[w] \notin {"found", "poll", "notify", "unpark"},
         pc'[w] \notin {"found", "poll", "unpark", "idle", "notify_all"},
         pc'[w] = "notify" => ret'[w] = "parking" /\ pc[w] \in Sleepy,
         pc'[w] \in {"park0", "events0", "wake_defer"} => ret'[w] \in {"top", "pop_infra"},
         \/ pc'[w] \in InPark \cup {"notify"} <=> pc[w] \in InPark
         \/ is_shutdown[w] /\ pc'[w] = "top" /\ pc[w] \in InPark,
         is_shutdown[w] /\ pc[w] \in {"top", "shutdown", "done"}
           => pc'[w] \in {"top", "shutdown", "done"},
         pc'[w] \in Sleepy \cup {"notify"} => pc[w] \in Sleepy /\ (token[w] => token'[w])
  PROVE  Plain(w)
  <1>1. Types'
    BY DEF Control, Types, taskVars, idleVars, stopVars
  <1>2. OthersSame(w)
    BY DEF OthersSame
  <1>3. w \in Thread /\ w \notin Remote
    BY SchedAssumption DEF Thread
  <1>4. Place(w) = pc[w] /\ Place(w)' = IF pc'[w] = "notify" THEN "parking" ELSE pc'[w]
    BY DEF Place
  <1>5. cur[w] = NoTask /\ target[w] = NoWorker
    BY <1>3, <1>4 DEF Control, Cores, Returns
  <1>6. PlacedRight(w)
    BY <1>3, <1>4, <1>5 DEF PlacedRight
  <1>7. "parking" \in Sleepy /\ "parking" \in InPark /\ Sleepy \subseteq InPark /\ "notify" \notin InPark
    BY DEF Sleepy, InPark
  <1>8. ASSUME NEW v \in Worker
        PROVE  /\ is_shutdown[v] => is_shutdown'[v]
               /\ is_shutdown'[v] => closed'
               /\ token[v] => token'[v] \/ (v = w /\ Place(w)' \notin Sleepy)
    BY <1>4, <1>7 DEF Control, Cores, stopVars
  <1>9. /\ \/ Place(w)' \in InPark <=> Place(w) \in InPark
           \/ is_shutdown[w] /\ pc'[w] = "top" /\ Place(w) \in InPark
        /\ Place(w)' \in Sleepy => Place(w) \in Sleepy
    BY <1>4, <1>7
  <1> QED BY <1>1, <1>2, <1>6, <1>8, <1>9 DEF Plain, idleVars, stopVars

\* The run loop, from its head to the decision to park.
LEMMA RunLoopPlain ==
  ASSUME Control, NEW w \in Worker,
         \/ Tick(w) \/ Maintenance(w) \/ NoTaskFound(w) \/ Park0(w) \/ Park0Polled(w)
         \/ CheckMain(w) \/ CheckInfra(w) \/ ShutdownCore(w)
  PROVE  Plain(w)
  <1>1. UNCHANGED <<taskVars, idleVars, target, is_searching, is_shutdown, cur, defer, token, stopVars>>
    BY DEF Tick, Maintenance, NoTaskFound, Park0, Park0Polled, CheckMain, CheckInfra,
           ShutdownCore, TestMain, TestInfra, coreVars, parkVars
  <1>2. Types /\ w \in Thread
    BY DEF Control, Thread
  <1>3. pc' \in [Thread -> PCs] /\ ret' \in [Thread -> PCs]
    <2>1. \E to \in PCs : pc' = [pc EXCEPT ![w] = to]
      BY DEF Tick, Maintenance, NoTaskFound, Park0, Park0Polled, CheckMain,
             CheckInfra, ShutdownCore, TestMain, TestInfra, Goto, PCs
    <2>2. ret' = ret \/ \E back \in PCs : ret' = [ret EXCEPT ![w] = back]
      BY DEF Tick, Maintenance, NoTaskFound, Park0, Park0Polled, CheckMain,
             CheckInfra, ShutdownCore, TestMain, TestInfra, PCs
    <2> QED BY <2>1, <2>2, <1>2 DEF Types
  <1>4. \A q \in Thread : q # w => pc'[q] = pc[q] /\ ret'[q] = ret[q]
    BY <1>2 DEF Types, Tick, Maintenance, NoTaskFound, Park0, Park0Polled, CheckMain,
           CheckInfra, ShutdownCore, TestMain, TestInfra, Goto
  <1>5. driver' \in Worker \cup {NoWorker}
    BY <1>2 DEF Types, Tick, Maintenance, NoTaskFound, Park0, Park0Polled, CheckMain,
           CheckInfra, ShutdownCore, TestMain, TestInfra, parkVars
  <1>6. tick' \in [Worker -> 0 .. EventInterval - 1]
    <2>1. CASE Tick(w)
      <3>1. (tick[w] + 1) % EventInterval \in 0 .. EventInterval - 1
        BY <1>2, SchedAssumption DEF Types
      <3> QED BY <2>1, <3>1, <1>2 DEF Tick, Types
    <2>2. CASE ~Tick(w)
      <3>1. tick' = tick
        BY <2>2 DEF Maintenance, NoTaskFound, Park0, Park0Polled, CheckMain, CheckInfra,
               ShutdownCore, TestMain, TestInfra, coreVars
      <3> QED BY <3>1, <1>2 DEF Types
    <2> QED BY <2>1, <2>2
  <1>7. \/ pc[w] = "top" /\ ~is_shutdown[w] /\ pc'[w] \in {"maint", "pop_infra"}
        \/ pc[w] = "maint" /\ pc'[w] = "park0" /\ ret'[w] = "pop_infra"
        \/ pc[w] = "none" /\ pc'[w] = "park0" /\ ret'[w] = "top"
        \/ pc[w] = "none" /\ pc'[w] = "check_main"
        \/ pc[w] = "park0" /\ pc'[w] \in {"events0", "wake_defer"} /\ ret'[w] = ret[w]
        \/ pc[w] = "events0" /\ pc'[w] = "wake_defer" /\ ret'[w] = ret[w]
        \/ pc[w] = "check_main" /\ pc'[w] \in {"top", "check_infra"}
        \/ pc[w] = "check_infra" /\ pc'[w] \in {"top", "to_parked"}
        \/ pc[w] = "shutdown" /\ pc'[w] = "done"
    BY <1>2 DEF Types, Tick, Maintenance, NoTaskFound, Park0, Park0Polled, CheckMain,
           CheckInfra, ShutdownCore, TestMain, TestInfra, Goto
  <1>8. pc[w] \in {"park0", "events0"} => ret[w] \in {"top", "pop_infra"}
    BY DEF Control, Returns
  <1>9. token' \in [Worker -> BOOLEAN] /\ \A v \in Worker : token'[v] = token[v]
    BY <1>1, <1>2 DEF Types
  <1> QED BY <1>1, <1>3, <1>4, <1>5, <1>6, <1>7, <1>8, <1>9, WorkerMove DEF InPark, Sleepy

\* The park loop, from the final check to the decision to leave.
LEMMA ParkLoopPlain ==
  ASSUME Control, NEW w \in Worker,
         \/ FinalMain(w) \/ FinalInfra(w) \/ Park(w) \/ CondvarWake(w) \/ DriverUnparked(w)
         \/ DriverEvent(w) \/ DriverDone(w) \/ FromMain(w) \/ FromInfra(w)
  PROVE  Plain(w)
  <1>1. UNCHANGED <<taskVars, idleVars, target, is_searching, is_shutdown, tick, cur, defer, stopVars>>
    BY DEF FinalMain, FinalInfra, FinalCheck, Park, CondvarWake, DriverUnparked, DriverEvent,
           DriverDone, FromMain, FromInfra, TestMain, TestInfra, coreVars
  <1>2. Types /\ w \in Thread
    BY DEF Control, Thread
  <1>3. pc' \in [Thread -> PCs] /\ ret' \in [Thread -> PCs]
    <2>1. \E to \in PCs : pc' = [pc EXCEPT ![w] = to]
      BY DEF FinalMain, FinalInfra, FinalCheck, CallNotify, Park, CondvarWake, DriverUnparked,
             DriverEvent, DriverDone, FromMain, FromInfra, TestMain, TestInfra, Goto, PCs
    <2>2. ret' = ret \/ ret' = [ret EXCEPT ![w] = "parking"]
      BY DEF FinalMain, FinalInfra, FinalCheck, CallNotify, Park, CondvarWake, DriverUnparked,
             DriverEvent, DriverDone, FromMain, FromInfra, TestMain, TestInfra
    <2>3. "parking" \in PCs
      BY DEF PCs
    <2> QED BY <2>1, <2>2, <2>3, <1>2 DEF Types
  <1>4. \A q \in Thread : q # w => pc'[q] = pc[q] /\ ret'[q] = ret[q]
    BY <1>2 DEF Types, FinalMain, FinalInfra, FinalCheck, CallNotify, Park, CondvarWake,
           DriverUnparked, DriverEvent, DriverDone, FromMain, FromInfra, TestMain, TestInfra, Goto
  <1>5. driver' \in Worker \cup {NoWorker}
    BY <1>2 DEF Types, FinalMain, FinalInfra, FinalCheck, Park, CondvarWake, DriverUnparked,
           DriverEvent, DriverDone, FromMain, FromInfra, TestMain, TestInfra, parkVars
  <1>6. token' = token \/ token' = [token EXCEPT ![w] = FALSE]
    BY DEF FinalMain, FinalInfra, FinalCheck, Park, CondvarWake, DriverUnparked,
           DriverEvent, DriverDone, FromMain, FromInfra, TestMain, TestInfra, parkVars
  <1>7. token' \in [Worker -> BOOLEAN] /\ \A v \in Worker : v # w => token'[v] = token[v]
    BY <1>2, <1>6 DEF Types
  <1>8. \/ pc[w] = "final_main" /\ pc'[w] = "final_infra" /\ token' = token
        \/ pc[w] \in {"final_main", "final_infra"} /\ pc'[w] = "notify" /\ ret'[w] = "parking" /\ token' = token
        \/ pc[w] = "final_infra" /\ pc'[w] = "parking" /\ token' = token
        \/ pc[w] = "parking" /\ is_shutdown[w] /\ pc'[w] = "top"
        \/ pc[w] = "parking" /\ pc'[w] = "unparked"
        \/ pc[w] = "parking" /\ ~token[w] /\ pc'[w] \in {"on_driver", "on_condvar"}
        \/ pc[w] = "on_condvar" /\ pc'[w] = "unparked"
        \/ pc[w] = "on_driver" /\ pc'[w] = "on_events"
        \/ pc[w] = "on_events" /\ pc'[w] = "unparked"
        \/ pc[w] = "from_main" /\ pc'[w] \in {"self_unpark", "from_infra"}
        \/ pc[w] = "from_infra" /\ pc'[w] \in {"self_unpark", "is_parked"}
    BY <1>2 DEF Types, FinalMain, FinalInfra, FinalCheck, CallNotify, Park, CondvarWake,
           DriverUnparked, DriverEvent, DriverDone, FromMain, FromInfra, TestMain, TestInfra,
           Goto, parkVars
  <1>9. tick' \in [Worker -> 0 .. EventInterval - 1]
    BY <1>1, <1>2 DEF Types
  <1> QED BY <1>1, <1>3, <1>4, <1>5, <1>7, <1>8, <1>9, WorkerMove DEF InPark, Sleepy

\* Waking a task keeps the types of what it changes.
LEMMA EnqueueTypes ==
  ASSUME Types, NEW t \in Task, Enqueue(t)
  PROVE  main' \subseteq Task \ InfraTask /\ infra' \in Seq(InfraTask)
  <1>1. CASE t \in InfraTask
    <2>1. Append(infra, t) \in Seq(InfraTask)
      BY <1>1, AppendFacts DEF Types
    <2> QED BY <1>1, <2>1 DEF Types, Enqueue
  <1>2. CASE t \notin InfraTask
    BY <1>2 DEF Types, Enqueue
  <1> QED BY <1>1, <1>2

LEMMA WakeTypes ==
  ASSUME Types, NEW t \in Task, Schedule(t) \/ MarkNotified(t)
  PROVE  /\ task' \in [Task -> {"idle", "queued", "running", "done"}]
         /\ notified' \in [Task -> BOOLEAN]
         /\ main' \subseteq Task \ InfraTask /\ infra' \in Seq(InfraTask)
  <1>1. CASE Schedule(t)
    BY <1>1, EnqueueTypes DEF Schedule, Types
  <1>2. CASE MarkNotified(t)
    BY <1>2 DEF MarkNotified, Types
  <1> QED BY <1>1, <1>2

\* A step that changes only tasks, queues and defer lists.
LEMMA StayPlain ==
  ASSUME Control, NEW p \in Thread, Types',
         UNCHANGED <<idleVars, pc, ret, target, is_searching, is_shutdown, cur, parkVars, stopVars>>
  PROVE  Plain(p)
  <1>1. Place(p)' = Place(p)
    BY DEF Place
  <1>2. PlacedRight(p)
    BY <1>1 DEF PlacedRight, Control, Returns, Cores
  <1> QED BY <1>1, <1>2 DEF Plain, OthersSame, Control, Cores, idleVars, parkVars, stopVars

LEMMA DriverWakePlain ==
  ASSUME Control, NEW w \in Worker, NEW t \in Task, DriverWake(w, t)
  PROVE  Plain(w)
  <1>1. Types /\ w \in Thread
    BY DEF Control, Thread
  <1>2. Types'
    BY <1>1, WakeTypes DEF Types, DriverWake, idleVars, coreVars, parkVars, stopVars
  <1> QED BY <1>1, <1>2, StayPlain DEF DriverWake, coreVars

LEMMA DeferWakePlain ==
  ASSUME Control, NEW w \in Worker, NEW t \in Task, DeferWake(w, t)
  PROVE  Plain(w)
  <1>1. Types /\ w \in Thread
    BY DEF Control, Thread
  <1>2. /\ task' \in [Task -> {"idle", "queued", "running", "done"}]
        /\ notified' \in [Task -> BOOLEAN]
        /\ main' \subseteq Task \ InfraTask /\ infra' \in Seq(InfraTask)
    <2>1. CASE Schedule(t) \/ MarkNotified(t)
      BY <2>1, <1>1, WakeTypes
    <2>2. CASE UNCHANGED taskVars
      BY <2>2, <1>1 DEF taskVars, Types
    <2> QED BY <2>1, <2>2 DEF DeferWake
  <1>3. defer' \in [Worker -> SUBSET Task]
    BY <1>1 DEF DeferWake, Types
  <1>4. Types'
    BY <1>1, <1>2, <1>3 DEF Types, DeferWake, idleVars, parkVars, stopVars
  <1> QED BY <1>1, <1>4, StayPlain DEF DeferWake

\* schedule_task, by the task that a worker polls or by an outside thread.
LEMMA WakePlain ==
  ASSUME Control, NEW p \in Thread, NEW t \in Task,
         (p \in Worker /\ PollWake(p, t)) \/ (p \in Remote /\ RemoteWake(p, t))
  PROVE  Plain(p)
  <1> DEFINE back == pc[p]
  <1>1. /\ back = IF p \in Worker THEN "poll" ELSE "idle"
        /\ (Schedule(t) /\ CallNotify(p, back)) \/ (MarkNotified(t) /\ UNCHANGED <<pc, ret>>)
        /\ UNCHANGED <<idleVars, target, coreVars, parkVars, stopVars>>
    BY SchedAssumption DEF PollWake, RemoteWake
  <1>2. Types /\ "notify" \in PCs /\ pc[p] \in PCs
    BY DEF Control, Types, PCs
  <1>3. pc' \in [Thread -> PCs] /\ ret' \in [Thread -> PCs]
    <2>1. pc \in [Thread -> PCs] /\ ret \in [Thread -> PCs]
      BY <1>2 DEF Types
    <2>2. CASE CallNotify(p, back)
      BY <2>1, <2>2, <1>2 DEF CallNotify
    <2>3. CASE UNCHANGED <<pc, ret>>
      BY <2>1, <2>3
    <2> QED BY <2>2, <2>3, <1>1
  <1>4. Types'
    BY <1>1, <1>2, <1>3, WakeTypes DEF Types, idleVars, coreVars, parkVars, stopVars
  <1>5. CASE UNCHANGED <<pc, ret>>
    BY <1>1, <1>4, <1>5, StayPlain DEF coreVars
  <1>6. CASE CallNotify(p, back)
    <2>1. /\ pc'[p] = "notify" /\ ret'[p] = back
          /\ \A q \in Thread : q # p => pc'[q] = pc[q] /\ ret'[q] = ret[q]
      BY <1>2, <1>6 DEF CallNotify, Types
    <2>2. Place(p) = back /\ Place(p)' = back
      BY <1>1, <2>1 DEF Place
    <2>3. target'[p] = NoWorker /\ pc'[p] # "unpark"
      BY <1>1, <2>1 DEF Control, Returns
    <2>4. PlacedRight(p)
      BY <1>1, <2>1, <2>2, <2>3, SchedAssumption DEF PlacedRight, coreVars, Control, Cores
    <2>5. OthersSame(p)
      BY <1>1, <2>1 DEF OthersSame, coreVars
    <2>6. pc[p] \notin {"top", "shutdown", "done"}
      BY <1>1
    <2> QED BY <1>1, <1>4, <2>2, <2>4, <2>5, <2>6
            DEF Plain, Control, Cores, idleVars, coreVars, parkVars, stopVars
  <1> QED BY <1>1, <1>5, <1>6

\* worker_to_notify finds nobody to wake.
LEMMA NotifyNonePlain ==
  ASSUME Control, NEW p \in Thread, NotifyNone(p)
  PROVE  Plain(p)
  <1>1. /\ pc[p] = "notify"
        /\ UNCHANGED <<taskVars, idleVars, target, coreVars, parkVars, stopVars>>
    BY DEF NotifyNone
  <1>2. Types /\ "idle" \in PCs
    BY DEF Control, PCs
  <1>3. pc' \in [Thread -> PCs] /\ ret' \in [Thread -> PCs]
    BY <1>2 DEF NotifyNone, Return, Types
  <1>4. Types'
    BY <1>1, <1>2, <1>3 DEF Types, taskVars, idleVars, coreVars, parkVars, stopVars
  <1>5. /\ pc'[p] = ret[p]
        /\ \A q \in Thread : q # p => pc'[q] = pc[q] /\ ret'[q] = ret[q]
    BY <1>2 DEF NotifyNone, Return, Types
  <1>6. ret[p] \in IF p \in Worker THEN {"top", "poll", "parking"} ELSE {"idle"}
    BY <1>1 DEF Control, Returns, Thread
  <1>7. Place(p) = ret[p] /\ Place(p)' = ret[p]
    BY <1>1, <1>5, <1>6 DEF Place
  <1>8. target'[p] = NoWorker
    BY <1>1 DEF Control, Returns
  <1>9. PlacedRight(p)
    BY <1>1, <1>5, <1>6, <1>7, <1>8, SchedAssumption DEF PlacedRight, coreVars, Control, Cores
  <1>10. OthersSame(p)
    BY <1>1, <1>5 DEF OthersSame, coreVars
  <1> QED BY <1>1, <1>4, <1>7, <1>9, <1>10
          DEF Plain, Control, Cores, idleVars, coreVars, parkVars, stopVars

\* Handle::close and notify_all.
LEMMA ClosePlain ==
  ASSUME Control, NEW r \in Remote, Close(r) \/ NotifyAll(r)
  PROVE  Plain(r)
  <1>1. UNCHANGED <<taskVars, idleVars, ret, target, coreVars, driver, owned_closed>>
    BY DEF Close, NotifyAll, stopVars, parkVars
  <1>2. Types /\ r \in Thread /\ r \notin Worker
    BY SchedAssumption DEF Control, Thread
  <1>3. \E to \in {"idle", "notify_all"} :
           pc' = [pc EXCEPT ![r] = to] /\ pc[r] \in {"idle", "notify_all"}
    BY DEF Close, NotifyAll, Goto
  <1>4. pc' \in [Thread -> PCs]
    BY <1>2, <1>3 DEF Types, PCs
  <1>5. /\ closed' \in BOOLEAN /\ (closed => closed')
        /\ token' \in [Worker -> BOOLEAN] /\ \A v \in Worker : token[v] => token'[v]
    BY <1>2 DEF Close, NotifyAll, Types, parkVars, stopVars
  <1>6. Types'
    BY <1>1, <1>2, <1>4, <1>5 DEF Types, taskVars, idleVars, coreVars
  <1>7. /\ pc'[r] \in {"idle", "notify_all"} /\ pc[r] \in {"idle", "notify_all"}
        /\ \A q \in Thread : q # r => pc'[q] = pc[q] /\ ret'[q] = ret[q]
    BY <1>1, <1>2, <1>3 DEF Types
  <1>8. PlacedRight(r)
    BY <1>1, <1>2, <1>7 DEF PlacedRight, Control, Returns
  <1>9. OthersSame(r)
    BY <1>1, <1>7 DEF OthersSame, coreVars
  <1> QED BY <1>1, <1>2, <1>5, <1>6, <1>8, <1>9 DEF Plain, Control, Cores, idleVars, coreVars

\* A step of a worker in its run loop that takes up or puts down a task.
LEMMA TaskMove ==
  ASSUME Control, NEW w \in Worker, Types',
         UNCHANGED <<idleVars, target, is_searching, is_shutdown, parkVars, closed>>,
         \A q \in Thread : q # w => pc'[q] = pc[q] /\ ret'[q] = ret[q],
         \A v \in Worker : v # w => cur'[v] = cur[v],
         pc[w] \in {"top", "pop_infra", "pop_main", "found", "poll"},
         pc[w] = "top" => pc'[w] = "shutdown",
         pc'[w] \in {"found", "pop_main", "none", "poll", "top", "shutdown", "notify"},
         pc'[w] = "notify" => ret'[w] \in {"top", "poll"},
         cur'[w] # NoTask <=> Place(w)' \in {"found", "poll"}
  PROVE  Plain(w)
  <1>1. w \in Thread /\ w \notin Remote
    BY SchedAssumption DEF Thread
  <1>2. Place(w) \notin InPark /\ Place(w)' \notin InPark /\ Place(w)' \notin Sleepy
    BY DEF Place, InPark, Sleepy
  <1>3. target'[w] = NoWorker
    BY <1>1 DEF Control, Returns
  <1>4. PlacedRight(w)
    BY <1>1, <1>3 DEF PlacedRight
  <1>5. OthersSame(w)
    BY DEF OthersSame
  <1> QED BY <1>2, <1>4, <1>5 DEF Plain, Control, Cores, idleVars, parkVars

LEMMA PopPlain ==
  ASSUME Control, NEW w \in Worker, PopInfra(w) \/ PopMain(w)
  PROVE  Plain(w)
  <1>1. UNCHANGED <<task, notified, idleVars, ret, target, is_searching, is_shutdown, tick,
                    defer, parkVars, stopVars>>
    BY DEF PopInfra, PopMain
  <1>2. Types /\ w \in Thread
    BY DEF Control, Thread
  <1>3. cur[w] = NoTask
    BY <1>2 DEF PopInfra, PopMain, Goto, Control, Cores, Place
  <1>4. \/ /\ \E t \in Task : cur' = [cur EXCEPT ![w] = t]
           /\ pc[w] \in {"pop_infra", "pop_main"}
           /\ pc' = [pc EXCEPT ![w] = "found"]
        \/ /\ cur' = cur
           /\ pc[w] \in {"pop_infra", "pop_main"}
           /\ \E to \in {"pop_main", "none"} : pc' = [pc EXCEPT ![w] = to]
    <2>1. CASE PopInfra(w)
      <3>1. infra # <<>> => Head(infra) \in InfraTask
        BY <1>2 DEF Types
      <3> QED BY <2>1, <3>1, SchedAssumption DEF PopInfra, Goto
    <2>2. CASE PopMain(w)
      BY <2>2, <1>2 DEF PopMain, Goto, Types
    <2> QED BY <2>1, <2>2
  <1>5. main' \subseteq Task \ InfraTask /\ infra' \in Seq(InfraTask)
    <2>1. infra # <<>> => Tail(infra) \in Seq(InfraTask)
      BY <1>2, TailFacts DEF Types
    <2> QED BY <2>1, <1>2 DEF PopInfra, PopMain, Types
  <1>6. pc' \in [Thread -> PCs] /\ cur' \in [Worker -> Task \cup {NoTask}]
    BY <1>2, <1>4 DEF Types, PCs
  <1>7. Types'
    BY <1>1, <1>2, <1>5, <1>6 DEF Types, idleVars, parkVars, stopVars
  <1>8. \A q \in Thread : q # w => pc'[q] = pc[q] /\ ret'[q] = ret[q]
    BY <1>1, <1>2, <1>4 DEF Types
  <1>9. \A v \in Worker : v # w => cur'[v] = cur[v]
    BY <1>2, <1>4 DEF Types
  <1>10. \/ pc'[w] = "found" /\ cur'[w] # NoTask
         \/ pc'[w] \in {"pop_main", "none"} /\ cur'[w] = NoTask
    BY <1>2, <1>3, <1>4, SchedAssumption DEF Types
  <1>11. cur'[w] # NoTask <=> Place(w)' \in {"found", "poll"}
    BY <1>10 DEF Place
  <1> QED BY <1>1, <1>4, <1>7, <1>8, <1>9, <1>10, <1>11, TaskMove DEF stopVars

\* The task a worker has found or polls.
LEMMA HasTask ==
  ASSUME Control, NEW w \in Worker, Place(w) \in {"found", "poll"}
  PROVE  cur[w] \in Task
  BY DEF Control, Cores, Types

LEMMA PollEndsPlain ==
  ASSUME Control, NEW w \in Worker, PollReady(w) \/ \E y \in BOOLEAN : PollPending(w, y)
  PROVE  Plain(w)
  <1>1. UNCHANGED <<idleVars, target, is_searching, is_shutdown, tick, parkVars, stopVars>>
    BY DEF PollReady, PollPending
  <1>2. Types /\ w \in Thread
    BY DEF Control, Thread
  <1>3. pc[w] = "poll"
    BY DEF PollReady, PollPending, Goto
  <1>4. cur[w] \in Task
    BY <1>3, HasTask DEF Place
  <1>5. /\ \E to \in {"top", "notify"} : pc' = [pc EXCEPT ![w] = to]
        /\ ret' = ret \/ ret' = [ret EXCEPT ![w] = "top"]
        /\ pc' = [pc EXCEPT ![w] = "notify"] => ret' = [ret EXCEPT ![w] = "top"]
    <2>1. CASE PollReady(w)
      BY <2>1, <1>2 DEF PollReady, Goto, Types
    <2>2. CASE \E y \in BOOLEAN : PollPending(w, y)
      BY <2>2, <1>2 DEF PollPending, CallNotify, Types
    <2> QED BY <2>1, <2>2
  <1>6. /\ main' \subseteq Task \ InfraTask /\ infra' \in Seq(InfraTask)
        /\ \E s \in {"idle", "queued", "done"} : task' = [task EXCEPT ![cur[w]] = s]
    <2>1. CASE PollReady(w)
      BY <2>1, <1>2 DEF PollReady, Types
    <2>2. CASE \E y \in BOOLEAN : PollPending(w, y)
      <3>1. CASE Enqueue(cur[w]) /\ task' = [task EXCEPT ![cur[w]] = "queued"]
        BY <3>1, <1>2, <1>4, EnqueueTypes
      <3>2. CASE UNCHANGED <<main, infra>> /\ \E s \in {"idle", "done"} : task' = [task EXCEPT ![cur[w]] = s]
        BY <3>2, <1>2 DEF Types
      <3> QED BY <2>2, <3>1, <3>2 DEF PollPending
    <2> QED BY <2>1, <2>2
  <1>7. /\ cur' = [cur EXCEPT ![w] = NoTask]
        /\ notified' = [notified EXCEPT ![cur[w]] = FALSE]
        /\ defer' = defer \/ defer' = [defer EXCEPT ![w] = @ \cup {cur[w]}]
    BY DEF PollReady, PollPending
  <1>8. pc' \in [Thread -> PCs] /\ ret' \in [Thread -> PCs]
    BY <1>2, <1>5 DEF Types, PCs
  <1>9. Types'
    <2>1. task' \in [Task -> {"idle", "queued", "running", "done"}] /\ notified' \in [Task -> BOOLEAN]
      BY <1>2, <1>6, <1>7 DEF Types
    <2>2. cur' \in [Worker -> Task \cup {NoTask}] /\ defer' \in [Worker -> SUBSET Task]
      <3>1. cur' \in [Worker -> Task \cup {NoTask}]
        BY <1>2, <1>7 DEF Types
      <3>2. defer[w] \cup {cur[w]} \in SUBSET Task
        BY <1>2, <1>4 DEF Types
      <3>3. defer' \in [Worker -> SUBSET Task]
        BY <1>2, <1>7, <3>2 DEF Types
      <3> QED BY <3>1, <3>3
    <2> QED BY <2>1, <2>2, <1>1, <1>2, <1>6, <1>8 DEF Types, idleVars, parkVars, stopVars
  <1>10. \A q \in Thread : q # w => pc'[q] = pc[q] /\ ret'[q] = ret[q]
    BY <1>2, <1>5 DEF Types
  <1>11. cur'[w] = NoTask /\ \A v \in Worker : v # w => cur'[v] = cur[v]
    BY <1>2, <1>7 DEF Types
  <1>12. pc'[w] \in {"top", "notify"} /\ (pc'[w] = "notify" => ret'[w] = "top")
    BY <1>2, <1>5 DEF Types
  <1>13. cur'[w] # NoTask <=> Place(w)' \in {"found", "poll"}
    BY <1>11, <1>12 DEF Place
  <1> QED BY <1>1, <1>3, <1>9, <1>10, <1>11, <1>12, <1>13, TaskMove DEF stopVars

LEMMA PreShutdownPlain ==
  ASSUME Control, NEW w \in Worker, PreShutdown(w)
  PROVE  Plain(w)
  <1>1. UNCHANGED <<notified, main, infra, idleVars, ret, target, coreVars, parkVars, closed>>
    BY DEF PreShutdown
  <1>2. Types /\ w \in Thread
    BY DEF Control, Thread
  <1>3. pc[w] = "top" /\ pc' = [pc EXCEPT ![w] = "shutdown"]
    BY DEF PreShutdown, Goto
  <1>4. task' \in [Task -> {"idle", "queued", "running", "done"}]
    BY DEF PreShutdown
  <1>5. pc' \in [Thread -> PCs] /\ owned_closed' = TRUE
    BY <1>2, <1>3 DEF Types, PCs, PreShutdown
  <1>6. Types'
    BY <1>1, <1>2, <1>4, <1>5 DEF Types, idleVars, coreVars, parkVars
  <1>7. pc'[w] = "shutdown" /\ \A q \in Thread : q # w => pc'[q] = pc[q] /\ ret'[q] = ret[q]
    BY <1>1, <1>2, <1>3 DEF Types
  <1>8. cur'[w] = NoTask
    BY <1>1, <1>3 DEF Control, Cores, Place, coreVars
  <1>9. cur'[w] # NoTask <=> Place(w)' \in {"found", "poll"}
    BY <1>7, <1>8 DEF Place
  <1> QED BY <1>1, <1>3, <1>6, <1>7, <1>9, TaskMove DEF coreVars

\* The worker reads whether a shutdown was requested.
LEMMA MaintenancePlain ==
  ASSUME Control, NEW w \in Worker, Unparked(w) \/ Park0Return(w)
  PROVE  Plain(w)
  <1>1. UNCHANGED <<taskVars, idleVars, target, is_searching, tick, cur, defer, parkVars, stopVars>>
    BY DEF Unparked, Park0Return
  <1>2. Types /\ w \in Thread /\ w \notin Remote
    BY SchedAssumption DEF Control, Thread
  <1>3. \E b \in BOOLEAN : is_shutdown' = [is_shutdown EXCEPT ![w] = b] /\ (is_shutdown[w] => b) /\ (b => closed)
    BY <1>2 DEF Unparked, Park0Return, Control, Cores, Types
  <1>4. \/ pc[w] = "unparked" /\ pc' = [pc EXCEPT ![w] = "from_main"] /\ ret' = ret
        \/ pc[w] = "wake_defer" /\ pc' = [pc EXCEPT ![w] = ret[w]] /\ ret' = [ret EXCEPT ![w] = "idle"]
    BY DEF Unparked, Park0Return, Return, Goto
  <1>5. pc' \in [Thread -> PCs] /\ ret' \in [Thread -> PCs] /\ is_shutdown' \in [Worker -> BOOLEAN]
    BY <1>2, <1>3, <1>4 DEF Types, PCs
  <1>6. Types'
    BY <1>1, <1>2, <1>5 DEF Types, taskVars, idleVars, parkVars, stopVars
  <1>7. \/ pc[w] = "unparked" /\ pc'[w] = "from_main"
        \/ pc[w] = "wake_defer" /\ pc'[w] \in {"top", "pop_infra"}
    <2>1. pc[w] = "wake_defer" => ret[w] \in {"top", "pop_infra"}
      BY DEF Control, Returns
    <2> QED BY <2>1, <1>2, <1>4 DEF Types
  <1>8. \A q \in Thread : q # w => pc'[q] = pc[q] /\ ret'[q] = ret[q]
    BY <1>2, <1>4 DEF Types
  <1>9. Place(w) = pc[w] /\ Place(w)' = pc'[w]
    BY <1>7 DEF Place
  <1>10. cur'[w] = NoTask /\ target'[w] = NoWorker
    BY <1>1, <1>2, <1>7, <1>9 DEF Control, Cores, Returns
  <1>11. PlacedRight(w)
    BY <1>2, <1>7, <1>9, <1>10 DEF PlacedRight
  <1>12. OthersSame(w)
    BY <1>1, <1>8 DEF OthersSame
  <1>13. \A v \in Worker : (is_shutdown[v] => is_shutdown'[v]) /\ (is_shutdown'[v] => closed')
    BY <1>1, <1>2, <1>3 DEF Types, Control, Cores, stopVars
  <1>14. /\ Place(w)' \in InPark <=> Place(w) \in InPark
         /\ Place(w)' \notin Sleepy /\ pc[w] \notin {"top", "shutdown", "done"}
    BY <1>7, <1>9 DEF InPark, Sleepy
  <1> QED BY <1>1, <1>6, <1>11, <1>12, <1>13, <1>14 DEF Plain, idleVars, parkVars, stopVars

-----------------------------------------------------------------------------
(***************************************************************************)
(* The steps that change the sleepers, the counters or a search            *)
(***************************************************************************)

LEMMA PlacedControl ==
  ASSUME Control, NEW p \in Thread, Types', OthersSame(p), PlacedRight(p),
         UNCHANGED <<is_shutdown, closed>>,
         \A q \in Thread : q # p => target'[q] = target[q],
         \A v \in Worker : v # p => is_searching'[v] = is_searching[v],
         p \in Worker /\ is_searching'[p] => Place(p)' \notin InPark
  PROVE  /\ Control'
         /\ \A q \in Thread : q # p => Place(q)' = Place(q)
         /\ \A v \in Worker : v \in Thread
         /\ \A v \in Worker : v # p /\ (v \in sleepers' <=> v \in sleepers)
              => (v \in Searchers' <=> v \in Searchers)
  <1>1. \A q \in Thread : q # p => Place(q)' = Place(q) /\ pc'[q] = pc[q] /\ ret'[q] = ret[q]
    BY DEF OthersSame, Place
  <1>2. (\A v \in Worker : v \in Thread) /\ (\A r \in Remote : r \in Thread)
    BY DEF Thread
  <1>3. Returns'
    BY <1>1, <1>2 DEF Control, Returns, PlacedRight
  <1>4. Cores'
    BY <1>1, <1>2 DEF Control, Cores, PlacedRight, OthersSame
  <1>5. Control'
    BY <1>3, <1>4 DEF Control
  <1>6. ASSUME NEW v \in Worker, v # p, v \in sleepers' <=> v \in sleepers
        PROVE  v \in Searchers' <=> v \in Searchers
    <2>1. (v \in Searchers <=> InSearch(v)) /\ (v \in Searchers' <=> InSearch(v)')
      BY <1>5, SearchersAre, SearchersNext
    <2> QED BY <2>1, <1>1, <1>2, <1>6 DEF InSearch
  <1> QED BY <1>1, <1>2, <1>5, <1>6

\* One worker more, or one fewer, in a set of workers.
LEMMA OneMore ==
  ASSUME NEW S, IsFiniteSet(S), NEW w
  PROVE  /\ IsFiniteSet(S \cup {w}) /\ IsFiniteSet(S \ {w})
         /\ Cardinality(S) \in Nat
         /\ w \notin S => Cardinality(S \cup {w}) = Cardinality(S) + 1 /\ S \ {w} = S
         /\ w \in S => Cardinality(S) >= 1 /\ Cardinality(S \ {w}) = Cardinality(S) - 1
  <1>1. Cardinality(S) \in Nat
    BY FS_CardinalityType
  <1>2. /\ IsFiniteSet(S \cup {w})
        /\ Cardinality(S \cup {w}) = IF w \in S THEN Cardinality(S) ELSE Cardinality(S) + 1
    BY FS_AddElement
  <1>3. /\ IsFiniteSet(S \ {w})
        /\ Cardinality(S \ {w}) = IF w \in S THEN Cardinality(S) - 1 ELSE Cardinality(S)
    BY FS_RemoveElement
  <1>4. Cardinality(S \ {w}) \in Nat
    BY <1>3, FS_CardinalityType
  <1>5. w \notin S => S \ {w} = S
    OBVIOUS
  <1> QED BY <1>1, <1>2, <1>3, <1>4, <1>5

\* run_task by a worker that does not search.
LEMMA RunTaskPlain ==
  ASSUME Control, NEW w \in Worker, RunTask(w)
  PROVE  /\ Types' /\ OthersSame(w) /\ PlacedRight(w)
         /\ pc[w] = "found" /\ Place(w)' \in {"top", "poll"}
         /\ ~is_searching[w] => Plain(w)
  <1> DEFINE next == IF task[cur[w]] = "done" THEN "top" ELSE "poll"
  <1>1. UNCHANGED <<notified, main, infra, num_unparked, sleepers, target, is_shutdown, tick,
                    defer, parkVars, stopVars>>
    BY DEF RunTask
  <1>2. Types /\ w \in Thread /\ w \notin Remote
    BY SchedAssumption DEF Control, Thread
  <1>3. pc[w] = "found"
    BY DEF RunTask
  <1>4. cur[w] \in Task
    BY <1>3, HasTask DEF Place
  <1>5. \/ pc' = [pc EXCEPT ![w] = "notify"] /\ ret' = [ret EXCEPT ![w] = next]
        \/ pc' = [pc EXCEPT ![w] = next] /\ ret' = ret
    BY DEF RunTask, CallNotify
  <1>6. next \in PCs /\ "notify" \in PCs
    BY DEF PCs
  <1>7. pc' \in [Thread -> PCs] /\ ret' \in [Thread -> PCs]
    <2> HIDE DEF next
    <2> QED BY <1>2, <1>5, <1>6 DEF Types
  <1>8. /\ \A q \in Thread : q # w => pc'[q] = pc[q] /\ ret'[q] = ret[q]
        /\ (pc'[w] = "notify" /\ ret'[w] = next) \/ pc'[w] = next
    <2> HIDE DEF next
    <2> QED BY <1>2, <1>5 DEF Types
  <1>9. Place(w)' = next /\ pc'[w] \in {"notify", "top", "poll"} /\ (pc'[w] = "notify" => ret'[w] \in {"top", "poll"})
    BY <1>8 DEF Place
  <1>10. /\ task' \in [Task -> {"idle", "queued", "running", "done"}]
         /\ cur' \in [Worker -> Task \cup {NoTask}]
         /\ is_searching' \in [Worker -> BOOLEAN]
    <2>1. task' = task \/ task' = [task EXCEPT ![cur[w]] = "running"]
      BY DEF RunTask
    <2>2. cur' = cur \/ cur' = [cur EXCEPT ![w] = NoTask]
      BY DEF RunTask
    <2>3. is_searching' = [is_searching EXCEPT ![w] = FALSE]
      BY DEF RunTask
    <2>4. task' \in [Task -> {"idle", "queued", "running", "done"}]
      BY <1>2, <2>1 DEF Types
    <2>5. cur' \in [Worker -> Task \cup {NoTask}]
      BY <1>2, <2>2 DEF Types
    <2>6. is_searching' \in [Worker -> BOOLEAN]
      BY <1>2, <2>3 DEF Types
    <2> QED BY <2>4, <2>5, <2>6
  <1>11. Types'
    BY <1>1, <1>2, <1>7, <1>10 DEF Types, parkVars, stopVars
  <1>12. /\ \A v \in Worker : v # w => cur'[v] = cur[v]
         /\ cur'[w] # NoTask <=> next = "poll"
    <2>1. cur' = IF task[cur[w]] = "done" THEN [cur EXCEPT ![w] = NoTask] ELSE cur
      BY DEF RunTask
    <2>2. cur[w] # NoTask
      BY <1>4, SchedAssumption
    <2> QED BY <2>1, <2>2, <1>2 DEF Types
  <1>13. cur'[w] # NoTask <=> Place(w)' \in {"found", "poll"}
    BY <1>9, <1>12
  <1>14. target'[w] = NoWorker
    BY <1>1, <1>2, <1>3 DEF Control, Returns
  <1>15. OthersSame(w) /\ PlacedRight(w)
    BY <1>2, <1>8, <1>9, <1>12, <1>13, <1>14 DEF OthersSame, PlacedRight
  <1>16. ~is_searching[w] => Plain(w)
    <2> HAVE ~is_searching[w]
    <2>1. is_searching' = is_searching
      BY <1>2 DEF RunTask, Types
    <2>2. num_searching' = num_searching
      BY DEF RunTask
    <2> QED BY <2>1, <2>2, <1>1, <1>3, <1>8, <1>9, <1>11, <1>12, <1>13, TaskMove DEF idleVars, stopVars
  <1> QED BY <1>3, <1>9, <1>11, <1>15, <1>16

\* run_task by a worker that stops searching.
LEMMA RunTaskInv ==
  ASSUME Control, Counted, Called, NEW w \in Worker, RunTask(w)
  PROVE  Control' /\ Counted' /\ Called'
  <1>1. w \in Thread
    BY DEF Thread
  <1>2. CASE ~is_searching[w]
    BY <1>1, <1>2, RunTaskPlain, PlainInv
  <1>3. CASE is_searching[w]
    <2>1. /\ UNCHANGED <<num_unparked, sleepers, target, token, is_shutdown, closed>>
          /\ num_searching' = num_searching - 1
          /\ is_searching' = [is_searching EXCEPT ![w] = FALSE]
      BY <1>3 DEF RunTask, parkVars, stopVars
    <2>2. is_searching'[w] = FALSE /\ \A v \in Worker : v # w => is_searching'[v] = is_searching[v]
      BY <2>1 DEF Control, Types
    <2>3. /\ Control'
          /\ \A q \in Thread : q # w => Place(q)' = Place(q)
          /\ \A v \in Worker : v \in Thread
          /\ \A v \in Worker : v # w => (v \in Searchers' <=> v \in Searchers)
      BY <1>1, <2>1, <2>2, RunTaskPlain, PlacedControl
    <2>4. Place(w) \notin InPark /\ Place(w)' \notin InPark /\ Place(w)' \notin Sleepy /\ pc[w] = "found"
      BY RunTaskPlain DEF Place, InPark, Sleepy
    <2>5. Searchers' = Searchers \ {w} /\ w \in Searchers
      <3>1. w \in Searchers /\ w \notin Searchers'
        BY <1>3, <2>2, <2>3, <2>4, SearchersAre, SearchersNext DEF InSearch
      <3>2. \A v \in Searchers' : v \in Worker
        BY DEF Searchers
      <3>3. \A v \in Searchers : v \in Worker
        BY DEF Searchers
      <3> QED BY <3>1, <3>2, <3>3, <2>3
    <2>6. Cardinality(Searchers') = Cardinality(Searchers) - 1 /\ Cardinality(Searchers) \in Nat \ {0}
      BY <2>5, SearchersAre, OneMore
    <2>7. \A v \in sleepers' : Place(v)' \in InPark \/ (is_shutdown'[v] /\ pc'[v] \in {"top", "shutdown", "done"})
      <3> SUFFICES ASSUME NEW v \in sleepers
                   PROVE  Place(v)' \in InPark \/ (is_shutdown'[v] /\ pc'[v] \in {"top", "shutdown", "done"})
        BY <2>1
      <3>1. v \in Thread /\ v # w
        BY <2>3, <2>4 DEF Counted, Control, Types
      <3> QED BY <3>1, <2>1, <2>3, RunTaskPlain DEF Counted, OthersSame
    <2>8. Counted'
      BY <2>1, <2>6, <2>7 DEF Counted
    <2>9. Called'
      BY <2>1, <2>3, <2>4 DEF Called
    <2> QED BY <2>3, <2>8, <2>9
  <1> QED BY <1>2, <1>3

\* worker_to_notify takes a sleeper out.
LEMMA NotifyPickInv ==
  ASSUME Control, Counted, Called, NEW p \in Thread, NEW w \in Worker, NotifyPick(p, w)
  PROVE  Control' /\ Counted' /\ Called'
  <1>1. /\ num_searching = 0 /\ w \in sleepers /\ pc[p] = "notify"
        /\ pc' = [pc EXCEPT ![p] = "unpark"] /\ target' = [target EXCEPT ![p] = w]
        /\ sleepers' = sleepers \ {w}
        /\ num_searching' = num_searching + 1 /\ num_unparked' = num_unparked + 1
        /\ UNCHANGED <<taskVars, ret, coreVars, parkVars, stopVars>>
    BY DEF NotifyPick, ShouldWakeup, Goto
  <1>2. Types /\ "unpark" \in PCs
    BY DEF Control, PCs
  <1>3. Types'
    <2>1. pc' \in [Thread -> PCs] /\ target' \in [Thread -> Worker \cup {NoWorker}] /\ sleepers' \subseteq Worker
      BY <1>1, <1>2 DEF Types
    <2> QED BY <2>1, <1>1, <1>2 DEF Types, taskVars, coreVars, parkVars, stopVars
  <1>4. /\ pc'[p] = "unpark" /\ target'[p] = w /\ target[p] = NoWorker
        /\ \A q \in Thread : q # p => pc'[q] = pc[q] /\ ret'[q] = ret[q] /\ target'[q] = target[q]
    BY <1>1, <1>2 DEF Types, Control, Returns
  <1>5. Place(p)' = Place(p)
    BY <1>1, <1>4 DEF Place
  <1>6. OthersSame(p)
    BY <1>1, <1>4 DEF OthersSame, coreVars
  <1>7. PlacedRight(p)
    BY <1>1, <1>4, <1>5, SchedAssumption DEF PlacedRight, Control, Returns, Cores, coreVars
  <1>8. /\ Control'
        /\ \A q \in Thread : q # p => Place(q)' = Place(q)
        /\ \A v \in Worker : v \in Thread
    BY <1>1, <1>3, <1>4, <1>5, <1>6, <1>7, PlacedControl DEF coreVars, stopVars, Control, Cores
  <1>9. \A q \in Thread : Place(q)' = Place(q)
    BY <1>5, <1>8
  <1>10. Searchers = {}
    <2>1. Cardinality(Searchers) = 0
      BY <1>1, SearchersAre DEF Counted
    <2> QED BY <2>1, SearchersAre, FS_EmptySet
  <1>11. \A v \in Searchers' : v = w
    BY <1>1, <1>8, <1>9, <1>10, SearchersAre, SearchersNext DEF InSearch, coreVars
  <1>12. Cardinality(Searchers') <= 1 /\ (~closed => Cardinality(Searchers') = 1)
    <2>1. Cardinality({w}) = 1 /\ Cardinality({}) = 0
      BY FS_Singleton, FS_EmptySet
    <2>2. CASE w \in Searchers'
      <3>1. Searchers' = {w}
        BY <2>2, <1>11
      <3> QED BY <2>1, <3>1
    <2>3. CASE w \notin Searchers'
      <3>1. Searchers' = {}
        BY <2>3, <1>11
      <3>2. closed
        <4>1. Place(w) \notin InPark
          BY <2>3, <1>1, <1>8, <1>9, SearchersNext DEF InSearch
        <4> QED BY <4>1, <1>1 DEF Counted, Control, Cores
      <3> QED BY <2>1, <3>1, <3>2
    <2> QED BY <2>2, <2>3
  <1>13. Cardinality(sleepers') = Cardinality(sleepers) - 1 /\ Cardinality(sleepers) \in Nat \ {0}
    BY <1>1, SearchersAre, OneMore
  <1>14. \A v \in sleepers' : Place(v)' \in InPark \/ (is_shutdown'[v] /\ pc'[v] \in {"top", "shutdown", "done"})
    <2> SUFFICES ASSUME NEW v \in sleepers, v # w
                 PROVE  Place(v)' \in InPark \/ (is_shutdown'[v] /\ pc'[v] \in {"top", "shutdown", "done"})
      BY <1>1
    <2>1. v \in Thread
      BY <1>2, <1>8 DEF Types
    <2>2. pc[v] \in {"top", "shutdown", "done"} => v # p
      BY <1>1
    <2> QED BY <2>1, <2>2, <1>1, <1>4, <1>9 DEF Counted, coreVars
  <1>15. Counted'
    <2>1. Cardinality(Searchers') \in Nat
      BY <1>8, SearchersNext
    <2>2. closed' = closed
      BY <1>1 DEF stopVars
    <2> QED BY <2>1, <2>2, <1>1, <1>12, <1>13, <1>14 DEF Counted
  <1>16. Called'
    <2> SUFFICES ASSUME NEW v \in Worker, Place(v)' \in Sleepy, v \notin sleepers'
                 PROVE  token'[v] \/ \E q \in Thread : target'[q] = v
      BY DEF Called
    <2>1. CASE v = w
      BY <2>1, <1>4
    <2>2. CASE v # w
      <3>1. token[v] \/ \E q \in Thread : target[q] = v
        BY <2>2, <1>1, <1>8, <1>9 DEF Called
      <3>2. \A q \in Thread : target[q] = v => target'[q] = v
        BY <1>4, SchedAssumption
      <3> QED BY <3>1, <3>2, <1>1 DEF parkVars
    <2> QED BY <2>1, <2>2
  <1> QED BY <1>8, <1>15, <1>16

\* Unparker::unpark.
LEMMA UnparkInv ==
  ASSUME Control, Counted, Called, NEW p \in Thread, Unpark(p)
  PROVE  Control' /\ Counted' /\ Called'
  <1>1. /\ pc[p] = "unpark"
        /\ pc' = [pc EXCEPT ![p] = ret[p]] /\ ret' = [ret EXCEPT ![p] = "idle"]
        /\ token' = [token EXCEPT ![target[p]] = TRUE]
        /\ target' = [target EXCEPT ![p] = NoWorker]
        /\ UNCHANGED <<taskVars, idleVars, coreVars, driver, stopVars>>
    BY DEF Unpark, Return
  <1>2. Types /\ "idle" \in PCs
    BY DEF Control, PCs
  <1>3. target[p] \in Worker
    BY <1>1, <1>2 DEF Control, Returns, Types
  <1>4. Types'
    <2>1. pc' \in [Thread -> PCs] /\ ret' \in [Thread -> PCs]
      BY <1>1, <1>2 DEF Types
    <2>2. target' \in [Thread -> Worker \cup {NoWorker}] /\ token' \in [Worker -> BOOLEAN]
      BY <1>1, <1>2, <1>3 DEF Types
    <2> QED BY <2>1, <2>2, <1>1, <1>2 DEF Types, taskVars, idleVars, coreVars, stopVars
  <1>5. /\ pc'[p] = ret[p] /\ target'[p] = NoWorker
        /\ \A q \in Thread : q # p => pc'[q] = pc[q] /\ ret'[q] = ret[q] /\ target'[q] = target[q]
    BY <1>1, <1>2 DEF Types
  <1>6. ret[p] \in IF p \in Worker THEN {"top", "poll", "parking"} ELSE {"idle"}
    BY <1>1 DEF Control, Returns, Thread
  <1>7. Place(p)' = Place(p) /\ Place(p) = ret[p]
    BY <1>1, <1>5, <1>6 DEF Place
  <1>8. OthersSame(p)
    BY <1>1, <1>5 DEF OthersSame, coreVars
  <1>9. PlacedRight(p)
    BY <1>1, <1>5, <1>6, <1>7, SchedAssumption DEF PlacedRight, Control, Cores, coreVars
  <1>10. /\ Control'
         /\ \A q \in Thread : q # p => Place(q)' = Place(q)
         /\ \A v \in Worker : v \in Thread
    BY <1>1, <1>4, <1>5, <1>7, <1>8, <1>9, PlacedControl DEF coreVars, stopVars, Control, Cores
  <1>11. \A q \in Thread : Place(q)' = Place(q)
    BY <1>7, <1>10
  <1>12. Searchers' = Searchers
    <2>1. \A v : v \in Searchers' <=> v \in Searchers
      BY <1>1, <1>10, <1>11, SearchersAre, SearchersNext DEF InSearch, idleVars, coreVars
    <2> QED BY <2>1
  <1>13. \A v \in sleepers' : Place(v)' \in InPark \/ (is_shutdown'[v] /\ pc'[v] \in {"top", "shutdown", "done"})
    <2> SUFFICES ASSUME NEW v \in sleepers
                 PROVE  Place(v)' \in InPark \/ (is_shutdown'[v] /\ pc'[v] \in {"top", "shutdown", "done"})
      BY <1>1 DEF idleVars
    <2>1. v \in Thread
      BY <1>2, <1>10 DEF Types
    <2>2. pc[v] \in {"top", "shutdown", "done"} => v # p
      BY <1>1
    <2> QED BY <2>1, <2>2, <1>1, <1>5, <1>11 DEF Counted, coreVars
  <1>14. Counted'
    BY <1>1, <1>12, <1>13 DEF Counted, idleVars, stopVars
  <1>15. Called'
    <2> SUFFICES ASSUME NEW v \in Worker, Place(v)' \in Sleepy, v \notin sleepers'
                 PROVE  token'[v] \/ \E q \in Thread : target'[q] = v
      BY DEF Called
    <2>1. token[v] \/ \E q \in Thread : target[q] = v
      BY <1>1, <1>10, <1>11 DEF Called, idleVars
    <2>2. /\ token'[target[p]] = TRUE
          /\ token[v] => token'[v]
      BY <1>1, <1>2, <1>3 DEF Types
    <2> QED BY <2>1, <2>2, <1>5
  <1> QED BY <1>10, <1>14, <1>15

\* A worker without a task moves and changes its own search flag.
LEMMA SearchMove ==
  ASSUME Control, NEW w \in Worker, NEW from, NEW to \in {"top", "parking", "final_main"},
         NEW search \in BOOLEAN,
         from \in {"to_parked", "self_unpark", "is_parked"}, pc[w] = from,
         pc' = [pc EXCEPT ![w] = to], is_searching' = [is_searching EXCEPT ![w] = search],
         sleepers' \subseteq Worker, search => to = "top",
         UNCHANGED <<taskVars, ret, target, is_shutdown, tick, cur, defer, parkVars, stopVars>>
  PROVE  /\ Control' /\ OthersSame(w) /\ w \in Thread
         /\ Place(w) = from /\ Place(w)' = to /\ is_searching'[w] = search
         /\ \A q \in Thread : q # w => Place(q)' = Place(q) /\ pc'[q] = pc[q]
         /\ \A v \in Worker : v \in Thread
         /\ \A v \in Worker : v # w /\ (v \in sleepers' <=> v \in sleepers)
              => (v \in Searchers' <=> v \in Searchers)
  <1>1. Types /\ w \in Thread /\ w \notin Remote /\ to \in PCs
    BY SchedAssumption DEF Control, Thread, PCs
  <1>2. pc' \in [Thread -> PCs] /\ is_searching' \in [Worker -> BOOLEAN]
    BY <1>1 DEF Types
  <1>3. Types'
    BY <1>1, <1>2 DEF Types, taskVars, parkVars, stopVars
  <1>4. /\ pc'[w] = to /\ is_searching'[w] = search
        /\ \A q \in Thread : q # w => pc'[q] = pc[q] /\ ret'[q] = ret[q]
        /\ \A v \in Worker : v # w => is_searching'[v] = is_searching[v]
    BY <1>1 DEF Types
  <1>5. Place(w) = from /\ Place(w)' = to
    BY <1>4 DEF Place
  <1>6. OthersSame(w)
    BY <1>4 DEF OthersSame
  <1>7. target'[w] = NoWorker /\ cur'[w] = NoTask
    BY <1>1, <1>5 DEF Control, Returns, Cores
  <1>8. PlacedRight(w)
    BY <1>1, <1>4, <1>5, <1>7 DEF PlacedRight
  <1>9. search => to \notin InPark
    BY DEF InPark
  <1>10. /\ Control'
         /\ \A q \in Thread : q # w => Place(q)' = Place(q)
         /\ \A v \in Worker : v \in Thread
         /\ \A v \in Worker : v # w /\ (v \in sleepers' <=> v \in sleepers)
              => (v \in Searchers' <=> v \in Searchers)
    BY <1>1, <1>3, <1>4, <1>5, <1>6, <1>8, <1>9, PlacedControl DEF stopVars
  <1> QED BY <1>1, <1>4, <1>5, <1>6, <1>10

\* Idle::transition_worker_to_parked.
LEMMA ToParkedInv ==
  ASSUME Control, Counted, Called, NEW w \in Worker, ToParked(w)
  PROVE  Control' /\ Counted' /\ Called'
  <1> DEFINE to == IF is_searching[w] /\ num_searching = 1 THEN "final_main" ELSE "parking"
  <1>1. /\ pc[w] = "to_parked" /\ pc' = [pc EXCEPT ![w] = to]
        /\ num_unparked' = num_unparked - 1
        /\ num_searching' = IF is_searching[w] THEN num_searching - 1 ELSE num_searching
        /\ sleepers' = sleepers \cup {w}
        /\ is_searching' = [is_searching EXCEPT ![w] = FALSE]
        /\ UNCHANGED <<taskVars, ret, target, is_shutdown, tick, cur, defer, parkVars, stopVars>>
    BY DEF ToParked, Goto
  <1>2. to \in {"parking", "final_main"} /\ sleepers' \subseteq Worker
    BY <1>1 DEF Control, Types
  <1> HIDE DEF to
  <1>3. /\ Control' /\ OthersSame(w) /\ w \in Thread
        /\ Place(w) = "to_parked" /\ Place(w)' = to /\ is_searching'[w] = FALSE
        /\ \A q \in Thread : q # w => Place(q)' = Place(q) /\ pc'[q] = pc[q]
        /\ \A v \in Worker : v \in Thread
        /\ \A v \in Worker : v # w => (v \in Searchers' <=> v \in Searchers)
    <2>1. \A v \in Worker : v # w => (v \in sleepers' <=> v \in sleepers)
      BY <1>1
    <2> QED BY <1>1, <1>2, <2>1, SearchMove
  <1>4. Place(w) \notin InPark /\ Place(w)' \in InPark /\ w \notin sleepers
    BY <1>1, <1>2, <1>3 DEF InPark, Counted
  <1>5. Searchers' = Searchers \ {w} /\ (w \in Searchers <=> is_searching[w])
    <2>1. w \notin Searchers'
      BY <1>1, <1>3, SearchersNext DEF InSearch
    <2>2. w \in Searchers <=> is_searching[w]
      BY <1>3, <1>4, SearchersAre DEF InSearch
    <2>3. Searchers \subseteq Worker /\ Searchers' \subseteq Worker
      BY DEF Searchers
    <2> QED BY <2>1, <2>2, <2>3, <1>3
  <1>6. /\ Cardinality(Searchers) \in Nat
        /\ is_searching[w] => Cardinality(Searchers') = Cardinality(Searchers) - 1 /\ Cardinality(Searchers) >= 1
        /\ ~is_searching[w] => Cardinality(Searchers') = Cardinality(Searchers)
    BY <1>5, SearchersAre, OneMore
  <1>7. Cardinality(sleepers') = Cardinality(sleepers) + 1 /\ Cardinality(sleepers) \in Nat
    BY <1>1, <1>4, SearchersAre, OneMore
  <1>8. Cardinality(sleepers') <= Cardinality(Worker) /\ Cardinality(Worker) \in Nat
    BY <1>2, SchedAssumption, FS_Subset, FS_CardinalityType
  <1>9. \A v \in sleepers' : Place(v)' \in InPark \/ (is_shutdown'[v] /\ pc'[v] \in {"top", "shutdown", "done"})
    <2> SUFFICES ASSUME NEW v \in sleepers, v # w
                 PROVE  Place(v)' \in InPark \/ (is_shutdown'[v] /\ pc'[v] \in {"top", "shutdown", "done"})
      BY <1>1, <1>4
    <2>1. v \in Thread
      BY <1>1, <1>2, <1>3
    <2> QED BY <2>1, <1>1, <1>3 DEF Counted
  <1>10. Counted'
    <2>1. num_unparked' \in Nat /\ num_unparked' + Cardinality(sleepers') = Cardinality(Worker)
      BY <1>1, <1>7, <1>8 DEF Counted
    <2>2. /\ num_searching' \in Nat /\ num_searching' >= Cardinality(Searchers')
          /\ ~closed' => num_searching' = Cardinality(Searchers')
      <3>1. closed' = closed
        BY <1>1 DEF stopVars
      <3> QED BY <3>1, <1>1, <1>6 DEF Counted
    <2> QED BY <2>1, <2>2, <1>9 DEF Counted
  <1>11. Called'
    <2> SUFFICES ASSUME NEW v \in Worker, Place(v)' \in Sleepy, v \notin sleepers'
                 PROVE  token'[v] \/ \E q \in Thread : target'[q] = v
      BY DEF Called
    <2>1. v # w /\ v \notin sleepers
      BY <1>1
    <2> QED BY <2>1, <1>1, <1>3 DEF Called, parkVars
  <1> QED BY <1>3, <1>10, <1>11

\* unpark_worker_by_id and is_parked: the worker leaves the park loop or
\* stays in it, and is a searcher afterwards exactly when it was one before.
LEMMA LeaveParkInv ==
  ASSUME Control, Counted, Called, NEW w \in Worker, SelfUnpark(w) \/ IsParked(w)
  PROVE  Control' /\ Counted' /\ Called'
  <1> DEFINE to == IF IsParked(w) /\ w \in sleepers THEN "parking" ELSE "top"
  <1> DEFINE search == w \notin sleepers
  <1>1. /\ pc[w] \in {"self_unpark", "is_parked"} /\ pc' = [pc EXCEPT ![w] = to]
        /\ UNCHANGED <<taskVars, num_searching, ret, target, is_shutdown, tick, cur, defer, parkVars, stopVars>>
    BY DEF SelfUnpark, IsParked, Goto, idleVars
  <1>2. ~is_searching[w] /\ Place(w) \in InPark
    BY <1>1 DEF Control, Cores, Place, InPark
  <1>3. is_searching' = [is_searching EXCEPT ![w] = search]
    <2>1. CASE SelfUnpark(w)
      BY <2>1 DEF SelfUnpark
    <2>2. CASE IsParked(w)
      <3>1. (is_searching[w] \/ w \notin sleepers) = (w \notin sleepers)
        BY <1>2
      <3> QED BY <2>2, <3>1 DEF IsParked
    <2> QED BY <2>1, <2>2
  <1>4. \/ sleepers' = sleepers /\ num_unparked' = num_unparked /\ (to = "top" => w \notin sleepers)
        \/ sleepers' = sleepers \ {w} /\ w \in sleepers /\ num_unparked' = num_unparked + 1 /\ to = "top"
    <2>1. CASE SelfUnpark(w)
      <3>1. pc[w] = "self_unpark" /\ ~IsParked(w)
        BY <2>1 DEF SelfUnpark, IsParked, Goto
      <3>2. CASE w \in sleepers
        BY <2>1, <3>1, <3>2 DEF SelfUnpark
      <3>3. CASE w \notin sleepers
        <4>1. sleepers \ {w} = sleepers
          BY <3>3
        <4> QED BY <2>1, <3>1, <3>3, <4>1 DEF SelfUnpark
      <3> QED BY <3>2, <3>3
    <2>2. CASE IsParked(w)
      BY <2>2 DEF IsParked, idleVars
    <2> QED BY <2>1, <2>2
  <1>5. to \in {"top", "parking"} /\ search \in BOOLEAN /\ (search => to = "top")
    OBVIOUS
  <1>6. sleepers' \subseteq Worker
    BY <1>4 DEF Control, Types
  <1>7. search <=> w \notin sleepers
    OBVIOUS
  <1> HIDE DEF to, search
  <1>8. /\ Control' /\ OthersSame(w) /\ w \in Thread
        /\ Place(w)' = to /\ is_searching'[w] = search
        /\ \A q \in Thread : q # w => Place(q)' = Place(q) /\ pc'[q] = pc[q]
        /\ \A v \in Worker : v \in Thread
        /\ \A v \in Worker : v # w => (v \in Searchers' <=> v \in Searchers)
    <2>1. \A v \in Worker : v # w => (v \in sleepers' <=> v \in sleepers)
      BY <1>4
    <2> QED BY <1>1, <1>3, <1>5, <1>6, <2>1, SearchMove
  <1>9. "parking" \in InPark /\ "top" \notin InPark
    BY DEF InPark
  <1>10. Searchers' = Searchers
    <2>1. w \in Searchers <=> w \notin sleepers
      BY <1>2, SearchersAre DEF InSearch
    <2>2. w \in Searchers' <=> w \notin sleepers
      BY <1>4, <1>5, <1>7, <1>8, <1>9, SearchersNext DEF InSearch
    <2>3. Searchers \subseteq Worker /\ Searchers' \subseteq Worker
      BY DEF Searchers
    <2> QED BY <2>1, <2>2, <2>3, <1>8
  <1>11. num_unparked' \in Nat /\ num_unparked' + Cardinality(sleepers') = Cardinality(Worker)
    <2>1. CASE sleepers' = sleepers /\ num_unparked' = num_unparked
      BY <2>1 DEF Counted
    <2>2. CASE sleepers' = sleepers \ {w} /\ w \in sleepers /\ num_unparked' = num_unparked + 1
      <3>1. Cardinality(sleepers') = Cardinality(sleepers) - 1 /\ Cardinality(sleepers) \in Nat
        BY <2>2, SearchersAre, OneMore
      <3> QED BY <2>2, <3>1 DEF Counted
    <2> QED BY <2>1, <2>2, <1>4
  <1>12. \A v \in sleepers' : Place(v)' \in InPark \/ (is_shutdown'[v] /\ pc'[v] \in {"top", "shutdown", "done"})
    <2> SUFFICES ASSUME NEW v \in sleepers'
                 PROVE  Place(v)' \in InPark \/ (is_shutdown'[v] /\ pc'[v] \in {"top", "shutdown", "done"})
      OBVIOUS
    <2>1. v \in sleepers /\ (v = w => to = "parking")
      BY <1>4, <1>5
    <2>2. v \in Thread
      BY <1>6, <1>8
    <2> QED BY <2>1, <2>2, <1>1, <1>8, <1>9 DEF Counted
  <1>13. Counted'
    BY <1>1, <1>10, <1>11, <1>12 DEF Counted, stopVars
  <1>14. Called'
    <2> SUFFICES ASSUME NEW v \in Worker, Place(v)' \in Sleepy, v \notin sleepers'
                 PROVE  token'[v] \/ \E q \in Thread : target'[q] = v
      BY DEF Called
    <2>1. "top" \notin Sleepy
      BY DEF Sleepy
    <2>2. v # w /\ v \notin sleepers
      BY <2>1, <1>4, <1>5, <1>7, <1>8
    <2> QED BY <2>2, <1>1, <1>8 DEF Called, parkVars
  <1> QED BY <1>8, <1>13, <1>14

-----------------------------------------------------------------------------
(***************************************************************************)
(* Where the tasks are                                                     *)
(***************************************************************************)

Queued(t) == t \in main \/ t \in Range(infra)

\* Tasks that are queued are tasks, in the queue of their kind.
LEMMA QueuedKinds ==
  ASSUME Types
  PROVE  /\ \A t : Queued(t) => t \in Task
         /\ \A t : t \in Range(infra) => t \in InfraTask /\ t \notin main
  <1>1. \A t : t \in Range(infra) => t \in InfraTask
    BY DEF Types, Range
  <1> QED BY <1>1, SchedAssumption DEF Types, Queued

\* Held, with the two queues as one.
Spread ==
  /\ \A w, v \in Worker : w # v /\ cur[w] # NoTask => cur[w] # cur[v]
  /\ \A w \in Worker : ~Queued(cur[w])
  /\ \A t \in Task :
       /\ task[t] = "idle" => ~Queued(t) /\ \A w \in Worker : cur[w] # t
       /\ task[t] \notin {"idle", "done"} => Queued(t) \/ \E w \in Worker : cur[w] = t

LEMMA HeldIsSpread ==
  /\ Held <=> IsInjective(infra) /\ Spread
  /\ Held' <=> (IsInjective(infra) /\ Spread)'
  BY DEF Held, Spread, Queued

\* SharedPrioQueue::push of a task that is in neither queue.
LEMMA EnqueueAdds ==
  ASSUME Types, IsInjective(infra), NEW t \in Task, ~Queued(t), Enqueue(t)
  PROVE  IsInjective(infra') /\ \A u : Queued(u)' <=> Queued(u) \/ u = t
  <1>1. CASE t \in InfraTask
    <2>1. infra' = Append(infra, t) /\ main' = main
      BY <1>1 DEF Enqueue
    <2>2. Range(Append(infra, t)) = Range(infra) \cup {t} /\ IsInjective(Append(infra, t))
      BY <1>1, AppendFacts DEF Types, Queued
    <2> QED BY <2>1, <2>2 DEF Queued
  <1>2. CASE t \notin InfraTask
    <2>1. infra' = infra /\ main' = main \cup {t}
      BY <1>2 DEF Enqueue
    <2> QED BY <2>1 DEF Queued
  <1> QED BY <1>1, <1>2

\* A wake of any kind.
LEMMA WakeHeld ==
  ASSUME Types, Held, NEW t \in Task, UNCHANGED cur,
         Schedule(t) \/ MarkNotified(t) \/ UNCHANGED <<task, main, infra>>
  PROVE  Held'
  <1>1. CASE Schedule(t)
    <2>1. task[t] = "idle" /\ task' = [task EXCEPT ![t] = "queued"] /\ Enqueue(t)
      BY <1>1 DEF Schedule
    <2>2. ~Queued(t) /\ \A w \in Worker : cur[w] # t
      BY <2>1, HeldIsSpread DEF Spread
    <2>3. IsInjective(infra') /\ \A u : Queued(u)' <=> Queued(u) \/ u = t
      BY <2>1, <2>2, HeldIsSpread, EnqueueAdds
    <2>4. task'[t] = "queued" /\ \A u \in Task : u # t => task'[u] = task[u]
      BY <2>1 DEF Types
    <2>5. Spread'
      BY <2>2, <2>3, <2>4, HeldIsSpread DEF Spread
    <2> QED BY <2>3, <2>5, HeldIsSpread
  <1>2. CASE UNCHANGED <<task, main, infra>>
    BY <1>2 DEF Held
  <1> QED BY <1>1, <1>2 DEF MarkNotified

\* SharedPrioQueue::pop.
LEMMA PopHeld ==
  ASSUME Control, Held, NEW w \in Worker, PopInfra(w) \/ PopMain(w)
  PROVE  Held'
  <1>1. Types /\ cur[w] = NoTask /\ task' = task
    BY DEF PopInfra, PopMain, Goto, Control, Cores, Place
  <1>2. ASSUME NEW t, Queued(t), cur' = [cur EXCEPT ![w] = t], IsInjective(infra'),
               \A u : Queued(u)' <=> Queued(u) /\ u # t
        PROVE  Held'
    <2>1. t \in Task /\ t # NoTask
      BY <1>1, <1>2, QueuedKinds, SchedAssumption
    <2>2. cur'[w] = t /\ \A v \in Worker : v # w => cur'[v] = cur[v] /\ cur[v] # t
      BY <1>1, <1>2, HeldIsSpread DEF Types, Spread
    <2>3. ~Queued(t)' /\ \A v \in Worker : ~Queued(cur[v])'
      BY <1>2, <2>2, HeldIsSpread DEF Spread
    <2>4. Spread'
      <3>1. \A x, v \in Worker : x # v /\ cur'[x] # NoTask => cur'[x] # cur'[v]
        BY <2>2, HeldIsSpread DEF Spread
      <3>2. ASSUME NEW u \in Task
            PROVE  /\ task'[u] = "idle" => ~Queued(u)' /\ \A v \in Worker : cur'[v] # u
                   /\ task'[u] \notin {"idle", "done"} => Queued(u)' \/ \E v \in Worker : cur'[v] = u
        <4>1. CASE u = t
          BY <4>1, <1>1, <1>2, <2>1, <2>2, HeldIsSpread DEF Spread
        <4>2. CASE u # t
          <5>1. task'[u] = "idle" => ~Queued(u)' /\ \A v \in Worker : cur'[v] # u
            BY <4>2, <1>1, <1>2, <2>2, HeldIsSpread DEF Spread
          <5>2. (\E v \in Worker : cur[v] = u) => \E v \in Worker : cur'[v] = u
            BY <1>1, <2>1, <2>2, SchedAssumption
          <5>3. task'[u] \notin {"idle", "done"} => Queued(u)' \/ \E v \in Worker : cur'[v] = u
            BY <4>2, <5>2, <1>1, <1>2, HeldIsSpread DEF Spread
          <5> QED BY <5>1, <5>3
        <4> QED BY <4>1, <4>2
      <3> QED BY <2>3, <3>1, <3>2 DEF Spread
    <2> QED BY <1>2, <2>4, HeldIsSpread
  <1>3. CASE UNCHANGED <<main, infra, cur>>
    BY <1>1, <1>3 DEF Held
  <1>4. CASE PopInfra(w) /\ infra # <<>>
    <2>1. cur' = [cur EXCEPT ![w] = Head(infra)] /\ infra' = Tail(infra) /\ main' = main
      BY <1>4 DEF PopInfra
    <2>2. /\ Head(infra) \in Range(infra) /\ IsInjective(Tail(infra))
          /\ Range(Tail(infra)) = Range(infra) \ {Head(infra)}
      BY <1>1, <1>4, TailFacts DEF Types, Held
    <2>3. Queued(Head(infra)) /\ Head(infra) \notin main
      BY <1>1, <2>2, QueuedKinds DEF Queued
    <2>4. \A u : Queued(u)' <=> Queued(u) /\ u # Head(infra)
      BY <2>1, <2>2, <2>3 DEF Queued
    <2> QED BY <1>2, <2>1, <2>2, <2>3, <2>4
  <1>5. CASE PopMain(w) /\ main # {}
    <2>1. PICK t \in main : cur' = [cur EXCEPT ![w] = t] /\ main' = main \ {t}
      BY <1>5 DEF PopMain
    <2>2. infra' = infra
      BY <1>5 DEF PopMain
    <2>3. Queued(t) /\ t \notin Range(infra)
      BY <1>1, <2>1, QueuedKinds DEF Queued
    <2>4. \A u : Queued(u)' <=> Queued(u) /\ u # t
      BY <2>1, <2>2, <2>3 DEF Queued
    <2> QED BY <1>2, <2>1, <2>2, <2>3, <2>4 DEF Held
  <1> QED BY <1>3, <1>4, <1>5 DEF PopInfra, PopMain

\* run_task: a task that was cancelled in the queue is dropped, any other is
\* running now.
LEMMA RunTaskHeld ==
  ASSUME Control, Held, NEW w \in Worker, RunTask(w)
  PROVE  Held'
  <1>1. Types /\ UNCHANGED <<main, infra>> /\ pc[w] = "found"
    BY DEF RunTask, Control
  <1>2. cur[w] \in Task
    BY <1>1, HasTask DEF Place
  <1>3. \A u : Queued(u)' <=> Queued(u)
    BY <1>1 DEF Queued
  <1>4. CASE task[cur[w]] = "done"
    <2>1. task' = task /\ cur' = [cur EXCEPT ![w] = NoTask]
      BY <1>4 DEF RunTask
    <2>2. cur'[w] = NoTask /\ \A v \in Worker : v # w => cur'[v] = cur[v]
      BY <1>1, <2>1 DEF Types
    <2>3. ~Queued(NoTask)
      BY <1>1, QueuedKinds, SchedAssumption
    <2>4. \A u \in Task : task[u] # "done" => u # cur[w]
      BY <1>4
    <2>5. Spread'
      BY <1>3, <2>1, <2>2, <2>3, <2>4, HeldIsSpread, SchedAssumption DEF Spread
    <2> QED BY <1>1, <2>5, HeldIsSpread
  <1>5. CASE task[cur[w]] # "done"
    <2>1. task' = [task EXCEPT ![cur[w]] = "running"] /\ cur' = cur
      BY <1>5 DEF RunTask
    <2>2. task'[cur[w]] = "running" /\ \A u \in Task : u # cur[w] => task'[u] = task[u]
      BY <1>1, <1>2, <2>1 DEF Types
    <2>3. Spread'
      BY <1>3, <2>1, <2>2, HeldIsSpread DEF Spread
    <2> QED BY <1>1, <2>3, HeldIsSpread
  <1> QED BY <1>4, <1>5

\* The poll ends: the task is complete, idle or queued again.
LEMMA PollEndsHeld ==
  ASSUME Control, Held, NEW w \in Worker, PollReady(w) \/ \E y \in BOOLEAN : PollPending(w, y)
  PROVE  Held'
  <1>1. Types /\ pc[w] = "poll"
    BY DEF PollReady, PollPending, Goto, Control
  <1>2. cur[w] \in Task
    BY <1>1, HasTask DEF Place
  <1>3. /\ cur' = [cur EXCEPT ![w] = NoTask]
        /\ \/ task' = [task EXCEPT ![cur[w]] = "queued"] /\ Enqueue(cur[w])
           \/ \E s \in {"idle", "done"} :
                task' = [task EXCEPT ![cur[w]] = s] /\ UNCHANGED <<main, infra>>
    BY DEF PollReady, PollPending
  <1>4. /\ cur'[w] = NoTask
        /\ \A v \in Worker : v # w => cur'[v] = cur[v] /\ cur[v] # cur[w]
    BY <1>1, <1>2, <1>3, HeldIsSpread, SchedAssumption DEF Types, Spread
  <1>5. ~Queued(cur[w]) /\ ~Queued(NoTask)
    BY <1>1, QueuedKinds, HeldIsSpread, SchedAssumption DEF Spread
  <1>6. \A v \in Worker : cur'[v] # cur[w]
    BY <1>2, <1>4, SchedAssumption
  <1>7. CASE task' = [task EXCEPT ![cur[w]] = "queued"] /\ Enqueue(cur[w])
    <2>1. IsInjective(infra') /\ \A u : Queued(u)' <=> Queued(u) \/ u = cur[w]
      BY <1>1, <1>2, <1>5, <1>7, HeldIsSpread, EnqueueAdds
    <2>2. task'[cur[w]] = "queued" /\ \A u \in Task : u # cur[w] => task'[u] = task[u]
      BY <1>1, <1>2, <1>7 DEF Types
    <2>3. \A v \in Worker : ~Queued(cur[v])'
      BY <1>2, <1>4, <1>5, <1>6, <2>1, HeldIsSpread DEF Spread
    <2>4. \A u \in Task :
            /\ task'[u] = "idle" => ~Queued(u)' /\ \A v \in Worker : cur'[v] # u
            /\ task'[u] \notin {"idle", "done"} => Queued(u)' \/ \E v \in Worker : cur'[v] = u
      BY <1>4, <2>1, <2>2, HeldIsSpread, SchedAssumption DEF Spread
    <2>5. Spread'
      BY <1>4, <2>3, <2>4, HeldIsSpread DEF Spread
    <2> QED BY <2>1, <2>5, HeldIsSpread
  <1>8. ASSUME NEW s \in {"idle", "done"}, task' = [task EXCEPT ![cur[w]] = s], UNCHANGED <<main, infra>>
        PROVE  Held'
    <2>1. \A u : Queued(u)' <=> Queued(u)
      BY <1>8 DEF Queued
    <2>2. task'[cur[w]] \in {"idle", "done"} /\ \A u \in Task : u # cur[w] => task'[u] = task[u]
      BY <1>1, <1>2, <1>8 DEF Types
    <2>3. \A v \in Worker : ~Queued(cur[v])'
      BY <1>4, <1>5, <2>1, HeldIsSpread DEF Spread
    <2>4. \A u \in Task :
            /\ task'[u] = "idle" => ~Queued(u)' /\ \A v \in Worker : cur'[v] # u
            /\ task'[u] \notin {"idle", "done"} => Queued(u)' \/ \E v \in Worker : cur'[v] = u
      BY <1>4, <1>5, <1>6, <2>1, <2>2, HeldIsSpread, SchedAssumption DEF Spread
    <2>5. Spread'
      BY <1>4, <2>3, <2>4, HeldIsSpread DEF Spread
    <2> QED BY <1>8, <2>5, HeldIsSpread
  <1> QED BY <1>3, <1>7, <1>8

\* pre_shutdown cancels every task that is not being polled.
LEMMA PreShutdownHeld ==
  ASSUME Held, Types, NEW w \in Worker, PreShutdown(w)
  PROVE  Held'
  <1>1. /\ UNCHANGED <<main, infra, cur>>
        /\ task' = [t \in Task |-> IF task[t] = "running" THEN "running" ELSE "done"]
    BY DEF PreShutdown, coreVars
  <1>2. \A t \in Task : task'[t] = "done" \/ (task'[t] = "running" /\ task[t] = "running")
    BY <1>1
  <1>3. \A u : Queued(u)' <=> Queued(u)
    BY <1>1 DEF Queued
  <1>4. Spread'
    BY <1>1, <1>2, <1>3, HeldIsSpread DEF Spread
  <1> QED BY <1>1, <1>4, HeldIsSpread

-----------------------------------------------------------------------------
(***************************************************************************)
(* The theorems                                                            *)
(***************************************************************************)

LEMMA SchedInit ==
  ASSUME Init
  PROVE  SchedIInv
  <1>1. Types
    <2>1. pc \in [Thread -> PCs] /\ ret \in [Thread -> PCs]
      BY DEF Init, PCs
    <2>2. <<>> \in Seq(InfraTask) /\ 0 \in 0 .. EventInterval - 1
      BY SchedAssumption
    <2> QED BY <2>1, <2>2 DEF Init, Types
  <1>2. \A p \in Thread : /\ pc[p] = IF p \in Worker THEN "top" ELSE "idle"
                          /\ Place(p) = pc[p]
    BY DEF Init, Place
  <1>3. (\A w \in Worker : w \in Thread) /\ (\A r \in Remote : r \in Thread /\ r \notin Worker)
    BY SchedAssumption DEF Thread
  <1>4. Returns /\ Cores
    BY <1>2, <1>3 DEF Init, Returns, Cores
  <1>5. Control
    BY <1>1, <1>4 DEF Control
  <1>6. Counted
    <2>1. Searchers = {}
      <3>1. \A w : w \notin Searchers
        BY <1>2, <1>3, <1>5, SearchersAre DEF Init, InSearch, InPark
      <3> QED BY <3>1
    <2>2. Cardinality({}) = 0 /\ Cardinality(Worker) \in Nat
      BY SchedAssumption, FS_EmptySet, FS_CardinalityType
    <2> QED BY <2>1, <2>2 DEF Init, Counted
  <1>7. Called
    BY <1>2, <1>3 DEF Called, Sleepy
  <1>8. Held
    <2>1. \A u : ~Queued(u)
      BY DEF Init, Queued, Range
    <2>2. IsInjective(infra)
      BY DEF Init, IsInjective
    <2>3. \A w \in Worker : cur[w] = NoTask
      BY DEF Init
    <2>4. \A t \in Task : task[t] = "idle" /\ t # NoTask
      BY SchedAssumption DEF Init
    <2>5. Spread
      BY <2>1, <2>3, <2>4 DEF Spread
    <2> QED BY <2>2, <2>5, HeldIsSpread
  <1> QED BY <1>5, <1>6, <1>7, <1>8 DEF SchedIInv

\* A step of the code of worker_to_notify and unpark, by any thread.
LEMMA NotificationInv ==
  ASSUME SchedIInv, NEW p \in Thread, Notification(p)
  PROVE  SchedIInv'
  <1>1. Held'
    BY DEF Notification, NotifyNone, NotifyPick, Unpark, taskVars, coreVars, Held, SchedIInv
  <1>2. Control' /\ Counted' /\ Called'
    BY NotifyNonePlain, PlainInv, NotifyPickInv, UnparkInv DEF Notification, SchedIInv
  <1> QED BY <1>1, <1>2 DEF SchedIInv

LEMMA WorkerInv ==
  ASSUME SchedIInv, NEW w \in Worker,
         WorkerStep(w) \/ PollEnds(w) \/ DriverEvent(w)
           \/ \E t \in Task : PollWake(w, t) \/ DriverWake(w, t)
  PROVE  SchedIInv'
  <1>1. Control /\ Counted /\ Called /\ Held /\ Types /\ w \in Thread
    BY DEF SchedIInv, Control, Thread
  <1> DEFINE Loop == Tick(w) \/ Maintenance(w) \/ NoTaskFound(w) \/ Park0(w) \/ Park0Polled(w)
                       \/ CheckMain(w) \/ CheckInfra(w) \/ ShutdownCore(w)
             Wait == FinalMain(w) \/ FinalInfra(w) \/ Park(w) \/ CondvarWake(w) \/ DriverUnparked(w)
                       \/ DriverEvent(w) \/ DriverDone(w) \/ FromMain(w) \/ FromInfra(w)
             Leave == ToParked(w) \/ SelfUnpark(w) \/ IsParked(w)
             Read == Unparked(w) \/ Park0Return(w)
  <1>2. CASE Loop
    <2>1. UNCHANGED <<task, main, infra, cur>>
      BY <1>2 DEF Tick, Maintenance, NoTaskFound, Park0, Park0Polled, CheckMain, CheckInfra,
             ShutdownCore, TestMain, TestInfra, taskVars, coreVars
    <2>2. Held'
      BY <1>1, <2>1 DEF Held
    <2> QED BY <1>1, <1>2, <2>2, RunLoopPlain, PlainInv DEF SchedIInv
  <1>3. CASE Wait
    <2>1. UNCHANGED <<task, main, infra, cur>>
      BY <1>3 DEF FinalMain, FinalInfra, FinalCheck, Park, CondvarWake, DriverUnparked, DriverEvent,
             DriverDone, FromMain, FromInfra, TestMain, TestInfra, taskVars, coreVars
    <2>2. Held'
      BY <1>1, <2>1 DEF Held
    <2> QED BY <1>1, <1>3, <2>2, ParkLoopPlain, PlainInv DEF SchedIInv
  <1>4. CASE Leave
    <2>1. UNCHANGED <<task, main, infra, cur>>
      BY <1>4 DEF ToParked, SelfUnpark, IsParked, taskVars
    <2>2. Held'
      BY <1>1, <2>1 DEF Held
    <2> QED BY <1>1, <1>4, <2>2, ToParkedInv, LeaveParkInv DEF SchedIInv
  <1>5. CASE Read
    <2>1. UNCHANGED <<task, main, infra, cur>>
      BY <1>5 DEF Unparked, Park0Return, taskVars
    <2>2. Held'
      BY <1>1, <2>1 DEF Held
    <2> QED BY <1>1, <1>5, <2>2, MaintenancePlain, PlainInv DEF SchedIInv
  <1>6. CASE PopInfra(w) \/ PopMain(w)
    BY <1>1, <1>6, PopPlain, PlainInv, PopHeld DEF SchedIInv
  <1>7. CASE RunTask(w)
    BY <1>1, <1>7, RunTaskInv, RunTaskHeld DEF SchedIInv
  <1>8. CASE PollEnds(w)
    BY <1>1, <1>8, PollEndsPlain, PlainInv, PollEndsHeld DEF SchedIInv, PollEnds
  <1>9. CASE PreShutdown(w)
    BY <1>1, <1>9, PreShutdownPlain, PlainInv, PreShutdownHeld DEF SchedIInv
  <1>10. ASSUME NEW t \in Task, PollWake(w, t) \/ DriverWake(w, t) \/ DeferWake(w, t)
         PROVE  SchedIInv'
    <2>1. cur' = cur /\ (Schedule(t) \/ MarkNotified(t) \/ UNCHANGED <<task, main, infra>>)
      BY <1>10 DEF PollWake, DriverWake, DeferWake, coreVars, taskVars
    <2>2. Held'
      BY <1>1, <2>1, WakeHeld
    <2>3. Plain(w)
      BY <1>1, <1>10, WakePlain, DriverWakePlain, DeferWakePlain
    <2> QED BY <1>1, <2>2, <2>3, PlainInv DEF SchedIInv
  <1>11. CASE Notification(w)
    BY <1>1, <1>11, NotificationInv
  <1> QED BY <1>2, <1>3, <1>4, <1>5, <1>6, <1>7, <1>8, <1>9, <1>10, <1>11 DEF WorkerStep

LEMMA RemoteInv ==
  ASSUME SchedIInv, NEW r \in Remote,
         RemoteStep(r) \/ Close(r) \/ \E t \in Task : RemoteWake(r, t)
  PROVE  SchedIInv'
  <1>1. Control /\ Counted /\ Called /\ Held /\ Types /\ r \in Thread
    BY DEF SchedIInv, Control, Thread
  <1>2. CASE Close(r) \/ NotifyAll(r)
    <2>1. UNCHANGED <<task, main, infra, cur>>
      BY <1>2 DEF Close, NotifyAll, taskVars, coreVars
    <2>2. Held'
      BY <1>1, <2>1 DEF Held
    <2> QED BY <1>1, <1>2, <2>2, ClosePlain, PlainInv DEF SchedIInv
  <1>3. ASSUME NEW t \in Task, RemoteWake(r, t)
        PROVE  SchedIInv'
    <2>1. cur' = cur /\ (Schedule(t) \/ MarkNotified(t))
      BY <1>3 DEF RemoteWake, coreVars
    <2>2. Held'
      BY <1>1, <2>1, WakeHeld
    <2> QED BY <1>1, <1>3, <2>2, WakePlain, PlainInv DEF SchedIInv
  <1>4. CASE Notification(r)
    BY <1>1, <1>4, NotificationInv
  <1> QED BY <1>2, <1>3, <1>4 DEF RemoteStep

\* The invariant holds in every reachable state of the scheduler, with any
\* number of workers, outside threads and tasks, and whether or not it is shut
\* down on the way.
THEOREM SchedInvariant == Spec => []SchedIInv
  <1>1. Init => SchedIInv
    BY SchedInit
  <1>2. SchedIInv /\ [Next]_vars => SchedIInv'
    <2> SUFFICES ASSUME SchedIInv, [Next]_vars
                 PROVE  SchedIInv'
      OBVIOUS
    <2>1. CASE UNCHANGED vars
      BY <2>1 DEF vars, SchedIInv, Control, Types, Returns, Cores, Counted, Called, Held, Place,
             Searchers, Parked
    <2>2. CASE Next
      BY <2>2, WorkerInv, RemoteInv DEF Next
    <2> QED BY <2>1, <2>2
  <1> QED BY <1>1, <1>2, PTL DEF Spec

\* Idle::state is exact: num_unparked and num_searching agree with the
\* sleepers and with the workers' own flags, and only parked workers sleep.
THEOREM IdleIsExact == Spec => []SchedInv
  <1>1. SchedIInv => SchedInv
    <2> SUFFICES ASSUME SchedIInv
                 PROVE  SchedInv
      OBVIOUS
    <2>1. TypeOK
      BY DEF SchedIInv, Control, Types, Counted, TypeOK
    <2>2. CountersExact
      BY DEF SchedIInv, Counted, CountersExact
    <2>3. SleepersParked
      <3>1. ASSUME ~closed, NEW w \in sleepers
            PROVE  Parked(w)
        <4>1. w \in Worker /\ Place(w) \in InPark
          BY <3>1 DEF SchedIInv, Control, Types, Cores, Counted
        <4> QED BY <4>1 DEF SchedIInv, Control, Returns, Place, Parked, InPark
      <3> QED BY <3>1 DEF SleepersParked
    <2> QED BY <2>1, <2>2, <2>3 DEF SchedInv
  <1> QED BY <1>1, SchedInvariant, PTL

\* A worker that a notifier took out of the sleepers while it blocks has its
\* notification or is about to get it (worker_to_notify, unpark, Parker::park).
THEOREM WokenWorkerWakes == Spec => []WokenHasToken
  <1>1. SchedIInv => WokenHasToken
    <2> SUFFICES ASSUME SchedIInv, NEW w \in Worker,
                        pc[w] \in {"parking", "on_driver", "on_condvar"}, w \notin sleepers
                 PROVE  token[w] \/ \E p \in Thread : target[p] = w
      BY DEF WokenHasToken
    <2>1. Place(w) \in Sleepy
      BY DEF Place, Sleepy
    <2> QED BY <2>1 DEF SchedIInv, Called
  <1> QED BY <1>1, SchedInvariant, PTL

\* No task is in two places: it is in one queue once or with one worker, so no
\* two workers ever poll it (schedule_task, SharedPrioQueue, run_task).
THEOREM TaskHasOneHolder == Spec => []OneHolder
  <1>1. SchedIInv => OneHolder
    <2> SUFFICES ASSUME SchedIInv, NEW t \in Task
                 PROVE  /\ Places(t) <= 1
                        /\ task[t] = "idle" => Places(t) = 0
                        /\ task[t] \in {"queued", "running"} => Places(t) = 1
      BY DEF OneHolder
    <2> DEFINE W == {w \in Worker : cur[w] = t}
               I == {i \in DOMAIN infra : infra[i] = t}
               m == IF t \in main THEN 1 ELSE 0
    <2>1. Types /\ Spread /\ IsInjective(infra) /\ t # NoTask
      BY HeldIsSpread, SchedAssumption DEF SchedIInv, Control
    <2>2. \A x, y \in W : x = y
      BY <2>1 DEF Spread
    <2>3. \A x, y \in I : x = y
      BY <2>1 DEF IsInjective
    <2>4. W # {} <=> \E w \in Worker : cur[w] = t
      OBVIOUS
    <2>5. I # {} <=> t \in Range(infra)
      BY DEF Range
    <2>6. W # {} => t \notin main /\ I = {}
      BY <2>1, <2>4, <2>5 DEF Spread, Queued
    <2>7. t \in main => I = {}
      BY <2>1, <2>5, QueuedKinds
    <2>8. task[t] = "idle" => W = {} /\ I = {} /\ t \notin main
      BY <2>1, <2>4, <2>5 DEF Spread, Queued
    <2>9. task[t] \in {"queued", "running"} => W # {} \/ I # {} \/ t \in main
      BY <2>1, <2>4, <2>5 DEF Spread, Queued
    <2>10. Places(t) = Cardinality(W) + m + Cardinality(I)
      BY DEF Places
    <2> HIDE DEF W, I
    <2>11. /\ W = {} => Cardinality(W) = 0
           /\ W # {} => Cardinality(W) = 1
           /\ I = {} => Cardinality(I) = 0
           /\ I # {} => Cardinality(I) = 1
      BY <2>2, <2>3, AtMostOne
    <2> QED BY <2>6, <2>7, <2>8, <2>9, <2>10, <2>11
  <1> QED BY <1>1, SchedInvariant, PTL
=============================================================================
