--------------------------- MODULE LimitedSharing ---------------------------
(***************************************************************************)
(* What a priority run queue of rpcstack-sched promises its executor,      *)
(* whatever data structure it keeps: infrastructure tasks leave in arrival *)
(* order and before every other task, and any other dispatch takes one of  *)
(* the Sharing oldest runnable tasks (smaller meta = older = runs first).  *)
(* Sharing = 1 is strict priority; Sharing = C is oldest-first limited     *)
(* processor sharing.                                                      *)
(***************************************************************************)
EXTENDS Naturals, Sequences, FiniteSets

CONSTANTS Task,      \* the tasks of the runtime
          Meta,      \* scheduling metadata; Meta values are naturals
          Infra,     \* the Meta of infrastructure work
          UseInfra,  \* whether infrastructure work has a lane of its own
          Sharing    \* how many of the oldest tasks may be dispatched next

VARIABLES runnable,  \* the queued tasks outside the infrastructure lane
          key,       \* the Meta each task was last pushed with
          infra      \* the infrastructure lane

vars == <<runnable, key, infra>>

Queued == runnable \cup {infra[i] : i \in DOMAIN infra}

\* The runnable tasks that are strictly older than t.
OlderThan(t) == {u \in runnable : key[u] < key[t]}

Init ==
  /\ runnable = {}
  /\ key \in [Task -> Meta]
  /\ infra = <<>>

\* A task that is not queued becomes runnable with metadata m.
Arrive(t, m) ==
  /\ t \notin Queued
  /\ IF UseInfra /\ m = Infra
     THEN infra' = Append(infra, t) /\ UNCHANGED <<runnable, key>>
     ELSE /\ runnable' = runnable \cup {t}
          /\ key' = [key EXCEPT ![t] = m]
          /\ UNCHANGED infra

DispatchInfra ==
  /\ infra # <<>>
  /\ infra' = Tail(infra)
  /\ UNCHANGED <<runnable, key>>

Dispatch(t) ==
  /\ infra = <<>>
  /\ t \in runnable
  /\ Cardinality(OlderThan(t)) < Sharing
  /\ runnable' = runnable \ {t}
  /\ UNCHANGED <<key, infra>>

Next ==
  \/ \E t \in Task, m \in Meta : Arrive(t, m)
  \/ DispatchInfra
  \/ \E t \in Task : Dispatch(t)

Spec == Init /\ [][Next]_vars
=============================================================================
