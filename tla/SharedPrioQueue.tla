-------------------------- MODULE SharedPrioQueue --------------------------
(***************************************************************************)
(* SharedPrioQueue (libs/tokio/tokio/src/runtime/scheduler/multi_thread/   *)
(* prio_queue.rs): the queue all workers share under sched_mt.  Infra-     *)
(* structure tasks wait in a FIFO lane under a lock, with a flag that is   *)
(* read without it; the other tasks wait in one locked heap (the backend   *)
(* MutexBackend, whose calls are single steps).                            *)
(*                                                                         *)
(* A step is an access to the lane, to the flag or to the heap.  SchedMt   *)
(* uses this queue with a lane that changes in one step; LaneAtomic and    *)
(* FlagExact state why it may.                                             *)
(***************************************************************************)
EXTENDS Naturals, Sequences, SequencesExt

CONSTANTS Thread,     \* workers and other threads that push
          InfraTask,  \* tasks with the infrastructure Meta
          UserTask,   \* the other tasks
          Prio,       \* the Meta of each user task
          Free, NoTask

ASSUME SharedAssumption ==
  /\ InfraTask \cap UserTask = {}
  /\ Prio \in [UserTask -> Nat]
  /\ Free \notin Thread /\ NoTask \notin InfraTask \cup UserTask

Task == InfraTask \cup UserTask

VARIABLES main,           \* the heap of MutexBackend
          infra,          \* the lane, front first
          infra_pending,  \* the flag
          lock,           \* the thread in the lane's lock, or Free
          pc, item,       \* per thread: where its call is, and its task
          stay            \* history, per thread: the tasks whose push had
                          \* returned when its call began, not popped since

vars == <<main, infra, infra_pending, lock, pc, item, stay>>

PCs == {"idle", "push", "push_store", "pop", "pop_lock", "pop_store",
        "pop_main", "got", "none", "empty_main", "empty_flag", "empty"}

TypeOK ==
  /\ main \subseteq UserTask
  /\ infra \in Seq(InfraTask)
  /\ infra_pending \in BOOLEAN
  /\ lock \in Thread \cup {Free}
  /\ pc \in [Thread -> PCs]
  /\ item \in [Thread -> Task \cup {NoTask}]
  /\ stay \in [Thread -> SUBSET Task]

Init ==
  /\ main = {} /\ infra = <<>> /\ infra_pending = FALSE
  /\ lock = Free
  /\ pc = [t \in Thread |-> "idle"]
  /\ item = [t \in Thread |-> NoTask]
  /\ stay = [t \in Thread |-> {}]

-----------------------------------------------------------------------------
Goto(t, from, to) == pc[t] = from /\ pc' = [pc EXCEPT ![t] = to]

Queued == main \cup Range(infra)

\* The queued tasks whose push has returned.
Settled == {x \in Queued : \A t \in Thread : pc[t] = "push_store" => item[t] # x}

\* Thread t gets x out of the queue.
Got(t, x) ==
  /\ item' = [item EXCEPT ![t] = x]
  /\ stay' = [u \in Thread |-> stay[u] \ {x}]

Return(t, from) ==
  /\ Goto(t, from, "idle")
  /\ item' = [item EXCEPT ![t] = NoTask]
  /\ stay' = [stay EXCEPT ![t] = {}]

-----------------------------------------------------------------------------
(* push                                                                    *)

Push(t, x) ==
  /\ x \notin Queued
  /\ \A u \in Thread : item[u] # x
  /\ Goto(t, "idle", "push")
  /\ item' = [item EXCEPT ![t] = x]
  /\ UNCHANGED <<main, infra, infra_pending, lock, stay>>

PushMain(t) ==
  /\ item[t] \in UserTask
  /\ Return(t, "push")
  /\ main' = main \cup {item[t]}
  /\ UNCHANGED <<infra, infra_pending, lock>>

\* Under the lock: the task goes to the back of the lane.
PushInfra(t) ==
  /\ item[t] \in InfraTask
  /\ lock = Free
  /\ Goto(t, "push", "push_store")
  /\ lock' = t
  /\ infra' = Append(infra, item[t])
  /\ UNCHANGED <<main, infra_pending, item, stay>>

\* The flag is set, the lock dropped, and push returns.
PushStore(t) ==
  /\ Return(t, "push_store")
  /\ infra_pending' = TRUE
  /\ lock' = IF lock = t THEN Free ELSE lock
  /\ UNCHANGED <<main, infra>>

-----------------------------------------------------------------------------
(* pop                                                                     *)

Start(t, to) ==
  /\ Goto(t, "idle", to)
  /\ stay' = [stay EXCEPT ![t] = Settled]
  /\ UNCHANGED <<main, infra, infra_pending, lock, item>>

Pop(t) == Start(t, "pop")

\* Mutant: the lane is only looked at when the heap is empty.
PopFlag_MainFirst(t) ==
  /\ Goto(t, "pop", IF infra_pending /\ main = {} THEN "pop_lock" ELSE "pop_main")
  /\ UNCHANGED <<main, infra, infra_pending, lock, item, stay>>

\* The flag decides whether the lock of the lane is taken.
PopFlag(t) ==
  /\ Goto(t, "pop", IF infra_pending THEN "pop_lock" ELSE "pop_main")
  /\ UNCHANGED <<main, infra, infra_pending, lock, item, stay>>

\* Mutant: pop_back in place of pop_front.
PopInfra_Last(t) ==
  /\ lock = Free
  /\ Goto(t, "pop_lock", "pop_store")
  /\ lock' = t
  /\ IF infra # <<>>
     THEN Got(t, Last(infra)) /\ infra' = Front(infra)
     ELSE UNCHANGED <<infra, item, stay>>
  /\ UNCHANGED <<main, infra_pending>>

\* Under the lock: the front of the lane, which another worker may have
\* emptied meanwhile.
PopInfra(t) ==
  /\ lock = Free
  /\ Goto(t, "pop_lock", "pop_store")
  /\ lock' = t
  /\ IF infra # <<>>
     THEN Got(t, Head(infra)) /\ infra' = Tail(infra)
     ELSE UNCHANGED <<infra, item, stay>>
  /\ UNCHANGED <<main, infra_pending>>

\* Mutant: the flag is cleared after every pop.
PopStore_Always(t) ==
  /\ Goto(t, "pop_store", IF item[t] # NoTask THEN "got" ELSE "pop_main")
  /\ infra_pending' = FALSE
  /\ lock' = Free
  /\ UNCHANGED <<main, infra, item, stay>>

\* The flag is cleared with the last task, the lock dropped.
PopStore(t) ==
  /\ Goto(t, "pop_store", IF item[t] # NoTask THEN "got" ELSE "pop_main")
  /\ infra_pending' = (infra_pending /\ infra # <<>>)
  /\ lock' = Free
  /\ UNCHANGED <<main, infra, item, stay>>

\* The heap: a task with the smallest Meta.
PopMain(t) ==
  /\ \/ \E x \in main :
          /\ \A y \in main : Prio[x] <= Prio[y]
          /\ Goto(t, "pop_main", "got")
          /\ Got(t, x)
          /\ main' = main \ {x}
     \/ main = {} /\ Goto(t, "pop_main", "none") /\ UNCHANGED <<main, item, stay>>
  /\ UNCHANGED <<infra, infra_pending, lock>>

\* pop returns a task, or None.
PopReturn(t) ==
  /\ \/ Return(t, "got")
     \/ Return(t, "none")
  /\ UNCHANGED <<main, infra, infra_pending, lock>>

-----------------------------------------------------------------------------
(* is_empty: the heap first, then the flag.                                *)

IsEmpty(t) == Start(t, "empty_main")

EmptyMain(t) ==
  /\ \/ main # {} /\ Return(t, "empty_main")
     \/ main = {} /\ Goto(t, "empty_main", "empty_flag") /\ UNCHANGED <<item, stay>>
  /\ UNCHANGED <<main, infra, infra_pending, lock>>

\* Mutant: the flag is not consulted.
EmptyFlag_Ignored(t) ==
  /\ Goto(t, "empty_flag", "empty")
  /\ UNCHANGED <<main, infra, infra_pending, lock, item, stay>>

EmptyFlag(t) ==
  /\ \/ infra_pending /\ Return(t, "empty_flag")
     \/ ~infra_pending /\ Goto(t, "empty_flag", "empty") /\ UNCHANGED <<item, stay>>
  /\ UNCHANGED <<main, infra, infra_pending, lock>>

\* is_empty returns true.
EmptyTrue(t) ==
  /\ Return(t, "empty")
  /\ UNCHANGED <<main, infra, infra_pending, lock>>

-----------------------------------------------------------------------------
Step(t) ==
  \/ PushMain(t) \/ PushInfra(t) \/ PushStore(t)
  \/ PopFlag(t) \/ PopInfra(t) \/ PopStore(t) \/ PopMain(t) \/ PopReturn(t)
  \/ EmptyMain(t) \/ EmptyFlag(t) \/ EmptyTrue(t)

Next ==
  \E t \in Thread :
    \/ Step(t)
    \/ \E x \in Task : Push(t, x)
    \/ Pop(t)
    \/ IsEmpty(t)

Spec == Init /\ [][Next]_vars

-----------------------------------------------------------------------------
(***************************************************************************)
(* Properties                                                              *)
(***************************************************************************)

\* A task is queued once or is in one thread's hands.
OneOwner ==
  /\ IsInjective(infra)
  /\ \A t, u \in Thread : t # u /\ item[t] # NoTask => item[t] # item[u]
  /\ \A t \in Thread : item[t] \in Queued => pc[t] = "push_store"

\* The lane as others may take it to be: a push counts from the store that
\* sets the flag, a pop from the store that clears it.
Lane ==
  IF lock = Free THEN infra
  ELSE IF pc[lock] = "push_store" THEN Front(infra)
  ELSE IF item[lock] # NoTask THEN <<item[lock]>> \o infra
  ELSE infra

\* The flag read without the lock tells exactly whether that lane is empty,
\* in every state, also between the two stores of a push or a pop.
FlagExact == infra_pending = (Lane # <<>>)

\* The state of the queue between and inside calls: types, owners and the
\* flag (SharedPrioQueue::push and pop under the lane's lock).
QueueInv == TypeOK /\ OneOwner /\ FlagExact

\* That lane is a queue that changes in one step: a task joins at the back or
\* the front one leaves.  With FlagExact this is what SchedMt assumes.
LaneAtomic ==
  [][\/ Lane' = Lane
     \/ \E x \in InfraTask : Lane' = Append(Lane, x)
     \/ Lane # <<>> /\ Lane' = Tail(Lane)]_vars

\* pop gives None, or a user task, only when every infrastructure task whose
\* push had returned before the call was taken by another worker ("ensuring
\* workers drain infrastructure work before user tasks", docs/SCHED_MT.md).
InfraFirst ==
  \A t \in Thread :
    \/ pc[t] = "none"
    \/ pc[t] = "got" /\ item[t] \in UserTask
    => stay[t] \cap InfraTask = {}

\* is_empty gives true only when every task whose push had returned before
\* the call was taken meanwhile, though it looks at the two halves in turn.
EmptyComplete == \A t \in Thread : pc[t] = "empty" => stay[t] = {}
=============================================================================
