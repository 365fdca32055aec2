-------------------------- MODULE TailClipperQueue --------------------------
(***************************************************************************)
(* BinaryHeapRoundRobinQueue (libs/rpcstack-sched/src/builtin/             *)
(* tailclipper.rs): a window of at most C tasks served round robin, in     *)
(* front of a heap of the other runnable tasks.                            *)
(*                                                                         *)
(* push and pop contain loops.  A call is a run of steps under a program   *)
(* counter: while pc # "idle" only the next iteration of the running call  *)
(* can happen, as the queue is owned by one thread and borrowed mutably.   *)
(* The heap is the set of its tasks; std's BinaryHeap returns any one of   *)
(* the tasks with the smallest meta, so ties are a nondeterministic choice.*)
(***************************************************************************)
EXTENDS Naturals, Sequences, FiniteSets, SequencesExt

CONSTANTS Task,      \* the tasks of the runtime
          Meta,      \* scheduling metadata
          Infra,     \* default_policy::INFRA
          UseInfra,  \* const parameter USE_INFRA_QUEUE
          C          \* const parameter C, the size of the window

\* with_capacity asserts C > 0; Meta wraps an unsigned integer.
ASSUME QueueAssumption ==
  /\ C \in Nat \ {0}
  /\ Meta \subseteq Nat
  /\ Infra \in Meta
  /\ UseInfra \in BOOLEAN

VARIABLES heap,            \* tasks waiting outside the window
          rr_queue,        \* the window, front first
          infra_rr_queue,  \* the infrastructure lane, front first
          key,             \* the Meta stored next to each task at push (Keyed)
          pc,              \* where the running call is
          cur              \* the task of the last push

vars == <<heap, rr_queue, infra_rr_queue, key, pc, cur>>

Window == Range(rr_queue)
Lane   == Range(infra_rr_queue)
Queued == heap \cup Window \cup Lane

PCs == {"idle", "push_fill", "push_evict", "pop_fill"}

TypeOK ==
  /\ heap \subseteq Task
  /\ rr_queue \in Seq(Task)
  /\ infra_rr_queue \in Seq(Task)
  /\ key \in [Task -> Meta]
  /\ pc \in PCs
  /\ cur \in Task

Init ==
  /\ heap = {}
  /\ rr_queue = <<>>
  /\ infra_rr_queue = <<>>
  /\ key \in [Task -> {Infra}]
  /\ pc = "idle"
  /\ cur \in Task

-----------------------------------------------------------------------------
\* Mutant: Meta ordered by its raw value, the reversal in Ord forgotten.
IsBest_Youngest(t) == t \in heap /\ \A u \in heap : key[u] <= key[t]

\* BinaryHeap::peek and pop: a task of the heap no other one is older than.
IsBest(t) == t \in heap /\ \A u \in heap : key[t] <= key[u]

\* Mutant: max_by in place of min_by, the oldest task is evicted.
IsWorst_Oldest(i) ==
  /\ i \in DOMAIN rr_queue
  /\ \A j \in DOMAIN rr_queue : key[rr_queue[i]] <= key[rr_queue[j]]

\* The window position push evicts from: the first one holding a youngest task.
IsWorst(i) ==
  /\ i \in DOMAIN rr_queue
  /\ \A j \in DOMAIN rr_queue : key[rr_queue[j]] <= key[rr_queue[i]]
  /\ \A j \in DOMAIN rr_queue : j < i => key[rr_queue[j]] < key[rr_queue[i]]

\* The loop condition of fill.
CanFill == Len(rr_queue) < C /\ heap # {}

\* Mutant: push_front in place of push_back.
FillStep_Front ==
  /\ CanFill
  /\ \E t \in heap :
       /\ IsBest(t)
       /\ heap' = heap \ {t}
       /\ rr_queue' = <<t>> \o rr_queue
  /\ UNCHANGED <<infra_rr_queue, key, pc, cur>>

\* One iteration of the loop of fill.
FillStep ==
  /\ CanFill
  /\ \E t \in heap :
       /\ IsBest(t)
       /\ heap' = heap \ {t}
       /\ rr_queue' = Append(rr_queue, t)
  /\ UNCHANGED <<infra_rr_queue, key, pc, cur>>

-----------------------------------------------------------------------------
\* A call of push for the infrastructure lane.
PushInfra(t) ==
  /\ pc = "idle"
  /\ t \notin Queued
  /\ UseInfra
  /\ infra_rr_queue' = Append(infra_rr_queue, t)
  /\ UNCHANGED <<heap, rr_queue, key, pc, cur>>

\* A call of push up to the early return or the call of fill.
Push(t, m) ==
  /\ pc = "idle"
  /\ t \notin Queued
  /\ ~(UseInfra /\ m = Infra)
  /\ heap' = heap \cup {t}
  /\ key' = [key EXCEPT ![t] = m]
  /\ cur' = t
  /\ pc' = IF rr_queue = <<>> THEN "idle" ELSE "push_fill"
  /\ UNCHANGED <<rr_queue, infra_rr_queue>>

PushFill == pc = "push_fill" /\ FillStep

\* Mutant: the call of fill in push dropped.
PushFilled_Short ==
  /\ pc = "push_fill"
  /\ pc' = "push_evict"
  /\ UNCHANGED <<heap, rr_queue, infra_rr_queue, key, cur>>

\* fill returns to push.
PushFilled ==
  /\ pc = "push_fill"
  /\ ~CanFill
  /\ pc' = "push_evict"
  /\ UNCHANGED <<heap, rr_queue, infra_rr_queue, key, cur>>

\* Mutant: equal metadata swaps too.
CanSwap_Ties(t, i) == IsBest(t) /\ IsWorst(i) /\ key[t] <= key[rr_queue[i]]

\* The best waiting task is strictly older than the worst one of the window.
CanSwap(t, i) == IsBest(t) /\ IsWorst(i) /\ key[t] < key[rr_queue[i]]

CanEvict == \E t \in heap, i \in DOMAIN rr_queue : CanSwap(t, i)

\* The candidate t takes a slot at the back of the window, the task at
\* position i goes back to the heap.
Swap(t, i) ==
  /\ CanSwap(t, i)
  /\ heap' = (heap \ {t}) \cup {rr_queue[i]}
  /\ rr_queue' = Append(RemoveAt(rr_queue, i), t)

\* One iteration of the while-let loop of push.
Evict ==
  /\ pc = "push_evict"
  /\ \E t \in heap, i \in DOMAIN rr_queue : Swap(t, i)
  /\ UNCHANGED <<infra_rr_queue, key, pc, cur>>

\* The while-let loop of push breaks.
PushDone ==
  /\ pc = "push_evict"
  /\ ~CanEvict
  /\ pc' = "idle"
  /\ UNCHANGED <<heap, rr_queue, infra_rr_queue, key, cur>>

-----------------------------------------------------------------------------
\* A call of pop served by the infrastructure lane.
PopInfra ==
  /\ pc = "idle"
  /\ UseInfra
  /\ infra_rr_queue # <<>>
  /\ infra_rr_queue' = Tail(infra_rr_queue)
  /\ UNCHANGED <<heap, rr_queue, key, pc, cur>>

\* A call of pop that reaches fill.
Pop ==
  /\ pc = "idle"
  /\ infra_rr_queue = <<>>
  /\ pc' = "pop_fill"
  /\ UNCHANGED <<heap, rr_queue, infra_rr_queue, key, cur>>

PopFill == pc = "pop_fill" /\ FillStep

\* fill returns to pop, which takes the front of the window, if any.
PopFront ==
  /\ pc = "pop_fill"
  /\ ~CanFill
  /\ rr_queue' = IF rr_queue = <<>> THEN <<>> ELSE Tail(rr_queue)
  /\ pc' = "idle"
  /\ UNCHANGED <<heap, infra_rr_queue, key, cur>>

-----------------------------------------------------------------------------
Step ==
  \/ PushFill \/ PushFilled \/ Evict \/ PushDone \/ PopFill \/ PopFront

Next ==
  \/ \E t \in Task : PushInfra(t)
  \/ \E t \in Task, m \in Meta : Push(t, m)
  \/ PopInfra
  \/ Pop
  \/ Step

Spec == Init /\ [][Next]_vars

\* A call, once made, runs to its end.
FairSpec == Spec /\ WF_vars(Step)

-----------------------------------------------------------------------------
(***************************************************************************)
(* Properties                                                              *)
(***************************************************************************)

\* A queued task is in exactly one place, once: the swaps between heap and
\* window neither lose nor duplicate a task.
OnePlace ==
  /\ heap \cap Window = {} /\ heap \cap Lane = {} /\ Window \cap Lane = {}
  /\ IsInjective(rr_queue) /\ IsInjective(infra_rr_queue)

\* The window never outgrows C (fill and the swap of push).
WindowBound == Len(rr_queue) <= C

\* Between calls no task of the heap is older than a task of the window: the
\* window holds the oldest runnable tasks, whatever was pushed since the last
\* pop and in whatever order (the comment on BinaryHeapRoundRobinQueue).
WindowOldest ==
  pc = "idle" => \A w \in Window, h \in heap : key[w] <= key[h]

\* push leaves a full window unless every runnable task is in it, when the
\* window was not empty before; only a pop leaves it short.
FullAfterPush ==
  [][pc = "push_evict" /\ pc' = "idle"
       => Len(rr_queue') = C \/ heap' = {}]_vars

\* The swap loop of push never swaps twice: a single push disturbs the
\* window by the pushed task alone.
SwapsOnce ==
  pc = "push_evict" /\ cur \in Window => ~CanEvict

\* A task that stays in the window never moves back in it: each task of the
\* window is dispatched after at most C - 1 others unless older work evicts it.
NeverMovesBack ==
  [][\A i \in DOMAIN rr_queue, j \in DOMAIN rr_queue' :
       rr_queue[i] = rr_queue'[j] => j <= i]_vars

\* Inside push only the pushed task may be older than a task of the window.
OrderedButCur ==
  \A w \in Window, h \in heap :
    key[w] <= key[h] \/ (pc \in {"push_fill", "push_evict"} /\ h = cur)

\* The inductive invariant: the order also holds inside the calls, up to the
\* task being pushed, and the swap loop runs on a full window or no heap.
IInv ==
  /\ TypeOK
  /\ OnePlace
  /\ WindowBound
  /\ OrderedButCur
  /\ pc = "push_evict" => ~CanFill

\* Every call of push and pop ends: the loops terminate.
CallsEnd == (pc # "idle") ~> (pc = "idle")

\* The queue implements oldest-first limited processor sharing with C slots.
Abstract == INSTANCE LimitedSharing
  WITH runnable <- heap \cup Window, infra <- infra_rr_queue, Sharing <- C

ImplementsLimitedSharing == Abstract!Spec
=============================================================================
