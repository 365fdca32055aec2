----------------------------- MODULE MultiQueue -----------------------------
(***************************************************************************)
(* The k-relaxed concurrent priority queue of libs/multiqueue-prio-queue:  *)
(* N heaps, each under a lock of its own and with a length counter that is *)
(* written under the lock and read without it.                             *)
(*                                                                         *)
(* A step takes a lock, changes a heap, or changes or reads a counter.     *)
(* What a thread does alone under a lock and what nobody reads without the *)
(* lock is one step.  A try_lock that fails and only samples again is no   *)
(* step.  The random choices of a sub-queue are nondeterministic.          *)
(***************************************************************************)
EXTENDS Naturals, FiniteSets

CONSTANTS Thread,  \* the threads that share the queue
          Item,    \* the items pushed and popped
          N,       \* the number of sub-queues
          Rank,    \* the order of the items: the smallest is popped first
          Free,    \* no thread holds the lock
          NoItem

\* MultiQueue::new asserts num_queues >= 2.
ASSUME MultiQueueAssumption ==
  /\ N \in Nat /\ N >= 2
  /\ IsFiniteSet(Item)
  /\ Rank \in [Item -> Nat]
  /\ Free \notin Thread /\ NoItem \notin Item

VARIABLES heap,    \* per sub-queue: the items in its heap
          len,     \* per sub-queue: its length counter
          lock,    \* per sub-queue: the thread that holds the lock, or Free
          pc,      \* per thread: where its call is
          held,    \* per thread: the item it pushes or has popped
          at,      \* per thread: the sub-queue it works on
          hi,      \* per thread: the second sub-queue sampled by pop
          stay     \* history, per thread: the items whose push had returned
                   \* when its call began and which nobody has popped since

vars == <<heap, len, lock, pc, held, at, hi, stay>>

Queue == 1 .. N

PCs == {"idle", "push", "push_len", "pop", "pop_hi", "pop_take", "pop_len",
        "any_try", "any_lock", "any_none", "empty", "empty_true"}

TypeOK ==
  /\ heap \in [Queue -> SUBSET Item]
  /\ len \in [Queue -> Nat]
  /\ lock \in [Queue -> Thread \cup {Free}]
  /\ pc \in [Thread -> PCs]
  /\ held \in [Thread -> Item \cup {NoItem}]
  /\ at \in [Thread -> Queue] /\ hi \in [Thread -> Queue]
  /\ stay \in [Thread -> SUBSET Item]

Init ==
  /\ heap = [q \in Queue |-> {}]
  /\ len = [q \in Queue |-> 0]
  /\ lock = [q \in Queue |-> Free]
  /\ pc = [t \in Thread |-> "idle"]
  /\ held = [t \in Thread |-> NoItem]
  /\ at = [t \in Thread |-> 1] /\ hi = [t \in Thread |-> 1]
  /\ stay = [t \in Thread |-> {}]

-----------------------------------------------------------------------------
Goto(t, from, to) == pc[t] = from /\ pc' = [pc EXCEPT ![t] = to]

Queued == UNION {heap[q] : q \in Queue}

\* The items whose push has returned and which are still queued.
Settled == {x \in Queued : \A t \in Thread : pc[t] = "push_len" => held[t] # x}

\* A top of the heap of sub-queue q: BinaryHeap breaks ties in any way.
IsTop(q, x) == x \in heap[q] /\ \A y \in heap[q] : Rank[x] <= Rank[y]

\* Mutant: the item is peeked and not popped.
Take_Peek(t, q) ==
  \E x \in heap[q] :
    /\ IsTop(q, x)
    /\ held' = [held EXCEPT ![t] = x]
    /\ at' = [at EXCEPT ![t] = q]
    /\ UNCHANGED <<heap, stay>>

\* BinaryHeap::pop on sub-queue q, whose counter is still to be decremented.
Take(t, q) ==
  \E x \in heap[q] :
    /\ IsTop(q, x)
    /\ heap' = [heap EXCEPT ![q] = @ \ {x}]
    /\ held' = [held EXCEPT ![t] = x]
    /\ stay' = [u \in Thread |-> stay[u] \ {x}]
    /\ at' = [at EXCEPT ![t] = q]

\* Thread t drops its guards.
ReleaseAll(t) == lock' = [q \in Queue |-> IF lock[q] = t THEN Free ELSE lock[q]]

-----------------------------------------------------------------------------
(* push                                                                    *)

Push(t, x) ==
  /\ x \notin Queued
  /\ \A u \in Thread : held[u] # x
  /\ Goto(t, "idle", "push")
  /\ held' = [held EXCEPT ![t] = x]
  /\ UNCHANGED <<heap, len, lock, at, hi, stay>>

\* A sampled sub-queue whose lock is free takes the item.
PushTry(t, q) ==
  /\ lock[q] = Free
  /\ Goto(t, "push", "push_len")
  /\ lock' = [lock EXCEPT ![q] = t]
  /\ heap' = [heap EXCEPT ![q] = @ \cup {held[t]}]
  /\ at' = [at EXCEPT ![t] = q]
  /\ UNCHANGED <<len, held, hi, stay>>

\* The counter follows and push returns.
PushLen(t) ==
  /\ Goto(t, "push_len", "idle")
  /\ len' = [len EXCEPT ![at[t]] = @ + 1]
  /\ ReleaseAll(t)
  /\ held' = [held EXCEPT ![t] = NoItem]
  /\ UNCHANGED <<heap, at, hi, stay>>

-----------------------------------------------------------------------------
(* pop                                                                     *)

Pop(t) ==
  /\ Goto(t, "idle", "pop")
  /\ UNCHANGED <<heap, len, lock, held, at, hi, stay>>

\* Two sub-queues are sampled; the lower one is locked first.
PopLo(t, p, q) ==
  /\ p < q
  /\ lock[p] = Free
  /\ Goto(t, "pop", "pop_hi")
  /\ lock' = [lock EXCEPT ![p] = t]
  /\ at' = [at EXCEPT ![t] = p]
  /\ hi' = [hi EXCEPT ![t] = q]
  /\ UNCHANGED <<heap, len, held, stay>>

\* Mutant: the first guard survives the retry.
PopHi_KeepLo(t) ==
  /\ IF lock[hi[t]] = Free
     THEN /\ Goto(t, "pop_hi", "pop_take")
          /\ lock' = [lock EXCEPT ![hi[t]] = t]
     ELSE /\ Goto(t, "pop_hi", "pop")
          /\ UNCHANGED lock
  /\ UNCHANGED <<heap, len, held, at, hi, stay>>

\* The other lock is taken as well, or the first one is given up.
PopHi(t) ==
  /\ IF lock[hi[t]] = Free
     THEN /\ Goto(t, "pop_hi", "pop_take")
          /\ lock' = [lock EXCEPT ![hi[t]] = t]
     ELSE /\ Goto(t, "pop_hi", "pop")
          /\ ReleaseAll(t)
  /\ UNCHANGED <<heap, len, held, at, hi, stay>>

\* The sub-queue with the better top, the lower one on a tie.
PopFrom(t) ==
  IF heap[hi[t]] = {} THEN at[t]
  ELSE IF heap[at[t]] = {} THEN hi[t]
  ELSE IF \E x \in heap[at[t]], y \in heap[hi[t]] :
            IsTop(at[t], x) /\ IsTop(hi[t], y) /\ Rank[x] <= Rank[y]
       THEN at[t] ELSE hi[t]

\* Both locks are held: take an item, or return None from two empty heaps.
PopTake(t) ==
  /\ IF heap[PopFrom(t)] = {}
     THEN /\ Goto(t, "pop_take", "idle")
          /\ ReleaseAll(t)
          /\ UNCHANGED <<heap, held, at, stay>>
     ELSE /\ Goto(t, "pop_take", "pop_len")
          /\ Take(t, PopFrom(t))
          /\ UNCHANGED lock
  /\ UNCHANGED <<len, hi>>

\* The counter follows; pop or pop_any returns the item.
PopLen(t) ==
  /\ Goto(t, "pop_len", "idle")
  /\ len' = [len EXCEPT ![at[t]] = @ - 1]
  /\ ReleaseAll(t)
  /\ held' = [held EXCEPT ![t] = NoItem]
  /\ stay' = [stay EXCEPT ![t] = {}]
  /\ UNCHANGED <<heap, at, hi>>

-----------------------------------------------------------------------------
(* Scans of every sub-queue in index order.                                *)

StartScan(t, scan) ==
  /\ Goto(t, "idle", scan)
  /\ at' = [at EXCEPT ![t] = 1]
  /\ stay' = [stay EXCEPT ![t] = Settled]
  /\ UNCHANGED <<heap, len, lock, held, hi>>

\* The scan goes on with the next sub-queue, or at next from the first one.
ScanOn(t, scan, next) ==
  /\ Goto(t, scan, IF at[t] = N THEN next ELSE scan)
  /\ at' = [at EXCEPT ![t] = IF @ = N THEN 1 ELSE @ + 1]
  /\ UNCHANGED <<heap, held, stay>>

EndScan(t, end) ==
  /\ Goto(t, end, "idle")
  /\ stay' = [stay EXCEPT ![t] = {}]
  /\ UNCHANGED <<heap, len, lock, held, at, hi>>

PopAny(t) == StartScan(t, "any_try")

\* The first pass does not wait for a lock.
AnyTry(t) ==
  /\ IF lock[at[t]] = Free /\ heap[at[t]] # {}
     THEN /\ Goto(t, "any_try", "pop_len")
          /\ lock' = [lock EXCEPT ![at[t]] = t]
          /\ Take(t, at[t])
     ELSE ScanOn(t, "any_try", "any_lock") /\ UNCHANGED lock
  /\ UNCHANGED <<len, hi>>

\* Mutant: the second pass skips contended sub-queues as the first one does.
AnyLock_Try(t) ==
  /\ IF lock[at[t]] = Free /\ heap[at[t]] # {}
     THEN /\ Goto(t, "any_lock", "pop_len")
          /\ lock' = [lock EXCEPT ![at[t]] = t]
          /\ Take(t, at[t])
     ELSE ScanOn(t, "any_lock", "any_none") /\ UNCHANGED lock
  /\ UNCHANGED <<len, hi>>

\* The second pass does.
AnyLock(t) ==
  /\ lock[at[t]] = Free
  /\ IF heap[at[t]] # {}
     THEN /\ Goto(t, "any_lock", "pop_len")
          /\ lock' = [lock EXCEPT ![at[t]] = t]
          /\ Take(t, at[t])
     ELSE ScanOn(t, "any_lock", "any_none") /\ UNCHANGED lock
  /\ UNCHANGED <<len, hi>>

\* pop_any returns None.
AnyNone(t) == EndScan(t, "any_none")

IsEmpty(t) == StartScan(t, "empty")

\* is_empty reads the counters only; a counter that is not zero answers false.
EmptyScan(t) ==
  IF len[at[t]] # 0
  THEN EndScan(t, "empty")
  ELSE ScanOn(t, "empty", "empty_true") /\ UNCHANGED <<len, lock, hi>>

\* is_empty returns true.
EmptyTrue(t) == EndScan(t, "empty_true")

-----------------------------------------------------------------------------
\* What a thread does inside a call.
Step(t) ==
  \/ \E q \in Queue : PushTry(t, q)
  \/ PushLen(t)
  \/ \E p, q \in Queue : PopLo(t, p, q)
  \/ PopHi(t) \/ PopTake(t) \/ PopLen(t)
  \/ AnyTry(t) \/ AnyLock(t) \/ AnyNone(t)
  \/ EmptyScan(t) \/ EmptyTrue(t)

Call(t) ==
  \/ \E x \in Item : Push(t, x)
  \/ Pop(t)
  \/ PopAny(t)
  \/ IsEmpty(t)

Next == \E t \in Thread : Step(t) \/ Call(t)

Spec == Init /\ [][Next]_vars

\* The operating system runs every thread that can run.
FairSpec == Spec /\ \A t \in Thread : WF_vars(Step(t))

-----------------------------------------------------------------------------
(***************************************************************************)
(* Properties                                                              *)
(***************************************************************************)

\* The counter of an unlocked sub-queue is the size of its heap, although it
\* is a second step under the lock and two locks are held by pop: fetch_sub
\* never wraps and is_empty is never stuck at the wrong answer.
LenExact ==
  \A q \in Queue : lock[q] = Free => len[q] = Cardinality(heap[q])

\* An item is in one heap, or in the hands of one thread, and not both: no
\* pop returns an item twice and no push or contended retry loses one.
OneOwner ==
  /\ \A p, q \in Queue : p # q => heap[p] \cap heap[q] = {}
  /\ \A t, u \in Thread : t # u /\ held[t] # NoItem => held[t] # held[u]
  /\ \A t \in Thread : held[t] \in Queued => pc[t] = "push_len"

\* The state of the sub-queues between and inside calls: types, counters and
\* owners (push, pop and pop_any under the locks of the sub-queues).
QueueInv == TypeOK /\ LenExact /\ OneOwner

\* pop_any returns None only when every item that was queued at the call has
\* been popped meanwhile: it "cannot make us miss work that remains in place
\* throughout the scan" (comment in pop_any).  So does is_empty, which takes
\* no lock, before it answers true, for every item whose push had returned.
ScansComplete == \A t \in Thread : pc[t] \in {"any_none", "empty_true"} => stay[t] = {}

\* Every lock is released again, whatever pairs of locks the other threads
\* are after ("Always lock in ascending index order to prevent deadlock").
LocksReleased == \A q \in Queue : lock[q] # Free ~> lock[q] = Free
=============================================================================
