-------------------------- MODULE MultiQueueProofs --------------------------
(***************************************************************************)
(* For every number of threads, items and sub-queues (at least two): the   *)
(* counter of an unlocked sub-queue is the size of its heap, no item is    *)
(* lost or returned twice, and pop_any and is_empty overlook no item that  *)
(* stays queued while they scan.                                           *)
(*                                                                         *)
(* A counter may be off by one only while a thread is between the heap and *)
(* the counter with the lock of that sub-queue (Counters, Guards).  So an  *)
(* empty counter read without the lock hides at most the item of a push    *)
(* that has not returned (ZeroMeansNoneSettled).                           *)
(***************************************************************************)
EXTENDS MultiQueue, FiniteSetTheorems, TLAPS

\* Between a heap and its counter.
Owing == {"push_len", "pop_len"}

\* A thread holds the locks of the sub-queues it works on, and a lock is held
\* by no thread that is outside its critical section.
Guards ==
  \A t \in Thread :
    /\ pc[t] \in Owing \cup {"pop_hi", "pop_take"} => lock[at[t]] = t
    /\ pc[t] = "pop_take" => lock[hi[t]] = t
    /\ \A q \in Queue : lock[q] = t => pc[t] \in Owing \cup {"pop_hi", "pop_take"}

\* How far the counters are from the heaps.
Counters ==
  /\ \A t \in Thread :
       /\ pc[t] = "push_len" => len[at[t]] + 1 = Cardinality(heap[at[t]])
       /\ pc[t] = "pop_len" => len[at[t]] = Cardinality(heap[at[t]]) + 1
  /\ \A q \in Queue :
       (\A t \in Thread : pc[t] \in Owing => at[t] # q) => len[q] = Cardinality(heap[q])

\* Who has an item in hand; a push that has not returned has queued its item.
Hands ==
  \A t \in Thread :
    /\ pc[t] \in {"push", "push_len", "pop_len"} <=> held[t] # NoItem
    /\ pc[t] = "push_len" => held[t] \in heap[at[t]]

\* An item a scan has seen settled is queued until somebody pops it.
Stays == \A t \in Thread : stay[t] \subseteq Settled

\* The sub-queues a scan has passed hold nothing of what stayed.
Passed ==
  \A t \in Thread :
    /\ pc[t] \in {"any_lock", "empty"} =>
         \A q \in Queue : q < at[t] => stay[t] \cap heap[q] = {}
    /\ pc[t] \in {"any_none", "empty_true"} => stay[t] = {}

MultiIInv ==
  /\ TypeOK /\ OneOwner /\ Guards /\ Counters /\ Hands /\ Stays /\ Passed

-----------------------------------------------------------------------------
(***************************************************************************)
(* Heaps and counters                                                      *)
(***************************************************************************)

LEMMA HeapFacts ==
  ASSUME TypeOK
  PROVE  /\ \A q \in Queue : /\ heap[q] \subseteq Item /\ IsFiniteSet(heap[q])
                             /\ Cardinality(heap[q]) \in Nat
         /\ \A x : x \in Queued <=> \E q \in Queue : x \in heap[q]
         /\ Queued \subseteq Item /\ NoItem \notin Queued
         /\ Settled \subseteq Queued
  <1>1. \A q \in Queue : heap[q] \subseteq Item
    BY DEF TypeOK
  <1>2. \A q \in Queue : IsFiniteSet(heap[q])
    BY <1>1, FS_Subset, MultiQueueAssumption
  <1>3. \A q \in Queue : Cardinality(heap[q]) \in Nat
    BY <1>2, FS_CardinalityType
  <1>4. \A x : x \in Queued <=> \E q \in Queue : x \in heap[q]
    BY DEF Queued
  <1> QED BY <1>1, <1>2, <1>3, <1>4, MultiQueueAssumption DEF Settled

\* An empty counter, read without the lock, hides at most the item of a push
\* that has not returned.
LEMMA ZeroMeansNoneSettled ==
  ASSUME MultiIInv, NEW q \in Queue, len[q] = 0
  PROVE  heap[q] \cap Settled = {}
  <1>1. /\ IsFiniteSet(heap[q]) /\ Cardinality(heap[q]) \in Nat
    BY HeapFacts DEF MultiIInv
  <1>2. CASE \A t \in Thread : pc[t] \in Owing => at[t] # q
    <2>1. Cardinality(heap[q]) = 0
      BY <1>2 DEF MultiIInv, Counters
    <2> QED BY <2>1, <1>1, FS_EmptySet
  <1>3. ASSUME NEW t \in Thread, pc[t] \in Owing, at[t] = q
        PROVE  heap[q] \cap Settled = {}
    <2>1. pc[t] = "push_len"
      BY <1>1, <1>3 DEF MultiIInv, Counters, Owing
    <2>2. Cardinality(heap[q]) = 1 /\ held[t] \in heap[q]
      BY <1>1, <1>3, <2>1 DEF MultiIInv, Counters, Hands
    <2>3. heap[q] = {held[t]}
      BY <2>2, <1>1, FS_Singleton
    <2> QED BY <2>1, <2>3 DEF Settled
  <1> QED BY <1>2, <1>3

\* The guards of the other threads are safe from a step of thread t.
LEMMA OthersGuards ==
  ASSUME TypeOK, Guards, NEW t \in Thread,
         \A q \in Queue : lock'[q] = lock[q] \/ {lock[q], lock'[q]} \subseteq {Free, t},
         \A u \in Thread : u # t => pc'[u] = pc[u] /\ at'[u] = at[u] /\ hi'[u] = hi[u]
  PROVE  \A u \in Thread : u # t =>
           /\ pc'[u] \in Owing \cup {"pop_hi", "pop_take"} => lock'[at'[u]] = u
           /\ pc'[u] = "pop_take" => lock'[hi'[u]] = u
           /\ \A q \in Queue : lock'[q] = u => pc'[u] \in Owing \cup {"pop_hi", "pop_take"}
  <1> SUFFICES ASSUME NEW u \in Thread, u # t
               PROVE  /\ pc'[u] \in Owing \cup {"pop_hi", "pop_take"} => lock'[at'[u]] = u
                      /\ pc'[u] = "pop_take" => lock'[hi'[u]] = u
                      /\ \A q \in Queue : lock'[q] = u =>
                           pc'[u] \in Owing \cup {"pop_hi", "pop_take"}
    OBVIOUS
  <1>1. \A q \in Queue : lock'[q] = u <=> lock[q] = u
    BY MultiQueueAssumption
  <1> QED BY <1>1 DEF Guards, TypeOK

\* A step of thread t that leaves heaps and counters alone and the locks of
\* the other threads too.
LEMMA QuietInv ==
  ASSUME MultiIInv, NEW t \in Thread, TypeOK', UNCHANGED <<heap, len>>,
         \A u \in Thread : u # t =>
           /\ pc'[u] = pc[u] /\ held'[u] = held[u] /\ at'[u] = at[u]
           /\ hi'[u] = hi[u] /\ stay'[u] = stay[u],
         pc[t] \notin Owing, pc'[t] \notin Owing,
         \A q \in Queue : lock'[q] = lock[q] \/ {lock[q], lock'[q]} \subseteq {Free, t},
         pc'[t] \in {"pop_hi", "pop_take"} => lock'[at'[t]] = t,
         pc'[t] = "pop_take" => lock'[hi'[t]] = t,
         pc'[t] \notin {"pop_hi", "pop_take"} => \A q \in Queue : lock'[q] # t,
         held'[t] # NoItem <=> pc'[t] = "push",
         held'[t] # NoItem => held'[t] \notin Queued /\ \A u \in Thread : held[u] # held'[t],
         stay'[t] \subseteq Settled,
         pc'[t] \in {"any_lock", "empty"} =>
           \A q \in Queue : q < at'[t] => stay'[t] \cap heap[q] = {},
         pc'[t] \in {"any_none", "empty_true"} => stay'[t] = {}
  PROVE  MultiIInv'
  <1>1. TypeOK
    BY DEF MultiIInv
  <1>2. Queued' = Queued
    BY DEF Queued
  <1>3. OneOwner'
    <2>1. ASSUME NEW u \in Thread, NEW v \in Thread, u # v, held'[u] # NoItem
          PROVE  held'[u] # held'[v]
      BY <2>1 DEF MultiIInv, OneOwner
    <2>2. ASSUME NEW u \in Thread, held'[u] \in Queued'
          PROVE  pc'[u] = "push_len"
      BY <2>2, <1>1, <1>2, HeapFacts DEF MultiIInv, OneOwner
    <2> QED BY <2>1, <2>2 DEF MultiIInv, OneOwner
  <1>4. Guards'
    <2>1. TypeOK /\ Guards
      BY DEF MultiIInv
    <2> QED BY <2>1, OthersGuards DEF Guards
  <1>5. \A u \in Thread : /\ pc'[u] \in Owing <=> pc[u] \in Owing
                          /\ pc[u] \in Owing => /\ pc'[u] = pc[u] /\ at'[u] = at[u]
                                                /\ held'[u] = held[u]
    OBVIOUS
  <1>6. Counters'
    BY <1>5 DEF MultiIInv, Counters, Owing
  <1>7. Hands'
    BY DEF MultiIInv, Hands, Owing
  <1>8. Stays'
    <2>1. Settled \subseteq Settled'
      BY <1>2, <1>5 DEF Settled, Owing
    <2> QED BY <2>1 DEF MultiIInv, Stays
  <1>9. Passed'
    BY DEF MultiIInv, Passed
  <1> QED BY <1>3, <1>4, <1>6, <1>7, <1>8, <1>9 DEF MultiIInv

\* A thread takes the top x of heap q under the lock of q.
LEMMA TakeInv ==
  ASSUME MultiIInv, NEW t \in Thread, NEW q \in Queue, NEW x \in heap[q],
         pc[t] \in {"pop_take", "any_try", "any_lock"}, pc' = [pc EXCEPT ![t] = "pop_len"],
         heap' = [heap EXCEPT ![q] = @ \ {x}], held' = [held EXCEPT ![t] = x],
         stay' = [u \in Thread |-> stay[u] \ {x}], at' = [at EXCEPT ![t] = q],
         lock[q] \in {Free, t}, lock' = [lock EXCEPT ![q] = t],
         UNCHANGED <<len, hi>>
  PROVE  MultiIInv'
  <1>1. TypeOK /\ t # Free
    BY MultiQueueAssumption DEF MultiIInv
  <1>2. /\ \A u \in Thread : u # t => pc'[u] = pc[u] /\ held'[u] = held[u] /\ at'[u] = at[u]
        /\ pc'[t] = "pop_len" /\ held'[t] = x /\ at'[t] = q
        /\ \A u \in Thread : stay'[u] = stay[u] \ {x}
    BY <1>1 DEF TypeOK
  <1>3. /\ \A p \in Queue : p # q => heap'[p] = heap[p] /\ lock'[p] = lock[p]
        /\ heap'[q] = heap[q] \ {x} /\ lock'[q] = t
    BY <1>1 DEF TypeOK
  <1>4. x \in Item /\ x # NoItem /\ x \in Queued
    BY <1>1, HeapFacts, MultiQueueAssumption
  <1>5. TypeOK'
    BY <1>1, <1>4 DEF TypeOK, PCs
  <1>6. Queued' = Queued \ {x}
    <2>1. \A p \in Queue : p # q => x \notin heap[p]
      BY DEF MultiIInv, OneOwner
    <2>2. \A y : y \in Queued' <=> \E p \in Queue : y \in heap'[p]
      BY DEF Queued
    <2>3. \A y : y \in Queued' <=> y \in Queued /\ y # x
      BY <2>1, <2>2, <1>1, <1>3, HeapFacts
    <2> QED BY <2>3
  <1>7. \A u \in Thread : pc[u] \in Owing => at[u] # q
    BY MultiQueueAssumption DEF MultiIInv, Guards, Owing
  <1>8. \A u \in Thread : held[u] # x
    <2> SUFFICES ASSUME NEW u \in Thread, held[u] = x PROVE FALSE
      OBVIOUS
    <2>1. pc[u] = "push_len" /\ at[u] \in Queue
      BY <1>1, <1>4 DEF MultiIInv, OneOwner, TypeOK
    <2>2. x \in heap[at[u]]
      BY <2>1 DEF MultiIInv, Hands
    <2>3. at[u] = q
      BY <2>1, <2>2 DEF MultiIInv, OneOwner
    <2> QED BY <2>1, <2>3, <1>7 DEF Owing
  <1>9. OneOwner'
    <2>1. ASSUME NEW u \in Thread, NEW v \in Thread, u # v, held'[u] # NoItem
          PROVE  held'[u] # held'[v]
      BY <2>1, <1>2, <1>8 DEF MultiIInv, OneOwner
    <2>2. ASSUME NEW u \in Thread, held'[u] \in Queued'
          PROVE  pc'[u] = "push_len"
      BY <2>2, <1>2, <1>6 DEF MultiIInv, OneOwner
    <2>3. ASSUME NEW p \in Queue, NEW r \in Queue, p # r
          PROVE  heap'[p] \cap heap'[r] = {}
      <3>1. heap'[p] \subseteq heap[p] /\ heap'[r] \subseteq heap[r]
        BY <1>3
      <3>2. heap[p] \cap heap[r] = {}
        BY <2>3 DEF MultiIInv, OneOwner
      <3> QED BY <3>1, <3>2
    <2> QED BY <2>1, <2>2, <2>3 DEF OneOwner
  <1>10. Guards'
    <2>1. TypeOK /\ Guards /\ \A p \in Queue : lock'[p] = lock[p] \/ {lock[p], lock'[p]} \subseteq {Free, t}
      BY <1>3 DEF MultiIInv
    <2>2. \A u \in Thread : u # t => pc'[u] = pc[u] /\ at'[u] = at[u] /\ hi'[u] = hi[u]
      BY <1>2
    <2> QED BY <2>1, <2>2, <1>2, <1>3, OthersGuards DEF Guards, Owing
  <1>11. Counters'
    <2>1. /\ len[q] = Cardinality(heap[q]) /\ Cardinality(heap'[q]) \in Nat
          /\ Cardinality(heap[q]) = Cardinality(heap'[q]) + 1
      <3>1. len[q] = Cardinality(heap[q])
        BY <1>7 DEF MultiIInv, Counters
      <3>2. IsFiniteSet(heap[q])
        BY <1>1, HeapFacts
      <3>3. Cardinality(heap[q] \ {x}) = Cardinality(heap[q]) - 1 /\ Cardinality(heap[q]) \in Nat
        BY <3>2, FS_RemoveElement, FS_CardinalityType
      <3>4. Cardinality(heap[q] \ {x}) \in Nat
        BY <3>2, FS_RemoveElement, FS_CardinalityType
      <3>5. Cardinality(heap'[q]) = Cardinality(heap[q] \ {x})
        BY <1>3, Zenon
      <3> QED BY ONLY <3>1, <3>3, <3>4, <3>5
    <2>2. ASSUME NEW u \in Thread
          PROVE  /\ pc'[u] = "push_len" => len'[at'[u]] + 1 = Cardinality(heap'[at'[u]])
                 /\ pc'[u] = "pop_len" => len'[at'[u]] = Cardinality(heap'[at'[u]]) + 1
      <3>1. CASE u = t
        BY <3>1, <2>1, <1>2
      <3>2. CASE u # t
        <4>1. pc[u] \in Owing => heap'[at[u]] = heap[at[u]]
          BY <1>1, <1>3, <1>7 DEF TypeOK
        <4> QED BY <3>2, <4>1, <1>2 DEF MultiIInv, Counters, Owing
      <3> QED BY <3>1, <3>2
    <2>3. ASSUME NEW p \in Queue, \A u \in Thread : pc'[u] \in Owing => at'[u] # p
          PROVE  len'[p] = Cardinality(heap'[p])
      <3>1. p # q
        BY <2>3, <1>2 DEF Owing
      <3>2. \A u \in Thread : pc[u] \in Owing => at[u] # p
        BY <2>3, <1>2 DEF Owing
      <3> QED BY <3>1, <3>2, <1>3 DEF MultiIInv, Counters
    <2> QED BY <2>2, <2>3 DEF Counters
  <1>12. Hands'
    <2>1. \A u \in Thread : u # t /\ pc[u] = "push_len" => at[u] \in Queue /\ at[u] # q
      BY <1>1, <1>7 DEF TypeOK, Owing
    <2> QED BY <2>1, <1>2, <1>3, <1>4 DEF MultiIInv, Hands
  <1>13. Stays'
    <2>1. Settled \ {x} \subseteq Settled'
      BY <1>2, <1>6 DEF Settled
    <2> QED BY <2>1, <1>2 DEF MultiIInv, Stays
  <1>14. Passed'
    <2>1. \A p \in Queue : heap'[p] \subseteq heap[p]
      BY <1>3
    <2> QED BY <2>1, <1>2 DEF MultiIInv, Passed
  <1> QED BY <1>5, <1>9, <1>10, <1>11, <1>12, <1>13, <1>14 DEF MultiIInv

\* A thread puts its item into a heap whose lock it takes.
LEMMA PushTryInv ==
  ASSUME MultiIInv, NEW t \in Thread, NEW q \in Queue, PushTry(t, q)
  PROVE  MultiIInv'
  <1> DEFINE x == held[t]
  <1>1. TypeOK /\ t # Free /\ lock[q] = Free /\ pc[t] = "push" /\ UNCHANGED <<len, held, hi, stay>>
    BY MultiQueueAssumption DEF MultiIInv, PushTry, Goto
  <1>2. x \in Item /\ x # NoItem /\ x \notin Queued
    BY <1>1 DEF MultiIInv, Hands, OneOwner, TypeOK
  <1>3. /\ \A u \in Thread : u # t => pc'[u] = pc[u] /\ at'[u] = at[u]
        /\ pc'[t] = "push_len" /\ at'[t] = q
    BY <1>1 DEF PushTry, Goto, TypeOK
  <1>4. /\ \A p \in Queue : p # q => heap'[p] = heap[p] /\ lock'[p] = lock[p]
        /\ heap'[q] = heap[q] \cup {x} /\ lock'[q] = t
    BY <1>1 DEF PushTry, TypeOK
  <1>5. TypeOK'
    BY <1>1, <1>2 DEF PushTry, Goto, TypeOK, PCs
  <1> HIDE DEF x
  <1>6. Queued' = Queued \cup {x}
    <2>1. \A y : y \in Queued' <=> \E p \in Queue : y \in heap'[p]
      BY DEF Queued
    <2>2. \A y : y \in Queued' <=> y \in Queued \/ y = x
      BY <2>1, <1>1, <1>4, HeapFacts
    <2> QED BY <2>2
  <1>7. \A u \in Thread : pc[u] \in Owing => at[u] # q
    BY <1>1, MultiQueueAssumption DEF MultiIInv, Guards
  <1>8. OneOwner'
    <2>1. ASSUME NEW u \in Thread, held'[u] \in Queued'
          PROVE  pc'[u] = "push_len"
      <3>1. CASE u = t
        BY <3>1, <1>3
      <3>2. CASE u # t
        <4>1. held[u] # x
          BY <3>2, <1>2 DEF MultiIInv, OneOwner, x
        <4> QED BY <2>1, <3>2, <4>1, <1>1, <1>3, <1>6 DEF MultiIInv, OneOwner
      <3> QED BY <3>1, <3>2
    <2>2. ASSUME NEW p \in Queue, NEW r \in Queue, p # r
          PROVE  heap'[p] \cap heap'[r] = {}
      <3>1. heap[p] \cap heap[r] = {}
        BY <2>2 DEF MultiIInv, OneOwner
      <3>2. x \notin heap[p] /\ x \notin heap[r]
        BY <1>1, <1>2, HeapFacts
      <3>3. heap'[p] \subseteq heap[p] \cup (IF p = q THEN {x} ELSE {})
        BY <1>4
      <3>4. heap'[r] \subseteq heap[r] \cup (IF r = q THEN {x} ELSE {})
        BY <1>4
      <3> QED BY <2>2, <3>1, <3>2, <3>3, <3>4
    <2> QED BY <2>1, <2>2, <1>1 DEF MultiIInv, OneOwner
  <1>9. Guards'
    <2>1. TypeOK /\ Guards /\ \A p \in Queue : lock'[p] = lock[p] \/ {lock[p], lock'[p]} \subseteq {Free, t}
      BY <1>1, <1>4 DEF MultiIInv
    <2>2. \A u \in Thread : u # t => pc'[u] = pc[u] /\ at'[u] = at[u] /\ hi'[u] = hi[u]
      BY <1>1, <1>3
    <2> QED BY <2>1, <2>2, <1>3, <1>4, OthersGuards DEF Guards, Owing
  <1>10. Counters'
    <2>1. len[q] + 1 = Cardinality(heap'[q])
      <3>1. len[q] = Cardinality(heap[q]) /\ IsFiniteSet(heap[q]) /\ x \notin heap[q]
        BY <1>1, <1>2, <1>7, HeapFacts DEF MultiIInv, Counters
      <3>2. Cardinality(heap[q] \cup {x}) = Cardinality(heap[q]) + 1
        BY <3>1, FS_AddElement
      <3>3. Cardinality(heap'[q]) = Cardinality(heap[q] \cup {x})
        BY <1>4, Zenon
      <3> QED BY ONLY <3>1, <3>2, <3>3
    <2>2. ASSUME NEW u \in Thread
          PROVE  /\ pc'[u] = "push_len" => len'[at'[u]] + 1 = Cardinality(heap'[at'[u]])
                 /\ pc'[u] = "pop_len" => len'[at'[u]] = Cardinality(heap'[at'[u]]) + 1
      <3>1. CASE u = t
        BY <3>1, <2>1, <1>1, <1>3
      <3>2. CASE u # t
        <4>1. pc[u] \in Owing => heap'[at[u]] = heap[at[u]]
          BY <1>1, <1>4, <1>7 DEF TypeOK
        <4> QED BY <3>2, <4>1, <1>1, <1>3 DEF MultiIInv, Counters, Owing
      <3> QED BY <3>1, <3>2
    <2>3. ASSUME NEW p \in Queue, \A u \in Thread : pc'[u] \in Owing => at'[u] # p
          PROVE  len'[p] = Cardinality(heap'[p])
      <3>1. p # q
        BY <2>3, <1>3 DEF Owing
      <3>2. \A u \in Thread : pc[u] \in Owing => at[u] # p
        BY <2>3, <1>1, <1>3 DEF Owing
      <3> QED BY <3>1, <3>2, <1>1, <1>4 DEF MultiIInv, Counters
    <2> QED BY <2>2, <2>3 DEF Counters
  <1>11. Hands'
    <2>1. \A p \in Queue : heap[p] \subseteq heap'[p]
      BY <1>4
    <2>2. \A u \in Thread : u # t => at[u] \in Queue
      BY <1>1 DEF TypeOK
    <2>3. held'[t] \in heap'[q]
      BY <1>1, <1>4 DEF x
    <2> QED BY <2>1, <2>2, <2>3, <1>1, <1>2, <1>3 DEF MultiIInv, Hands, x
  <1>12. Stays'
    <2>1. \A y \in Settled : y \in Queued' /\ y # x
      BY <1>2, <1>6 DEF Settled
    <2>2. \A u \in Thread : pc'[u] = "push_len" => pc[u] = "push_len" \/ held[u] = x
      BY <1>3 DEF x
    <2>3. Settled \subseteq Settled'
      BY <2>1, <2>2, <1>1 DEF Settled
    <2> QED BY <2>3, <1>1 DEF MultiIInv, Stays
  <1>13. Passed'
    <2>1. \A u \in Thread : x \notin stay[u]
      BY <1>1, <1>2, HeapFacts DEF MultiIInv, Stays
    <2>2. \A p \in Queue : heap'[p] \subseteq heap[p] \cup {x}
      BY <1>4
    <2>3. \A u \in Thread, p \in Queue : stay[u] \cap heap[p] = {} => stay'[u] \cap heap'[p] = {}
      BY <2>1, <2>2, <1>1
    <2> QED BY <2>3, <1>1, <1>3 DEF MultiIInv, Passed
  <1> QED BY <1>5, <1>8, <1>9, <1>10, <1>11, <1>12, <1>13 DEF MultiIInv

\* The counter of the sub-queue follows its heap, the locks are dropped and
\* the call returns.
LEMMA SettleInv ==
  ASSUME MultiIInv, NEW t \in Thread, PushLen(t) \/ PopLen(t)
  PROVE  MultiIInv'
  <1> DEFINE q == at[t]
  <1>1. /\ TypeOK /\ t # Free /\ pc[t] \in Owing /\ q \in Queue /\ lock[q] = t
        /\ UNCHANGED <<heap, at, hi>> /\ Queued' = Queued /\ ReleaseAll(t)
    BY MultiQueueAssumption DEF MultiIInv, PushLen, PopLen, Goto, Owing, TypeOK, Guards, Queued
  <1>2. /\ \A u \in Thread : u # t => pc'[u] = pc[u] /\ held'[u] = held[u] /\ stay'[u] = stay[u]
        /\ pc'[t] = "idle" /\ held'[t] = NoItem /\ stay'[t] \subseteq stay[t]
    BY <1>1 DEF PushLen, PopLen, Goto, TypeOK
  <1>3. \A p \in Queue : p # q => len'[p] = len[p]
    BY <1>1 DEF PushLen, PopLen, TypeOK
  <1>4. len'[q] = Cardinality(heap[q]) /\ Cardinality(heap[q]) \in Nat
    <2>1. len[q] \in Nat /\ Cardinality(heap[q]) \in Nat
      BY <1>1, HeapFacts DEF TypeOK
    <2>2. CASE PushLen(t)
      <3>1. len'[q] = len[q] + 1 /\ pc[t] = "push_len"
        BY <2>2, <1>1 DEF PushLen, Goto, TypeOK
      <3> QED BY <3>1, <2>1 DEF MultiIInv, Counters
    <2>3. CASE PopLen(t)
      <3>1. len'[q] = len[q] - 1 /\ pc[t] = "pop_len"
        BY <2>3, <1>1 DEF PopLen, Goto, TypeOK
      <3>2. len[q] = Cardinality(heap[q]) + 1
        BY <3>1 DEF MultiIInv, Counters
      <3> QED BY <3>1, <3>2, <2>1
    <2> QED BY <2>2, <2>3
  <1>5. /\ \A p \in Queue : lock'[p] = IF lock[p] = t THEN Free ELSE lock[p]
    BY <1>1 DEF ReleaseAll
  <1>6. TypeOK'
    <2>1. len' \in [Queue -> Nat]
      <3>1. DOMAIN len' = Queue /\ len' = [p \in Queue |-> len'[p]]
        BY <1>1 DEF PushLen, PopLen, TypeOK
      <3>2. \A p \in Queue : len'[p] \in Nat
        BY <1>1, <1>3, <1>4 DEF TypeOK
      <3> QED BY <3>1, <3>2
    <2>2. lock' \in [Queue -> Thread \cup {Free}]
      BY <1>1 DEF ReleaseAll, TypeOK
    <2>3. pc' \in [Thread -> PCs] /\ held' \in [Thread -> Item \cup {NoItem}]
      BY <1>1 DEF PushLen, PopLen, Goto, TypeOK, PCs
    <2>4. stay' \in [Thread -> SUBSET Item]
      BY <1>1 DEF PushLen, PopLen, TypeOK
    <2> QED BY <1>1, <2>1, <2>2, <2>3, <2>4 DEF TypeOK
  <1>7. OneOwner'
    <2>1. ASSUME NEW u \in Thread, NEW v \in Thread, u # v, held'[u] # NoItem
          PROVE  held'[u] # held'[v]
      BY <2>1, <1>2 DEF MultiIInv, OneOwner
    <2>2. ASSUME NEW u \in Thread, held'[u] \in Queued'
          PROVE  pc'[u] = "push_len"
      BY <2>2, <1>1, <1>2, HeapFacts DEF MultiIInv, OneOwner
    <2> QED BY <2>1, <2>2, <1>1 DEF MultiIInv, OneOwner
  <1>8. Guards'
    <2>1. TypeOK /\ Guards /\ \A p \in Queue : lock'[p] = lock[p] \/ {lock[p], lock'[p]} \subseteq {Free, t}
      BY <1>5 DEF MultiIInv
    <2>2. \A u \in Thread : u # t => pc'[u] = pc[u] /\ at'[u] = at[u] /\ hi'[u] = hi[u]
      BY <1>1, <1>2
    <2>3. \A p \in Queue : lock'[p] # t
      BY <1>1, <1>5
    <2> QED BY <2>1, <2>2, <2>3, <1>2, OthersGuards DEF Guards, Owing
  <1>9. \A u \in Thread : u # t /\ pc[u] \in Owing => at[u] \in Queue /\ at[u] # q
    BY <1>1 DEF MultiIInv, Guards, TypeOK
  <1>10. Counters'
    <2>1. ASSUME NEW u \in Thread
          PROVE  /\ pc'[u] = "push_len" => len'[at'[u]] + 1 = Cardinality(heap'[at'[u]])
                 /\ pc'[u] = "pop_len" => len'[at'[u]] = Cardinality(heap'[at'[u]]) + 1
      BY <1>1, <1>2, <1>3, <1>9 DEF MultiIInv, Counters, Owing
    <2>2. ASSUME NEW p \in Queue, \A u \in Thread : pc'[u] \in Owing => at'[u] # p
          PROVE  len'[p] = Cardinality(heap'[p])
      <3>1. CASE p = q
        BY <3>1, <1>1, <1>4
      <3>2. CASE p # q
        <4>1. \A u \in Thread : pc[u] \in Owing => at[u] # p
          BY <3>2, <2>2, <1>1, <1>2
        <4> QED BY <3>2, <4>1, <1>1, <1>3 DEF MultiIInv, Counters
      <3> QED BY <3>1, <3>2
    <2> QED BY <2>1, <2>2 DEF Counters
  <1>11. Hands'
    BY <1>1, <1>2 DEF MultiIInv, Hands
  <1>12. Stays'
    <2>1. Settled \subseteq Settled'
      BY <1>1, <1>2 DEF Settled
    <2>2. \A u \in Thread : stay'[u] \subseteq stay[u]
      BY <1>2
    <2> QED BY <2>1, <2>2 DEF MultiIInv, Stays
  <1>13. Passed'
    BY <1>1, <1>2 DEF MultiIInv, Passed
  <1> QED BY <1>6, <1>7, <1>8, <1>10, <1>11, <1>12, <1>13 DEF MultiIInv

-----------------------------------------------------------------------------
(***************************************************************************)
(* Every action keeps the invariant                                        *)
(***************************************************************************)

\* A call begins.
LEMMA CallInv ==
  ASSUME MultiIInv, NEW t \in Thread, Call(t)
  PROVE  MultiIInv'
  <1>1. TypeOK /\ stay[t] \subseteq Settled
    BY DEF MultiIInv, Stays
  <1>2. pc[t] = "idle" /\ UNCHANGED <<heap, len, lock, hi>>
    BY DEF Call, Push, Pop, PopAny, IsEmpty, StartScan, Goto
  <1>3. held[t] = NoItem /\ \A q \in Queue : lock'[q] # t
    BY <1>2 DEF MultiIInv, Hands, Guards, Owing
  <1>4. ASSUME NEW x \in Item, Push(t, x) PROVE MultiIInv'
    <2>1. TypeOK'
      BY <1>1, <1>4 DEF TypeOK, Push, Goto, PCs
    <2>2. /\ \A u \in Thread : u # t => /\ pc'[u] = pc[u] /\ held'[u] = held[u] /\ at'[u] = at[u]
                                        /\ hi'[u] = hi[u] /\ stay'[u] = stay[u]
          /\ pc'[t] = "push" /\ held'[t] = x /\ stay'[t] = stay[t] /\ x # NoItem
          /\ x \notin Queued /\ \A u \in Thread : held[u] # x
      BY <1>1, <1>4, MultiQueueAssumption DEF TypeOK, Push, Goto
    <2> QED BY <2>1, <2>2, <1>1, <1>2, <1>3, QuietInv DEF Owing
  <1>5. CASE Pop(t)
    <2>1. TypeOK'
      BY <1>1, <1>5 DEF TypeOK, Pop, Goto, PCs
    <2>2. /\ \A u \in Thread : u # t => /\ pc'[u] = pc[u] /\ held'[u] = held[u] /\ at'[u] = at[u]
                                        /\ hi'[u] = hi[u] /\ stay'[u] = stay[u]
          /\ pc'[t] = "pop" /\ held'[t] = NoItem /\ stay'[t] = stay[t]
      BY <1>1, <1>3, <1>5 DEF TypeOK, Pop, Goto
    <2> QED BY <2>1, <2>2, <1>1, <1>2, <1>3, QuietInv DEF Owing
  <1>6. ASSUME NEW n \in {"any_try", "empty"}, StartScan(t, n) PROVE MultiIInv'
    <2>1. 1 \in Queue /\ (\A q \in Queue : ~(q < 1)) /\ Settled \subseteq Item
      BY <1>1, HeapFacts, MultiQueueAssumption DEF Queue
    <2>2. TypeOK'
      BY <2>1, <1>1, <1>6 DEF TypeOK, StartScan, Goto, PCs
    <2>3. /\ \A u \in Thread : u # t => /\ pc'[u] = pc[u] /\ held'[u] = held[u] /\ at'[u] = at[u]
                                        /\ hi'[u] = hi[u] /\ stay'[u] = stay[u]
          /\ pc'[t] = n /\ held'[t] = NoItem /\ stay'[t] = Settled /\ at'[t] = 1
      BY <1>1, <1>3, <1>6 DEF TypeOK, StartScan, Goto
    <2> QED BY <2>1, <2>2, <2>3, <1>1, <1>2, <1>3, QuietInv DEF Owing
  <1> QED BY <1>4, <1>5, <1>6 DEF Call, PopAny, IsEmpty

\* pop locks the two sub-queues it has sampled, or gives up the first lock.
LEMMA PopLocksInv ==
  ASSUME MultiIInv, NEW t \in Thread,
         (\E p, q \in Queue : PopLo(t, p, q)) \/ PopHi(t)
  PROVE  MultiIInv'
  <1>1. TypeOK /\ stay[t] \subseteq Settled /\ t # Free
    BY MultiQueueAssumption DEF MultiIInv, Stays
  <1>2. /\ pc[t] \in {"pop", "pop_hi"} /\ UNCHANGED <<heap, len, held, stay>>
    BY DEF PopLo, PopHi, Goto
  <1>3. held[t] = NoItem
    BY <1>2 DEF MultiIInv, Hands
  <1>4. ASSUME NEW p \in Queue, NEW q \in Queue, PopLo(t, p, q) PROVE MultiIInv'
    <2>1. TypeOK'
      BY <1>1, <1>4 DEF TypeOK, PopLo, Goto, PCs
    <2>2. /\ \A u \in Thread : u # t => pc'[u] = pc[u] /\ at'[u] = at[u] /\ hi'[u] = hi[u]
          /\ pc'[t] = "pop_hi" /\ at'[t] = p
          /\ \A r \in Queue : r # p => lock'[r] = lock[r]
          /\ lock'[p] = t /\ lock[p] = Free
      BY <1>1, <1>4 DEF TypeOK, PopLo, Goto
    <2> QED BY <2>1, <2>2, <1>1, <1>2, <1>3, QuietInv DEF Owing
  <1>5. CASE PopHi(t) /\ lock[hi[t]] = Free
    <2>1. TypeOK'
      BY <1>1, <1>5 DEF TypeOK, PopHi, Goto, PCs
    <2>2. /\ \A u \in Thread : u # t => pc'[u] = pc[u]
          /\ pc'[t] = "pop_take" /\ UNCHANGED <<at, hi>> /\ hi[t] \in Queue /\ at[t] \in Queue
          /\ \A r \in Queue : r # hi[t] => lock'[r] = lock[r]
          /\ lock'[hi[t]] = t
      BY <1>1, <1>5 DEF TypeOK, PopHi, Goto
    <2>3. lock'[at[t]] = t
      BY <2>2, <1>5 DEF MultiIInv, Guards, PopHi, Goto
    <2> QED BY <2>1, <2>2, <2>3, <1>1, <1>2, <1>3, <1>5, QuietInv DEF Owing
  <1>6. CASE PopHi(t) /\ lock[hi[t]] # Free
    <2>1. ReleaseAll(t) /\ Goto(t, "pop_hi", "pop") /\ UNCHANGED <<at, hi>>
      BY <1>6 DEF PopHi
    <2>2. TypeOK'
      BY <1>1, <1>2, <2>1 DEF TypeOK, ReleaseAll, Goto, PCs
    <2>3. /\ \A u \in Thread : u # t => pc'[u] = pc[u]
          /\ pc'[t] = "pop"
          /\ \A r \in Queue : lock'[r] = IF lock[r] = t THEN Free ELSE lock[r]
      BY <1>1, <2>1 DEF TypeOK, ReleaseAll, Goto
    <2> QED BY <2>1, <2>2, <2>3, <1>1, <1>2, <1>3, QuietInv DEF Owing
  <1> QED BY <1>4, <1>5, <1>6

\* pop with both locks: from the sub-queue with the better top, or None.
LEMMA PopTakeInv ==
  ASSUME MultiIInv, NEW t \in Thread, PopTake(t)
  PROVE  MultiIInv'
  <1>1. /\ TypeOK /\ stay[t] \subseteq Settled /\ t # Free /\ pc[t] = "pop_take"
        /\ UNCHANGED <<len, hi>>
    BY MultiQueueAssumption DEF MultiIInv, Stays, PopTake, Goto
  <1>2. PopFrom(t) \in Queue /\ lock[PopFrom(t)] = t
    <2>1. at[t] \in Queue /\ hi[t] \in Queue /\ lock[at[t]] = t /\ lock[hi[t]] = t
      BY <1>1 DEF MultiIInv, Guards, TypeOK
    <2>2. PopFrom(t) = at[t] \/ PopFrom(t) = hi[t]
      BY DEF PopFrom
    <2> QED BY <2>1, <2>2
  <1>3. CASE heap[PopFrom(t)] = {}
    <2>1. ReleaseAll(t) /\ Goto(t, "pop_take", "idle") /\ UNCHANGED <<heap, held, at, stay>>
      BY <1>3 DEF PopTake
    <2>2. TypeOK'
      BY <1>1, <2>1 DEF TypeOK, ReleaseAll, Goto, PCs
    <2>3. /\ \A u \in Thread : u # t => pc'[u] = pc[u]
          /\ pc'[t] = "idle"
          /\ \A r \in Queue : lock'[r] = IF lock[r] = t THEN Free ELSE lock[r]
      BY <1>1, <2>1 DEF TypeOK, ReleaseAll, Goto
    <2>4. held[t] = NoItem
      BY <1>1 DEF MultiIInv, Hands
    <2> QED BY <2>1, <2>2, <2>3, <2>4, <1>1, QuietInv DEF Owing
  <1>4. CASE heap[PopFrom(t)] # {}
    <2>1. Goto(t, "pop_take", "pop_len") /\ Take(t, PopFrom(t)) /\ UNCHANGED lock
      BY <1>4 DEF PopTake
    <2>2. lock' = [lock EXCEPT ![PopFrom(t)] = t]
      BY <2>1, <1>1, <1>2 DEF TypeOK
    <2> QED BY <2>1, <2>2, <1>1, <1>2, TakeInv DEF Take, Goto
  <1> QED BY <1>3, <1>4

\* A scan goes on from a sub-queue that holds nothing of what stayed; after
\* the last one nothing stayed at all.
LEMMA ScanInv ==
  ASSUME MultiIInv, NEW t \in Thread, NEW scan, NEW next, ScanOn(t, scan, next),
         \/ scan = "any_try" /\ next = "any_lock"
         \/ /\ <<scan, next>> \in {<<"any_lock", "any_none">>, <<"empty", "empty_true">>}
            /\ stay[t] \cap heap[at[t]] = {},
         UNCHANGED <<len, lock, hi>>
  PROVE  MultiIInv'
  <1>1. /\ TypeOK /\ stay[t] \subseteq Settled /\ at[t] \in Queue /\ at[t] \in Nat /\ N \in Nat
    BY MultiQueueAssumption DEF MultiIInv, Stays, TypeOK, Queue
  <1>2. /\ pc[t] = scan /\ UNCHANGED <<heap, held, stay>>
        /\ \A u \in Thread : u # t => pc'[u] = pc[u] /\ at'[u] = at[u]
        /\ pc'[t] = IF at[t] = N THEN next ELSE scan
        /\ at'[t] = IF at[t] = N THEN 1 ELSE at[t] + 1
    BY <1>1 DEF ScanOn, Goto, TypeOK
  <1>3. TypeOK'
    <2>1. 1 \in Queue /\ (at[t] # N => at[t] + 1 \in Queue)
      BY <1>1, MultiQueueAssumption DEF Queue
    <2> QED BY <2>1, <1>1, <1>2 DEF TypeOK, ScanOn, Goto, PCs
  <1>4. held[t] = NoItem /\ \A q \in Queue : lock[q] # t
    BY <1>2 DEF MultiIInv, Hands, Guards, Owing
  <1>5. scan # "any_try" => \A q \in Queue : q <= at[t] => stay[t] \cap heap[q] = {}
    <2>1. scan # "any_try" => \A q \in Queue : q < at[t] => stay[t] \cap heap[q] = {}
      BY <1>2 DEF MultiIInv, Passed
    <2>2. \A q \in Queue : q <= at[t] => q < at[t] \/ q = at[t]
      BY <1>1 DEF Queue
    <2> QED BY <2>1, <2>2
  <1>6. pc'[t] \in {"any_lock", "empty"} =>
          \A q \in Queue : q < at'[t] => stay'[t] \cap heap[q] = {}
    <2>1. CASE at[t] = N
      BY <2>1, <1>2 DEF Queue
    <2>2. CASE at[t] # N
      <3>1. \A q \in Queue : q < at'[t] => q <= at[t]
        BY <2>2, <1>1, <1>2 DEF Queue
      <3> QED BY <2>2, <3>1, <1>2, <1>5
    <2> QED BY <2>1, <2>2
  <1>7. pc'[t] \in {"any_none", "empty_true"} => stay'[t] = {}
    <2> SUFFICES ASSUME pc'[t] \in {"any_none", "empty_true"} PROVE stay[t] = {}
      BY <1>2
    <2>1. at[t] = N /\ scan # "any_try"
      BY <1>2
    <2>2. \A q \in Queue : stay[t] \cap heap[q] = {}
      BY <2>1, <1>5 DEF Queue
    <2>3. stay[t] \subseteq Queued
      BY <1>1, HeapFacts
    <2> QED BY <2>2, <2>3, <1>1, HeapFacts
  <1>8. pc[t] \notin Owing /\ pc'[t] \notin Owing \cup {"pop_hi", "pop_take", "push"}
    BY <1>2 DEF Owing
  <1> QED BY <1>1, <1>2, <1>3, <1>4, <1>6, <1>7, <1>8, QuietInv

\* A scan ends: it returns None, true, or false.
LEMMA EndScanInv ==
  ASSUME MultiIInv, NEW t \in Thread, NEW end \in {"any_none", "empty", "empty_true"},
         EndScan(t, end)
  PROVE  MultiIInv'
  <1>1. TypeOK
    BY DEF MultiIInv
  <1>2. TypeOK'
    BY <1>1 DEF TypeOK, EndScan, Goto, PCs
  <1>3. /\ pc[t] = end /\ UNCHANGED <<heap, len, lock, held, at, hi>>
        /\ \A u \in Thread : u # t => pc'[u] = pc[u] /\ stay'[u] = stay[u]
        /\ pc'[t] = "idle" /\ stay'[t] = {}
    BY <1>1 DEF TypeOK, EndScan, Goto
  <1>4. held[t] = NoItem /\ \A q \in Queue : lock[q] # t
    BY <1>3 DEF MultiIInv, Hands, Guards, Owing
  <1> QED BY <1>2, <1>3, <1>4, QuietInv DEF Owing

\* pop_any: an item from the sub-queue at hand, or on to the next one.
LEMMA AnyInv ==
  ASSUME MultiIInv, NEW t \in Thread, AnyTry(t) \/ AnyLock(t)
  PROVE  MultiIInv'
  <1>1. TypeOK /\ at[t] \in Queue /\ UNCHANGED <<len, hi>>
    BY DEF MultiIInv, TypeOK, AnyTry, AnyLock
  <1>2. ASSUME NEW from \in {"any_try", "any_lock"}, lock[at[t]] = Free,
               Goto(t, from, "pop_len"), lock' = [lock EXCEPT ![at[t]] = t], Take(t, at[t])
        PROVE  MultiIInv'
    BY <1>1, <1>2, TakeInv DEF Take, Goto
  <1>3. CASE AnyTry(t) /\ ~(lock[at[t]] = Free /\ heap[at[t]] # {})
    <2>1. ScanOn(t, "any_try", "any_lock") /\ UNCHANGED lock
      BY <1>3 DEF AnyTry
    <2> QED BY <2>1, <1>1, ScanInv
  <1>4. CASE AnyLock(t) /\ heap[at[t]] = {}
    <2>1. ScanOn(t, "any_lock", "any_none") /\ UNCHANGED lock
      BY <1>4 DEF AnyLock
    <2>2. stay[t] \cap heap[at[t]] = {}
      BY <1>4
    <2> QED BY <2>1, <2>2, <1>1, ScanInv
  <1> QED BY <1>2, <1>3, <1>4 DEF AnyTry, AnyLock

\* is_empty: a counter that is zero hides nothing that stayed.
LEMMA EmptyScanInv ==
  ASSUME MultiIInv, NEW t \in Thread, EmptyScan(t)
  PROVE  MultiIInv'
  <1>1. at[t] \in Queue /\ stay[t] \subseteq Settled
    BY DEF MultiIInv, TypeOK, Stays
  <1>2. CASE len[at[t]] # 0
    BY <1>2, EndScanInv DEF EmptyScan
  <1>3. CASE len[at[t]] = 0
    <2>1. stay[t] \cap heap[at[t]] = {}
      BY <1>1, <1>3, ZeroMeansNoneSettled
    <2>2. ScanOn(t, "empty", "empty_true") /\ UNCHANGED <<len, lock, hi>>
      BY <1>3 DEF EmptyScan
    <2> QED BY <2>1, <2>2, ScanInv
  <1> QED BY <1>2, <1>3

LEMMA InitInv == Init => MultiIInv
  <1> SUFFICES ASSUME Init PROVE MultiIInv
    OBVIOUS
  <1>1. 1 \in Queue
    BY MultiQueueAssumption DEF Queue
  <1>2. TypeOK
    <2>1. {} \in SUBSET Item /\ 0 \in Nat /\ "idle" \in PCs
      BY DEF PCs
    <2> QED BY <1>1, <2>1 DEF Init, TypeOK
  <1>3. Queued = {}
    BY DEF Init, Queued
  <1>4. OneOwner
    BY <1>3 DEF Init, OneOwner
  <1>5. Guards /\ Hands
    BY MultiQueueAssumption DEF Init, Guards, Hands, Owing
  <1>6. Counters
    <2>1. Cardinality({}) = 0
      BY FS_EmptySet
    <2> QED BY <2>1 DEF Init, Counters
  <1>7. Stays /\ Passed
    BY DEF Init, Stays, Passed
  <1> QED BY <1>2, <1>4, <1>5, <1>6, <1>7 DEF MultiIInv

-----------------------------------------------------------------------------
(***************************************************************************)
(* The theorems                                                            *)
(***************************************************************************)

\* Which locks every thread holds, how far the counters are from the heaps,
\* and what a scan has left behind, at every point of every call.
THEOREM MultiInvariant == Spec => []MultiIInv
  <1>1. ASSUME MultiIInv, [Next]_vars PROVE MultiIInv'
    <2>1. CASE UNCHANGED vars
      <3>1. Queued' = Queued
        BY <2>1 DEF vars, Queued
      <3>2. Settled' = Settled
        BY <2>1, <3>1 DEF vars, Settled
      <3>3. TypeOK' /\ Guards' /\ Counters' /\ Hands' /\ Passed'
        BY <1>1, <2>1 DEF vars, MultiIInv, TypeOK, Guards, Counters, Hands, Passed
      <3>4. OneOwner' /\ Stays'
        BY <1>1, <2>1, <3>1, <3>2 DEF vars, MultiIInv, OneOwner, Stays
      <3> QED BY <3>3, <3>4 DEF MultiIInv
    <2>2. ASSUME NEW t \in Thread, Step(t) PROVE MultiIInv'
      BY <1>1, <2>2, PushTryInv, SettleInv, PopLocksInv, PopTakeInv, AnyInv, EndScanInv,
         EmptyScanInv DEF Step, AnyNone, EmptyTrue
    <2> QED BY <1>1, <2>1, <2>2, CallInv DEF Next
  <1> QED BY <1>1, InitInv, PTL DEF Spec

\* push, pop and pop_any of any number of threads lose and duplicate no item,
\* and the counter of an unlocked sub-queue is exact, so fetch_sub never wraps
\* although the counter is written after the heap.
THEOREM CountersExact == Spec => []QueueInv
  <1>1. MultiIInv => QueueInv
    <2> SUFFICES ASSUME MultiIInv PROVE LenExact
      BY DEF MultiIInv, QueueInv
    <2>1. ASSUME NEW q \in Queue, lock[q] = Free PROVE len[q] = Cardinality(heap[q])
      <3>1. \A t \in Thread : pc[t] \in Owing => at[t] # q
        BY <2>1, MultiQueueAssumption DEF MultiIInv, Guards
      <3> QED BY <3>1 DEF MultiIInv, Counters
    <2> QED BY <2>1 DEF LenExact
  <1> QED BY <1>1, MultiInvariant, PTL

\* pop_any returns None, and is_empty true, only when every item that was
\* there at the call has been popped meanwhile.
THEOREM ScansMissNothing == Spec => []ScansComplete
  <1>1. MultiIInv => ScansComplete
    BY DEF MultiIInv, Passed, ScansComplete
  <1> QED BY <1>1, MultiInvariant, PTL
=============================================================================
