------------------------- MODULE TailClipperProofs -------------------------
(***************************************************************************)
(* For every set of tasks, metadata and window size: the window of the     *)
(* TailClipper queue never outgrows C, no task is lost or duplicated       *)
(* between heap, window and infrastructure lane, and between calls no      *)
(* waiting task is older than a task of the window.                        *)
(***************************************************************************)
EXTENDS TailClipperQueue, SeqLemmas

\* An iteration of fill keeps the invariant, in push and in pop: the task it
\* moves is no younger than any task left in the heap.
LEMMA FillStepInv ==
  ASSUME IInv, FillStep, pc \in {"push_fill", "pop_fill"}
  PROVE  IInv'
  <1>1. PICK t \in heap : /\ IsBest(t) /\ heap' = heap \ {t}
                          /\ rr_queue' = Append(rr_queue, t)
    BY DEF FillStep
  <1>2. UNCHANGED <<infra_rr_queue, key, pc, cur>>
    BY DEF FillStep
  <1>3. /\ rr_queue' \in Seq(Task)
        /\ Len(rr_queue') = Len(rr_queue) + 1
        /\ Window' = Window \cup {t}
        /\ IsInjective(rr_queue')
    BY <1>1, AppendFacts DEF IInv, TypeOK, OnePlace, Window
  <1>4. TypeOK'
    BY <1>1, <1>2, <1>3 DEF IInv, TypeOK
  <1>5. OnePlace'
    BY <1>1, <1>2, <1>3 DEF IInv, OnePlace, Lane
  <1>6. WindowBound'
    BY <1>3, QueueAssumption DEF IInv, TypeOK, WindowBound, FillStep, CanFill
  <1>7. OrderedButCur'
    BY <1>1, <1>2, <1>3 DEF IInv, OrderedButCur, IsBest
  <1> QED BY <1>2, <1>4, <1>5, <1>6, <1>7 DEF IInv

\* A swap keeps the invariant: only the pushed task can be older than the
\* window, so it is the task that enters, and the youngest task leaves.
LEMMA EvictInv ==
  ASSUME IInv, Evict
  PROVE  IInv'
  <1>1. PICK t \in heap, i \in DOMAIN rr_queue : Swap(t, i)
    BY DEF Evict
  <1>2. UNCHANGED <<infra_rr_queue, key, pc, cur>> /\ pc = "push_evict"
    BY DEF Evict
  <1> DEFINE w == rr_queue[i]
             r == RemoveAt(rr_queue, i)
  <1>3. /\ rr_queue \in Seq(Task) /\ i \in 1 .. Len(rr_queue) /\ t \in Task
        /\ w \in Window /\ w \in Task
    BY <1>1 DEF IInv, TypeOK, Window, Range
  <1>4. /\ r \in Seq(Task) /\ Len(r) = Len(rr_queue) - 1
        /\ Range(r) = Window \ {w} /\ IsInjective(r)
    BY <1>3, RemoveAtFacts DEF IInv, OnePlace, Window
  <1>5. /\ heap' = (heap \ {t}) \cup {w} /\ rr_queue' = Append(r, t)
        /\ \A u \in Window : key[u] <= key[w]
        /\ \A u \in heap : key[t] <= key[u]
        /\ key[t] < key[w]
    BY <1>1 DEF Swap, CanSwap, IsBest, IsWorst, Window, Range
  <1>6. t \notin Window
    BY <1>1 DEF IInv, OnePlace
  <1> HIDE DEF w, r
  <1>7. /\ rr_queue' \in Seq(Task)
        /\ Len(rr_queue') = Len(r) + 1
        /\ Window' = (Window \ {w}) \cup {t}
        /\ IsInjective(rr_queue')
    BY <1>3, <1>4, <1>5, <1>6, AppendFacts DEF Window
  <1>8. Len(rr_queue') = Len(rr_queue)
    BY <1>3, <1>4, <1>7
  <1>9. TypeOK'
    BY <1>2, <1>3, <1>5, <1>7 DEF IInv, TypeOK
  <1>10. OnePlace'
    BY <1>1, <1>2, <1>3, <1>5, <1>7 DEF IInv, OnePlace, Lane
  <1>11. WindowBound'
    BY <1>8 DEF IInv, WindowBound
  <1>12. OrderedButCur'
    <2>1. \A u \in Window \cup heap : key[u] \in Nat
      <3>1. Window \subseteq Task /\ heap \subseteq Task
        BY DEF IInv, TypeOK, Window, Range
      <3> QED BY <3>1, QueueAssumption DEF IInv, TypeOK
    <2>2. t = cur
      BY <1>1, <1>2, <1>3, <1>5, <2>1 DEF IInv, OrderedButCur
    <2>3. \A u \in Window, h \in heap \ {t} : key[u] <= key[h]
      BY <2>2 DEF IInv, OrderedButCur
    <2>4. \A u \in Window', h \in heap' : key[u] <= key[h]
      BY <1>1, <1>3, <1>5, <1>7, <2>1, <2>3
    <2> QED BY <1>2, <2>4 DEF OrderedButCur
  <1>13. (pc = "push_evict" => ~CanFill)'
    BY <1>1, <1>2, <1>5, <1>8 DEF IInv, CanFill
  <1> QED BY <1>9, <1>10, <1>11, <1>12, <1>13 DEF IInv

\* When the swap loop of push breaks, no waiting task is older than a task of
\* the window: only the pushed task could be, and then it would be the best
\* candidate and the loop would go on.
LEMMA PushDoneOrdered ==
  ASSUME IInv, pc = "push_evict", ~CanEvict
  PROVE  \A w \in Window, h \in heap : key[w] <= key[h]
  <1> SUFFICES ASSUME NEW w \in Window, NEW h \in heap, ~(key[w] <= key[h])
               PROVE  FALSE
    OBVIOUS
  <1>1. Window \subseteq Task /\ heap \subseteq Task
    BY DEF IInv, TypeOK, Window, Range
  <1>2. \A u \in Window \cup heap : key[u] \in Nat
    BY <1>1, QueueAssumption DEF IInv, TypeOK
  <1>3. h = cur /\ \A u \in heap : u # cur => key[w] <= key[u]
    BY DEF IInv, OrderedButCur
  <1>4. IsBest(h)
    BY <1>2, <1>3 DEF IsBest
  <1> DEFINE k == [j \in DOMAIN rr_queue |-> key[rr_queue[j]]]
  <1>5. PICK n \in DOMAIN rr_queue : w = rr_queue[n]
    BY DEF Window, Range
  <1>6. /\ DOMAIN rr_queue = 1 .. Len(rr_queue) /\ Len(rr_queue) \in Nat
        /\ Len(rr_queue) # 0 /\ \A j \in 1 .. Len(rr_queue) : k[j] \in Nat
    BY <1>2, <1>5 DEF IInv, TypeOK, Window, Range
  <1>7. PICK i \in DOMAIN rr_queue :
          /\ \A j \in DOMAIN rr_queue : k[j] <= k[i]
          /\ \A j \in DOMAIN rr_queue : j < i => k[j] < k[i]
    <2> HIDE DEF k
    <2> QED BY <1>6, FirstMaximum
  <1>8. IsWorst(i)
    BY <1>7 DEF IsWorst
  <1>9. key[h] < key[rr_queue[i]]
    BY <1>2, <1>5, <1>7 DEF Window, Range
  <1> QED BY <1>4, <1>8, <1>9 DEF CanEvict, CanSwap

\* The queue starts in the invariant.
LEMMA InitInv == Init => IInv
  <1> SUFFICES ASSUME Init PROVE IInv
    OBVIOUS
  <1>1. TypeOK
    BY QueueAssumption DEF Init, TypeOK, PCs
  <1>2. Window = {} /\ Lane = {}
    BY DEF Init, Window, Lane, Range
  <1>3. OnePlace
    BY <1>2 DEF Init, OnePlace, IsInjective
  <1>4. WindowBound
    BY QueueAssumption DEF Init, WindowBound
  <1> QED BY <1>1, <1>2, <1>3, <1>4 DEF Init, IInv, OrderedButCur

\* Every step of push and pop keeps the invariant.
LEMMA NextInv == IInv /\ [Next]_vars => IInv'
  <1> SUFFICES ASSUME IInv, [Next]_vars PROVE IInv'
    OBVIOUS
  <1> USE DEF IInv
  <1>1. ASSUME NEW t \in Task, PushInfra(t) PROVE IInv'
    <2>1. /\ infra_rr_queue' \in Seq(Task) /\ Lane' = Lane \cup {t}
          /\ IsInjective(infra_rr_queue')
      BY <1>1, AppendFacts
         DEF PushInfra, TypeOK, OnePlace, Lane, Queued
    <2>2. Window' = Window /\ UNCHANGED <<heap, rr_queue, key, pc, cur>>
      BY <1>1 DEF PushInfra, Window
    <2>3. OnePlace'
      BY <1>1, <2>1, <2>2 DEF PushInfra, OnePlace, Queued
    <2> QED BY <2>1, <2>2, <2>3
            DEF TypeOK, WindowBound, OrderedButCur, CanFill
  <1>2. ASSUME NEW t \in Task, NEW m \in Meta, Push(t, m) PROVE IInv'
    <2>1. /\ Window' = Window /\ Lane' = Lane /\ t \notin Window
          /\ t \notin heap /\ t \notin Lane
      BY <1>2 DEF Push, Window, Lane, Queued
    <2>2. TypeOK'
      BY <1>2 DEF Push, TypeOK, PCs
    <2>3. OnePlace'
      BY <1>2, <2>1 DEF Push, OnePlace
    <2>4. WindowBound'
      BY <1>2 DEF Push, WindowBound
    <2>5. rr_queue = <<>> => Window = {}
      BY DEF Window, Range
    <2>6. OrderedButCur'
      <3>1. Window \subseteq Task /\ heap \subseteq Task
        BY DEF TypeOK, Window, Range
      <3>2. \A u \in Window \cup heap : key'[u] = key[u]
        BY <1>2, <2>1, <3>1 DEF Push, TypeOK
      <3>3. heap' = heap \cup {t} /\ cur' = t /\ pc = "idle"
        BY <1>2 DEF Push
      <3>4. Window # {} => pc' = "push_fill"
        BY <1>2, <2>5 DEF Push
      <3> QED BY <2>1, <3>2, <3>3, <3>4 DEF OrderedButCur
    <2>7. (pc = "push_evict" => ~CanFill)'
      BY <1>2 DEF Push
    <2> QED BY <2>2, <2>3, <2>4, <2>6, <2>7
  <1>3. CASE PopInfra
    <2>1. /\ infra_rr_queue' \in Seq(Task) /\ Lane' \subseteq Lane
          /\ IsInjective(infra_rr_queue')
      BY <1>3, TailFacts DEF PopInfra, TypeOK, OnePlace, Lane
    <2>2. Window' = Window /\ UNCHANGED <<heap, rr_queue, key, pc, cur>>
      BY <1>3 DEF PopInfra, Window
    <2>3. OnePlace'
      BY <2>1, <2>2 DEF OnePlace
    <2> QED BY <2>1, <2>2, <2>3
            DEF TypeOK, WindowBound, OrderedButCur, CanFill
  <1>4. CASE Pop
    BY <1>4 DEF Pop, TypeOK, PCs, OnePlace, WindowBound, OrderedButCur,
                Window, Lane
  <1>5. CASE PushFill
    BY <1>5, FillStepInv DEF PushFill
  <1>6. CASE PushFilled
    BY <1>6 DEF PushFilled, TypeOK, PCs, OnePlace, WindowBound, OrderedButCur,
                Window, Lane, CanFill
  <1>7. CASE Evict
    BY <1>7, EvictInv
  <1>8. CASE PushDone
    <2>1. /\ Window' = Window /\ Lane' = Lane /\ pc' = "idle" /\ ~CanEvict
          /\ UNCHANGED <<heap, rr_queue, infra_rr_queue, key, cur>>
      BY <1>8 DEF PushDone, Window, Lane
    <2>2. \A w \in Window, h \in heap : key[w] <= key[h]
      BY <1>8, <2>1, PushDoneOrdered DEF PushDone
    <2> QED BY <2>1, <2>2
            DEF TypeOK, PCs, OnePlace, WindowBound, OrderedButCur
  <1>9. CASE PopFill
    BY <1>9, FillStepInv DEF PopFill
  <1>10. CASE PopFront
    <2>1. CASE rr_queue = <<>>
      BY <1>10, <2>1 DEF PopFront, TypeOK, PCs, OnePlace, WindowBound,
                         OrderedButCur, Window, Lane
    <2>2. CASE rr_queue # <<>>
      <3>1. /\ rr_queue' \in Seq(Task) /\ Len(rr_queue') = Len(rr_queue) - 1
            /\ Window' \subseteq Window /\ IsInjective(rr_queue')
        BY <1>10, <2>2, TailFacts DEF PopFront, TypeOK, OnePlace, Window
      <3>2. /\ Lane' = Lane /\ pc = "pop_fill" /\ pc' = "idle"
            /\ UNCHANGED <<heap, infra_rr_queue, key, cur>>
        BY <1>10 DEF PopFront, Lane
      <3>3. WindowBound'
        BY <3>1, QueueAssumption DEF WindowBound, TypeOK
      <3> QED BY <3>1, <3>2, <3>3 DEF TypeOK, PCs, OnePlace, OrderedButCur
    <2> QED BY <2>1, <2>2
  <1>11. CASE UNCHANGED vars
    BY <1>11 DEF vars, TypeOK, OnePlace, WindowBound, OrderedButCur,
                 Window, Lane, CanFill
  <1> QED BY <1>1, <1>2, <1>3, <1>4, <1>5, <1>6, <1>7, <1>8, <1>9, <1>10,
             <1>11 DEF Next, Step

\* The inductive invariant holds throughout.
THEOREM InductiveInvariant == Spec => []IInv
  BY InitInv, NextInv, PTL DEF Spec

\* The variables of the queue keep their types, for every instance.
THEOREM TypeCorrect == Spec => []TypeOK
  BY InductiveInvariant, PTL DEF IInv

\* The window holds the oldest runnable tasks between calls of push and pop.
THEOREM WindowHoldsOldest == Spec => []WindowOldest
  <1>1. IInv => WindowOldest
    BY DEF IInv, WindowOldest, OrderedButCur
  <1> QED BY <1>1, InductiveInvariant, PTL

\* push and pop never lose, duplicate or misplace a task.
THEOREM TasksInOnePlace == Spec => []OnePlace
  BY InductiveInvariant, PTL DEF IInv

\* The window never holds more than C tasks.
THEOREM WindowStaysBounded == Spec => []WindowBound
  BY InductiveInvariant, PTL DEF IInv

\* The swap loop of push makes at most one swap.
THEOREM PushSwapsOnce == Spec => []SwapsOnce
  <1>1. ASSUME IInv, pc = "push_evict", cur \in Window PROVE ~CanEvict
    <2> SUFFICES ASSUME NEW t \in heap, NEW i \in DOMAIN rr_queue, CanSwap(t, i)
                 PROVE  FALSE
      BY DEF CanEvict
    <2>1. Window \subseteq Task /\ heap \subseteq Task /\ rr_queue[i] \in Window
      BY <1>1 DEF IInv, TypeOK, Window, Range
    <2>2. key[t] \in Nat /\ key[rr_queue[i]] \in Nat
      BY <1>1, <2>1, QueueAssumption DEF IInv, TypeOK
    <2>3. t # cur
      BY <1>1 DEF IInv, OnePlace
    <2>4. key[rr_queue[i]] <= key[t]
      BY <1>1, <2>1, <2>3 DEF IInv, OrderedButCur
    <2> QED BY <2>2, <2>4 DEF CanSwap
  <1>2. IInv => SwapsOnce
    BY <1>1 DEF SwapsOnce
  <1> QED BY <1>2, InductiveInvariant, PTL

-----------------------------------------------------------------------------
(***************************************************************************)
(* What a step may not do                                                  *)
(***************************************************************************)

\* push leaves the window full or the heap empty: the swap loop starts only
\* after fill has ended, and keeps the window's length.
THEOREM PushFillsWindow == Spec => FullAfterPush
  <1>1. IInv /\ [Next]_vars
          => [pc = "push_evict" /\ pc' = "idle" => Len(rr_queue') = C \/ heap' = {}]_vars
    <2> SUFFICES ASSUME IInv, [Next]_vars, pc = "push_evict", pc' = "idle"
                 PROVE  Len(rr_queue') = C \/ heap' = {}
      OBVIOUS
    <2>1. PushDone
      BY DEF Next, Step, PushInfra, Push, PopInfra, Pop, PushFill, PushFilled, Evict, PopFill,
             PopFront, vars
    <2>2. heap' = heap /\ rr_queue' = rr_queue
      BY <2>1 DEF PushDone
    <2>3. Len(rr_queue) \in Nat /\ Len(rr_queue) <= C /\ ~CanFill
      BY DEF IInv, TypeOK, WindowBound
    <2> QED BY <2>2, <2>3, QueueAssumption DEF CanFill
  <1> QED BY <1>1, InductiveInvariant, PTL DEF Spec, FullAfterPush

\* Where the tasks of the window go when one is added at the back.
LEMMA BehindAll ==
  ASSUME NEW s \in Seq(Task), NEW t \in Task, t \notin Range(s),
         NEW q \in Seq(Task), NEW i \in DOMAIN q, NEW j \in DOMAIN Append(s, t),
         q[i] = Append(s, t)[j], t \notin Range(q),
         \A k \in DOMAIN s : q[i] = s[k] => k <= i
  PROVE  j <= i
  <1>1. /\ Len(s) \in Nat /\ DOMAIN s = 1 .. Len(s)
        /\ DOMAIN Append(s, t) = 1 .. Len(s) + 1
        /\ Append(s, t)[Len(s) + 1] = t
        /\ \A k \in 1 .. Len(s) : Append(s, t)[k] = s[k]
    BY AppendProperties
  <1>2. q[i] # t
    BY DEF Range
  <1>3. j \in 1 .. Len(s)
    BY <1>1, <1>2
  <1> QED BY <1>1, <1>3

\* No task of the window is put behind one it was ahead of or further back: a
\* swap closes the gap, a fill appends, a pop moves all forward.
THEOREM WindowMovesForward == Spec => NeverMovesBack
  <1>1. ASSUME IInv, [Next]_vars, NEW i \in DOMAIN rr_queue, NEW j \in DOMAIN rr_queue',
               rr_queue[i] = rr_queue'[j]
        PROVE  j <= i
    <2>1. /\ rr_queue \in Seq(Task) /\ IsInjective(rr_queue) /\ heap \subseteq Task
          /\ heap \cap Window = {} /\ Len(rr_queue) \in Nat
          /\ DOMAIN rr_queue = 1 .. Len(rr_queue)
      BY <1>1 DEF IInv, TypeOK, OnePlace
    <2>2. \A k \in DOMAIN rr_queue : rr_queue[i] = rr_queue[k] => k = i
      BY <2>1 DEF IsInjective
    <2>3. CASE rr_queue' = rr_queue
      BY <1>1, <2>1, <2>2, <2>3
    <2>4. CASE FillStep
      <3>1. PICK t \in heap : rr_queue' = Append(rr_queue, t)
        BY <2>4 DEF FillStep
      <3>2. t \in Task /\ t \notin Range(rr_queue)
        BY <2>1 DEF Window
      <3>3. \A k \in DOMAIN rr_queue : rr_queue[i] = rr_queue[k] => k <= i
        BY <2>1, <2>2
      <3> QED BY <1>1, <2>1, <3>1, <3>2, <3>3, BehindAll
    <2>5. CASE Evict
      <3>1. PICK t \in heap, n \in DOMAIN rr_queue : rr_queue' = Append(RemoveAt(rr_queue, n), t)
        BY <2>5 DEF Evict, Swap
      <3> DEFINE r == RemoveAt(rr_queue, n)
      <3>2. /\ r \in Seq(Task) /\ Len(r) = Len(rr_queue) - 1
            /\ Range(r) = Range(rr_queue) \ {rr_queue[n]}
            /\ \A k \in 1 .. Len(rr_queue) - 1 :
                 r[k] = IF k < n THEN rr_queue[k] ELSE rr_queue[k + 1]
        BY <2>1, RemoveAtFacts
      <3>3. t \in Task /\ t \notin Range(rr_queue) /\ t \notin Range(r)
        BY <2>1, <3>2 DEF Window
      <3>4. ASSUME NEW k \in DOMAIN r, rr_queue[i] = r[k]
            PROVE  k <= i
        <4> HIDE DEF r
        <4>1. k \in 1 .. Len(rr_queue) - 1
          BY <3>2
        <4>2. /\ k \in DOMAIN rr_queue /\ k + 1 \in DOMAIN rr_queue
              /\ rr_queue[i] = rr_queue[k] \/ rr_queue[i] = rr_queue[k + 1]
          BY <2>1, <3>2, <3>4, <4>1
        <4> QED BY <2>1, <2>2, <4>1, <4>2
      <3> HIDE DEF r
      <3>5. rr_queue' = Append(r, t)
        BY <3>1 DEF r
      <3> QED BY <1>1, <2>1, <3>2, <3>3, <3>4, <3>5, BehindAll
    <2>6. CASE PopFront
      <3>1. rr_queue # <<>> /\ rr_queue' = Tail(rr_queue)
        BY <1>1, <2>1, <2>6 DEF PopFront
      <3>2. /\ DOMAIN Tail(rr_queue) = 1 .. Len(rr_queue) - 1
            /\ \A k \in 1 .. Len(rr_queue) - 1 : Tail(rr_queue)[k] = rr_queue[k + 1]
        <4>1. Tail(rr_queue) \in Seq(Task) /\ Len(Tail(rr_queue)) = Len(rr_queue) - 1
          BY <2>1, <3>1, TailFacts
        <4>2. \A k \in 1 .. Len(Tail(rr_queue)) : Tail(rr_queue)[k] = rr_queue[k + 1]
          BY <2>1, <3>1, HeadTailProperties
        <4> QED BY <4>1, <4>2
      <3>3. j \in 1 .. Len(rr_queue) - 1 /\ rr_queue[i] = rr_queue[j + 1]
        BY <1>1, <3>1, <3>2
      <3> QED BY <2>1, <2>2, <3>3
    <2> QED BY <1>1, <2>3, <2>4, <2>5, <2>6
            DEF Next, Step, PushInfra, Push, PopInfra, Pop, PushFill, PushFilled, PushDone,
                PopFill, vars
  <1>2. IInv /\ [Next]_vars
          => [\A i \in DOMAIN rr_queue, j \in DOMAIN rr_queue' :
                rr_queue[i] = rr_queue'[j] => j <= i]_vars
    BY <1>1
  <1> QED BY <1>2, InductiveInvariant, PTL DEF Spec, NeverMovesBack

-----------------------------------------------------------------------------
(***************************************************************************)
(* The queue implements limited processor sharing                          *)
(***************************************************************************)

\* A pop that reaches fill has found the infrastructure lane empty, and the
\* queue has one owner: nothing is pushed in between.
LaneServed == pc = "pop_fill" => infra_rr_queue = <<>>

LEMMA PopServesLane == Spec => []LaneServed
  <1>1. Init => LaneServed
    BY DEF Init, LaneServed
  <1>2. LaneServed /\ [Next]_vars => LaneServed'
    BY DEF LaneServed, Next, Step, PushInfra, Push, PopInfra, Pop, PushFill, PushFilled, Evict,
           PushDone, PopFill, PopFront, FillStep, vars
  <1> QED BY <1>1, <1>2, PTL DEF Spec

\* The front of the window is one of the C oldest tasks: whoever is older is
\* in the window too, behind it.
LEMMA FrontIsOld ==
  ASSUME IInv, pc = "pop_fill", rr_queue # <<>>
  PROVE  Cardinality({u \in heap \cup Window : key[u] < key[Head(rr_queue)]}) < C
  <1> DEFINE f == Head(rr_queue)
             Older == {u \in heap \cup Window : key[u] < key[f]}
  <1>1. rr_queue \in Seq(Task) /\ IsInjective(rr_queue) /\ Len(rr_queue) <= C /\ Len(rr_queue) \in Nat
    BY DEF IInv, TypeOK, OnePlace, WindowBound
  <1>2. /\ Tail(rr_queue) \in Seq(Task) /\ Len(Tail(rr_queue)) = Len(rr_queue) - 1
        /\ f \in Window /\ Range(Tail(rr_queue)) = Window \ {f}
    BY <1>1, TailFacts DEF Window
  <1>3. \A u \in heap \cup Window : key[u] \in Nat
    <2>1. Window \subseteq Task /\ heap \subseteq Task
      BY DEF IInv, TypeOK, Window, Range
    <2> QED BY <2>1, QueueAssumption DEF IInv, TypeOK
  <1> HIDE DEF f
  <1>4. Older \subseteq Range(Tail(rr_queue))
    BY <1>2, <1>3 DEF IInv, OrderedButCur
  <1> HIDE DEF Older
  <1>5. /\ IsFiniteSet(Range(Tail(rr_queue)))
        /\ Cardinality(Range(Tail(rr_queue))) <= Len(rr_queue) - 1
    BY <1>2, RangeBound
  <1>6. Cardinality(Older) <= Cardinality(Range(Tail(rr_queue)))
    BY <1>4, <1>5, FS_Subset
  <1>7. Cardinality(Older) \in Nat /\ Cardinality(Range(Tail(rr_queue))) \in Nat
    BY <1>4, <1>5, FS_Subset, FS_CardinalityType
  <1>8. Cardinality(Older) < C
    BY <1>1, <1>5, <1>6, <1>7, QueueAssumption
  <1> QED BY <1>8 DEF Older, f

\* Every step of a call is an arrival, a dispatch or nothing at all for
\* whoever looks at the queue from outside.
LEMMA StepImplements ==
  ASSUME IInv, LaneServed, [Next]_vars
  PROVE  [Abstract!Next]_(Abstract!vars)
  <1>1. Abstract!Queued = Queued
    BY DEF Abstract!Queued, Queued, Lane, Range
  <1>2. ASSUME UNCHANGED <<infra_rr_queue, key>>, heap' \cup Window' = heap \cup Window
        PROVE  UNCHANGED Abstract!vars
    BY <1>2 DEF Abstract!vars
  <1>3. ASSUME NEW t \in Task, PushInfra(t)
        PROVE  Abstract!Next
    <2>1. Window' = Window
      BY <1>3 DEF PushInfra, Window
    <2>2. Abstract!Arrive(t, Infra)
      BY <1>1, <1>3, <2>1 DEF PushInfra, Abstract!Arrive
    <2> QED BY <2>2, QueueAssumption DEF Abstract!Next
  <1>4. ASSUME NEW t \in Task, NEW m \in Meta, Push(t, m)
        PROVE  Abstract!Next
    <2>1. Window' = Window
      BY <1>4 DEF Push, Window
    <2>2. Abstract!Arrive(t, m)
      BY <1>1, <1>4, <2>1 DEF Push, Abstract!Arrive
    <2> QED BY <2>2 DEF Abstract!Next
  <1>5. CASE PopInfra
    <2>1. Abstract!DispatchInfra
      BY <1>5 DEF PopInfra, Abstract!DispatchInfra, Window
    <2> QED BY <2>1 DEF Abstract!Next
  <1>6. CASE FillStep
    <2>1. PICK t \in heap : heap' = heap \ {t} /\ rr_queue' = Append(rr_queue, t)
      BY <1>6 DEF FillStep
    <2>2. Window' = Window \cup {t}
      BY <2>1, AppendFacts DEF IInv, TypeOK, Window
    <2>3. UNCHANGED <<infra_rr_queue, key>>
      BY <1>6 DEF FillStep
    <2> QED BY <1>2, <2>1, <2>2, <2>3
  <1>7. CASE Evict
    <2>1. PICK t \in heap, i \in DOMAIN rr_queue : Swap(t, i)
      BY <1>7 DEF Evict
    <2>2. UNCHANGED <<infra_rr_queue, key>>
      BY <1>7 DEF Evict
    <2>3. /\ RemoveAt(rr_queue, i) \in Seq(Task)
          /\ Range(RemoveAt(rr_queue, i)) = Window \ {rr_queue[i]}
          /\ rr_queue[i] \in Window
      <3>1. rr_queue \in Seq(Task) /\ IsInjective(rr_queue) /\ i \in 1 .. Len(rr_queue)
        BY DEF IInv, TypeOK, OnePlace
      <3>2. rr_queue[i] \in Window
        BY DEF Window, Range
      <3> QED BY <3>1, <3>2, RemoveAtFacts DEF Window
    <2>4. Window' = (Window \ {rr_queue[i]}) \cup {t} /\ heap' = (heap \ {t}) \cup {rr_queue[i]}
      BY <2>1, <2>3, AppendFacts DEF IInv, TypeOK, Swap, Window
    <2> QED BY <1>2, <2>2, <2>3, <2>4
  <1>8. CASE PopFront
    <2>1. CASE rr_queue = <<>>
      BY <1>2, <1>8, <2>1 DEF PopFront, Window
    <2>2. CASE rr_queue # <<>>
      <3> DEFINE f == Head(rr_queue)
      <3>1. rr_queue' = Tail(rr_queue) /\ pc = "pop_fill" /\ UNCHANGED <<heap, infra_rr_queue, key>>
        BY <1>8, <2>2 DEF PopFront
      <3>2. f \in Window /\ Window' = Window \ {f} /\ f \notin heap /\ f \in Task
        BY <2>2, <3>1, TailFacts DEF IInv, TypeOK, OnePlace, Window
      <3>3. Cardinality(Abstract!OlderThan(f)) < C
        BY <2>2, <3>1, FrontIsOld DEF Abstract!OlderThan
      <3> HIDE DEF f
      <3>4. Abstract!Dispatch(f)
        <4>1. infra_rr_queue = <<>> /\ f \in heap \cup Window
          BY <3>1, <3>2 DEF LaneServed
        <4>2. (heap \cup Window)' = (heap \cup Window) \ {f}
          BY <3>1, <3>2
        <4>3. \A S : Abstract!Cardinality(S) = Cardinality(S)
          BY Zenon DEF Abstract!Cardinality, Cardinality
        <4> QED BY <3>1, <3>3, <4>1, <4>2, <4>3 DEF Abstract!Dispatch
      <3> QED BY <3>2, <3>4 DEF Abstract!Next
    <2> QED BY <2>1, <2>2
  <1>9. CASE UNCHANGED <<heap, rr_queue, infra_rr_queue, key>>
    BY <1>2, <1>9 DEF Window
  <1> QED BY <1>3, <1>4, <1>5, <1>6, <1>7, <1>8, <1>9
          DEF Next, Step, Pop, PushFill, PushFilled, PushDone, PopFill, vars

\* push and pop implement oldest-first limited processor sharing with C slots:
\* whatever is dispatched is one of the C oldest runnable tasks, and the
\* infrastructure lane goes first.
THEOREM SharesAmongOldest == Spec => ImplementsLimitedSharing
  <1>1. Init => Abstract!Init
    <2> SUFFICES ASSUME Init
                 PROVE  Abstract!Init
      OBVIOUS
    <2>1. Window = {}
      BY DEF Init, Window, Range
    <2> QED BY <2>1, QueueAssumption DEF Init, Abstract!Init
  <1>2. IInv /\ LaneServed /\ [Next]_vars => [Abstract!Next]_(Abstract!vars)
    BY StepImplements
  <1> QED BY <1>1, <1>2, InductiveInvariant, PopServesLane, PTL
          DEF Spec, ImplementsLimitedSharing, Abstract!Spec
=============================================================================
