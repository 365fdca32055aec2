----------------------- MODULE SharedPrioQueueProofs -----------------------
(***************************************************************************)
(* For every number of threads and tasks: the flag of the infrastructure   *)
(* lane, which is read without the lock, is exact; the lane changes in one *)
(* step; no pop passes over an infrastructure task that was there when it  *)
(* began; and is_empty is never wrong about a task that stayed.            *)
(*                                                                         *)
(* The invariant says what a thread holds at each point of its call and    *)
(* that only the holder of the lock is between the lane and the flag; then *)
(* a flag seen down means that nothing settled is in the lane (FlagDown).  *)
(***************************************************************************)
EXTENDS SharedPrioQueue, SeqLemmas

\* A thread is between the lane and the flag only with the lock.
LockHeld == \A t \in Thread : pc[t] \in {"push_store", "pop_store"} <=> lock = t

\* What a thread has in hand at each point of its call.
Hands ==
  \A t \in Thread :
    /\ pc[t] \notin {"push", "push_store", "pop_store", "got"} => item[t] = NoTask
    /\ pc[t] \in {"push", "got"} => item[t] \in Task
    /\ pc[t] = "push_store" => item[t] \in InfraTask
    /\ pc[t] = "pop_store" => item[t] \in InfraTask \/ (item[t] = NoTask /\ infra = <<>>)

\* The task being pushed is the last of the lane.
Back ==
  \A t \in Thread :
    pc[t] = "push_store" => /\ Front(infra) \in Seq(InfraTask)
                            /\ infra = Append(Front(infra), item[t])

\* A task a call has seen settled is queued until somebody pops it.
Stays == \A t \in Thread : stay[t] \subseteq Settled

\* What a call has looked at so far is no longer among what stayed.
Looked ==
  \A t \in Thread :
    /\ pc[t] \in {"pop_main", "none"} => stay[t] \cap InfraTask = {}
    /\ pc[t] = "got" /\ item[t] \in UserTask => stay[t] \cap InfraTask = {}
    /\ pc[t] = "empty_flag" => stay[t] \cap UserTask = {}
    /\ pc[t] = "empty" => stay[t] = {}

SharedIInv ==
  /\ TypeOK /\ OneOwner /\ FlagExact
  /\ LockHeld /\ Hands /\ Back /\ Stays /\ Looked

-----------------------------------------------------------------------------
(***************************************************************************)
(* What the flag says                                                      *)
(***************************************************************************)

\* A thread that reads the flag down, without the lock, knows that no
\* infrastructure task whose push has returned is in the lane.
LEMMA FlagDown ==
  ASSUME SharedIInv, ~infra_pending
  PROVE  Settled \cap InfraTask = {}
  <1> SUFFICES ASSUME NEW x \in Settled \cap InfraTask PROVE FALSE
    OBVIOUS
  <1>1. x \in Range(infra)
    BY SharedAssumption DEF Settled, Queued, SharedIInv, TypeOK
  <1>2. infra # <<>>
    BY <1>1 DEF Range
  <1>3. Lane = <<>>
    BY DEF SharedIInv, FlagExact
  <1>4. lock \in Thread
    BY <1>2, <1>3 DEF Lane, SharedIInv, TypeOK
  <1>5. pc[lock] \in {"push_store", "pop_store"}
    BY <1>4 DEF SharedIInv, LockHeld
  <1>6. CASE pc[lock] = "push_store"
    <2>1. Front(infra) = <<>>
      BY <1>3, <1>4, <1>6, SharedAssumption DEF Lane
    <2>2. /\ item[lock] \in InfraTask /\ Front(infra) \in Seq(InfraTask)
          /\ infra = Append(Front(infra), item[lock])
      BY <1>4, <1>6 DEF SharedIInv, Back, Hands
    <2>3. Range(infra) = Range(Front(infra)) \cup {item[lock]}
      <3>1. \A f \in Seq(InfraTask), e \in InfraTask : Range(Append(f, e)) = Range(f) \cup {e}
        BY AppendFacts
      <3> QED BY <3>1, <2>2, Zenon
    <2>4. Range(<<>>) = {}
      BY DEF Range
    <2>5. x = item[lock]
      BY <1>1, <2>1, <2>3, <2>4
    <2> QED BY <2>5, <1>4, <1>6 DEF Settled
  <1>7. CASE pc[lock] = "pop_store"
    <2>1. item[lock] = NoTask
      <3> SUFFICES ASSUME item[lock] # NoTask PROVE FALSE
        OBVIOUS
      <3>1. Lane = <<item[lock]>> \o infra
        BY <1>4, <1>7, SharedAssumption DEF Lane
      <3>2. item[lock] \in InfraTask /\ infra \in Seq(InfraTask)
        BY <1>4, <1>7 DEF SharedIInv, Hands, TypeOK
      <3>3. <<item[lock]>> \o infra # <<>>
        BY <3>2, ConsFacts
      <3> QED BY <3>1, <3>3, <1>3
    <2> QED BY <2>1, <1>2, <1>4, <1>7, SharedAssumption DEF SharedIInv, Hands
  <1> QED BY <1>5, <1>6, <1>7

\* A thread outside the lock of the lane moves, and leaves the lane and the
\* flag alone: what the lane and its lock are does not change.
LEMMA Outside ==
  ASSUME SharedIInv, NEW t \in Thread, NEW n \in PCs, NEW x \in Task \cup {NoTask},
         {pc[t], n} \cap {"push_store", "pop_store"} = {},
         pc' = [pc EXCEPT ![t] = n], item' = [item EXCEPT ![t] = x],
         UNCHANGED <<infra, infra_pending, lock>>
  PROVE  /\ Lane' = Lane /\ FlagExact' /\ LockHeld' /\ Back'
         /\ \A u \in Thread : u # t => pc'[u] = pc[u] /\ item'[u] = item[u]
         /\ pc'[t] = n /\ item'[t] = x
  <1>1. pc \in [Thread -> PCs] /\ item \in [Thread -> Task \cup {NoTask}] /\ lock # t
    BY DEF SharedIInv, TypeOK, LockHeld
  <1>2. /\ \A u \in Thread : u # t => pc'[u] = pc[u] /\ item'[u] = item[u]
        /\ pc'[t] = n /\ item'[t] = x
    BY <1>1
  <1>3. lock # Free => lock \in Thread /\ pc'[lock] = pc[lock] /\ item'[lock] = item[lock]
    BY <1>1, <1>2 DEF SharedIInv, TypeOK
  <1>4. Lane' = Lane
    BY <1>3 DEF Lane
  <1>5. FlagExact'
    BY <1>4 DEF FlagExact, SharedIInv
  <1>6. LockHeld'
    BY <1>1, <1>2 DEF LockHeld, SharedIInv
  <1>7. Back'
    BY <1>2 DEF Back, SharedIInv
  <1> QED BY <1>2, <1>4, <1>5, <1>6, <1>7

\* The same thread leaves the heap alone too: a call that begins, reads
\* something or returns.  x is what it has in hand then, S what stayed.
LEMMA QuietInv ==
  ASSUME SharedIInv, NEW t \in Thread, NEW n \in PCs \ {"got"},
         NEW x \in Task \cup {NoTask}, NEW S \in SUBSET Settled,
         {pc[t], n} \cap {"push_store", "pop_store"} = {},
         pc' = [pc EXCEPT ![t] = n], item' = [item EXCEPT ![t] = x],
         stay' = [stay EXCEPT ![t] = S],
         UNCHANGED <<main, infra, infra_pending, lock>>,
         x # NoTask <=> n = "push",
         x # NoTask => x \notin Queued /\ \A u \in Thread : item[u] # x,
         n \in {"pop_main", "none"} => S \cap InfraTask = {},
         n = "empty_flag" => S \cap UserTask = {},
         n = "empty" => S = {}
  PROVE  SharedIInv' /\ Lane' = Lane
  <1>1. /\ Lane' = Lane /\ FlagExact' /\ LockHeld' /\ Back'
        /\ \A u \in Thread : u # t => pc'[u] = pc[u] /\ item'[u] = item[u]
        /\ pc'[t] = n /\ item'[t] = x
    BY Outside
  <1>2. /\ \A u \in Thread : u # t => stay'[u] = stay[u]
        /\ stay'[t] = S /\ S \subseteq Task
    BY DEF SharedIInv, TypeOK, Settled, Queued, Task, Range
  <1>3. TypeOK'
    BY <1>2 DEF SharedIInv, TypeOK
  <1>4. Range(infra') = Range(infra) /\ Queued' = Queued
    BY DEF Queued
  <1>5. OneOwner'
    <2>1. IsInjective(infra')
      BY DEF SharedIInv, OneOwner
    <2>2. ASSUME NEW u \in Thread, NEW v \in Thread, u # v, item'[u] # NoTask
          PROVE  item'[u] # item'[v]
      BY <1>1, <2>2 DEF SharedIInv, OneOwner
    <2>3. ASSUME NEW u \in Thread, item'[u] \in Queued'
          PROVE  pc'[u] = "push_store"
      <3>1. NoTask \notin Queued
        BY SharedAssumption, <1>3 DEF Queued, SharedIInv, TypeOK, Range
      <3> QED BY <1>1, <1>4, <2>3, <3>1 DEF SharedIInv, OneOwner
    <2> QED BY <2>1, <2>2, <2>3 DEF OneOwner
  <1>6. Hands'
    <2> SUFFICES ASSUME NEW u \in Thread
                 PROVE  /\ pc'[u] \notin {"push", "push_store", "pop_store", "got"} => item'[u] = NoTask
                        /\ pc'[u] \in {"push", "got"} => item'[u] \in Task
                        /\ pc'[u] = "push_store" => item'[u] \in InfraTask
                        /\ pc'[u] = "pop_store" => item'[u] \in InfraTask
                                                   \/ (item'[u] = NoTask /\ infra' = <<>>)
      BY DEF Hands
    <2>1. CASE u = t
      BY <2>1, <1>1
    <2>2. CASE u # t
      BY <2>2, <1>1 DEF SharedIInv, Hands
    <2> QED BY <2>1, <2>2
  <1>7. Stays'
    <2>1. \A u \in Thread : pc'[u] = "push_store" => pc[u] = "push_store" /\ item'[u] = item[u]
      BY <1>1
    <2>2. Settled \subseteq Settled'
      BY <2>1, <1>4 DEF Settled
    <2> QED BY <2>2, <1>2 DEF SharedIInv, Stays
  <1>8. Looked'
    BY <1>1, <1>2 DEF SharedIInv, Looked
  <1> QED BY <1>1, <1>3, <1>5, <1>6, <1>7, <1>8 DEF SharedIInv

-----------------------------------------------------------------------------
(***************************************************************************)
(* Every action keeps the invariant                                        *)
(***************************************************************************)

\* The lane holds infrastructure tasks and the heap the others.
LEMMA Halves ==
  ASSUME SharedIInv
  PROVE  /\ Range(infra) \subseteq InfraTask /\ main \subseteq UserTask
         /\ Settled \subseteq Queued /\ Queued \subseteq Task
         /\ main \cap Range(infra) = {} /\ NoTask \notin Queued
  BY SharedAssumption DEF SharedIInv, TypeOK, Range, Queued, Task, Settled

\* A call begins: push with its task, pop and is_empty with what has settled.
LEMMA CallInv ==
  ASSUME SharedIInv, NEW t \in Thread,
         (\E x \in Task : Push(t, x)) \/ Pop(t) \/ IsEmpty(t)
  PROVE  SharedIInv' /\ Lane' = Lane
  <1>1. ASSUME NEW x \in Task, Push(t, x) PROVE SharedIInv' /\ Lane' = Lane
    <2>1. stay[t] \in SUBSET Settled /\ stay' = [stay EXCEPT ![t] = stay[t]]
      BY <1>1 DEF Push, SharedIInv, TypeOK, Stays
    <2>2. x # NoTask /\ "push" \in PCs \ {"got"} /\ pc[t] = "idle"
      BY <1>1, SharedAssumption DEF Push, Goto, Task, PCs
    <2>3. /\ pc' = [pc EXCEPT ![t] = "push"] /\ item' = [item EXCEPT ![t] = x]
          /\ UNCHANGED <<main, infra, infra_pending, lock>>
          /\ x \notin Queued /\ \A u \in Thread : item[u] # x
      BY <1>1 DEF Push, Goto
    <2>4. {pc[t], "push"} \cap {"push_store", "pop_store"} = {}
      BY <2>2
    <2> QED BY <2>1, <2>2, <2>3, <2>4, QuietInv
  <1>2. ASSUME NEW n \in {"pop", "empty_main"}, Start(t, n) PROVE SharedIInv' /\ Lane' = Lane
    <2>1. item[t] = NoTask /\ item' = [item EXCEPT ![t] = NoTask]
      BY <1>2 DEF Start, Goto, SharedIInv, TypeOK, Hands
    <2>2. n \in PCs \ {"got"} /\ pc[t] = "idle"
      BY <1>2 DEF Start, Goto, PCs
    <2>3. /\ pc' = [pc EXCEPT ![t] = n] /\ stay' = [stay EXCEPT ![t] = Settled]
          /\ UNCHANGED <<main, infra, infra_pending, lock>>
      BY <1>2 DEF Start, Goto
    <2>4. {pc[t], n} \cap {"push_store", "pop_store"} = {}
      BY <2>2
    <2> QED BY <2>1, <2>2, <2>3, <2>4, QuietInv
  <1> QED BY <1>1, <1>2 DEF Pop, IsEmpty

\* A thread reads the flag or the heap and goes on: a lane passed over has
\* nothing that stayed, by FlagDown, and so has an empty heap.
LEMMA LookInv ==
  ASSUME SharedIInv, NEW t \in Thread, NEW from, NEW to \in PCs, Goto(t, from, to),
         \/ from = "pop" /\ to = "pop_lock"
         \/ from = "pop" /\ to = "pop_main" /\ ~infra_pending
         \/ from = "pop_main" /\ to = "none"
         \/ from = "empty_main" /\ to = "empty_flag" /\ main = {}
         \/ from = "empty_flag" /\ to = "empty" /\ ~infra_pending,
         UNCHANGED <<main, infra, infra_pending, lock, item, stay>>
  PROVE  SharedIInv' /\ Lane' = Lane
  <1>1. item[t] = NoTask /\ item' = [item EXCEPT ![t] = NoTask]
    BY DEF Goto, SharedIInv, TypeOK, Hands
  <1>2. stay[t] \in SUBSET Settled /\ stay' = [stay EXCEPT ![t] = stay[t]]
    BY DEF SharedIInv, TypeOK, Stays
  <1>3. to \in {"pop_main", "none"} => stay[t] \cap InfraTask = {}
    BY <1>2, FlagDown DEF SharedIInv, Looked, Goto
  <1>4. to = "empty_flag" => stay[t] \cap UserTask = {}
    BY <1>2, Halves, SharedAssumption DEF Queued
  <1>5. to = "empty" => stay[t] = {}
    <2>1. CASE from = "empty_flag" /\ to = "empty" /\ ~infra_pending
      <3>1. stay[t] \cap UserTask = {} /\ stay[t] \cap InfraTask = {}
        BY <2>1, <1>2, FlagDown DEF SharedIInv, Looked, Goto
      <3> QED BY <3>1, <1>2, Halves DEF Task
    <2> QED BY <2>1
  <1>6. to \in PCs \ {"got"} /\ {pc[t], to} \cap {"push_store", "pop_store"} = {} /\ to # "push"
    BY DEF Goto
  <1>7. pc' = [pc EXCEPT ![t] = to] /\ NoTask \in Task \cup {NoTask}
    BY DEF Goto
  <1> QED BY <1>1, <1>2, <1>3, <1>4, <1>5, <1>6, <1>7, QuietInv

\* A call returns, but not from inside the lock.
LEMMA ReturnInv ==
  ASSUME SharedIInv, NEW t \in Thread, NEW from, from \notin {"push_store", "pop_store"},
         Return(t, from), UNCHANGED <<main, infra, infra_pending, lock>>
  PROVE  SharedIInv' /\ Lane' = Lane
  <1>1. /\ "idle" \in PCs \ {"got"} /\ {pc[t], "idle"} \cap {"push_store", "pop_store"} = {}
        /\ pc' = [pc EXCEPT ![t] = "idle"] /\ {} \in SUBSET Settled
        /\ item' = [item EXCEPT ![t] = NoTask] /\ stay' = [stay EXCEPT ![t] = {}]
    BY DEF Return, Goto, PCs
  <1>2. NoTask \in Task \cup {NoTask}
    OBVIOUS
  <1> QED BY <1>1, <1>2, QuietInv

\* push of a user task.
LEMMA PushMainInv ==
  ASSUME SharedIInv, NEW t \in Thread, PushMain(t)
  PROVE  SharedIInv' /\ Lane' = Lane
  <1>1. /\ pc[t] = "push" /\ item[t] \in UserTask /\ main' = main \cup {item[t]}
        /\ pc' = [pc EXCEPT ![t] = "idle"] /\ item' = [item EXCEPT ![t] = NoTask]
        /\ UNCHANGED <<infra, infra_pending, lock>> /\ "idle" \in PCs
        /\ stay' = [stay EXCEPT ![t] = {}]
    BY DEF PushMain, Return, Goto, PCs
  <1>2. /\ Lane' = Lane /\ FlagExact' /\ LockHeld' /\ Back'
        /\ \A u \in Thread : u # t => pc'[u] = pc[u] /\ item'[u] = item[u]
        /\ pc'[t] = "idle" /\ item'[t] = NoTask
    <2>1. {pc[t], "idle"} \cap {"push_store", "pop_store"} = {} /\ NoTask \in Task \cup {NoTask}
      BY <1>1
    <2> QED BY <1>1, <2>1, Outside
  <1>3. /\ \A u \in Thread : u # t => stay'[u] = stay[u]
        /\ stay'[t] = {}
    BY <1>1 DEF SharedIInv, TypeOK
  <1>4. TypeOK'
    BY <1>1 DEF SharedIInv, TypeOK
  <1>5. Queued' = Queued \cup {item[t]} /\ item[t] # NoTask
    BY <1>1, SharedAssumption DEF Queued
  <1>6. OneOwner'
    <2>1. IsInjective(infra')
      BY <1>1 DEF SharedIInv, OneOwner
    <2>2. ASSUME NEW u \in Thread, NEW v \in Thread, u # v, item'[u] # NoTask
          PROVE  item'[u] # item'[v]
      BY <1>2, <2>2 DEF SharedIInv, OneOwner
    <2>3. ASSUME NEW u \in Thread, item'[u] \in Queued'
          PROVE  pc'[u] = "push_store"
      <3>1. u # t
        BY <1>2, <1>5, <2>3, Halves
      <3>2. item[u] # item[t]
        BY <3>1, <1>5 DEF SharedIInv, OneOwner
      <3> QED BY <3>1, <3>2, <1>2, <1>5, <2>3 DEF SharedIInv, OneOwner
    <2> QED BY <2>1, <2>2, <2>3 DEF OneOwner
  <1>7. Hands'
    BY <1>1, <1>2 DEF SharedIInv, Hands
  <1>8. Stays'
    <2>1. \A u \in Thread : pc'[u] = "push_store" => pc[u] = "push_store" /\ item'[u] = item[u]
      BY <1>2
    <2>2. Settled \subseteq Settled'
      BY <2>1, <1>5 DEF Settled
    <2> QED BY <2>2, <1>3 DEF SharedIInv, Stays
  <1>9. Looked'
    BY <1>2, <1>3 DEF SharedIInv, Looked
  <1> QED BY <1>2, <1>4, <1>6, <1>7, <1>8, <1>9 DEF SharedIInv

\* pop of a user task: nobody else has it, as only an infrastructure task can
\* be queued and in the hands of its pusher.
LEMMA PopMainInv ==
  ASSUME SharedIInv, NEW t \in Thread, NEW x \in main, Goto(t, "pop_main", "got"),
         Got(t, x), main' = main \ {x}, UNCHANGED <<infra, infra_pending, lock>>
  PROVE  SharedIInv' /\ Lane' = Lane
  <1>1. /\ pc[t] = "pop_main" /\ x \in UserTask /\ x \in Task
        /\ pc' = [pc EXCEPT ![t] = "got"] /\ item' = [item EXCEPT ![t] = x]
        /\ stay' = [u \in Thread |-> stay[u] \ {x}]
    BY Halves DEF Goto, Got, Task
  <1>2. /\ Lane' = Lane /\ FlagExact' /\ LockHeld' /\ Back'
        /\ \A u \in Thread : u # t => pc'[u] = pc[u] /\ item'[u] = item[u]
        /\ pc'[t] = "got" /\ item'[t] = x
    <2>1. {pc[t], "got"} \cap {"push_store", "pop_store"} = {} /\ "got" \in PCs
      BY <1>1 DEF PCs
    <2> QED BY <1>1, <2>1, Outside
  <1>3. \A u \in Thread : stay'[u] = stay[u] \ {x}
    BY <1>1
  <1>4. TypeOK'
    BY <1>1, <1>3 DEF SharedIInv, TypeOK, PCs
  <1>5. Queued' = Queued \ {x} /\ x # NoTask /\ x \in Queued
    BY <1>1, Halves, SharedAssumption DEF Queued
  <1>6. \A u \in Thread : item[u] # x
    BY <1>1, <1>5, SharedAssumption DEF SharedIInv, OneOwner, Hands
  <1>7. OneOwner'
    <2>1. IsInjective(infra')
      BY DEF SharedIInv, OneOwner
    <2>2. ASSUME NEW u \in Thread, NEW v \in Thread, u # v, item'[u] # NoTask
          PROVE  item'[u] # item'[v]
      BY <1>2, <1>6, <2>2 DEF SharedIInv, OneOwner
    <2>3. ASSUME NEW u \in Thread, item'[u] \in Queued'
          PROVE  pc'[u] = "push_store"
      BY <1>2, <1>5, <2>3 DEF SharedIInv, OneOwner
    <2> QED BY <2>1, <2>2, <2>3 DEF OneOwner
  <1>8. Hands'
    BY <1>1, <1>2 DEF SharedIInv, Hands
  <1>9. Stays'
    <2>1. \A u \in Thread : pc'[u] = "push_store" => pc[u] = "push_store" /\ item'[u] = item[u]
      BY <1>2
    <2>2. Settled \ {x} \subseteq Settled'
      BY <2>1, <1>5 DEF Settled
    <2> QED BY <2>2, <1>3 DEF SharedIInv, Stays
  <1>10. Looked'
    <2>1. stay[t] \cap InfraTask = {}
      BY <1>1 DEF SharedIInv, Looked
    <2> QED BY <1>2, <1>3, <2>1 DEF SharedIInv, Looked
  <1> QED BY <1>2, <1>4, <1>7, <1>8, <1>9, <1>10 DEF SharedIInv

\* A thread takes the lock and appends its task: others see the lane of before.
LEMMA PushInfraInv ==
  ASSUME SharedIInv, NEW t \in Thread, PushInfra(t)
  PROVE  SharedIInv' /\ Lane' = Lane
  <1> DEFINE x == item[t]
  <1>1. /\ pc[t] = "push" /\ x \in InfraTask /\ x # NoTask /\ x \notin Queued /\ lock = Free
        /\ infra' = Append(infra, x) /\ infra \in Seq(InfraTask) /\ lock' = t
        /\ UNCHANGED <<main, infra_pending, item, stay>> /\ IsInjective(infra)
    BY SharedAssumption DEF PushInfra, Goto, SharedIInv, OneOwner, TypeOK
  <1>2. /\ \A u \in Thread : u # t => pc'[u] = pc[u]
        /\ pc'[t] = "push_store" /\ pc' \in [Thread -> PCs]
    BY DEF PushInfra, Goto, SharedIInv, TypeOK, PCs
  <1>3. /\ infra' \in Seq(InfraTask) /\ Range(infra') = Range(infra) \cup {x}
        /\ Front(infra') = infra /\ IsInjective(infra')
    <2>1. x \notin Range(infra)
      BY <1>1 DEF Queued
    <2> HIDE DEF x
    <2> QED BY <1>1, <2>1, AppendFacts, FrontOfAppend
  <1>4. TypeOK'
    BY <1>1, <1>2, <1>3 DEF SharedIInv, TypeOK
  <1>5. \A u \in Thread : pc[u] \notin {"push_store", "pop_store"}
    BY <1>1, SharedAssumption DEF SharedIInv, LockHeld
  <1>6. Lane' = Lane
    BY <1>1, <1>2, <1>3, SharedAssumption DEF Lane
  <1>7. FlagExact'
    BY <1>1, <1>6 DEF SharedIInv, FlagExact
  <1>8. OneOwner'
    <2>1. ASSUME NEW u \in Thread, item'[u] \in Queued'
          PROVE  pc'[u] = "push_store"
      <3>1. CASE u = t
        BY <3>1, <1>2
      <3>2. CASE u # t
        <4>1. item[u] # x
          BY <3>2, <1>1 DEF SharedIInv, OneOwner
        <4>2. item[u] \in Queued
          BY <4>1, <2>1, <1>1, <1>3 DEF Queued
        <4> QED BY <4>2, <1>5 DEF SharedIInv, OneOwner
      <3> QED BY <3>1, <3>2
    <2> QED BY <2>1, <1>1, <1>3 DEF SharedIInv, OneOwner
  <1>9. LockHeld'
    BY <1>1, <1>2, <1>5 DEF LockHeld
  <1>10. Hands'
    BY <1>1, <1>2, <1>5 DEF SharedIInv, Hands
  <1>11. Back'
    BY <1>1, <1>2, <1>3, <1>5 DEF Back
  <1>12. Stays'
    <2>1. \A y \in Settled : y \in Queued' /\ y # x
      BY <1>1, <1>3 DEF Settled, Queued
    <2>2. Settled \subseteq Settled'
      BY <2>1, <1>1, <1>2, <1>5 DEF Settled
    <2> QED BY <2>2, <1>1 DEF SharedIInv, Stays
  <1>13. Looked'
    BY <1>1, <1>2 DEF SharedIInv, Looked
  <1> QED BY <1>4, <1>6, <1>7, <1>8, <1>9, <1>10, <1>11, <1>12, <1>13 DEF SharedIInv

\* The store that sets the flag: the task joins the lane that others see.
LEMMA PushStoreInv ==
  ASSUME SharedIInv, NEW t \in Thread, PushStore(t)
  PROVE  SharedIInv' /\ \E x \in InfraTask : Lane' = Append(Lane, x)
  <1>1. /\ pc[t] = "push_store" /\ lock = t /\ t # Free /\ lock' = Free /\ infra_pending' = TRUE
        /\ UNCHANGED <<main, infra>> /\ item[t] \in InfraTask
        /\ Front(infra) \in Seq(InfraTask) /\ infra = Append(Front(infra), item[t])
    BY SharedAssumption DEF PushStore, Return, Goto, SharedIInv, LockHeld, Hands, Back
  <1>2. /\ \A u \in Thread : u # t => /\ pc'[u] = pc[u] /\ item'[u] = item[u]
                                      /\ stay'[u] = stay[u]
        /\ pc'[t] = "idle" /\ item'[t] = NoTask /\ stay'[t] = {}
    BY DEF PushStore, Return, Goto, SharedIInv, TypeOK
  <1>3. TypeOK'
    BY <1>1 DEF PushStore, Return, Goto, SharedIInv, TypeOK, PCs
  <1>4. \A u \in Thread : u # t => pc[u] \notin {"push_store", "pop_store"}
    BY <1>1 DEF SharedIInv, LockHeld
  <1>5. Lane = Front(infra) /\ Lane' = infra
    BY <1>1 DEF Lane
  <1>6. Lane' # <<>>
    <2>1. \A f \in Seq(InfraTask), e \in InfraTask : Append(f, e) # <<>>
      BY AppendProperties
    <2> QED BY <2>1, <1>1, <1>5, Zenon
  <1>7. FlagExact'
    BY <1>1, <1>6 DEF FlagExact
  <1>8. Queued' = Queued
    BY <1>1 DEF Queued
  <1>9. OneOwner'
    <2>1. ASSUME NEW u \in Thread, item'[u] \in Queued'
          PROVE  pc'[u] = "push_store"
      BY <2>1, <1>2, <1>8, Halves DEF SharedIInv, OneOwner
    <2>2. ASSUME NEW u \in Thread, NEW v \in Thread, u # v, item'[u] # NoTask
          PROVE  item'[u] # item'[v]
      BY <1>2, <2>2 DEF SharedIInv, OneOwner
    <2> QED BY <2>1, <2>2, <1>1 DEF SharedIInv, OneOwner
  <1>10. LockHeld'
    BY <1>1, <1>2, <1>4, SharedAssumption DEF LockHeld
  <1>11. Hands'
    BY <1>1, <1>2, <1>4 DEF SharedIInv, Hands
  <1>12. Back'
    BY <1>1, <1>2, <1>4 DEF Back
  <1>13. Stays'
    <2>1. Settled \subseteq Settled'
      BY <1>2, <1>4, <1>8 DEF Settled
    <2> QED BY <2>1, <1>2 DEF SharedIInv, Stays
  <1>14. Looked'
    BY <1>2 DEF SharedIInv, Looked
  <1>15. \E x \in InfraTask : Lane' = Append(Lane, x)
    BY <1>1, <1>5, Zenon
  <1> QED BY <1>3, <1>7, <1>9, <1>10, <1>11, <1>12, <1>13, <1>14, <1>15 DEF SharedIInv

\* A thread takes the lock and the front of the lane: others still see it.
LEMMA PopInfraInv ==
  ASSUME SharedIInv, NEW t \in Thread, PopInfra(t)
  PROVE  SharedIInv' /\ Lane' = Lane
  <1>1. /\ pc[t] = "pop_lock" /\ item[t] = NoTask /\ lock = Free /\ lock' = t /\ t # Free
        /\ infra \in Seq(InfraTask) /\ IsInjective(infra) /\ UNCHANGED <<main, infra_pending>>
    BY SharedAssumption DEF PopInfra, Goto, SharedIInv, TypeOK, OneOwner, Hands
  <1>2. /\ \A u \in Thread : u # t => pc'[u] = pc[u]
        /\ pc'[t] = "pop_store" /\ pc' \in [Thread -> PCs]
    BY DEF PopInfra, Goto, SharedIInv, TypeOK, PCs
  <1>3. \A u \in Thread : pc[u] \notin {"push_store", "pop_store"}
    BY <1>1, SharedAssumption DEF SharedIInv, LockHeld
  <1>4. LockHeld'
    BY <1>1, <1>2, <1>3 DEF LockHeld
  <1>5. Back'
    BY <1>2, <1>3 DEF Back
  <1>6. Lane = infra
    BY <1>1 DEF Lane
  <1>7. CASE infra = <<>>
    <2>1. UNCHANGED <<infra, item, stay>>
      BY <1>7 DEF PopInfra
    <2>2. TypeOK'
      BY <1>1, <1>2, <2>1 DEF SharedIInv, TypeOK
    <2>3. Lane' = Lane
      BY <1>1, <1>2, <1>6, <2>1 DEF Lane
    <2>4. FlagExact'
      BY <1>1, <2>3 DEF SharedIInv, FlagExact
    <2>5. OneOwner'
      <3>1. Queued' = Queued
        BY <1>1, <2>1 DEF Queued
      <3> QED BY <3>1, <2>1, <1>2, <1>3 DEF SharedIInv, OneOwner
    <2>6. Hands'
      BY <1>1, <1>2, <1>3, <1>7, <2>1 DEF SharedIInv, Hands
    <2>7. Stays'
      <3>1. Queued' = Queued
        BY <1>1, <2>1 DEF Queued
      <3>2. Settled \subseteq Settled'
        BY <3>1, <1>2, <1>3 DEF Settled
      <3> QED BY <3>2, <2>1 DEF SharedIInv, Stays
    <2>8. Looked'
      BY <1>2, <2>1 DEF SharedIInv, Looked
    <2> QED BY <1>4, <1>5, <2>2, <2>3, <2>4, <2>5, <2>6, <2>7, <2>8 DEF SharedIInv
  <1>8. CASE infra # <<>>
    <2> DEFINE x == Head(infra)
    <2>1. /\ infra' = Tail(infra) /\ infra' \in Seq(InfraTask) /\ IsInjective(infra')
          /\ x \in Range(infra) /\ x \in InfraTask /\ x # NoTask
          /\ Range(infra') = Range(infra) \ {x} /\ <<x>> \o infra' = infra
      <3>1. infra' = Tail(infra)
        BY <1>8 DEF PopInfra
      <3>2. /\ Tail(infra) \in Seq(InfraTask) /\ x \in Range(infra) /\ IsInjective(Tail(infra))
            /\ Range(Tail(infra)) = Range(infra) \ {x}
        BY <1>1, <1>8, TailFacts
      <3>3. x \in InfraTask /\ x # NoTask
        BY <3>2, Halves, SharedAssumption
      <3>4. <<x>> \o Tail(infra) = infra
        BY <1>1, <1>8, <3>3, ConsFacts
      <3> QED BY <3>1, <3>2, <3>3, <3>4
    <2>2. /\ item' = [item EXCEPT ![t] = x] /\ stay' = [u \in Thread |-> stay[u] \ {x}]
      BY <1>8 DEF PopInfra, Got
    <2> HIDE DEF x
    <2>3. /\ \A u \in Thread : u # t => item'[u] = item[u]
          /\ item'[t] = x /\ \A u \in Thread : stay'[u] = stay[u] \ {x}
      BY <2>2 DEF SharedIInv, TypeOK
    <2>4. TypeOK'
      BY <1>1, <1>2, <2>1, <2>2 DEF SharedIInv, TypeOK, Task
    <2>5. Lane' = Lane
      BY <1>1, <1>2, <1>6, <2>1, <2>3 DEF Lane
    <2>6. FlagExact'
      BY <1>1, <2>5 DEF SharedIInv, FlagExact
    <2>7. Queued' = Queued \ {x} /\ x \in Queued
      BY <1>1, <2>1, Halves DEF Queued
    <2>8. \A u \in Thread : item[u] # x
      BY <1>3, <2>7 DEF SharedIInv, OneOwner
    <2>9. OneOwner'
      <3>1. ASSUME NEW u \in Thread, item'[u] \in Queued'
            PROVE  pc'[u] = "push_store"
        BY <3>1, <1>2, <1>3, <2>3, <2>7 DEF SharedIInv, OneOwner
      <3>2. ASSUME NEW u \in Thread, NEW v \in Thread, u # v, item'[u] # NoTask
            PROVE  item'[u] # item'[v]
        BY <3>2, <2>3, <2>8 DEF SharedIInv, OneOwner
      <3> QED BY <3>1, <3>2, <2>1 DEF OneOwner
    <2>10. Hands'
      BY <1>2, <1>3, <2>1, <2>3 DEF SharedIInv, Hands
    <2>11. Stays'
      <3>1. Settled \ {x} \subseteq Settled'
        BY <2>7, <1>2, <1>3 DEF Settled
      <3> QED BY <3>1, <2>3 DEF SharedIInv, Stays
    <2>12. Looked'
      BY <1>2, <1>3, <2>3 DEF SharedIInv, Looked
    <2> QED BY <1>4, <1>5, <2>4, <2>5, <2>6, <2>9, <2>10, <2>11, <2>12 DEF SharedIInv
  <1> QED BY <1>7, <1>8

\* The store that clears the flag with the last task: the task popped leaves
\* the lane that others see.  A thread that found the lane empty goes on to
\* the heap, and no infrastructure task stayed for it.
LEMMA PopStoreInv ==
  ASSUME SharedIInv, NEW t \in Thread, PopStore(t)
  PROVE  SharedIInv' /\ (Lane' = Lane \/ (Lane # <<>> /\ Lane' = Tail(Lane)))
  <1> DEFINE n == IF item[t] # NoTask THEN "got" ELSE "pop_main"
  <1>1. /\ pc[t] = "pop_store" /\ lock = t /\ t # Free /\ lock' = Free
        /\ UNCHANGED <<main, infra, item, stay>> /\ infra \in Seq(InfraTask)
        /\ infra_pending' = (infra_pending /\ infra # <<>>)
    BY SharedAssumption DEF PopStore, Goto, SharedIInv, LockHeld, TypeOK
  <1>2. /\ \A u \in Thread : u # t => pc'[u] = pc[u]
        /\ pc'[t] = n /\ pc' \in [Thread -> PCs]
    BY DEF PopStore, Goto, SharedIInv, TypeOK, PCs
  <1>3. TypeOK'
    BY <1>1, <1>2 DEF SharedIInv, TypeOK
  <1>4. \A u \in Thread : u # t => pc[u] \notin {"push_store", "pop_store"}
    BY <1>1 DEF SharedIInv, LockHeld
  <1>5. Lane' = infra
    BY <1>1 DEF Lane
  <1>6. Lane = IF item[t] # NoTask THEN <<item[t]>> \o infra ELSE infra
    BY <1>1 DEF Lane
  <1>7. item[t] # NoTask => item[t] \in InfraTask
    BY <1>1 DEF SharedIInv, Hands
  <1>8. item[t] = NoTask => infra = <<>>
    BY <1>1, SharedAssumption DEF SharedIInv, Hands
  <1>9. item[t] # NoTask => Lane # <<>> /\ Lane' = Tail(Lane)
    BY <1>1, <1>5, <1>6, <1>7, ConsFacts
  <1>10. FlagExact'
    <2>1. infra_pending = (Lane # <<>>)
      BY DEF SharedIInv, FlagExact
    <2>2. infra_pending' = (infra # <<>>)
      BY <2>1, <1>1, <1>8, <1>9
    <2> QED BY <2>2, <1>5 DEF FlagExact
  <1>11. Queued' = Queued
    BY <1>1 DEF Queued
  <1>12. OneOwner'
    BY <1>1, <1>2, <1>11 DEF SharedIInv, OneOwner
  <1>13. LockHeld'
    BY <1>1, <1>2, <1>4, SharedAssumption DEF LockHeld
  <1>14. Hands'
    BY <1>1, <1>2, <1>4, <1>7 DEF SharedIInv, Hands, Task
  <1>15. Back'
    BY <1>2, <1>4 DEF Back
  <1>16. Stays'
    <2>1. Settled \subseteq Settled'
      BY <1>1, <1>2, <1>4, <1>11 DEF Settled
    <2> QED BY <2>1, <1>1 DEF SharedIInv, Stays
  <1>17. Looked'
    <2>1. CASE item[t] # NoTask
      BY <2>1, <1>1, <1>2, <1>7, SharedAssumption DEF SharedIInv, Looked
    <2>2. CASE item[t] = NoTask
      <3>1. Range(infra) = {}
        BY <2>2, <1>8 DEF Range
      <3>2. stay[t] \cap InfraTask = {}
        BY <3>1, Halves, SharedAssumption DEF SharedIInv, Stays, Queued
      <3> QED BY <2>2, <3>2, <1>1, <1>2 DEF SharedIInv, Looked
    <2> QED BY <2>1, <2>2
  <1> QED BY <1>3, <1>5, <1>6, <1>9, <1>10, <1>12, <1>13, <1>14, <1>15, <1>16, <1>17 DEF SharedIInv

\* One step of the specification: the invariant, and what becomes of the lane.
LEMMA StepInv ==
  ASSUME SharedIInv, [Next]_vars
  PROVE  /\ SharedIInv'
         /\ \/ Lane' = Lane
            \/ \E x \in InfraTask : Lane' = Append(Lane, x)
            \/ Lane # <<>> /\ Lane' = Tail(Lane)
  <1>1. CASE UNCHANGED vars
    <2>1. Lane' = Lane /\ Queued' = Queued
      BY <1>1 DEF vars, Lane, Queued
    <2>2. Settled' = Settled
      BY <1>1, <2>1 DEF vars, Settled
    <2>3. TypeOK' /\ OneOwner' /\ FlagExact'
      BY <1>1, <2>1 DEF vars, SharedIInv, TypeOK, OneOwner, FlagExact
    <2>4. LockHeld' /\ Hands' /\ Back'
      BY <1>1 DEF vars, SharedIInv, LockHeld, Hands, Back
    <2>5. Stays' /\ Looked'
      BY <1>1, <2>2 DEF vars, SharedIInv, Stays, Looked
    <2> QED BY <2>1, <2>3, <2>4, <2>5 DEF SharedIInv
  <1>2. ASSUME NEW t \in Thread,
               (\E x \in Task : Push(t, x)) \/ Pop(t) \/ IsEmpty(t)
        PROVE  SharedIInv' /\ Lane' = Lane
    BY <1>2, CallInv
  <1>3. ASSUME NEW t \in Thread, PopFlag(t) PROVE SharedIInv' /\ Lane' = Lane
    <2>1. CASE infra_pending
      <3>1. Goto(t, "pop", "pop_lock") /\ "pop_lock" \in PCs
        BY <1>3, <2>1 DEF PopFlag, PCs
      <3> QED BY <1>3, <3>1, LookInv DEF PopFlag
    <2>2. CASE ~infra_pending
      <3>1. Goto(t, "pop", "pop_main") /\ "pop_main" \in PCs
        BY <1>3, <2>2 DEF PopFlag, PCs
      <3> QED BY <1>3, <2>2, <3>1, LookInv DEF PopFlag
    <2> QED BY <2>1, <2>2
  <1>4. ASSUME NEW t \in Thread, PopMain(t) PROVE SharedIInv' /\ Lane' = Lane
    <2>1. CASE Goto(t, "pop_main", "none") /\ UNCHANGED <<main, item, stay>>
      <3>1. "none" \in PCs
        BY DEF PCs
      <3> QED BY <1>4, <2>1, <3>1, LookInv DEF PopMain
    <2>2. CASE \E x \in main : Goto(t, "pop_main", "got") /\ Got(t, x) /\ main' = main \ {x}
      BY <1>4, <2>2, PopMainInv DEF PopMain
    <2> QED BY <1>4, <2>1, <2>2 DEF PopMain
  <1>5. ASSUME NEW t \in Thread, PopReturn(t) \/ EmptyTrue(t)
        PROVE  SharedIInv' /\ Lane' = Lane
    BY <1>5, ReturnInv DEF PopReturn, EmptyTrue
  <1>6. ASSUME NEW t \in Thread, EmptyMain(t) PROVE SharedIInv' /\ Lane' = Lane
    <2>1. CASE Return(t, "empty_main")
      BY <1>6, <2>1, ReturnInv DEF EmptyMain
    <2>2. CASE main = {} /\ Goto(t, "empty_main", "empty_flag") /\ UNCHANGED <<item, stay>>
      <3>1. "empty_flag" \in PCs
        BY DEF PCs
      <3> QED BY <1>6, <2>2, <3>1, LookInv DEF EmptyMain
    <2> QED BY <1>6, <2>1, <2>2 DEF EmptyMain
  <1>7. ASSUME NEW t \in Thread, EmptyFlag(t) PROVE SharedIInv' /\ Lane' = Lane
    <2>1. CASE Return(t, "empty_flag")
      BY <1>7, <2>1, ReturnInv DEF EmptyFlag
    <2>2. CASE ~infra_pending /\ Goto(t, "empty_flag", "empty") /\ UNCHANGED <<item, stay>>
      <3>1. "empty" \in PCs
        BY DEF PCs
      <3> QED BY <1>7, <2>2, <3>1, LookInv DEF EmptyFlag
    <2> QED BY <1>7, <2>1, <2>2 DEF EmptyFlag
  <1>8. ASSUME Next
        PROVE  /\ SharedIInv'
               /\ \/ Lane' = Lane
                  \/ \E x \in InfraTask : Lane' = Append(Lane, x)
                  \/ Lane # <<>> /\ Lane' = Tail(Lane)
    <2>1. PICK t \in Thread : \/ Step(t)
                              \/ (\E x \in Task : Push(t, x)) \/ Pop(t) \/ IsEmpty(t)
      BY <1>8 DEF Next
    <2>2. CASE (\E x \in Task : Push(t, x)) \/ Pop(t) \/ IsEmpty(t)
      BY <2>2, <1>2
    <2>3. CASE Step(t)
      BY <2>3, PushMainInv, PushInfraInv, PushStoreInv, PopInfraInv, PopStoreInv,
         <1>3, <1>4, <1>5, <1>6, <1>7 DEF Step
    <2> QED BY <2>1, <2>2, <2>3
  <1> QED BY <1>1, <1>8

LEMMA InitInv == Init => SharedIInv
  <1> SUFFICES ASSUME Init PROVE SharedIInv
    OBVIOUS
  <1>1. Range(infra) = {} /\ IsInjective(infra)
    BY DEF Init, Range, IsInjective
  <1>2. TypeOK
    <2>1. infra_pending \in BOOLEAN
      BY Zenon DEF Init
    <2>2. main \subseteq UserTask /\ infra \in Seq(InfraTask) /\ lock \in Thread \cup {Free}
      BY DEF Init
    <2>3. pc \in [Thread -> PCs] /\ item \in [Thread -> Task \cup {NoTask}]
      BY DEF Init, PCs
    <2>4. stay \in [Thread -> SUBSET Task]
      <3>1. {} \in SUBSET Task
        OBVIOUS
      <3> QED BY <3>1 DEF Init
    <2> QED BY <2>1, <2>2, <2>3, <2>4 DEF TypeOK
  <1>3. Lane = <<>> /\ FlagExact
    BY DEF Init, Lane, FlagExact
  <1>4. OneOwner
    BY <1>1, SharedAssumption DEF Init, OneOwner, Queued
  <1>5. LockHeld /\ Hands /\ Back
    BY SharedAssumption DEF Init, LockHeld, Hands, Back
  <1>6. Stays /\ Looked
    BY DEF Init, Stays, Looked
  <1> QED BY <1>2, <1>3, <1>4, <1>5, <1>6 DEF SharedIInv

-----------------------------------------------------------------------------
(***************************************************************************)
(* The theorems                                                            *)
(***************************************************************************)

\* What every thread holds, sees and has seen, at every point of its call.
THEOREM SharedInvariant == Spec => []SharedIInv
  BY InitInv, StepInv, PTL DEF Spec

\* The queue is well formed between and inside the calls of any number of
\* threads: no task is queued twice or in two hands, and the flag of the lane
\* is exact (push and pop of SharedPrioQueue).
THEOREM FlagIsExact == Spec => []QueueInv
  <1>1. SharedIInv => QueueInv
    BY DEF SharedIInv, QueueInv
  <1> QED BY <1>1, SharedInvariant, PTL

\* No pop gives None or a user task while an infrastructure task that was
\* there when it began still waits, though the lane's lock is taken only when
\* the flag says so.
THEOREM PopsInfraFirst == Spec => []InfraFirst
  <1>1. SharedIInv => InfraFirst
    BY DEF SharedIInv, Looked, InfraFirst
  <1> QED BY <1>1, SharedInvariant, PTL

\* is_empty, which reads the heap and then the flag, is never true while a
\* task whose push had returned before stays queued.
THEOREM IsEmptyComplete == Spec => []EmptyComplete
  <1>1. SharedIInv => EmptyComplete
    BY DEF SharedIInv, Looked, EmptyComplete
  <1> QED BY <1>1, SharedInvariant, PTL

\* The lane with its two stores under the lock changes, for everyone else, in
\* one step: this is the lane SchedMt is written with.
THEOREM LaneIsAtomic == Spec => LaneAtomic
  <1>1. SharedIInv /\ [Next]_vars
        => [\/ Lane' = Lane
            \/ \E x \in InfraTask : Lane' = Append(Lane, x)
            \/ Lane # <<>> /\ Lane' = Tail(Lane)]_vars
    BY StepInv
  <1> QED BY <1>1, SharedInvariant, PTL DEF Spec, LaneAtomic
=============================================================================
