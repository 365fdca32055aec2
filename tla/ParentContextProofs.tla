------------------------- MODULE ParentContextProofs -------------------------
(***************************************************************************)
(* For every number of threads, requests and spawned tasks: the context a  *)
(* thread shows is that of the handler or hooked task it polls, and the    *)
(* hand-made reference count of a context is the number of its holders.    *)
(*                                                                         *)
(* The state splits in two.  Which context is shown where depends on the   *)
(* hooks and phases only (Struct, preserved by every action on its own);   *)
(* the counts then follow the hooks, one Cardinality step per action.      *)
(***************************************************************************)
EXTENDS ParentContext, FiniteSetTheorems, TLAPS

\* Everything of ContextInv but the reference counts.
Struct ==
  /\ tls \in [Thread -> Req \cup {NoReq}]
  /\ run \in [Thread -> Task \cup {NoTask}]
  /\ phase \in [Task -> Phases]
  /\ header \in [Task -> Req \cup {NoReq}]
  /\ wrap \in [Job -> Req \cup {NoReq}]
  /\ origin \in [Job -> Req \cup {NoReq}]
  /\ leaked \subseteq Thread
  /\ PolledOnce /\ HooksOwn /\ ShownRight

\* Every step keeps hooks, phases and thread-locals consistent.
LEMMA StructStep ==
  ASSUME Struct, [Next]_vars
  PROVE  Struct'
  <1> USE ContextAssumption DEF Struct, Task, Phases, PolledOnce, HooksOwn, ShownRight, Shows, At, Polled
  <1>1. CASE \E h \in Thread, r \in Req : Begin(h, r)
    BY <1>1 DEF Begin
  <1>2. CASE \E h \in Thread, r \in Req : PollRequest(h, r)
    BY <1>2 DEF PollRequest
  <1>3. CASE \E h \in Thread : DecodePending(h)
    BY <1>3 DEF DecodePending
  <1>4. CASE \E h \in Thread : DecodeOk(h)
    BY <1>4 DEF DecodeOk
  <1>5. CASE \E h \in Thread : DecodeFails(h)
    BY <1>5 DEF DecodeFails, PollReturns
  <1>6. CASE \E h \in Thread, accept \in BOOLEAN : BeforePoll(h, accept)
    BY <1>6 DEF BeforePoll, SetParent
  <1>7. CASE \E h \in Thread : HandlerPending(h)
    BY <1>7 DEF HandlerPending, PollReturns, SetParent
  <1>8. CASE \E h \in Thread : HandlerEnds(h)
    BY <1>8 DEF HandlerEnds, SetParent
  <1>9. CASE \E h \in Thread : Finalize(h)
    BY <1>9 DEF Finalize, PollReturns
  <1>10. CASE \E h \in Thread : HandlerPanic(h)
    BY <1>10 DEF HandlerPanic, PollReturns
  <1>11. CASE \E h \in Thread : JobPending(h)
    BY <1>11 DEF JobPending, AfterHook, PollReturns, SetParent
  <1>12. CASE \E h \in Thread : JobReady(h)
    BY <1>12 DEF JobReady, AfterHook, PollReturns, SetParent
  <1>13. CASE \E h \in Thread : JobPanic(h)
    BY <1>13 DEF JobPanic, PollReturns
  <1>14. CASE \E h \in Thread, j \in Job : Spawn(h, j)
    BY <1>14 DEF Spawn, Of
  <1>15. CASE \E h \in Thread, j \in Job : PollJob(h, j)
    BY <1>15 DEF PollJob, SetParent
  <1>16. CASE \E j \in Job : SpawnOutside(j)
    BY <1>16 DEF SpawnOutside
  <1>17. CASE \E j \in Job : JobDropped(j)
    BY <1>17 DEF JobDropped
  <1>18. CASE \E r \in Req : RequestDropped(r)
    BY <1>18 DEF RequestDropped
  <1>19. CASE \E t \in Task : Dealloc(t)
    BY <1>19 DEF Dealloc
  <1>20. CASE UNCHANGED vars
    BY <1>20 DEF vars
  <1> HIDE ContextAssumption DEF Struct, Task, Phases, PolledOnce, HooksOwn, ShownRight, Shows, At, Polled
  <1> QED BY <1>1, <1>2, <1>3, <1>4, <1>5, <1>6, <1>7, <1>8, <1>9, <1>10, <1>11, <1>12,
             <1>13, <1>14, <1>15, <1>16, <1>17, <1>18, <1>19, <1>20 DEF Next

-----------------------------------------------------------------------------
(* The reference counts.                                                   *)

Alive == {"decode", "handler", "body", "finalize"}

WrapCount(r) == Cardinality({j \in Job : wrap[j] = r})

\* One holder, or none.
Live(r) == IF phase[r] \in Alive THEN 1 ELSE 0
Is(q, r) == IF q = r THEN 1 ELSE 0

\* Changing one value of a function on jobs changes the number of jobs with
\* a given value by the old and by the new value.
LEMMA CountUpdate ==
  ASSUME NEW w \in [Job -> Req \cup {NoReq}], NEW i \in Job,
         NEW v \in Req \cup {NoReq}, NEW r \in Req
  PROVE  LET old == Cardinality({j \in Job : w[j] = r})
             new == Cardinality({j \in Job : [w EXCEPT ![i] = v][j] = r})
         IN  /\ old \in Nat /\ new \in Nat
             /\ new + Is(w[i], r) = old + Is(v, r)
  <1> DEFINE rest == {j \in Job \ {i} : w[j] = r}
             S == {j \in Job : w[j] = r}
             T == {j \in Job : [w EXCEPT ![i] = v][j] = r}
  <1>1. IsFiniteSet(rest) /\ i \notin rest
    <2>1. rest \subseteq Job
      OBVIOUS
    <2> QED BY <2>1, ContextAssumption, FS_Subset
  <1>2. S = (IF w[i] = r THEN rest \cup {i} ELSE rest)
    OBVIOUS
  <1>3. T = (IF v = r THEN rest \cup {i} ELSE rest)
    OBVIOUS
  <1>4. /\ Cardinality(rest) \in Nat
        /\ Cardinality(rest \cup {i}) = Cardinality(rest) + 1
    BY <1>1, FS_AddElement, FS_CardinalityType
  <1>5. /\ Cardinality(S) = Cardinality(rest) + Is(w[i], r)
        /\ Cardinality(T) = Cardinality(rest) + Is(v, r)
    <2> HIDE DEF rest, S, T
    <2> QED BY <1>2, <1>3, <1>4 DEF Is
  <1> HIDE DEF rest, S, T
  <1>6. /\ Cardinality(S) \in Nat /\ Cardinality(T) \in Nat
        /\ Cardinality(T) + Is(w[i], r) = Cardinality(S) + Is(v, r)
    BY <1>4, <1>5 DEF Is
  <1> QED BY <1>6 DEF S, T

\* What a step does to the hooks around futures, counted per request.
LEMMA WrapUpdate ==
  ASSUME wrap \in [Job -> Req \cup {NoReq}]
  PROVE  \A i \in Job, v \in Req \cup {NoReq} :
           wrap' = [wrap EXCEPT ![i] = v] =>
             \A r \in Req :
               /\ WrapCount(r) \in Nat /\ WrapCount(r)' \in Nat
               /\ WrapCount(r)' + Is(wrap[i], r) = WrapCount(r) + Is(v, r)
  <1> SUFFICES ASSUME NEW i \in Job, NEW v \in Req \cup {NoReq},
                      wrap' = [wrap EXCEPT ![i] = v], NEW r \in Req
               PROVE  /\ WrapCount(r) \in Nat /\ WrapCount(r)' \in Nat
                      /\ WrapCount(r)' + Is(wrap[i], r) = WrapCount(r) + Is(v, r)
    OBVIOUS
  <1> DEFINE new == Cardinality({j \in Job : [wrap EXCEPT ![i] = v][j] = r})
  <1>1. /\ WrapCount(r) \in Nat /\ new \in Nat
        /\ new + Is(wrap[i], r) = WrapCount(r) + Is(v, r)
    BY CountUpdate DEF WrapCount
  <1>2. WrapCount(r)' = new
    BY DEF WrapCount
  <1> QED BY <1>1, <1>2

LEMMA WrapSame ==
  ASSUME wrap' = wrap
  PROVE  \A r \in Req : WrapCount(r) \in Nat /\ WrapCount(r)' = WrapCount(r)
  <1> SUFFICES ASSUME NEW r \in Req
               PROVE  WrapCount(r) \in Nat /\ WrapCount(r)' = WrapCount(r)
    OBVIOUS
  <1>1. {j \in Job : wrap[j] = r} \subseteq Job
    OBVIOUS
  <1>2. WrapCount(r) \in Nat
    BY <1>1, ContextAssumption, FS_Subset, FS_CardinalityType DEF WrapCount
  <1> QED BY <1>2 DEF WrapCount

\* A hook sits in no header but that of its own request's task.
LEMMA HoldersSplit ==
  ASSUME Struct
  PROVE  \A r \in Req :
           Holders(r) = Live(r) + Is(header[r], r) + WrapCount(r)
  <1> SUFFICES ASSUME NEW r \in Req
               PROVE  Holders(r) = Live(r) + Is(header[r], r)
                                     + WrapCount(r)
    OBVIOUS
  <1>1. {t \in Task : header[t] = r} = IF header[r] = r THEN {r} ELSE {}
    BY ContextAssumption DEF Struct, HooksOwn, Task
  <1>2. Cardinality({t \in Task : header[t] = r}) = Is(header[r], r)
    BY <1>1, FS_EmptySet, FS_Singleton DEF Is
  <1> QED BY <1>2 DEF Holders, WrapCount, Alive, Live, Is

\* The references to the context of every request, by kind of holder.
Counted ==
  /\ refs \in [Req -> Nat]
  /\ \A r \in Req :
       refs[r] = Live(r) + Is(header[r], r) + WrapCount(r)

\* Every step changes the count by what it does to the holders.
LEMMA CountedStep ==
  ASSUME Struct, Counted, [Next]_vars
  PROVE  Counted'
  <1> USE ContextAssumption DEF Struct, Task, Phases, PolledOnce, HooksOwn, At, Polled, Live, Is, Alive, Unref
  <1>1. CASE \E h \in Thread, r \in Req : Begin(h, r)
    <2>1. PICK h \in Thread, r \in Req : Begin(h, r)
      BY <1>1
    <2>2. \A q \in Req : WrapCount(q) \in Nat /\ WrapCount(q)' = WrapCount(q)
      BY <2>1, WrapSame DEF Begin
    <2>3. {j \in Job : wrap[j] = r} = {}
      BY <2>1 DEF Begin
    <2>4. WrapCount(r) = 0
      BY <2>3, FS_EmptySet DEF WrapCount
    <2> QED BY <2>1, <2>2, <2>4 DEF Counted, Begin
  <1>2. CASE \E h \in Thread, r \in Req : PollRequest(h, r)
    <2>1. wrap' = wrap
      BY <1>2 DEF PollRequest
    <2>2. \A r \in Req : WrapCount(r) \in Nat /\ WrapCount(r)' = WrapCount(r)
      BY <2>1, WrapSame
    <2> QED BY <1>2, <2>2 DEF Counted, PollRequest
  <1>3. CASE \E h \in Thread : DecodePending(h)
    <2>1. wrap' = wrap
      BY <1>3 DEF DecodePending
    <2>2. \A r \in Req : WrapCount(r) \in Nat /\ WrapCount(r)' = WrapCount(r)
      BY <2>1, WrapSame
    <2> QED BY <1>3, <2>2 DEF Counted, DecodePending
  <1>4. CASE \E h \in Thread : DecodeOk(h)
    <2>1. wrap' = wrap
      BY <1>4 DEF DecodeOk
    <2>2. \A r \in Req : WrapCount(r) \in Nat /\ WrapCount(r)' = WrapCount(r)
      BY <2>1, WrapSame
    <2> QED BY <1>4, <2>2 DEF Counted, DecodeOk
  <1>5. CASE \E h \in Thread : DecodeFails(h)
    <2>1. wrap' = wrap
      BY <1>5 DEF DecodeFails, PollReturns
    <2>2. \A r \in Req : WrapCount(r) \in Nat /\ WrapCount(r)' = WrapCount(r)
      BY <2>1, WrapSame
    <2> QED BY <1>5, <2>2 DEF Counted, DecodeFails, PollReturns
  <1>6. CASE \E h \in Thread, accept \in BOOLEAN : BeforePoll(h, accept)
    <2>1. wrap' = wrap
      BY <1>6 DEF BeforePoll
    <2>2. \A r \in Req : WrapCount(r) \in Nat /\ WrapCount(r)' = WrapCount(r)
      BY <2>1, WrapSame
    <2> QED BY <1>6, <2>2 DEF Counted, BeforePoll
  <1>7. CASE \E h \in Thread : HandlerPending(h)
    <2>1. wrap' = wrap
      BY <1>7 DEF HandlerPending, PollReturns
    <2>2. \A r \in Req : WrapCount(r) \in Nat /\ WrapCount(r)' = WrapCount(r)
      BY <2>1, WrapSame
    <2> QED BY <1>7, <2>2 DEF Counted, HandlerPending, PollReturns
  <1>8. CASE \E h \in Thread : HandlerEnds(h)
    <2>1. wrap' = wrap
      BY <1>8 DEF HandlerEnds
    <2>2. \A r \in Req : WrapCount(r) \in Nat /\ WrapCount(r)' = WrapCount(r)
      BY <2>1, WrapSame
    <2> QED BY <1>8, <2>2 DEF Counted, HandlerEnds
  <1>9. CASE \E h \in Thread : Finalize(h)
    <2>1. wrap' = wrap
      BY <1>9 DEF Finalize, PollReturns
    <2>2. \A r \in Req : WrapCount(r) \in Nat /\ WrapCount(r)' = WrapCount(r)
      BY <2>1, WrapSame
    <2> QED BY <1>9, <2>2 DEF Counted, Finalize, PollReturns
  <1>10. CASE \E h \in Thread : HandlerPanic(h)
    <2>1. wrap' = wrap
      BY <1>10 DEF HandlerPanic, PollReturns
    <2>2. \A r \in Req : WrapCount(r) \in Nat /\ WrapCount(r)' = WrapCount(r)
      BY <2>1, WrapSame
    <2> QED BY <1>10, <2>2 DEF Counted, HandlerPanic, PollReturns
  <1>11. CASE \E h \in Thread : JobPending(h)
    <2>1. wrap' = wrap
      BY <1>11 DEF JobPending, PollReturns
    <2>2. \A r \in Req : WrapCount(r) \in Nat /\ WrapCount(r)' = WrapCount(r)
      BY <2>1, WrapSame
    <2> QED BY <1>11, <2>2 DEF Counted, JobPending, PollReturns
  <1>12. CASE \E h \in Thread : JobReady(h)
    <2>1. PICK h \in Thread : JobReady(h)
      BY <1>12
    <2>2. run[h] \in Job /\ wrap' = [wrap EXCEPT ![run[h]] = NoReq]
      BY <2>1 DEF JobReady
    <2>3. \A r \in Req :
            /\ WrapCount(r) \in Nat /\ WrapCount(r)' \in Nat
            /\ WrapCount(r)' + Is(wrap[run[h]], r) = WrapCount(r)
      <3>1. wrap \in [Job -> Req \cup {NoReq}] /\ NoReq \in Req \cup {NoReq}
        OBVIOUS
      <3>2. \A r \in Req :
              /\ WrapCount(r) \in Nat /\ WrapCount(r)' \in Nat
              /\ WrapCount(r)' + Is(wrap[run[h]], r) = WrapCount(r) + Is(NoReq, r)
        <4> HIDE DEF Is, Struct, PolledOnce, HooksOwn, Unref
        <4> QED BY <2>2, <3>1, WrapUpdate
      <3> QED BY <3>2
    <2> QED BY <2>1, <2>2, <2>3 DEF Counted, JobReady, PollReturns
  <1>13. CASE \E h \in Thread : JobPanic(h)
    <2>1. PICK h \in Thread : JobPanic(h)
      BY <1>13
    <2>2. run[h] \in Job /\ wrap' = [wrap EXCEPT ![run[h]] = NoReq]
      BY <2>1 DEF JobPanic
    <2>3. \A r \in Req :
            /\ WrapCount(r) \in Nat /\ WrapCount(r)' \in Nat
            /\ WrapCount(r)' + Is(wrap[run[h]], r) = WrapCount(r)
      <3>1. wrap \in [Job -> Req \cup {NoReq}] /\ NoReq \in Req \cup {NoReq}
        OBVIOUS
      <3>2. \A r \in Req :
              /\ WrapCount(r) \in Nat /\ WrapCount(r)' \in Nat
              /\ WrapCount(r)' + Is(wrap[run[h]], r) = WrapCount(r) + Is(NoReq, r)
        <4> HIDE DEF Is, Struct, PolledOnce, HooksOwn, Unref
        <4> QED BY <2>2, <3>1, WrapUpdate
      <3> QED BY <3>2
    <2> QED BY <2>1, <2>2, <2>3 DEF Counted, JobPanic, PollReturns
  <1>14. CASE \E h \in Thread, j \in Job : Spawn(h, j)
    <2>1. PICK h \in Thread, j \in Job : Spawn(h, j)
      BY <1>14
    <2>2. /\ wrap' = [wrap EXCEPT ![j] = header[run[h]]]
          /\ header[run[h]] \in Req \cup {NoReq} /\ wrap[j] = NoReq
      BY <2>1 DEF Spawn
    <2>3. \A r \in Req :
            /\ WrapCount(r) \in Nat
            /\ WrapCount(r)' = WrapCount(r) + Is(header[run[h]], r)
      <3>1. wrap \in [Job -> Req \cup {NoReq}]
        OBVIOUS
      <3>2. \A r \in Req :
              /\ WrapCount(r) \in Nat /\ WrapCount(r)' \in Nat
              /\ WrapCount(r)' + Is(wrap[j], r) = WrapCount(r) + Is(header[run[h]], r)
        <4> HIDE DEF Is, Struct, PolledOnce, HooksOwn, Unref
        <4> QED BY <2>2, <3>1, WrapUpdate
      <3> QED BY <2>2, <3>2
    <2> QED BY <2>1, <2>3 DEF Counted, Spawn
  <1>15. CASE \E h \in Thread, j \in Job : PollJob(h, j)
    <2>1. wrap' = wrap
      BY <1>15 DEF PollJob
    <2>2. \A r \in Req : WrapCount(r) \in Nat /\ WrapCount(r)' = WrapCount(r)
      BY <2>1, WrapSame
    <2> QED BY <1>15, <2>2 DEF Counted, PollJob
  <1>16. CASE \E j \in Job : SpawnOutside(j)
    <2>1. wrap' = wrap
      BY <1>16 DEF SpawnOutside
    <2>2. \A r \in Req : WrapCount(r) \in Nat /\ WrapCount(r)' = WrapCount(r)
      BY <2>1, WrapSame
    <2> QED BY <1>16, <2>2 DEF Counted, SpawnOutside
  <1>17. CASE \E j \in Job : JobDropped(j)
    <2>1. PICK j \in Job : JobDropped(j)
      BY <1>17
    <2>2. \A r \in Req :
            /\ WrapCount(r) \in Nat /\ WrapCount(r)' \in Nat
            /\ WrapCount(r)' + Is(wrap[j], r) = WrapCount(r)
      <3>1. /\ wrap \in [Job -> Req \cup {NoReq}] /\ wrap' = [wrap EXCEPT ![j] = NoReq]
            /\ NoReq \in Req \cup {NoReq}
        BY <2>1 DEF JobDropped
      <3>2. \A r \in Req :
              /\ WrapCount(r) \in Nat /\ WrapCount(r)' \in Nat
              /\ WrapCount(r)' + Is(wrap[j], r) = WrapCount(r) + Is(NoReq, r)
        <4> HIDE DEF Is, Struct, PolledOnce, HooksOwn, Unref
        <4> QED BY <3>1, WrapUpdate
      <3> QED BY <3>2
    <2> QED BY <2>1, <2>2 DEF Counted, JobDropped
  <1>18. CASE \E r \in Req : RequestDropped(r)
    <2>1. wrap' = wrap
      BY <1>18 DEF RequestDropped
    <2>2. \A r \in Req : WrapCount(r) \in Nat /\ WrapCount(r)' = WrapCount(r)
      BY <2>1, WrapSame
    <2> QED BY <1>18, <2>2 DEF Counted, RequestDropped
  <1>19. CASE \E t \in Task : Dealloc(t)
    <2>1. wrap' = wrap
      BY <1>19 DEF Dealloc
    <2>2. \A r \in Req : WrapCount(r) \in Nat /\ WrapCount(r)' = WrapCount(r)
      BY <2>1, WrapSame
    <2> QED BY <1>19, <2>2 DEF Counted, Dealloc
  <1>20. CASE UNCHANGED vars
    <2>1. wrap' = wrap
      BY <1>20 DEF vars
    <2>2. \A r \in Req : WrapCount(r) \in Nat /\ WrapCount(r)' = WrapCount(r)
      BY <2>1, WrapSame
    <2> QED BY <1>20, <2>2 DEF Counted, vars
  <1> HIDE ContextAssumption DEF Struct, Task, Phases, PolledOnce, HooksOwn, At, Polled, Live, Is, Alive,
                                 Unref
  <1> QED BY <1>1, <1>2, <1>3, <1>4, <1>5, <1>6, <1>7, <1>8, <1>9, <1>10, <1>11, <1>12,
             <1>13, <1>14, <1>15, <1>16, <1>17, <1>18, <1>19, <1>20 DEF Next

-----------------------------------------------------------------------------
(* The theorems.                                                           *)

\* ContextInv is what the two step lemmas preserve.
LEMMA InvSplit == ContextInv <=> Struct /\ Counted
  <1>1. Struct /\ refs \in [Req -> Nat] => (RefsExact <=> Counted)
    BY HoldersSplit DEF RefsExact, Counted
  <1> QED BY <1>1 DEF ContextInv, Struct, Counted, TypeOK

LEMMA InitContext == Init => ContextInv
  <1> SUFFICES ASSUME Init PROVE Struct /\ Counted
    BY InvSplit
  <1>1. Struct
    BY ContextAssumption DEF Init, Struct, Task, Phases, PolledOnce, HooksOwn, ShownRight, At
  <1>2. \A r \in Req : WrapCount(r) = 0
    <2> SUFFICES ASSUME NEW r \in Req PROVE WrapCount(r) = 0
      OBVIOUS
    <2>1. {j \in Job : wrap[j] = r} = {}
      BY ContextAssumption DEF Init
    <2> QED BY <2>1, FS_EmptySet DEF WrapCount
  <1>3. Counted
    BY <1>2, ContextAssumption DEF Init, Counted, Live, Is, Alive, Task
  <1> QED BY <1>1, <1>3

\* In every behaviour, for any threads, requests and tasks: a task is polled
\* by one thread at a time, every hook is of its own request, the thread-local
\* is what the poll in progress is to show, and the hand-made reference count
\* of a context is the number of its holders (masa_unary, spawn_with_meta,
\* PollHookFuture::poll, PollHook's clone and drop).
THEOREM ContextInvariant == Spec => []ContextInv
  <1>1. Init => ContextInv
    BY InitContext
  <1>2. ContextInv /\ [Next]_vars => ContextInv'
    <2> SUFFICES ASSUME ContextInv, [Next]_vars PROVE ContextInv'
      OBVIOUS
    <2>1. Struct /\ Counted
      BY InvSplit
    <2>2. Struct' /\ Counted'
      BY <2>1, StructStep, CountedStep
    <2>3. ContextInv' <=> Struct' /\ Counted'
      BY InvSplit, PTL
    <2> QED BY <2>2, <2>3
  <1> QED BY <1>1, <1>2, PTL DEF Spec

\* A reference to the context is never missed and never leaked: for any number
\* of spawned tasks, the count is the number of holders (PollHook's clone and
\* drop, masa_unary's own reference, reset_child_task_poll_hook).
THEOREM ReferencesExact == Spec => []RefsExact
  <1>1. ContextInv => RefsExact
    BY DEF ContextInv
  <1> QED BY <1>1, ContextInvariant, PTL

\* A thread no poll has panicked on shows a request's context only while it
\* polls that request's handler or a task the handler spawned (before_poll,
\* after_poll and PollHookFuture::poll).
THEOREM ParentShownRight == Spec => []ParentVisible
  <1>1. ContextInv => ParentVisible
    BY ContextAssumption DEF ContextInv, TypeOK, ParentVisible, ShownRight, HooksOwn,
       PolledOnce, Shows, At, Of, Task
  <1> QED BY <1>1, ContextInvariant, PTL

\* The code of a handler, and of the tasks it spawned, always finds its own
\* request, whatever panicked on the thread before (set_parent_ctx before every
\* poll, PollHookFuture::poll).
THEOREM ParentIsFound == Spec => []ParentFound
  <1>1. ContextInv => ParentFound
    BY ContextAssumption DEF ContextInv, TypeOK, ParentFound, ShownRight, HooksOwn,
       PolledOnce, Shows, At, Of, Task
  <1> QED BY <1>1, ContextInvariant, PTL

==============================================================================
