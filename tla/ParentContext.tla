--------------------------- MODULE ParentContext ---------------------------
(***************************************************************************)
(* How a child RPC finds the request it belongs to.  masa_unary (libs/     *)
(* tonic/tonic/src/server/grpc.rs) puts the request's context into a       *)
(* thread-local around every poll of the handler, and a PollHook in the    *)
(* header of the server's task does the same around every poll of the      *)
(* tasks the handler spawns (libs/tokio/tokio/src/masa/poll_hook.rs,       *)
(* task/spawn.rs).  The context is reference counted by hand by the hooks  *)
(* (libs/tonic/tonic/src/masa/runtime.rs).                                 *)
(*                                                                         *)
(* A request is served by a task of its own, which has its name.  Only the *)
(* thread-local and the references are shared between tasks; an action is  *)
(* one stretch of a poll in which neither is accessed twice.               *)
(***************************************************************************)
EXTENDS Naturals, FiniteSets

CONSTANTS Thread,   \* threads of the runtime
          Req,      \* requests, and the tasks that serve them
          Job,      \* other tasks that may be spawned
          NoReq, NoTask

Task == Req \cup Job

ASSUME ContextAssumption ==
  /\ Req \cap Job = {} /\ NoReq \notin Req /\ NoTask \notin Task
  /\ IsFiniteSet(Job)

VARIABLES
  tls,     \* per thread: PARENT_CTX, NoReq when null
  run,     \* per thread: the task it polls
  phase,   \* per task: how far it is
  header,  \* per task: the request of the PollHook in its header
  wrap,    \* per job: the request of the PollHook around its future
  origin,  \* per job: the request its spawner worked for
  refs,    \* per request: the reference count of its ParentContext
  leaked   \* history: the threads a poll panicked on while it showed a
           \* context, until the thread-local is written again

vars == <<tls, run, phase, header, wrap, origin, refs, leaked>>

Phases == {"none", "decode", "handler", "finalize", "ready", "body", "done", "freed"}

TypeOK ==
  /\ tls \in [Thread -> Req \cup {NoReq}]
  /\ run \in [Thread -> Task \cup {NoTask}]
  /\ phase \in [Task -> Phases]
  /\ header \in [Task -> Req \cup {NoReq}]
  /\ wrap \in [Job -> Req \cup {NoReq}]
  /\ origin \in [Job -> Req \cup {NoReq}]
  /\ refs \in [Req -> Nat]
  /\ leaked \subseteq Thread

Init ==
  /\ tls = [h \in Thread |-> NoReq]
  /\ run = [h \in Thread |-> NoTask]
  /\ phase = [t \in Task |-> "none"]
  /\ header = [t \in Task |-> NoReq]
  /\ wrap = [j \in Job |-> NoReq]
  /\ origin = [j \in Job |-> NoReq]
  /\ refs = [r \in Req |-> 0]
  /\ leaked = {}

-----------------------------------------------------------------------------
Polled(t) == \E h \in Thread : run[h] = t

\* The request whose code task t runs.
Of(t) == IF t \in Req THEN t ELSE origin[t]

\* Thread h is at a given point of the poll of its task.
At(h, p) == run[h] # NoTask /\ phase[run[h]] = p

\* The poll of thread h ends and leaves its task in phase p.
PollReturns(h, p) ==
  /\ phase' = [phase EXCEPT ![run[h]] = p]
  /\ run' = [run EXCEPT ![h] = NoTask]

\* A number of references to the context of a request are dropped.
Unref(r, n) == refs' = IF r = NoReq THEN refs ELSE [refs EXCEPT ![r] = @ - n]

\* set_parent_ctx, and reset_parent_ctx when r is NoReq.
SetParent(h, r) ==
  /\ tls' = [tls EXCEPT ![h] = r]
  /\ leaked' = leaked \ {h}

-----------------------------------------------------------------------------
(* The task of a request: masa_unary.                                      *)

\* The request arrives: its context is made, and the hook holds a second
\* reference to it.
Begin(h, r) ==
  /\ run[h] = NoTask /\ phase[r] = "none"
  /\ run' = [run EXCEPT ![h] = r]
  /\ phase' = [phase EXCEPT ![r] = "decode"]
  /\ header' = [header EXCEPT ![r] = r]
  /\ refs' = [refs EXCEPT ![r] = 2]
  /\ UNCHANGED <<tls, leaked, wrap, origin>>

\* The request's task is polled again.
PollRequest(h, r) ==
  /\ run[h] = NoTask /\ ~Polled(r)
  /\ phase[r] \in {"decode", "handler"}
  /\ run' = [run EXCEPT ![h] = r]
  /\ UNCHANGED <<tls, leaked, phase, header, wrap, origin, refs>>

DecodePending(h) ==
  /\ At(h, "decode")
  /\ run' = [run EXCEPT ![h] = NoTask]
  /\ UNCHANGED <<tls, leaked, phase, header, wrap, origin, refs>>

DecodeOk(h) ==
  /\ At(h, "decode")
  /\ phase' = [phase EXCEPT ![run[h]] = "handler"]
  /\ UNCHANGED <<tls, leaked, run, header, wrap, origin, refs>>

\* map_request_unary fails: masa_unary returns at once, the hook stays.
DecodeFails(h) ==
  /\ At(h, "decode")
  /\ PollReturns(h, "done")
  /\ Unref(run[h], 1)
  /\ UNCHANGED <<tls, leaked, header, wrap, origin>>

\* Mutant: the context stays visible when before_poll ends the request.
BeforePoll_KeepsParent(h, accept) ==
  /\ At(h, "handler")
  /\ SetParent(h, run[h])
  /\ phase' = [phase EXCEPT ![run[h]] = IF accept THEN "body" ELSE "finalize"]
  /\ UNCHANGED <<run, header, wrap, origin, refs>>

\* The closure given to before_poll; the modules may end the request.
BeforePoll(h, accept) ==
  /\ At(h, "handler")
  /\ SetParent(h, IF accept THEN run[h] ELSE NoReq)
  /\ phase' = [phase EXCEPT ![run[h]] = IF accept THEN "body" ELSE "finalize"]
  /\ UNCHANGED <<run, header, wrap, origin, refs>>

\* The handler's poll returns Pending, and the modules accept it.
HandlerPending(h) ==
  /\ At(h, "body") /\ run[h] \in Req
  /\ SetParent(h, NoReq)
  /\ PollReturns(h, "handler")
  /\ UNCHANGED <<header, wrap, origin, refs>>

\* It returns Ready, or the modules end the request in after_poll.
HandlerEnds(h) ==
  /\ At(h, "body") /\ run[h] \in Req
  /\ SetParent(h, NoReq)
  /\ phase' = [phase EXCEPT ![run[h]] = "finalize"]
  /\ UNCHANGED <<run, header, wrap, origin, refs>>

\* finalize, reset_child_task_poll_hook, and masa_unary returns.
Finalize(h) ==
  /\ At(h, "finalize")
  /\ PollReturns(h, "done")
  /\ header' = [header EXCEPT ![run[h]] = NoReq]
  /\ Unref(run[h], 2)
  /\ UNCHANGED <<tls, leaked, wrap, origin>>

\* The handler panics: the runtime catches it and drops the future.
HandlerPanic(h) ==
  /\ At(h, "body") /\ run[h] \in Req
  /\ PollReturns(h, "done")
  /\ Unref(run[h], 1)
  /\ leaked' = leaked \cup {h}
  /\ UNCHANGED <<tls, header, wrap, origin>>

\* The client resets the stream, or the runtime shuts down, between two
\* polls: the future is dropped, the hook in the task's header stays.
RequestDropped(r) ==
  /\ phase[r] \in {"decode", "handler"} /\ ~Polled(r)
  /\ phase' = [phase EXCEPT ![r] = "done"]
  /\ Unref(r, 1)
  /\ UNCHANGED <<tls, leaked, run, header, wrap, origin>>

-----------------------------------------------------------------------------
(* Spawned tasks.                                                          *)

\* spawn_with_meta: a clone of the hook in the header of the running task is
\* put around the new future.  The new task's own header has no hook.
Spawn(h, j) ==
  /\ At(h, "body") /\ phase[j] = "none"
  /\ phase' = [phase EXCEPT ![j] = "ready"]
  /\ wrap' = [wrap EXCEPT ![j] = header[run[h]]]
  /\ origin' = [origin EXCEPT ![j] = Of(run[h])]
  /\ refs' = [r \in Req |-> IF r = header[run[h]] THEN refs[r] + 1 ELSE refs[r]]
  /\ UNCHANGED <<tls, leaked, run, header>>

\* A task that serves no request is spawned from elsewhere.
SpawnOutside(j) ==
  /\ phase[j] = "none"
  /\ phase' = [phase EXCEPT ![j] = "ready"]
  /\ UNCHANGED <<tls, leaked, run, header, wrap, origin, refs>>

\* Mutant: the thread-local is not set before the poll of a spawned task.
PollJob_NoHook(h, j) ==
  /\ run[h] = NoTask /\ ~Polled(j) /\ phase[j] = "ready"
  /\ run' = [run EXCEPT ![h] = j]
  /\ phase' = [phase EXCEPT ![j] = "body"]
  /\ UNCHANGED <<tls, leaked, header, wrap, origin, refs>>

\* PollHookFuture::poll up to the inner poll: the hook sets the thread-local.
PollJob(h, j) ==
  /\ run[h] = NoTask /\ ~Polled(j) /\ phase[j] = "ready"
  /\ run' = [run EXCEPT ![h] = j]
  /\ phase' = [phase EXCEPT ![j] = "body"]
  /\ IF wrap[j] = NoReq THEN UNCHANGED <<tls, leaked>> ELSE SetParent(h, wrap[j])
  /\ UNCHANGED <<header, wrap, origin, refs>>

\* The inner poll returns: the hook clears the thread-local.
AfterHook(h) ==
  IF wrap[run[h]] = NoReq THEN UNCHANGED <<tls, leaked>> ELSE SetParent(h, NoReq)

JobPending(h) ==
  /\ At(h, "body") /\ run[h] \in Job
  /\ AfterHook(h)
  /\ PollReturns(h, "ready")
  /\ UNCHANGED <<header, wrap, origin, refs>>

\* Mutant: a finished future does not release its hook (on_destroy).
JobReady_KeepsRef(h) ==
  /\ At(h, "body") /\ run[h] \in Job
  /\ AfterHook(h)
  /\ PollReturns(h, "done")
  /\ wrap' = [wrap EXCEPT ![run[h]] = NoReq]
  /\ UNCHANGED <<header, origin, refs>>

\* The future is finished and dropped, its hook with it.
JobReady(h) ==
  /\ At(h, "body") /\ run[h] \in Job
  /\ AfterHook(h)
  /\ PollReturns(h, "done")
  /\ wrap' = [wrap EXCEPT ![run[h]] = NoReq]
  /\ Unref(wrap[run[h]], 1)
  /\ UNCHANGED <<header, origin>>

\* It panics: the hook's after_poll is skipped, the future is dropped.
JobPanic(h) ==
  /\ At(h, "body") /\ run[h] \in Job
  /\ PollReturns(h, "done")
  /\ wrap' = [wrap EXCEPT ![run[h]] = NoReq]
  /\ Unref(wrap[run[h]], 1)
  /\ leaked' = IF wrap[run[h]] = NoReq THEN leaked ELSE leaked \cup {h}
  /\ UNCHANGED <<tls, header, origin>>

\* The task is aborted between two polls, or before the first.
JobDropped(j) ==
  /\ phase[j] = "ready" /\ ~Polled(j)
  /\ phase' = [phase EXCEPT ![j] = "done"]
  /\ wrap' = [wrap EXCEPT ![j] = NoReq]
  /\ Unref(wrap[j], 1)
  /\ UNCHANGED <<tls, leaked, run, header, origin>>

\* The last reference to a finished task goes: its header is dropped.
Dealloc(t) ==
  /\ phase[t] = "done"
  /\ phase' = [phase EXCEPT ![t] = "freed"]
  /\ header' = [header EXCEPT ![t] = NoReq]
  /\ Unref(header[t], 1)
  /\ UNCHANGED <<tls, leaked, run, wrap, origin>>

-----------------------------------------------------------------------------
Next ==
  \/ \E h \in Thread, r \in Req : Begin(h, r) \/ PollRequest(h, r)
  \/ \E h \in Thread :
       \/ DecodePending(h) \/ DecodeOk(h) \/ DecodeFails(h)
       \/ \E accept \in BOOLEAN : BeforePoll(h, accept)
       \/ HandlerPending(h) \/ HandlerEnds(h) \/ Finalize(h) \/ HandlerPanic(h)
       \/ JobPending(h) \/ JobReady(h) \/ JobPanic(h)
  \/ \E h \in Thread, j \in Job : Spawn(h, j) \/ PollJob(h, j)
  \/ \E j \in Job : SpawnOutside(j) \/ JobDropped(j)
  \/ \E r \in Req : RequestDropped(r)
  \/ \E t \in Task : Dealloc(t)

Spec == Init /\ [][Next]_vars

-----------------------------------------------------------------------------
(***************************************************************************)
(* Properties                                                              *)
(***************************************************************************)

\* A thread shows the context of a request only while it polls that
\* request's handler or a task its handler spawned; a thread a poll has
\* panicked on is excepted until its thread-local is written again
\* (see ContextReset).
ParentVisible ==
  \A h \in Thread \ leaked :
    tls[h] # NoReq => At(h, "body") /\ Of(run[h]) = tls[h]

\* Code of a handler, and of a task a handler spawned, finds its own
\* request, on whatever thread it runs and whatever ran or panicked there
\* before (set_parent_ctx before every poll, PollHookFuture::poll).
ParentFound ==
  \A h \in Thread :
    At(h, "body") /\ (run[h] \in Req \/ wrap[run[h]] # NoReq)
      => tls[h] = Of(run[h])

\* Who holds a reference to the context of r: masa_unary's Arc, the hook in
\* the task's header and the hooks around the futures of spawned tasks.
Holders(r) ==
  (IF phase[r] \in {"decode", "handler", "body", "finalize"} THEN 1 ELSE 0)
    + Cardinality({t \in Task : header[t] = r})
    + Cardinality({j \in Job : wrap[j] = r})

\* The hand-made reference count (on_clone, on_destroy) is the number of
\* holders: the context is not freed under a spawned task that outlives its
\* request, and not leaked, whichever way tasks and requests end.
RefsExact == \A r \in Req : refs[r] = Holders(r)

\* A task is polled by one thread at a time and only while it is alive.
PolledOnce ==
  /\ \A g, h \in Thread : run[g] = run[h] /\ run[h] # NoTask => g = h
  /\ \A h \in Thread :
       /\ run[h] \in Req => phase[run[h]] \in {"decode", "handler", "body", "finalize"}
       /\ run[h] \in Job => phase[run[h]] = "body"
  /\ \A j \in Job : phase[j] \in {"none", "ready", "body", "done", "freed"}

\* A header holds a hook of its own request, from the arrival to the end; a
\* hook around a future is of the request its spawner worked for.
HooksOwn ==
  /\ \A j \in Job : header[j] = NoReq
  /\ \A r \in Req :
       /\ header[r] \in {NoReq, r}
       /\ phase[r] = "none" => header[r] = NoReq
       /\ phase[r] \in {"decode", "handler", "body", "finalize"} => header[r] = r
  /\ \A j \in Job :
       wrap[j] # NoReq => /\ phase[j] \in {"ready", "body"}
                          /\ origin[j] = wrap[j] /\ phase[wrap[j]] # "none"

\* The context the poll of thread h is to show: the request's own, or that of
\* the hook around the future.
Shows(h) == IF run[h] \in Req THEN run[h] ELSE wrap[run[h]]

\* The thread-local is the context the poll is to show.
ShownRight ==
  \A h \in Thread :
    /\ At(h, "body") /\ Shows(h) # NoReq => tls[h] = Shows(h)
    /\ tls[h] # NoReq /\ h \notin leaked => At(h, "body") /\ tls[h] = Shows(h)

\* The inductive invariant behind ParentVisible, ParentFound and RefsExact
\* (masa_unary, spawn_with_meta, PollHookFuture::poll, PollHook).
ContextInv == TypeOK /\ PolledOnce /\ HooksOwn /\ ShownRight /\ RefsExact

\* A thread that polls nothing shows no context (docs/MASA_POLICY_IMPL.md of
\* after_poll: "Clears the thread-local (`reset_parent_ctx`), preventing
\* context leaking to unrelated tasks.").
ContextReset == \A h \in Thread : run[h] = NoTask => tls[h] = NoReq
=============================================================================
