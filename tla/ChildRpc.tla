------------------------------ MODULE ChildRpc ------------------------------
(***************************************************************************)
(* What a stack of policy modules is told about one request and its child  *)
(* RPCs: Stack (libs/rpcstack/src/module.rs) called by ParentContext       *)
(* (libs/rpcstack-tonic/src/hooks.rs), masa_unary (libs/tonic/tonic/src/   *)
(* server/grpc.rs) and the generated client (libs/tonic/tonic-build/src/   *)
(* client.rs).                                                             *)
(*                                                                         *)
(* The modules are 1 .. K in stack order; Stack's recursion over head and  *)
(* tail is a position that moves through them, one hook of one module per  *)
(* step.  A stack call holds the request's lock.  A child RPC is called by *)
(* the handler itself (Inline) or by a task the handler spawned, which may *)
(* run on another thread and outlive the request.                          *)
(***************************************************************************)
EXTENDS Naturals, FiniteSets

CONSTANTS Child,    \* the child RPCs of the request
          Inline,   \* those awaited inside the handler's future
          K,        \* the number of modules in the stack
          Request,  \* the request as a holder of its lock
          Free

ASSUME ChildRpcAssumption ==
  /\ Inline \subseteq Child
  /\ K \in Nat \ {0}
  /\ Request \notin Child /\ Free \notin Child \cup {Request}

VARIABLES
  phase, at,     \* the request: where it is, the module of its stack call
  entered,       \* the handler has been polled
  ready,         \* the handler's last poll returned Ready
  ended_by,      \* RequestState::ended_by, 0 for None
  finalized,     \* the modules whose finalize has run
  lock,          \* who holds the lock on RequestState
  cpc, cat,      \* per child: where it is, the module of its stack call
  open,          \* per child: modules told of its begin and not of its end
  sealed,        \* per child: modules that have sealed it
  told           \* per child and module: calls of after_child_rpc

reqVars == <<phase, at, entered, ready, ended_by, finalized>>
childVars == <<cpc, cat, open, sealed, told>>
vars == <<reqVars, lock, childVars>>

Module == 1 .. K

Phases == {"decode", "between", "before_poll", "handler", "after_poll", "drop",
           "to_finalize", "finalize", "done"}
ChildPCs == {"new", "before", "unwind", "seal", "send", "sent", "received", "after",
             "over", "dropped"}

TypeOK ==
  /\ phase \in Phases /\ at \in 0 .. K
  /\ entered \in BOOLEAN /\ ready \in BOOLEAN /\ ended_by \in 0 .. K
  /\ finalized \subseteq Module
  /\ lock \in Child \cup {Request, Free}
  /\ cpc \in [Child -> ChildPCs] /\ cat \in [Child -> 0 .. K]
  /\ open \in [Child -> SUBSET Module] /\ sealed \in [Child -> SUBSET Module]
  /\ told \in [Child -> [Module -> Nat]]

Init ==
  /\ phase = "decode" /\ at = 0
  /\ entered = FALSE /\ ready = FALSE /\ ended_by = 0
  /\ finalized = {}
  /\ lock = Free
  /\ cpc = [c \in Child |-> "new"] /\ cat = [c \in Child |-> 0]
  /\ open = [c \in Child |-> {}] /\ sealed = [c \in Child |-> {}]
  /\ told = [c \in Child |-> [m \in Module |-> 0]]

-----------------------------------------------------------------------------
(* The request: masa_unary and AbortableFuture::poll.                      *)

\* The child RPCs of the handler that are inside a hook right now.
InHook(c) == cpc[c] \in {"before", "unwind", "seal", "send", "after"}
HandlerBusy == \E c \in Inline : InHook(c)

\* The request is inside a stack call at module at.
InCall(p) == phase = p /\ lock = Request

\* A stack call of the request begins at module m.
BeginCall(p, m) ==
  /\ lock = Free /\ lock' = Request
  /\ phase' = p /\ at' = m
  /\ UNCHANGED childVars

\* It goes on at module m, or it ends and the request continues at p.
NextModule(m) == at' = m /\ UNCHANGED <<phase, lock>>
EndCall(p) == phase' = p /\ at' = 0 /\ lock' = Free

DecodeOk ==
  /\ phase = "decode"
  /\ phase' = "between"
  /\ UNCHANGED <<at, entered, ready, ended_by, finalized, lock, childVars>>

\* map_request_unary fails and masa_unary returns.
DecodeFails ==
  /\ phase = "decode"
  /\ phase' = "done"
  /\ UNCHANGED <<at, entered, ready, ended_by, finalized, lock, childVars>>

BeforePoll ==
  /\ phase = "between"
  /\ BeginCall("before_poll", 1)
  /\ UNCHANGED <<entered, ready, ended_by, finalized>>

BeforePollOk ==
  /\ InCall("before_poll")
  /\ IF at < K THEN NextModule(at + 1) ELSE EndCall("handler")
  /\ entered' = (entered \/ at = K)
  /\ UNCHANGED <<ready, ended_by, finalized, childVars>>

\* A module ends the request: RequestState::record, no after_poll.
PollEnds(p) ==
  /\ InCall(p)
  /\ ended_by' = IF ended_by = 0 THEN at ELSE ended_by
  /\ EndCall("drop")
  /\ UNCHANGED <<entered, ready, finalized, childVars>>

BeforePollEnds == PollEnds("before_poll")

\* The handler's poll returns.
HandlerReturns(r) ==
  /\ phase = "handler" /\ ~HandlerBusy
  /\ ready' = r
  /\ BeginCall("after_poll", 1)
  /\ UNCHANGED <<entered, ended_by, finalized>>

AfterPollOk ==
  /\ InCall("after_poll")
  /\ IF at < K THEN NextModule(at + 1) ELSE EndCall(IF ready THEN "drop" ELSE "between")
  /\ UNCHANGED <<entered, ready, ended_by, finalized, childVars>>

AfterPollEnds == PollEnds("after_poll")

\* The handler's future is dropped, with the child RPCs it was waiting for, and
\* the request continues at p.
LosesHandler(p) ==
  /\ phase' = p
  /\ cpc' = [c \in Child |-> IF c \in Inline /\ cpc[c] \in {"sent", "received"}
                             THEN "dropped" ELSE cpc[c]]
  /\ UNCHANGED <<at, entered, ready, ended_by, finalized, lock, cat, open, sealed, told>>

\* It returned Ready, or a module ended the request.
DropHandler == phase = "drop" /\ LosesHandler("to_finalize")

\* The client resets the stream, or the runtime shuts down: masa_unary is
\* dropped at one of its two awaits.  Nothing guards finalize.
DropRequest ==
  /\ phase = "decode" \/ (phase = "between" /\ entered)
  /\ LosesHandler("done")

\* The handler panics outside the hooks, which unwinds through masa_unary.
HandlerPanics ==
  /\ phase = "handler" /\ ~HandlerBusy
  /\ LosesHandler("done")

\* Mutant: finalize is skipped for a request a module has ended.
BeginFinalize_Handled ==
  /\ phase = "to_finalize"
  /\ IF ended_by = 0
     THEN BeginCall("finalize", K)
     ELSE phase' = "done" /\ UNCHANGED <<at, lock, childVars>>
  /\ UNCHANGED <<entered, ready, ended_by, finalized>>

\* finalize_before_serialization.
BeginFinalize ==
  /\ phase = "to_finalize"
  /\ BeginCall("finalize", K)
  /\ UNCHANGED <<entered, ready, ended_by, finalized>>

FinalizeStep ==
  /\ InCall("finalize")
  /\ finalized' = finalized \cup {at}
  /\ IF at > 1 THEN NextModule(at - 1) ELSE EndCall("done")
  /\ UNCHANGED <<entered, ready, ended_by, childVars>>

-----------------------------------------------------------------------------
(* A child RPC: the generated client and ParentContext's child hooks.      *)

\* The caller of c runs: a spawned task may run at any time after it was
\* spawned, the handler only while it is polled, one child at a time.
CallerRuns(c) ==
  IF c \in Inline
  THEN phase = "handler" /\ \A d \in Inline \ {c} : ~InHook(d)
  ELSE entered

\* Child c moves to p, at module m.
Move(c, p, m) ==
  /\ cpc' = [cpc EXCEPT ![c] = p]
  /\ cat' = [cat EXCEPT ![c] = m]

\* Mutant: after_child_rpc runs without the lock on the request's state.
Lock_Ignored(c) == lock' = c

\* The request's state is locked for the whole stack call.
Lock(c) == lock = Free /\ lock' = c

\* ParentContext::before_child_rpc.
Begin(c) ==
  /\ cpc[c] = "new" /\ CallerRuns(c)
  /\ Lock(c)
  /\ Move(c, "before", 1)
  /\ UNCHANGED <<reqVars, open, sealed, told>>

\* The module at cat accepts the child RPC.
BeforeOk(c) ==
  /\ cpc[c] = "before"
  /\ open' = [open EXCEPT ![c] = @ \cup {cat[c]}]
  /\ IF cat[c] < K THEN Move(c, "before", cat[c] + 1) ELSE Move(c, "seal", K)
  /\ UNCHANGED <<reqVars, lock, sealed, told>>

\* It rejects it: Stack unwinds from this module to the head.
BeforeRejects(c) ==
  /\ cpc[c] = "before"
  /\ open' = [open EXCEPT ![c] = @ \cup {cat[c]}]
  /\ Move(c, "unwind", cat[c])
  /\ UNCHANGED <<reqVars, lock, sealed, told>>

\* Mutant: the lock is kept when the stack call ends.
Tell_KeepsLock(c, from) ==
  /\ cpc[c] = from
  /\ open' = [open EXCEPT ![c] = @ \ {cat[c]}]
  /\ told' = [told EXCEPT ![c][cat[c]] = @ + 1]
  /\ IF cat[c] > 1 THEN Move(c, from, cat[c] - 1) ELSE Move(c, "over", 0)
  /\ UNCHANGED <<reqVars, lock, sealed>>

\* after_child_rpc of the module at cat, on the way to the head.
Tell(c, from) ==
  /\ cpc[c] = from
  /\ open' = [open EXCEPT ![c] = @ \ {cat[c]}]
  /\ told' = [told EXCEPT ![c][cat[c]] = @ + 1]
  /\ IF cat[c] > 1
     THEN Move(c, from, cat[c] - 1) /\ UNCHANGED lock
     ELSE Move(c, "over", 0) /\ lock' = Free
  /\ UNCHANGED <<reqVars, sealed>>

\* With ChildOutcome::Rejected; the child RPC is not sent.
Unwind(c) == Tell(c, "unwind")

\* Mutant: the head is not asked to seal.
SealOk_SkipsHead(c) ==
  /\ cpc[c] = "seal"
  /\ sealed' = [sealed EXCEPT ![c] = @ \cup {cat[c]}]
  /\ IF cat[c] > 2
     THEN Move(c, "seal", cat[c] - 1) /\ UNCHANGED lock
     ELSE Move(c, "send", 0) /\ lock' = Free
  /\ UNCHANGED <<reqVars, open, told>>

\* The module at cat seals the child RPC, the head last.
SealOk(c) ==
  /\ cpc[c] = "seal"
  /\ sealed' = [sealed EXCEPT ![c] = @ \cup {cat[c]}]
  /\ IF cat[c] > 1
     THEN Move(c, "seal", cat[c] - 1) /\ UNCHANGED lock
     ELSE Move(c, "send", 0) /\ lock' = Free
  /\ UNCHANGED <<reqVars, open, told>>

\* Mutant: the modules that had already sealed are told twice.
SealRejects_Twice(c) ==
  /\ cpc[c] = "seal"
  /\ told' = [told EXCEPT ![c] = [m \in Module |-> IF m > cat[c] THEN @[m] + 1 ELSE @[m]]]
  /\ Move(c, "unwind", K)
  /\ UNCHANGED <<reqVars, lock, open, sealed>>

\* It rejects it: reject_child_rpc tells every module.
SealRejects(c) ==
  /\ cpc[c] = "seal"
  /\ Move(c, "unwind", K)
  /\ UNCHANGED <<reqVars, lock, open, sealed, told>>

\* The child request is sent; try_before_send does nothing for a child.
Send(c) ==
  /\ cpc[c] = "send"
  /\ Move(c, "sent", 0)
  /\ UNCHANGED <<reqVars, lock, open, sealed, told>>

\* Its response or a transport error arrives.
Respond(c) ==
  /\ cpc[c] = "sent"
  /\ Move(c, "received", 0)
  /\ UNCHANGED <<reqVars, lock, open, sealed, told>>

\* The caller is polled again: ParentContext::after_child_rpc.
BeginAfter(c) ==
  /\ cpc[c] = "received" /\ CallerRuns(c)
  /\ Lock(c)
  /\ Move(c, "after", K)
  /\ UNCHANGED <<reqVars, open, sealed, told>>

\* With ChildOutcome::Sent; an error of one module does not skip the others.
AfterStep(c) == Tell(c, "after")

\* The caller drops the child RPC it waits for (a timeout, a select), or is
\* aborted.
DropChild(c) ==
  /\ cpc[c] \in {"sent", "received"} /\ CallerRuns(c)
  /\ Move(c, "dropped", 0)
  /\ UNCHANGED <<reqVars, lock, open, sealed, told>>

-----------------------------------------------------------------------------
\* What runs by itself once a stack call has begun or the request is ending.
RequestStep ==
  \/ BeforePollOk \/ BeforePollEnds \/ AfterPollOk \/ AfterPollEnds
  \/ DropHandler \/ BeginFinalize \/ FinalizeStep

ChildStep(c) ==
  \/ BeforeOk(c) \/ BeforeRejects(c) \/ Unwind(c) \/ SealOk(c) \/ SealRejects(c)
  \/ Send(c) \/ AfterStep(c)

Next ==
  \/ DecodeOk \/ DecodeFails \/ DropRequest \/ BeforePoll \/ HandlerPanics
  \/ \E r \in BOOLEAN : HandlerReturns(r)
  \/ RequestStep
  \/ \E c \in Child :
       Begin(c) \/ ChildStep(c) \/ Respond(c) \/ BeginAfter(c) \/ DropChild(c)

Spec == Init /\ [][Next]_vars

\* Threads run, and a stack call returns.  Nobody has to poll the handler, to
\* answer a child RPC or to give the request up.
FairSpec ==
  /\ Spec
  /\ WF_vars(RequestStep)
  /\ \A c \in Child : WF_vars(ChildStep(c))

-----------------------------------------------------------------------------
(***************************************************************************)
(* Properties                                                              *)
(***************************************************************************)

Prefix(S) == \E m \in 0 .. K : S = 1 .. m
Suffix(S) == \E m \in 1 .. K + 1 : S = m .. K

\* The modules behind the first n have been told, once each, from the one that
\* rejected the child RPC or, if any module had sealed it, from the last one.
ToldDown(t, s, n) ==
  \E r \in Module :
    /\ n <= r /\ (s # {} => r = K)
    /\ \A m \in Module : t[m] = IF n < m /\ m <= r THEN 1 ELSE 0

\* Module::after_child_rpc: "Called once for every child RPC this module's
\* before_child_rpc ran for".  No module is told of an end twice, or of the end
\* of a child RPC it never saw.  When the generated client has returned, the
\* modules from the head to the rejecter, or all of them, have been told
\* exactly once, and none has a begin without an end.  The quoted words are not
\* true of a child RPC whose future is dropped while it waits for the response:
\* all modules have seen it begin and none is told.
ToldOnce ==
  \A c \in Child :
    /\ \A m \in Module : told[c][m] + (IF m \in open[c] THEN 1 ELSE 0) <= 1
    /\ cpc[c] = "over" => open[c] = {} /\ ToldDown(told[c], sealed[c], 0)
    /\ cpc[c] = "dropped" => open[c] = Module

\* The hooks nest: a module that is told of a begin after another is told of
\* the end before it, and seals before it.  Sealing starts only when every
\* module has accepted the child RPC, so that no module proposes a decision
\* its owner has resolved (Extensions::propose), and the child RPC leaves only
\* when every module has sealed it and none has been told that it is over.
Nested ==
  \A c \in Child :
    /\ Prefix(open[c]) /\ Suffix(sealed[c])
    /\ cpc[c] = "before" => sealed[c] = {}
    /\ cpc[c] \in {"seal", "send", "sent", "received"} => open[c] = Module
    /\ cpc[c] \in {"send", "sent", "received"} => sealed[c] = Module

\* "The lock is held for a whole stack call, so each child RPC is set up
\* atomically": at most one stack call runs on a request, although spawned
\* tasks call child RPCs while the handler is polled on another thread.
OneCall ==
  Cardinality({c \in Child : cpc[c] \in {"before", "unwind", "seal", "after"}})
    + (IF phase \in {"before_poll", "after_poll", "finalize"} THEN 1 ELSE 0) <= 1

\* The request's state: types, and one stack call at a time under its lock
\* (ParentContext::state in rpcstack-tonic's hooks).
StackInv == TypeOK /\ OneCall

\* masa_unary finalizes every module or none.  It finalizes all of them for a
\* request whose handler returned Ready or that a module ended, and no child RPC
\* of the handler is under way by then, or when a request is given up.  Only a
\* request that could not be decoded, was dropped at an await or panicked is
\* finalized by no module.
FinalizedOnce ==
  /\ phase = "done" => finalized \in {{}, Module}
  /\ phase = "done" /\ (ended_by # 0 \/ ready) => finalized = Module
  /\ phase = "done" \/ finalized # {} => \A c \in Inline : cpc[c] \in {"new", "over", "dropped"}

\* A request that has ended is finalized, and its lock is released, whatever
\* its spawned tasks do meanwhile.
Finishes == (phase = "drop") ~> (phase = "done" /\ lock # Request)
=============================================================================
