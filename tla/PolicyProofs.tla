---------------------------- MODULE PolicyProofs ----------------------------
(***************************************************************************)
(* The stack of policy modules, for every number of modules and every set  *)
(* of child RPCs: at most one stack call runs on a request, hooks of a     *)
(* child RPC nest, modules are told of its end once, and a request is      *)
(* finalized by every module or by none.  Then the two policies in it: the *)
(* records of the estimation module, the groups recovered from them and    *)
(* the paths they are looked up under (Fanout), and the price table, for   *)
(* every number of requests, methods and prices (Rajomon).                 *)
(*                                                                         *)
(* Three facts carry the theorems about the stack: who is inside a stack   *)
(* call holds the lock (LockHeld); where a child RPC is determines which   *)
(* modules know of it (Shape); where the request is determines which       *)
(* modules have finalized it, and that its handler is inside no child hook *)
(* (Handled).                                                              *)
(***************************************************************************)
EXTENDS Fanout, Rajomon, SeqLemmas, FiniteSetTheorems

\* Whoever is inside a stack call holds the request's lock, and nobody else.
InStack(c) == cpc[c] \in {"before", "unwind", "seal", "after"}
LockHeld ==
  /\ \A c \in Child : InStack(c) <=> lock = c
  /\ phase \in {"before_poll", "after_poll", "finalize"} <=> lock = Request

\* Where child RPC c is says which modules know of it, have sealed it, and
\* have been told of its end.
Shape(c) ==
  /\ InStack(c) => cat[c] \in Module
  /\ cpc[c] \in {"new", "over"} => open[c] = {}
  /\ cpc[c] = "before" => \A m \in Module : m \in open[c] <=> m < cat[c]
  /\ cpc[c] \in {"unwind", "after"} => \A m \in Module : m \in open[c] <=> m <= cat[c]
  /\ cpc[c] \in {"seal", "send", "sent", "received", "dropped"} => open[c] = Module
  /\ cpc[c] \in {"new", "before"} => sealed[c] = {}
  /\ cpc[c] = "seal" => \A m \in Module : m \in sealed[c] <=> m > cat[c]
  /\ cpc[c] \in {"send", "sent", "received", "dropped"} => sealed[c] = Module
  /\ Suffix(sealed[c])
  /\ \A m \in Module :
       /\ told[c][m] <= 1
       /\ m \in open[c] \/ cpc[c] \in {"new", "before"} => told[c][m] = 0
  /\ cpc[c] \in {"unwind", "after"} => ToldDown(told[c], sealed[c], cat[c])
  /\ cpc[c] = "over" => ToldDown(told[c], sealed[c], 0)

\* Where the request is says which modules have finalized it.  The handler is
\* inside a hook only while it is polled, and has no child RPC once dropped.
Handled ==
  /\ phase \in {"before_poll", "after_poll", "finalize"} => at \in Module
  /\ phase \in {"decode", "between", "before_poll", "handler", "after_poll"} => ended_by = 0
  /\ phase \in {"decode", "between", "before_poll", "handler"} => ~ready
  /\ phase = "decode" => \A c \in Inline : cpc[c] = "new"
  /\ phase = "finalize" => \A m \in Module : m \in finalized <=> m > at
  /\ phase = "done" => finalized = Module \/ (finalized = {} /\ ended_by = 0 /\ ~ready)
  /\ phase \notin {"finalize", "done"} => finalized = {}
  /\ \A c \in Inline : InHook(c) => phase = "handler"
  /\ phase \in {"to_finalize", "finalize", "done"}
       => \A c \in Inline : cpc[c] \in {"new", "over", "dropped"}

StackIInv ==
  /\ TypeOK
  /\ LockHeld
  /\ \A c \in Child : Shape(c)
  /\ Handled

-----------------------------------------------------------------------------
(* Steps of a child RPC.                                                   *)

\* A step of one child RPC c keeps the invariant if it is right for c itself:
\* its shape afterwards, the lock it takes, keeps or gives back, and whether
\* the handler is polled.  All other child RPCs and the request are as before.
LEMMA ChildMoves ==
  ASSUME StackIInv, NEW c \in Child, NEW p \in ChildPCs, NEW n \in 0 .. K, Move(c, p, n),
         open' \in [Child -> SUBSET Module], sealed' \in [Child -> SUBSET Module],
         told' \in [Child -> [Module -> Nat]],
         \A d \in Child \ {c} : /\ open'[d] = open[d] /\ sealed'[d] = sealed[d]
                                /\ told'[d] = told[d],
         UNCHANGED reqVars,
         \/ UNCHANGED lock /\ (InStack(c) <=> InStack(c)')
         \/ lock = Free /\ lock' = c /\ InStack(c)'
         \/ lock = c /\ lock' = Free /\ ~InStack(c)',
         Shape(c)',
         c \in Inline => phase = "handler" \/ (cpc[c] = "sent" /\ p = "received")
  PROVE  StackIInv'
  <1>1. /\ cpc' \in [Child -> ChildPCs] /\ cpc'[c] = p
        /\ cat' \in [Child -> 0 .. K] /\ cat'[c] = n
        /\ \A d \in Child \ {c} : cpc'[d] = cpc[d] /\ cat'[d] = cat[d]
    BY DEF StackIInv, TypeOK, Move
  <1>2. TypeOK'
    BY <1>1 DEF StackIInv, TypeOK, reqVars
  <1>3. LockHeld'
    BY <1>1, ChildRpcAssumption DEF StackIInv, LockHeld, InStack, reqVars
  <1>4. \A d \in Child : Shape(d)'
    <2> SUFFICES ASSUME NEW d \in Child \ {c} PROVE Shape(d)'
      OBVIOUS
    <2>1. Shape(d)
      BY DEF StackIInv
    <2>2. /\ cpc'[d] = cpc[d] /\ cat'[d] = cat[d]
          /\ open'[d] = open[d] /\ sealed'[d] = sealed[d] /\ told'[d] = told[d]
      BY <1>1
    <2> QED BY <2>1, <2>2 DEF Shape, InStack
  <1>5. Handled'
    <2>1. UNCHANGED <<phase, at, ended_by, ready, finalized>>
      BY DEF reqVars
    <2>2. /\ \A d \in Inline : (InHook(d))' => phase = "handler"
          /\ phase = "decode" => \A d \in Inline : cpc'[d] = "new"
          /\ phase \in {"to_finalize", "finalize", "done"}
               => \A d \in Inline : cpc'[d] \in {"new", "over", "dropped"}
      BY <1>1, ChildRpcAssumption DEF StackIInv, Handled, InHook
    <2> QED BY <2>1, <2>2 DEF StackIInv, Handled, InHook
  <1> QED BY <1>2, <1>3, <1>4, <1>5 DEF StackIInv

\* What is known of child RPC c before its step.
LEMMA ChildFacts ==
  ASSUME StackIInv, NEW c \in Child
  PROVE  /\ K \in Nat \ {0} /\ cpc[c] \in ChildPCs /\ cat[c] \in 0 .. K
         /\ open[c] \subseteq Module /\ sealed[c] \subseteq Module
         /\ told[c] \in [Module -> Nat]
         /\ Shape(c)
         /\ InStack(c) <=> lock = c
         /\ c \in Inline /\ InHook(c) => phase = "handler"
  BY ChildRpcAssumption DEF StackIInv, TypeOK, LockHeld, Handled

\* before_child_rpc of a module that accepts or rejects.
LEMMA BeforeInv ==
  ASSUME StackIInv, NEW c \in Child, BeforeOk(c) \/ BeforeRejects(c)
  PROVE  StackIInv'
  <1>1. /\ cpc[c] = "before" /\ open' = [open EXCEPT ![c] = @ \cup {cat[c]}]
        /\ UNCHANGED <<lock, sealed, told>> /\ UNCHANGED reqVars
    BY DEF BeforeOk, BeforeRejects
  <1>2. PICK p \in ChildPCs, n \in 0 .. K :
          /\ Move(c, p, n)
          /\ \/ p = "before" /\ cat[c] < K /\ n = cat[c] + 1
             \/ p = "seal" /\ cat[c] = K /\ n = K
             \/ p = "unwind" /\ n = cat[c]
    <2>1. cat[c] \in Module
      BY <1>1, ChildFacts DEF Shape, InStack
    <2>2. CASE BeforeRejects(c)
      BY <2>1, <2>2 DEF BeforeRejects, ChildPCs, Module
    <2>3. CASE BeforeOk(c) /\ cat[c] < K
      BY <2>1, <2>3, ChildRpcAssumption DEF BeforeOk, ChildPCs, Module
    <2>4. CASE BeforeOk(c) /\ ~(cat[c] < K)
      BY <2>1, <2>4, ChildRpcAssumption DEF BeforeOk, ChildPCs, Module
    <2> QED BY <2>2, <2>3, <2>4
  <1>3. /\ cat[c] \in Module
        /\ \A m \in Module : m \in open[c] <=> m < cat[c]
        /\ sealed[c] = {} /\ Suffix(sealed[c])
        /\ \A m \in Module : told[c][m] = 0
    BY <1>1, ChildFacts DEF Shape, InStack
  <1>4. /\ open' \in [Child -> SUBSET Module] /\ open'[c] = open[c] \cup {cat[c]}
        /\ \A d \in Child \ {c} : open'[d] = open[d]
    BY <1>1, <1>3 DEF StackIInv, TypeOK
  <1>5. cpc'[c] = p /\ cat'[c] = n /\ sealed'[c] = {} /\ told'[c] = told[c]
    BY <1>1, <1>2, <1>3 DEF StackIInv, TypeOK, Move
  <1>6. \A m \in Module : m \in open'[c] <=> m <= cat[c]
    BY <1>3, <1>4, ChildFacts DEF Module
  <1>7. Shape(c)'
    <2>1. Suffix(sealed[c])'
      BY <1>1, <1>3 DEF Suffix
    <2>2. p = "before" => \A m \in Module : m \in open'[c] <=> m < n
      BY <1>2, <1>3, <1>6, ChildFacts DEF Module
    <2>3. p = "seal" => open'[c] = Module
      BY <1>2, <1>4, <1>6, ChildFacts DEF Module
    <2>4. /\ p \in {"before", "seal", "unwind"} /\ n \in Module
          /\ (p = "unwind" => n = cat[c]) /\ (p = "seal" => n = K)
      BY <1>2, <1>3, ChildFacts DEF Module
    <2>5. \A m \in Module : told'[c][m] = 0
      BY <1>3, <1>5
    <2>6. p = "seal" => \A m \in Module : m \in sealed'[c] <=> m > n
      BY <1>5, <2>4, ChildFacts DEF Module
    <2>7. CASE p = "before"
      BY <1>5, <2>1, <2>2, <2>4, <2>5, <2>7 DEF Shape, InStack
    <2>8. CASE p = "seal"
      BY <1>5, <2>1, <2>3, <2>4, <2>5, <2>6, <2>8 DEF Shape, InStack
    <2>9. CASE p = "unwind"
      <3>1. ToldDown(told'[c], sealed'[c], n)
        BY <1>3, <1>5, <2>4, <2>5, <2>9, ChildFacts DEF ToldDown, Module
      <3> QED BY <1>5, <1>6, <2>1, <2>4, <2>5, <2>9, <3>1 DEF Shape, InStack
    <2> QED BY <2>4, <2>7, <2>8, <2>9
  <1>8. UNCHANGED lock /\ (InStack(c) <=> InStack(c)')
    BY <1>1, <1>2, <1>5 DEF InStack
  <1>9. c \in Inline => phase = "handler"
    BY <1>1, ChildFacts DEF InHook
  <1>10. sealed' \in [Child -> SUBSET Module] /\ told' \in [Child -> [Module -> Nat]]
    BY <1>1 DEF StackIInv, TypeOK
  <1> QED BY <1>1, <1>2, <1>4, <1>7, <1>8, <1>9, <1>10, ChildMoves

\* after_child_rpc of a module, for a child RPC that was rejected or sent.
LEMMA TellInv ==
  ASSUME StackIInv, NEW c \in Child, NEW from \in {"unwind", "after"}, Tell(c, from)
  PROVE  StackIInv'
  <1>1. /\ cpc[c] = from /\ UNCHANGED sealed /\ UNCHANGED reqVars
        /\ open' = [open EXCEPT ![c] = @ \ {cat[c]}]
        /\ told' = [told EXCEPT ![c][cat[c]] = @ + 1]
    BY DEF Tell
  <1>2. /\ cat[c] \in Module
        /\ \A m \in Module : m \in open[c] <=> m <= cat[c]
        /\ Suffix(sealed[c])
        /\ \A m \in Module : told[c][m] <= 1 /\ (m \in open[c] => told[c][m] = 0)
    BY <1>1, ChildFacts DEF Shape, InStack
  <1>3. PICK p \in ChildPCs, n \in 0 .. K :
          /\ Move(c, p, n)
          /\ \/ p = from /\ cat[c] > 1 /\ n = cat[c] - 1 /\ UNCHANGED lock
             \/ p = "over" /\ cat[c] = 1 /\ n = 0 /\ lock' = Free
    <2>1. CASE cat[c] > 1
      BY <1>2, <2>1, ChildRpcAssumption DEF Tell, ChildPCs, Module
    <2>2. CASE ~(cat[c] > 1)
      BY <1>2, <2>2, ChildRpcAssumption DEF Tell, ChildPCs, Module
    <2> QED BY <2>1, <2>2
  <1>4. /\ open' \in [Child -> SUBSET Module] /\ open'[c] = open[c] \ {cat[c]}
        /\ \A d \in Child \ {c} : open'[d] = open[d]
    BY <1>1 DEF StackIInv, TypeOK
  <1>5. /\ told' \in [Child -> [Module -> Nat]]
        /\ \A d \in Child \ {c} : told'[d] = told[d]
        /\ \A m \in Module : told'[c][m] = IF m = cat[c] THEN told[c][m] + 1 ELSE told[c][m]
    BY <1>1, <1>2 DEF StackIInv, TypeOK
  <1>6. cpc'[c] = p /\ cat'[c] = n
    BY <1>3 DEF StackIInv, TypeOK, Move
  <1>7. Shape(c)'
    <2>1. Suffix(sealed[c])'
      BY <1>1, <1>2 DEF Suffix
    <2>2. \A m \in Module : m \in open'[c] <=> m <= n
      BY <1>2, <1>3, <1>4, ChildFacts DEF Module
    <2>3. p = "over" => open'[c] = {}
      BY <1>3, <1>4, <2>2 DEF Module
    <2>4. \A m \in Module : told'[c][m] <= 1 /\ (m \in open'[c] => told'[c][m] = 0)
      BY <1>2, <1>4, <1>5, ChildFacts
    <2>5. /\ p \in {"unwind", "after", "over"} /\ (p # "over" => n \in Module)
          /\ p = "over" => n = 0
      BY <1>2, <1>3, ChildFacts DEF Module
    <2>6. ToldDown(told'[c], sealed'[c], n)
      <3>1. ToldDown(told[c], sealed[c], cat[c])
        BY <1>1, ChildFacts DEF Shape
      <3>2. PICK r \in Module :
              /\ cat[c] <= r /\ (sealed[c] # {} => r = K)
              /\ \A m \in Module : told[c][m] = IF cat[c] < m /\ m <= r THEN 1 ELSE 0
        BY <3>1 DEF ToldDown
      <3>3. n <= r /\ (sealed'[c] # {} => r = K) /\ n = cat[c] - 1
        BY <1>1, <1>2, <1>3, <3>2, ChildFacts DEF Module
      <3>4. ASSUME NEW m \in Module PROVE told'[c][m] = IF n < m /\ m <= r THEN 1 ELSE 0
        BY <1>2, <1>5, <3>2, <3>3, ChildFacts DEF Module
      <3> QED BY <3>3, <3>4 DEF ToldDown
    <2> QED BY <1>6, <2>1, <2>2, <2>3, <2>4, <2>5, <2>6 DEF Shape, InStack
  <1>8. \/ UNCHANGED lock /\ (InStack(c) <=> InStack(c)')
        \/ lock = c /\ lock' = Free /\ ~InStack(c)'
    BY <1>1, <1>3, <1>6, ChildFacts DEF InStack
  <1>9. c \in Inline => phase = "handler"
    BY <1>1, ChildFacts DEF InHook
  <1>10. sealed' \in [Child -> SUBSET Module]
    BY <1>1 DEF StackIInv, TypeOK
  <1> QED BY <1>1, <1>3, <1>4, <1>5, <1>7, <1>8, <1>9, <1>10, ChildMoves

\* seal_child_rpc of a module that seals.
LEMMA SealInv ==
  ASSUME StackIInv, NEW c \in Child, SealOk(c)
  PROVE  StackIInv'
  <1>1. /\ cpc[c] = "seal" /\ UNCHANGED <<open, told>> /\ UNCHANGED reqVars
        /\ sealed' = [sealed EXCEPT ![c] = @ \cup {cat[c]}]
    BY DEF SealOk
  <1>2. /\ cat[c] \in Module /\ open[c] = Module
        /\ \A m \in Module : m \in sealed[c] <=> m > cat[c]
        /\ \A m \in Module : told[c][m] = 0
    BY <1>1, ChildFacts DEF Shape, InStack
  <1>3. PICK p \in ChildPCs, n \in 0 .. K :
          /\ Move(c, p, n)
          /\ \/ p = "seal" /\ cat[c] > 1 /\ n = cat[c] - 1 /\ UNCHANGED lock
             \/ p = "send" /\ cat[c] = 1 /\ n = 0 /\ lock' = Free
    <2>1. CASE cat[c] > 1
      BY <1>2, <2>1, ChildRpcAssumption DEF SealOk, ChildPCs, Module
    <2>2. CASE ~(cat[c] > 1)
      BY <1>2, <2>2, ChildRpcAssumption DEF SealOk, ChildPCs, Module
    <2> QED BY <2>1, <2>2
  <1>4. /\ sealed' \in [Child -> SUBSET Module] /\ sealed'[c] = sealed[c] \cup {cat[c]}
        /\ \A d \in Child \ {c} : sealed'[d] = sealed[d]
    BY <1>1, <1>2 DEF StackIInv, TypeOK
  <1>5. /\ cpc'[c] = p /\ cat'[c] = n /\ open'[c] = Module
        /\ \A m \in Module : told'[c][m] = 0
    BY <1>1, <1>2, <1>3 DEF StackIInv, TypeOK, Move
  <1>6. \A m \in Module : m \in sealed'[c] <=> m >= cat[c]
    BY <1>2, <1>4, ChildFacts DEF Module
  <1>7. Shape(c)'
    <2>1. Suffix(sealed[c])'
      <3>1. sealed'[c] = cat[c] .. K /\ cat[c] \in 1 .. K + 1
        BY <1>2, <1>4, <1>6, ChildFacts DEF Module
      <3> QED BY <3>1 DEF Suffix
    <2>2. p = "seal" => \A m \in Module : m \in sealed'[c] <=> m > n
      BY <1>2, <1>3, <1>6, ChildFacts DEF Module
    <2>3. p = "send" => sealed'[c] = Module
      BY <1>3, <1>4, <1>6 DEF Module
    <2>4. p \in {"seal", "send"} /\ (p = "seal" => n \in Module)
      BY <1>2, <1>3, ChildFacts DEF Module
    <2> QED BY <1>5, <2>1, <2>2, <2>3, <2>4 DEF Shape, InStack
  <1>8. \/ UNCHANGED lock /\ (InStack(c) <=> InStack(c)')
        \/ lock = c /\ lock' = Free /\ ~InStack(c)'
    BY <1>1, <1>3, <1>5, ChildFacts DEF InStack
  <1>9. c \in Inline => phase = "handler"
    BY <1>1, ChildFacts DEF InHook
  <1>10. open' \in [Child -> SUBSET Module] /\ told' \in [Child -> [Module -> Nat]]
    BY <1>1 DEF StackIInv, TypeOK
  <1> QED BY <1>1, <1>3, <1>4, <1>7, <1>8, <1>9, <1>10, ChildMoves

\* The steps that leave open, sealed and told alone.
LEMMA MoveInv ==
  ASSUME StackIInv, NEW c \in Child,
         \/ Begin(c) \/ SealRejects(c) \/ Send(c) \/ Respond(c) \/ BeginAfter(c) \/ DropChild(c)
  PROVE  StackIInv'
  <1>1. UNCHANGED <<open, sealed, told>> /\ UNCHANGED reqVars
    BY DEF Begin, SealRejects, Send, Respond, BeginAfter, DropChild
  <1>2. PICK p \in ChildPCs, n \in 0 .. K :
          /\ Move(c, p, n)
          /\ \/ Begin(c) /\ cpc[c] = "new" /\ p = "before" /\ n = 1
             \/ SealRejects(c) /\ cpc[c] = "seal" /\ p = "unwind" /\ n = K
             \/ Send(c) /\ cpc[c] = "send" /\ p = "sent"
             \/ Respond(c) /\ cpc[c] = "sent" /\ p = "received"
             \/ BeginAfter(c) /\ cpc[c] = "received" /\ p = "after" /\ n = K
             \/ DropChild(c) /\ cpc[c] \in {"sent", "received"} /\ p = "dropped"
    BY ChildRpcAssumption DEF Begin, SealRejects, Send, Respond, BeginAfter, DropChild, ChildPCs
  <1>3. cpc'[c] = p /\ cat'[c] = n
    BY <1>2 DEF StackIInv, TypeOK, Move
  <1>4. Shape(c)'
    <2>1. Shape(c) /\ K \in Nat \ {0} /\ open'[c] = open[c] /\ sealed'[c] = sealed[c] /\ told'[c] = told[c]
      BY <1>1, ChildFacts
    <2>2. Suffix(sealed[c])'
      BY <2>1 DEF Shape, Suffix
    <2>3. p \in {"unwind", "after"} => ToldDown(told'[c], sealed'[c], n)
      <3> SUFFICES ASSUME p \in {"unwind", "after"} PROVE ToldDown(told[c], sealed[c], n)
        BY <2>1
      <3>1. n = K /\ K \in Module /\ \A m \in Module : told[c][m] = 0
        BY <1>2, <2>1 DEF Shape, Module
      <3> QED BY <3>1 DEF ToldDown, Module
    <2> QED BY <1>2, <1>3, <2>1, <2>2, <2>3 DEF Shape, InStack, Module
  <1>5. \/ UNCHANGED lock /\ (InStack(c) <=> InStack(c)')
        \/ lock = Free /\ lock' = c /\ InStack(c)'
    BY <1>2, <1>3 DEF Begin, SealRejects, Send, Respond, BeginAfter, DropChild, Lock, InStack
  <1>6. c \in Inline => phase = "handler" \/ (cpc[c] = "sent" /\ p = "received")
    BY <1>2, ChildFacts DEF Begin, BeginAfter, DropChild, CallerRuns, InHook
  <1>7. /\ open' \in [Child -> SUBSET Module] /\ sealed' \in [Child -> SUBSET Module]
        /\ told' \in [Child -> [Module -> Nat]]
    BY <1>1 DEF StackIInv, TypeOK
  <1> QED BY <1>1, <1>2, <1>4, <1>5, <1>6, <1>7, ChildMoves

-----------------------------------------------------------------------------
(* Steps of the request.                                                   *)

\* The steps of a stack call over the request, and those between two calls,
\* change no child RPC; the loss of the handler changes where some are.
LEMMA RequestInv ==
  ASSUME StackIInv,
         \/ DecodeOk \/ DecodeFails \/ DropRequest \/ BeforePoll \/ HandlerPanics \/ RequestStep
         \/ \E r \in BOOLEAN : HandlerReturns(r)
  PROVE  StackIInv'
  <1> USE ChildRpcAssumption
  <1>1. CASE DropHandler \/ DropRequest \/ HandlerPanics
    <2>1. /\ \A c \in Child : cpc'[c] = IF c \in Inline /\ cpc[c] \in {"sent", "received"}
                                       THEN "dropped" ELSE cpc[c]
          /\ cpc' \in [Child -> ChildPCs]
      BY <1>1 DEF DropHandler, DropRequest, HandlerPanics, LosesHandler, StackIInv, TypeOK, ChildPCs
    <2>2. /\ UNCHANGED <<at, entered, ready, ended_by, finalized, lock, cat, open, sealed, told>>
          /\ \/ phase = "drop" /\ phase' = "to_finalize"
             \/ phase \in {"decode", "between"} /\ phase' = "done"
             \/ phase = "handler" /\ ~HandlerBusy /\ phase' = "done"
      BY <1>1 DEF DropHandler, DropRequest, HandlerPanics, LosesHandler
    <2>3. TypeOK'
      BY <2>1, <2>2 DEF StackIInv, TypeOK, Phases
    <2>4. LockHeld'
      BY <2>1, <2>2 DEF StackIInv, LockHeld, InStack
    <2>5. ASSUME NEW c \in Child PROVE Shape(c)'
      <3>1. Shape(c)
        BY DEF StackIInv
      <3>2. /\ cpc'[c] = cpc[c] \/ (cpc[c] \in {"sent", "received"} /\ cpc'[c] = "dropped")
            /\ cat'[c] = cat[c] /\ open'[c] = open[c] /\ sealed'[c] = sealed[c] /\ told'[c] = told[c]
        BY <2>1, <2>2
      <3> QED BY <3>1, <3>2 DEF Shape, InStack
    <2>6. Handled'
      <3>1. ASSUME NEW c \in Inline PROVE cpc'[c] \in {"new", "over", "dropped"}
        <4>1. ~InHook(c) /\ cpc[c] \in ChildPCs /\ c \in Child
          BY <2>2 DEF StackIInv, TypeOK, Handled, HandlerBusy
        <4> QED BY <2>1, <4>1 DEF InHook, ChildPCs
      <3> QED BY <2>2, <3>1 DEF StackIInv, Handled, InHook
    <2> QED BY <2>3, <2>4, <2>5, <2>6 DEF StackIInv
  <1>2. ASSUME UNCHANGED childVars, TypeOK', LockHeld', Handled' PROVE StackIInv'
    <2>1. ASSUME NEW c \in Child PROVE Shape(c)'
      <3>1. Shape(c)
        BY DEF StackIInv
      <3> QED BY <1>2, <3>1 DEF Shape, InStack, childVars
    <2> QED BY <1>2, <2>1 DEF StackIInv
  <1>3. CASE DecodeOk \/ DecodeFails
    <2>1. UNCHANGED childVars
      BY <1>3 DEF DecodeOk, DecodeFails
    <2>2. TypeOK' /\ LockHeld' /\ Handled'
      BY <1>3 DEF DecodeOk, DecodeFails, childVars, StackIInv, TypeOK, Phases,
                  LockHeld, InStack, Handled, InHook
    <2> QED BY <1>2, <2>1, <2>2
  <1>4. CASE BeforePoll \/ BeginFinalize \/ \E r \in BOOLEAN : HandlerReturns(r)
    <2>1. /\ UNCHANGED childVars /\ UNCHANGED <<entered, ended_by, finalized>>
          /\ lock = Free /\ lock' = Request
          /\ \/ phase = "between" /\ phase' = "before_poll" /\ at' = 1 /\ UNCHANGED ready
             \/ phase = "to_finalize" /\ phase' = "finalize" /\ at' = K /\ UNCHANGED ready
             \/ /\ phase = "handler" /\ ~HandlerBusy /\ phase' = "after_poll" /\ at' = 1
                /\ ready' \in BOOLEAN
      BY <1>4 DEF BeforePoll, BeginFinalize, HandlerReturns, BeginCall
    <2>2. TypeOK'
      BY <2>1 DEF childVars, StackIInv, TypeOK, Phases
    <2>3. LockHeld'
      BY <2>1 DEF childVars, StackIInv, LockHeld, InStack
    <2>4. Handled'
      BY <2>1 DEF childVars, StackIInv, TypeOK, Handled, InHook, HandlerBusy, Module
    <2> QED BY <1>2, <2>1, <2>2, <2>3, <2>4
  <1>5. CASE BeforePollOk \/ AfterPollOk \/ FinalizeStep
    <2>1. /\ UNCHANGED childVars /\ UNCHANGED <<ready, ended_by>>
          /\ lock = Request /\ entered' \in BOOLEAN
          /\ phase \in {"before_poll", "after_poll", "finalize"}
          /\ \/ UNCHANGED <<phase, lock>>
             \/ /\ at' = 0 /\ lock' = Free
                /\ \/ phase = "before_poll" /\ phase' = "handler"
                   \/ phase = "after_poll" /\ (phase' = "drop" \/ (phase' = "between" /\ ~ready))
                   \/ phase = "finalize" /\ phase' = "done" /\ at = 1
          /\ phase # "finalize" => finalized' = finalized
          /\ phase = "finalize" => finalized' = finalized \cup {at}
          /\ phase' = phase => at' = IF phase = "finalize" THEN at - 1 ELSE at + 1
          /\ phase' = phase => IF phase = "finalize" THEN at > 1 ELSE at < K
      <3> USE DEF InCall, NextModule, EndCall
      <3>1. at \in Module /\ entered \in BOOLEAN
        BY <1>5 DEF BeforePollOk, AfterPollOk, FinalizeStep, StackIInv, TypeOK, Handled
      <3>2. CASE BeforePollOk
        BY <3>1, <3>2 DEF BeforePollOk
      <3>3. CASE AfterPollOk
        BY <3>1, <3>3 DEF AfterPollOk
      <3>4. CASE FinalizeStep
        <4>1. CASE at > 1
          BY <3>1, <3>4, <4>1 DEF FinalizeStep
        <4>2. CASE ~(at > 1)
          BY <3>1, <3>4, <4>2 DEF FinalizeStep, Module
        <4> QED BY <4>1, <4>2
      <3> QED BY <1>5, <3>2, <3>3, <3>4
    <2>2. at \in Module /\ at' \in 0 .. K /\ (phase' = phase => at' \in Module)
      BY <2>1 DEF StackIInv, Handled, Module
    <2>3. TypeOK'
      BY <2>1, <2>2 DEF childVars, StackIInv, TypeOK, Phases, Module
    <2>4. LockHeld'
      BY <2>1 DEF childVars, StackIInv, LockHeld, InStack
    <2>5. CASE phase = "finalize"
      <3>1. \A m \in Module : m \in finalized' <=> m >= at
        BY <2>1, <2>2, <2>5 DEF StackIInv, Handled, Module
      <3>2. phase' = "finalize" => \A m \in Module : m \in finalized' <=> m > at'
        BY <2>1, <2>2, <2>5, <3>1 DEF Module
      <3>3. phase' = "done" => finalized' = Module
        <4> SUFFICES ASSUME phase' = "done" PROVE finalized' = Module
          OBVIOUS
        <4>1. at = 1 /\ finalized' \subseteq Module
          BY <2>1, <2>3, <2>5 DEF TypeOK
        <4>2. \A m \in Module : m >= 1
          BY DEF Module
        <4>3. Module \subseteq finalized'
          BY <3>1, <4>1, <4>2
        <4> QED BY <4>1, <4>3
      <3>4. phase' \in {"finalize", "done"} /\ (phase' = "finalize" => at' \in Module)
        BY <2>1, <2>2, <2>5
      <3>5. \A c \in Inline : cpc'[c] \in {"new", "over", "dropped"}
        BY <2>1, <2>5 DEF childVars, StackIInv, Handled
      <3>6. Handled'
        BY <3>2, <3>3, <3>4, <3>5 DEF Handled, InHook
      <3> QED BY <1>2, <2>1, <2>3, <2>4, <3>6
    <2>6. CASE phase # "finalize"
      <3>1. Handled'
        BY <2>1, <2>2, <2>6 DEF childVars, StackIInv, Handled, InHook
      <3> QED BY <1>2, <2>1, <2>3, <2>4, <3>1
    <2> QED BY <2>5, <2>6
  <1>6. CASE BeforePollEnds \/ AfterPollEnds
    <2>1. /\ UNCHANGED childVars /\ UNCHANGED <<entered, ready, finalized>>
          /\ lock = Request /\ lock' = Free /\ at' = 0
          /\ phase \in {"before_poll", "after_poll"} /\ phase' = "drop"
          /\ ended_by' = IF ended_by = 0 THEN at ELSE ended_by
      BY <1>6 DEF BeforePollEnds, AfterPollEnds, PollEnds, InCall, EndCall
    <2>2. TypeOK'
      BY <2>1 DEF childVars, StackIInv, TypeOK, Phases
    <2>3. LockHeld'
      BY <2>1 DEF childVars, StackIInv, LockHeld, InStack
    <2>4. Handled'
      BY <2>1 DEF childVars, StackIInv, Handled, InHook
    <2> QED BY <1>2, <2>1, <2>2, <2>3, <2>4
  <1> QED BY <1>1, <1>3, <1>4, <1>5, <1>6 DEF RequestStep

-----------------------------------------------------------------------------
(* The theorems.                                                           *)

\* The invariant of the stack of modules and the hooks around child RPCs
\* (Stack, ParentContext) holds in every state.
THEOREM StackInvariant == Spec => []StackIInv
  <1>1. Init => StackIInv
    <2> SUFFICES ASSUME Init PROVE StackIInv
      OBVIOUS
    <2>1. TypeOK
      <3>1. 0 \in 0 .. K
        BY ChildRpcAssumption
      <3>2. /\ cpc \in [Child -> ChildPCs] /\ cat \in [Child -> 0 .. K]
            /\ open \in [Child -> SUBSET Module] /\ sealed \in [Child -> SUBSET Module]
        BY <3>1 DEF Init, ChildPCs
      <3>3. told \in [Child -> [Module -> Nat]]
        BY DEF Init
      <3> QED BY <3>1, <3>2, <3>3 DEF Init, TypeOK, Phases
    <2>2. LockHeld
      BY ChildRpcAssumption DEF Init, LockHeld, InStack
    <2>3. ASSUME NEW c \in Child PROVE Shape(c)
      <3>1. Suffix({})
        <4>1. (K + 1) .. K = {} /\ K + 1 \in 1 .. K + 1
          BY ChildRpcAssumption
        <4> QED BY <4>1 DEF Suffix
      <3> QED BY <2>3, <3>1 DEF Init, Shape, InStack
    <2>4. Handled
      BY ChildRpcAssumption DEF Init, Handled, InHook
    <2> QED BY <2>1, <2>2, <2>3, <2>4 DEF StackIInv
  <1>2. StackIInv /\ [Next]_vars => StackIInv'
    <2> SUFFICES ASSUME StackIInv, [Next]_vars PROVE StackIInv'
      OBVIOUS
    <2>1. CASE UNCHANGED vars
      <3>1. UNCHANGED reqVars /\ UNCHANGED lock /\ UNCHANGED childVars
        BY <2>1 DEF vars
      <3> QED BY <3>1 DEF reqVars, childVars, StackIInv, TypeOK, LockHeld, InStack,
                          Shape, Suffix, Handled, InHook
    <2>2. ASSUME NEW c \in Child,
                 Begin(c) \/ ChildStep(c) \/ Respond(c) \/ BeginAfter(c) \/ DropChild(c)
          PROVE  StackIInv'
      BY <2>2, BeforeInv, TellInv, SealInv, MoveInv DEF ChildStep, Unwind, AfterStep
    <2> QED BY <2>1, <2>2, RequestInv DEF Next
  <1> QED BY <1>1, <1>2, PTL DEF Spec

\* ParentContext: one stack call at a time on a request, whatever tasks it
\* spawned on whatever threads.
THEOREM OneStackCall == Spec => []StackInv
  <1>1. StackIInv => StackInv
    <2> SUFFICES ASSUME StackIInv PROVE OneCall
      BY DEF StackIInv, StackInv
    <2> DEFINE S == {c \in Child : cpc[c] \in {"before", "unwind", "seal", "after"}}
    <2>1. S = {c \in Child : lock = c}
      BY DEF StackIInv, LockHeld, InStack
    <2>2. CASE lock \in Child
      <3>1. S = {lock}
        BY <2>1, <2>2
      <3>2. Cardinality(S) = 1
        BY <3>1, FS_Singleton
      <3>3. phase \notin {"before_poll", "after_poll", "finalize"}
        BY <2>2, ChildRpcAssumption DEF StackIInv, LockHeld
      <3> QED BY <3>2, <3>3 DEF OneCall
    <2>3. CASE lock \notin Child
      <3>1. S = {}
        BY <2>1, <2>3
      <3>2. Cardinality(S) = 0
        BY <3>1, FS_EmptySet
      <3> QED BY <3>2 DEF OneCall
    <2> QED BY <2>2, <2>3
  <1> QED BY <1>1, StackInvariant, PTL

\* Module::after_child_rpc is called at most once per child RPC and module and
\* only where before_child_rpc ran; when the client's call has returned, it was
\* called exactly once for the modules up to the rejecter, for all if any had
\* sealed.  For a child RPC that was dropped it was not called at all.
THEOREM EndToldOnce == Spec => []ToldOnce
  <1>1. StackIInv => ToldOnce
    <2> SUFFICES ASSUME StackIInv, NEW c \in Child
                 PROVE  /\ \A m \in Module : told[c][m] + (IF m \in open[c] THEN 1 ELSE 0) <= 1
                        /\ cpc[c] = "over" => open[c] = {} /\ ToldDown(told[c], sealed[c], 0)
                        /\ cpc[c] = "dropped" => open[c] = Module
      BY DEF ToldOnce
    <2> QED BY ChildFacts DEF Shape
  <1> QED BY <1>1, StackInvariant, PTL

\* Stack: the hooks of a child RPC nest, and it is sent only sealed by all.
THEOREM HooksNest == Spec => []Nested
  <1>1. StackIInv => Nested
    <2> SUFFICES ASSUME StackIInv, NEW c \in Child
                 PROVE  /\ Prefix(open[c]) /\ Suffix(sealed[c])
                        /\ cpc[c] = "before" => sealed[c] = {}
                        /\ cpc[c] \in {"seal", "send", "sent", "received"} => open[c] = Module
                        /\ cpc[c] \in {"send", "sent", "received"} => sealed[c] = Module
      BY DEF Nested
    <2>1. PICK n \in 0 .. K : \A m \in Module : m \in open[c] <=> m <= n
      <3> USE ChildFacts DEF Shape, InStack, Module
      <3>1. CASE cpc[c] = "before"
        <4>1. cat[c] - 1 \in 0 .. K /\ \A m \in Module : m \in open[c] <=> m <= cat[c] - 1
          BY <3>1
        <4> QED BY <4>1
      <3>2. CASE cpc[c] \in {"unwind", "after"}
        BY <3>2
      <3>3. CASE cpc[c] \in {"new", "over"}
        <4>1. 0 \in 0 .. K /\ \A m \in Module : m \in open[c] <=> m <= 0
          BY <3>3
        <4> QED BY <4>1
      <3>4. CASE cpc[c] \in {"seal", "send", "sent", "received", "dropped"}
        <4>1. K \in 0 .. K /\ \A m \in Module : m \in open[c] <=> m <= K
          BY <3>4
        <4> QED BY <4>1
      <3> QED BY <3>1, <3>2, <3>3, <3>4 DEF ChildPCs
    <2>2. open[c] = 1 .. n
      <3>1. K \in Nat /\ open[c] \subseteq 1 .. K
        BY ChildFacts DEF Module
      <3>2. \A m \in 1 .. n : m \in open[c]
        BY <2>1, <3>1 DEF Module
      <3>3. \A m \in open[c] : m \in 1 .. n
        BY <2>1, <3>1 DEF Module
      <3> QED BY <3>2, <3>3
    <2> QED BY <2>2, ChildFacts DEF Prefix, Shape
  <1> QED BY <1>1, StackInvariant, PTL

\* masa_unary: a request whose handler returned or that a module ended is
\* finalized by every module, one that was given up by none, and the handler has
\* no child RPC under way by then.
THEOREM RequestFinalizedOnce == Spec => []FinalizedOnce
  <1>1. StackIInv => FinalizedOnce
    BY ChildRpcAssumption DEF StackIInv, Handled, FinalizedOnce
  <1> QED BY <1>1, StackInvariant, PTL

\* The stack with its estimation module in place (EstimationModule in the
\* Masa policy's stack) takes the steps of the stack and no others,
LEMMA FanoutStep == [FanoutNext]_allVars => [Next]_vars
  <1> SUFFICES ASSUME [FanoutNext]_allVars PROVE [Next]_vars
    OBVIOUS
  <1>1. CASE UNCHANGED allVars
    BY <1>1 DEF allVars
  <1>2. CASE EstRequestStep
    BY <1>2 DEF EstRequestStep, EstFinalize, RequestStep, Next
  <1>3. ASSUME NEW c \in Child, EstChildStep(c) PROVE Next
    BY <1>3 DEF EstChildStep, EstBefore, EstAfter, ChildStep, Next
  <1>4. CASE FanoutNext /\ ~EstRequestStep /\ ~\E c \in Child : EstChildStep(c)
    <2>1. \/ DecodeOk \/ DecodeFails \/ DropRequest \/ BeforePoll \/ HandlerPanics
          \/ \E r \in BOOLEAN : HandlerReturns(r)
          \/ \E c \in Child : Begin(c) \/ Respond(c) \/ BeginAfter(c) \/ DropChild(c)
      BY <1>4 DEF FanoutNext
    <2> QED BY <2>1 DEF Next
  <1> QED BY <1>1, <1>2, <1>3, <1>4

\* so all of the above holds of it.
THEOREM FanoutIsStack == FanoutSpec => Spec
  <1>1. FanoutInit => Init
    BY DEF FanoutInit
  <1> QED BY <1>1, FanoutStep, PTL DEF FanoutSpec, Spec

-----------------------------------------------------------------------------
(***************************************************************************)
(* The records of the estimation module                                    *)
(***************************************************************************)

ChildRecord == [id : Child, start : Nat, end : Nat, terminal : BOOLEAN]

\* begin_child: records are in the order of their starts, as sort_by_key in
\* recover_path_groups wants them.
SortedByStart ==
  \A i, j \in DOMAIN children : i <= j => children[i].start <= children[j].start

\* record_child_complete: a record that has an end began before it, and
\* nothing is in the future.
EndsAfterStart ==
  \A i \in DOMAIN children :
    /\ children[i].start <= clock /\ children[i].end <= clock
    /\ children[i].end # 0 => children[i].terminal /\ children[i].start < children[i].end

\* refresh_path_prefix_before_open_group: what is folded into the path is
\* there, and has ended.
FoldedHasEnded ==
  /\ folded \in 0 .. Len(children)
  /\ \A i \in 1 .. folded : children[i].terminal

RecordsInv ==
  /\ children \in Seq(ChildRecord) /\ clock \in Nat
  /\ SortedByStart /\ EndsAfterStart /\ FoldedHasEnded

\* The leading records that are folded have all ended, and the one after them
\* is open if any is.
LEMMA TerminalLenFacts ==
  ASSUME RecordsInv
  PROVE  /\ TerminalLen \in 0 .. Len(children) - folded
         /\ \A i \in 1 .. folded + TerminalLen : children[i].terminal
         /\ Open # {} => /\ TerminalLen < Len(children) - folded
                         /\ ~children[folded + TerminalLen + 1].terminal
         /\ SubSeq(Pending, 1, TerminalLen) \in Seq(ChildRecord)
         /\ Len(SubSeq(Pending, 1, TerminalLen)) = TerminalLen
         /\ \A i \in 1 .. TerminalLen : SubSeq(Pending, 1, TerminalLen)[i] = children[folded + i]
  <1>1. /\ children \in Seq(ChildRecord) /\ folded \in 0 .. Len(children) /\ Len(children) \in Nat
        /\ \A i \in 1 .. folded : children[i].terminal
    BY DEF RecordsInv, FoldedHasEnded
  <1>2. /\ Pending \in Seq(ChildRecord) /\ Len(Pending) \in Nat
        /\ Len(Pending) = Len(children) - folded /\ DOMAIN Pending = 1 .. Len(Pending)
        /\ \A i \in 1 .. Len(Pending) : Pending[i] = children[folded + i]
    <2>1. \A i \in folded + 1 .. Len(children) : children[i] \in ChildRecord
      BY <1>1
    <2>2. /\ Pending \in Seq(ChildRecord)
          /\ Len(Pending) = IF folded + 1 <= Len(children) THEN Len(children) - (folded + 1) + 1 ELSE 0
          /\ \A i \in 1 .. Len(children) - (folded + 1) + 1 : Pending[i] = children[folded + 1 + i - 1]
      BY <1>1, <2>1, SubSeqProperties DEF Pending
    <2>3. Len(Pending) = Len(children) - folded
      <3>1. PICK n \in Nat, f \in Nat : n = Len(children) /\ f = folded /\ f <= n
        BY <1>1
      <3>2. (IF f + 1 <= n THEN n - (f + 1) + 1 ELSE 0) = n - f
        BY <3>1
      <3> QED BY <2>2, <3>1, <3>2
    <2>4. ASSUME NEW i \in 1 .. Len(Pending) PROVE Pending[i] = children[folded + i]
      <3>1. i \in 1 .. Len(children) - (folded + 1) + 1 /\ folded + 1 + i - 1 = folded + i
        BY <1>1, <2>3
      <3> QED BY <2>2, <3>1
    <2> QED BY <2>2, <2>3, <2>4
  <1> DEFINE running == {i \in DOMAIN Pending : ~Pending[i].terminal}
  <1>3. TerminalLen = IF running = {} THEN Len(Pending) ELSE Min(running) - 1
    BY DEF TerminalLen
  <1>4. /\ TerminalLen \in 0 .. Len(Pending)
        /\ \A i \in 1 .. TerminalLen : i \in DOMAIN Pending /\ i \notin running
        /\ running # {} => TerminalLen + 1 \in running
    <2>1. CASE running = {}
      BY <1>1, <1>2, <1>3, <2>1
    <2>2. CASE running # {}
      <3>1. running \in SUBSET Nat /\ running \subseteq 1 .. Len(Pending)
        BY <1>2
      <3> HIDE DEF running
      <3>2. PICK n \in running : \A m \in running : n <= m
        BY <2>2, <3>1, LeastNat
      <3>3. Min(running) \in running /\ \A m \in running : Min(running) <= m
        BY <3>2 DEF Min
      <3>4. Min(running) \in 1 .. Len(Pending) /\ Len(Pending) \in Nat
        <4>1. Min(running) \in 1 .. Len(Pending)
          BY <3>1, <3>3
        <4>2. Len(Pending) \in Nat
          BY <1>1, <1>2
        <4> QED BY <4>1, <4>2
      <3>5. ASSUME NEW i \in 1 .. Min(running) - 1 PROVE i \in DOMAIN Pending /\ i \notin running
        BY <1>2, <3>1, <3>3, <3>4
      <3>6. TerminalLen = Min(running) - 1
        BY <1>3, <2>2
      <3>7. TerminalLen + 1 \in running /\ TerminalLen \in 0 .. Len(Pending)
        <4>1. TerminalLen + 1 = Min(running) /\ TerminalLen \in 0 .. Len(Pending)
          BY <3>4, <3>6
        <4> QED BY <3>3, <4>1
      <3> QED BY <3>5, <3>6, <3>7
    <2> QED BY <2>1, <2>2
  <1>5. ASSUME NEW i \in 1 .. folded + TerminalLen PROVE children[i].terminal
    <2>1. CASE i <= folded
      BY <1>1, <2>1
    <2>2. CASE i > folded
      <3>1. i - folded \in 1 .. TerminalLen /\ folded + (i - folded) = i
        BY <1>1, <1>2, <1>4, <2>2
      <3>2. Pending[i - folded].terminal
        BY <1>4, <3>1
      <3> QED BY <1>2, <1>4, <3>1, <3>2
    <2> QED BY <1>1, <1>4, <2>1, <2>2
  <1>6. ASSUME Open # {}
        PROVE  /\ TerminalLen < Len(children) - folded
               /\ ~children[folded + TerminalLen + 1].terminal
    <2>1. PICK i \in 1 .. Len(children) : ~children[i].terminal
      BY <1>6 DEF Open, ToSet, RecordsInv
    <2>2. ~(i <= folded)
      BY <1>1, <2>1
    <2>3. i - folded \in 1 .. Len(Pending) /\ folded + (i - folded) = i
      BY <1>1, <1>2, <2>2
    <2>4. i - folded \in running
      BY <1>2, <2>1, <2>3
    <2>5. TerminalLen + 1 \in running
      <3> HIDE DEF running
      <3> QED BY <1>4, <2>4
    <2>6. TerminalLen + 1 \in 1 .. Len(Pending) /\ ~Pending[TerminalLen + 1].terminal
      BY <1>2, <2>5
    <2>7. folded + TerminalLen + 1 = folded + (TerminalLen + 1)
      BY <1>1, <1>2, <1>4
    <2>8. ~children[folded + (TerminalLen + 1)].terminal
      <3>1. Pending[TerminalLen + 1] = children[folded + (TerminalLen + 1)]
        BY <1>2, <2>6
      <3> QED BY <2>6, <3>1
    <2>9. TerminalLen < Len(Pending)
      BY <1>2, <1>4, <2>6
    <2> QED BY <1>2, <2>7, <2>8, <2>9
  <1>7. /\ SubSeq(Pending, 1, TerminalLen) \in Seq(ChildRecord)
        /\ Len(SubSeq(Pending, 1, TerminalLen)) = TerminalLen
        /\ \A i \in 1 .. TerminalLen : SubSeq(Pending, 1, TerminalLen)[i] = Pending[i]
    BY <1>2, <1>4, FirstRecords
  <1>8. \A i \in 1 .. TerminalLen : SubSeq(Pending, 1, TerminalLen)[i] = children[folded + i]
    BY <1>2, <1>4, <1>7
  <1> QED BY <1>2, <1>4, <1>5, <1>6, <1>7, <1>8

LEMMA BeginChildRecords ==
  ASSUME RecordsInv, NEW c \in Child, BeginChild(c)
  PROVE  RecordsInv'
  <1>1. /\ children \in Seq(ChildRecord) /\ clock \in Nat /\ Len(children) \in Nat
        /\ folded \in 0 .. Len(children)
        /\ \A i \in 1 .. Len(children) : children[i] \in ChildRecord
    BY DEF RecordsInv, FoldedHasEnded
  <1>2. clock' \in Nat /\ clock <= clock'
    BY <1>1 DEF BeginChild, BeginTimes
  <1> DEFINE new == [id |-> c, start |-> clock', end |-> 0, terminal |-> FALSE]
  <1>3. new \in ChildRecord
    BY <1>2 DEF ChildRecord
  <1>4. /\ children' \in Seq(ChildRecord) /\ Len(children') = Len(children) + 1
        /\ children'[Len(children) + 1] = new
        /\ \A i \in 1 .. Len(children) : children'[i] = children[i]
    BY <1>1, <1>3, AppendProperties DEF BeginChild
  <1>5. DOMAIN children = 1 .. Len(children) /\ DOMAIN children' = 1 .. Len(children) + 1
    BY <1>1, <1>4
  <1>6. \A i \in 1 .. Len(children) :
          /\ children[i].start \in Nat /\ children[i].end \in Nat
          /\ children[i].start <= clock' /\ children[i].end <= clock'
    <2> TAKE i \in 1 .. Len(children)
    <2>1. children[i].start \in Nat /\ children[i].end \in Nat
      BY <1>1 DEF ChildRecord
    <2>2. children[i].start <= clock /\ children[i].end <= clock
      BY <1>5 DEF RecordsInv, EndsAfterStart
    <2> QED BY <1>1, <1>2, <2>1, <2>2
  <1>7. SortedByStart'
    <2> SUFFICES ASSUME NEW i \in 1 .. Len(children) + 1, NEW j \in 1 .. Len(children) + 1, i <= j
                 PROVE  children'[i].start <= children'[j].start
      BY <1>5 DEF SortedByStart
    <2>1. CASE j = Len(children) + 1
      <3>1. children'[j].start = clock'
        BY <1>4, <2>1
      <3>2. CASE i = j
        BY <1>2, <3>1, <3>2
      <3>3. CASE i # j
        BY <1>1, <1>4, <1>6, <2>1, <3>1, <3>3
      <3> QED BY <3>2, <3>3
    <2>2. CASE j # Len(children) + 1
      <3>1. i \in 1 .. Len(children) /\ j \in 1 .. Len(children)
        BY <1>1, <2>2
      <3> QED BY <1>4, <1>5, <3>1 DEF RecordsInv, SortedByStart
    <2> QED BY <2>1, <2>2
  <1>8. EndsAfterStart'
    <2> SUFFICES ASSUME NEW i \in 1 .. Len(children) + 1
                 PROVE  /\ children'[i].start <= clock' /\ children'[i].end <= clock'
                        /\ children'[i].end # 0 =>
                             children'[i].terminal /\ children'[i].start < children'[i].end
      BY <1>5 DEF EndsAfterStart
    <2>1. CASE i = Len(children) + 1
      BY <1>2, <1>4, <2>1
    <2>2. CASE i # Len(children) + 1
      <3>1. i \in 1 .. Len(children) /\ children'[i] = children[i]
        BY <1>1, <1>4, <2>2
      <3> QED BY <1>5, <1>6, <3>1 DEF RecordsInv, EndsAfterStart
    <2> QED BY <2>1, <2>2
  <1>9. FoldedHasEnded'
    <2>1. /\ folded' \in 0 .. Len(children)
          /\ \A i \in 1 .. folded' : children[i].terminal
      <3>1. CASE MustRefresh
        <4>1. folded' = folded + TerminalLen
          BY <3>1 DEF BeginChild
        <4>2. TerminalLen \in 0 .. Len(children) - folded
          BY TerminalLenFacts
        <4>3. folded' \in 0 .. Len(children)
          BY <1>1, <4>1, <4>2
        <4> QED BY <4>1, <4>3, TerminalLenFacts
      <3>2. CASE ~MustRefresh
        BY <3>2 DEF BeginChild, RecordsInv, FoldedHasEnded
      <3> QED BY <3>1, <3>2
    <2>2. \A i \in 1 .. folded' : i \in 1 .. Len(children)
      BY <1>1, <2>1
    <2> QED BY <1>1, <1>4, <2>1, <2>2 DEF FoldedHasEnded
  <1> QED BY <1>2, <1>4, <1>7, <1>8, <1>9 DEF RecordsInv

LEMMA CompleteChildRecords ==
  ASSUME RecordsInv, NEW c \in Child, NEW early \in BOOLEAN, RecordChildComplete(c, early)
  PROVE  RecordsInv'
  <1>1. /\ children \in Seq(ChildRecord) /\ clock \in Nat /\ Len(children) \in Nat
        /\ \A i \in 1 .. Len(children) : children[i] \in ChildRecord
        /\ DOMAIN children = 1 .. Len(children)
    BY DEF RecordsInv
  <1>2. clock' \in Nat /\ clock <= clock' /\ (~early => clock < clock') /\ folded' = folded
    BY <1>1 DEF RecordChildComplete
  <1> DEFINE Ended(i) == [children[i] EXCEPT !.terminal = TRUE, !.end = IF early THEN @ ELSE clock']
  <1>3. /\ children' \in Seq(ChildRecord) /\ Len(children') = Len(children)
        /\ \A i \in 1 .. Len(children) : children'[i] = children[i] \/ children'[i] = Ended(i)
    <2>1. CASE tracker[c].index \in DOMAIN children
      <3>1. PICK n \in 1 .. Len(children) : n = tracker[c].index
        BY <1>1, <2>1
      <3>2. children' = [children EXCEPT ![n] = Ended(n)]
        BY <1>1, <2>1, <3>1 DEF RecordChildComplete
      <3>3. Ended(n) \in ChildRecord
        BY <1>1, <1>2 DEF ChildRecord
      <3> HIDE DEF Ended
      <3> QED BY <1>1, <3>2, <3>3, ExceptSeq
    <2>2. CASE tracker[c].index \notin DOMAIN children
      BY <1>1, <2>2 DEF RecordChildComplete
    <2> QED BY <2>1, <2>2
  <1>4. ASSUME NEW i \in 1 .. Len(children)
        PROVE  /\ children'[i].start = children[i].start /\ children[i].start \in Nat
               /\ children[i].terminal => children'[i].terminal
               /\ children'[i].start <= clock' /\ children'[i].end <= clock'
               /\ children'[i].end # 0 =>
                    children'[i].terminal /\ children'[i].start < children'[i].end
    <2>1. /\ children[i].start \in Nat /\ children[i].end \in Nat
          /\ children[i].start <= clock /\ children[i].end <= clock
          /\ children[i].end # 0 => children[i].terminal /\ children[i].start < children[i].end
      BY <1>1 DEF RecordsInv, EndsAfterStart, ChildRecord
    <2>2. CASE children'[i] = children[i]
      BY <1>1, <1>2, <2>1, <2>2
    <2>3. CASE children'[i] = Ended(i)
      <3>1. /\ children'[i].start = children[i].start /\ children'[i].terminal
            /\ children'[i].end = IF early THEN children[i].end ELSE clock'
        BY <1>1, <2>3 DEF ChildRecord
      <3> QED BY <1>1, <1>2, <2>1, <3>1
    <2> QED BY <1>3, <2>2, <2>3
  <1>5. DOMAIN children' = 1 .. Len(children)
    <2>1. children' \in Seq(ChildRecord) /\ Len(children') = Len(children)
      BY <1>3
    <2> QED BY <2>1, LenProperties
  <1>6. SortedByStart'
    BY <1>1, <1>4, <1>5 DEF RecordsInv, SortedByStart
  <1>7. EndsAfterStart'
    BY <1>4, <1>5 DEF EndsAfterStart
  <1>8. FoldedHasEnded'
    <2>1. folded \in 0 .. Len(children) /\ \A i \in 1 .. folded : children[i].terminal
      BY DEF RecordsInv, FoldedHasEnded
    <2>2. \A i \in 1 .. folded : i \in 1 .. Len(children)
      BY <1>1, <2>1
    <2> QED BY <1>2, <1>3, <1>4, <2>1, <2>2 DEF FoldedHasEnded
  <1> QED BY <1>2, <1>3, <1>6, <1>7, <1>8 DEF RecordsInv

\* The records the groups are recovered from are sorted by their starts in
\* every interleaving of a request's child RPCs, also across a flush, so the
\* sort of recover_path_groups changes nothing; an end is after its start; and
\* incorporated_child_count never points past the records.
THEOREM RecordsInOrder == FanoutSpec => []RecordsInv
  <1>1. FanoutInit => RecordsInv
    BY DEF FanoutInit, RecordsInv, SortedByStart, EndsAfterStart, FoldedHasEnded
  <1>2. RecordsInv /\ [FanoutNext]_allVars => RecordsInv'
    <2> SUFFICES ASSUME RecordsInv, [FanoutNext]_allVars PROVE RecordsInv'
      OBVIOUS
    <2>1. CASE UNCHANGED fanoutVars
      BY <2>1 DEF fanoutVars, RecordsInv, SortedByStart, EndsAfterStart, FoldedHasEnded
    <2>2. CASE Flush
      BY <2>2 DEF Flush, RecordsInv, SortedByStart, EndsAfterStart, FoldedHasEnded
    <2>3. ASSUME NEW c \in Child, EstBefore(c) \/ EstAfter(c) PROVE RecordsInv'
      BY <2>3, BeginChildRecords, CompleteChildRecords DEF EstBefore, EstAfter
    <2> QED BY <2>1, <2>2, <2>3
            DEF FanoutNext, EstRequestStep, EstFinalize, EstChildStep, allVars
  <1> QED BY <1>1, <1>2, PTL DEF FanoutSpec

-----------------------------------------------------------------------------
(***************************************************************************)
(* The groups recover_path_groups makes of records                         *)
(***************************************************************************)

\* The groups after each of the first n records.
IsSweep(swept, rec, n) ==
  swept[0] = <<>> /\ \A m \in 1 .. n : swept[m] = Visit(swept[m - 1], rec[m])

\* recover_path_groups is a sweep: the function FoldLeft chooses is there, and
\* takes the records one at a time.
LEMMA SweepSteps ==
  ASSUME NEW S, NEW records \in Seq(S)
  PROVE  \E swept : /\ IsSweep(swept, records, Len(records))
                    /\ RecoverPathGroups(records) = swept[Len(records)]
  <1>1. PICK n \in Nat : n = Len(records) /\ DOMAIN records = 1 .. n
    OBVIOUS
  <1> DEFINE Step(g, s) ==
        IF s = {} THEN <<>> ELSE Visit(g[s \ {Max(s)}], records[Max(s)])
  <1>2. ASSUME NEW m \in 0 .. n, NEW s \in SUBSET (1 .. m), s # {}
        PROVE  /\ Max(s) \in s /\ Max(s) \in 1 .. m /\ \A y \in s : y <= Max(s)
               /\ s \ {Max(s)} \in SUBSET (1 .. m)
    <2>1. m \in Nat /\ s \in SUBSET (0 .. m)
      BY <1>1
    <2> QED BY <1>2, <2>1, MaxFacts
  <1> DEFINE Bad == {m \in 0 .. n : ~\E g : g = [s \in SUBSET (1 .. m) |-> Step(g, s)]}
  <1>3. Bad = {}
    <2> SUFFICES ASSUME Bad # {} PROVE FALSE
      OBVIOUS
    <2>1. PICK m \in Bad : \A o \in Bad : m <= o
      <3>1. Bad \in SUBSET Nat
        BY <1>1
      <3> HIDE DEF Bad
      <3> QED BY <3>1, LeastNat
    <2>2. m # 0
      <3> SUFFICES ASSUME m = 0 PROVE FALSE
        OBVIOUS
      <3>1. PICK g : g = [s \in SUBSET (1 .. 0) |-> <<>>]
        OBVIOUS
      <3>2. \A s \in SUBSET (1 .. 0) : s = {}
        OBVIOUS
      <3>3. g = [s \in SUBSET (1 .. 0) |-> Step(g, s)]
        BY <3>1, <3>2
      <3> QED BY <2>1, <3>3
    <2>3. m \in 1 .. n /\ m - 1 \in 0 .. n /\ m - 1 \notin Bad
      <3>1. m \in 0 .. n
        BY <2>1
      <3>2. m \in 1 .. n /\ m - 1 \in 0 .. n /\ ~(m <= m - 1)
        BY <1>1, <2>2, <3>1
      <3> HIDE DEF Bad
      <3> QED BY <2>1, <3>2
    <2>4. PICK g : g = [s \in SUBSET (1 .. m - 1) |-> Step(g, s)]
      BY <2>3
    <2>5. PICK h : h = [s \in SUBSET (1 .. m) |->
                          IF m \in s THEN Visit(g[s \ {m}], records[m]) ELSE g[s]]
      OBVIOUS
    <2>6. ASSUME NEW s \in SUBSET (1 .. m) PROVE h[s] = Step(h, s)
      <3>1. m \notin s => s \in SUBSET (1 .. m - 1)
        BY <2>3
      <3>2. CASE s = {}
        <4>1. s \in SUBSET (1 .. m - 1) /\ m \notin s
          BY <3>2
        <4> QED BY <2>4, <2>5, <3>2, <4>1
      <3>3. CASE m \in s
        <4>1. /\ Max(s) \in s /\ Max(s) \in 1 .. m /\ m <= Max(s)
          BY <1>2, <2>3, <3>3
        <4>2. Max(s) = m
          BY <2>3, <4>1
        <4>3. s \ {m} \in SUBSET (1 .. m) /\ m \notin s \ {m} /\ s # {}
          BY <3>3
        <4>4. h[s \ {m}] = g[s \ {m}]
          BY <2>5, <4>3
        <4>5. h[s] = Visit(g[s \ {m}], records[m])
          BY <2>5, <3>3
        <4> QED BY <4>2, <4>3, <4>4, <4>5
      <3>4. CASE s # {} /\ m \notin s
        <4>1. h[s] = g[s]
          BY <2>5, <3>4
        <4>2. g[s] = Visit(g[s \ {Max(s)}], records[Max(s)])
          BY <2>4, <3>1, <3>4
        <4>3. s \ {Max(s)} \in SUBSET (1 .. m) /\ m \notin s \ {Max(s)}
          BY <3>4
        <4>4. h[s \ {Max(s)}] = g[s \ {Max(s)}]
          BY <2>5, <4>3
        <4> QED BY <3>4, <4>1, <4>2, <4>4
      <3> QED BY <3>2, <3>3, <3>4
    <2>7. h = [s \in SUBSET (1 .. m) |-> Step(h, s)]
      <3> HIDE DEF Step
      <3>1. h = [s \in SUBSET (1 .. m) |-> h[s]]
        BY <2>5
      <3> QED BY <2>6, <3>1
    <2> QED BY <2>1, <2>7
  <1>4. PICK iter : /\ RecoverPathGroups(records) = iter[1 .. n]
                    /\ iter = [s \in SUBSET (1 .. n) |-> Step(iter, s)]
    <2>1. \E g : g = [s \in SUBSET (1 .. n) |-> Step(g, s)]
      <3>1. n \in 0 .. n
        BY <1>1
      <3>2. n \notin Bad
        <4> HIDE DEF Bad
        <4> QED BY <1>3
      <3> HIDE DEF Step
      <3> QED BY <3>1, <3>2
    <2>2. \E g : g = [s \in SUBSET DOMAIN records |-> Step(g, s)]
      BY <1>1, <2>1
    <2>3. \E g : /\ RecoverPathGroups(records) = g[DOMAIN records]
                 /\ g = [s \in SUBSET DOMAIN records |-> Step(g, s)]
      BY <2>2, Zenon DEF RecoverPathGroups, FoldLeft, MapThenFoldSet
    <2> QED BY <1>1, <2>3
  <1>5. PICK swept : swept = [m \in 0 .. n |-> iter[1 .. m]]
    OBVIOUS
  <1>6. swept[0] = <<>>
    <2>1. 1 .. 0 = {} /\ 1 .. 0 \in SUBSET (1 .. n)
      OBVIOUS
    <2>2. 0 \in 0 .. n
      BY <1>1
    <2> QED BY <1>4, <1>5, <2>1, <2>2
  <1>7. ASSUME NEW m \in 1 .. n PROVE swept[m] = Visit(swept[m - 1], records[m])
    <2>1. 1 .. m \in SUBSET (1 .. n) /\ m \in 1 .. m /\ m \in 0 .. n /\ m - 1 \in 0 .. n
      BY <1>1
    <2>2. Max(1 .. m) \in 1 .. m /\ m <= Max(1 .. m)
      BY <1>2, <2>1
    <2>3. Max(1 .. m) = m /\ (1 .. m) \ {m} = 1 .. m - 1
      BY <2>2
    <2>4. iter[1 .. m] = Step(iter, 1 .. m)
      BY <1>4, <2>1
    <2>5. iter[1 .. m] = Visit(iter[1 .. m - 1], records[m])
      BY <2>1, <2>3, <2>4
    <2> QED BY <1>5, <2>1, <2>5
  <1>8. RecoverPathGroups(records) = swept[n]
    BY <1>1, <1>4, <1>5
  <1> HIDE DEF Step
  <1> QED BY <1>1, <1>6, <1>7, <1>8 DEF IsSweep

Group == [path_prefix : Seq(SUBSET Child), signature : SUBSET Child, max_end : Nat]

\* Records as begin_child and record_child_complete leave them.
Intervals(rec, n) ==
  /\ \A i \in 1 .. n : rec[i] \in ChildRecord /\ (rec[i].end # 0 => rec[i].start < rec[i].end)
  /\ \A i, j \in 1 .. n : i <= j => rec[i].start <= rec[j].start

Ended(rec, m) == {i \in 1 .. m : rec[i].end # 0}

\* What recover_path_groups has made of the first m records, where grp is the
\* group of each that has ended: groups come in the order of the records and
\* are apart in time,
InTime(rec, m, grp) ==
  \A i, k \in Ended(rec, m) :
    /\ i < k => grp[i] <= grp[k]
    /\ grp[i] < grp[k] => rec[i].end < rec[k].start

\* a record is the first of its group or begins before an earlier one ends,
Linked(rec, m, grp) ==
  \A i \in Ended(rec, m) :
    \/ \A k \in Ended(rec, m) : grp[k] = grp[i] => i <= k
    \/ \E k \in Ended(rec, m) : k < i /\ grp[k] = grp[i] /\ rec[i].start <= rec[k].end

\* the signature, the path and the end of a group are what they are called.
Described(rec, m, groups, grp) ==
  \A j \in 1 .. Len(groups) :
    /\ groups[j].signature = {rec[i].id : i \in {h \in Ended(rec, m) : grp[h] = j}}
    /\ groups[j].path_prefix = [h \in 1 .. j - 1 |-> groups[h].signature]
    /\ \E i \in Ended(rec, m) : grp[i] = j /\ rec[i].end = groups[j].max_end
MaxEnds(rec, m, groups, grp) == \A i \in Ended(rec, m) : rec[i].end <= groups[grp[i]].max_end

Grouping(rec, m, groups, grp) ==
  /\ groups \in Seq(Group) /\ grp \in [Ended(rec, m) -> 1 .. Len(groups)]
  /\ InTime(rec, m, grp) /\ Linked(rec, m, grp)
  /\ Described(rec, m, groups, grp) /\ MaxEnds(rec, m, groups, grp)

\* Record m goes into group J, the last of G, which is new or was the last.
JoinsGroup(rec, m, groups, grp, J, G) ==
  /\ \A j \in 1 .. J - 1 : j \in 1 .. Len(groups) /\ G[j] = groups[j]
  /\ G[J].path_prefix = [h \in 1 .. J - 1 |-> groups[h].signature]
  /\ G[J].signature = {rec[i].id : i \in {h \in Ended(rec, m - 1) : grp[h] = J}} \cup {rec[m].id}
  /\ \A i \in Ended(rec, m - 1) :
       /\ grp[i] <= J
       /\ grp[i] < J => rec[i].end < rec[m].start
       /\ grp[i] = J => rec[i].end <= G[J].max_end
  /\ rec[m].end <= G[J].max_end
  /\ \/ rec[m].end = G[J].max_end
     \/ \E i \in Ended(rec, m - 1) : grp[i] = J /\ rec[i].end = G[J].max_end
  /\ \/ \A i \in Ended(rec, m - 1) : grp[i] # J
     \/ \E i \in Ended(rec, m - 1) : grp[i] = J /\ rec[m].start <= rec[i].end

LEMMA PlaceRecord ==
  ASSUME NEW n \in Nat, NEW rec, Intervals(rec, n), NEW m \in 1 .. n, rec[m].end # 0,
         NEW groups, NEW grp, Grouping(rec, m - 1, groups, grp),
         NEW J \in Nat \ {0}, NEW G \in Seq(Group), Len(G) = J,
         JoinsGroup(rec, m, groups, grp, J, G)
  PROVE  \E g : Grouping(rec, m, G, g)
  <1> DEFINE D == Ended(rec, m - 1)
             E == Ended(rec, m)
  <1>1. /\ E = D \cup {m} /\ m \notin D /\ m \in E
        /\ \A i \in D : i \in 1 .. m - 1 /\ i \in 1 .. n /\ i \in Nat /\ i < m
    BY DEF Ended
  <1>2. /\ \A i \in D : grp[i] \in 1 .. J
        /\ \A i \in E : rec[i] \in ChildRecord /\ rec[i].start \in Nat /\ rec[i].end \in Nat
    <2>1. \A i \in D : grp[i] \in 1 .. Len(groups) /\ grp[i] <= J /\ Len(groups) \in Nat
      BY DEF Grouping, JoinsGroup
    <2>2. \A i \in D : grp[i] \in 1 .. J
      BY <2>1
    <2>3. \A i \in E : rec[i] \in ChildRecord
      BY <1>1 DEF Intervals
    <2> HIDE DEF D, E
    <2> QED BY <2>2, <2>3 DEF ChildRecord
  <1> USE DEF JoinsGroup
  <1>3. PICK g : g = [i \in E |-> IF i = m THEN J ELSE grp[i]]
    OBVIOUS
  <1>4. g[m] = J /\ \A i \in D : g[i] = grp[i]
    BY <1>1, <1>3
  <1>5. g \in [E -> 1 .. J]
    BY <1>1, <1>2, <1>3
  <1>6. \A i, k \in D : /\ i < k => grp[i] <= grp[k]
                        /\ grp[i] < grp[k] => rec[i].end < rec[k].start
    BY DEF Grouping, InTime
  <1>7. ASSUME NEW i \in E, NEW k \in E
        PROVE  /\ i < k => g[i] <= g[k]
               /\ g[i] < g[k] => rec[i].end < rec[k].start
    <2> HIDE DEF D, E
    <2>1. CASE k = m
      <3>1. CASE i = m
        BY <1>4, <2>1, <3>1
      <3>2. CASE i # m
        <4>1. i \in D
          BY <1>1, <3>2
        <4> QED BY <1>2, <1>4, <2>1, <4>1 DEF D
      <3> QED BY <3>1, <3>2
    <2>2. CASE k # m
      <3>1. k \in D
        BY <1>1, <2>2
      <3>2. CASE i = m
        <4>1. ~(i < k)
          BY <1>1, <3>1, <3>2
        <4>2. g[k] \in 1 .. J /\ g[i] = J
          BY <1>4, <1>5, <3>2
        <4> QED BY <4>1, <4>2
      <3>3. CASE i # m
        <4>1. i \in D
          BY <1>1, <3>3
        <4> QED BY <1>4, <1>6, <3>1, <4>1
      <3> QED BY <3>2, <3>3
    <2> QED BY <2>1, <2>2
  <1>8. ASSUME NEW i \in E
        PROVE  rec[i].end <= G[g[i]].max_end
    <2>1. CASE i = m
      BY <1>4, <2>1
    <2>2. CASE i # m
      <3>1. i \in D /\ g[i] = grp[i] /\ grp[i] \in 1 .. J
        BY <1>1, <1>2, <1>4, <2>2
      <3>2. CASE grp[i] = J
        BY <3>1, <3>2
      <3>3. CASE grp[i] # J
        <4>1. G[grp[i]] = groups[grp[i]]
          BY <3>1, <3>3
        <4>2. rec[i].end <= groups[grp[i]].max_end
          BY <3>1 DEF Grouping, MaxEnds
        <4> QED BY <3>1, <4>1, <4>2
      <3> QED BY <3>2, <3>3
    <2> QED BY <2>1, <2>2
  <1>9. ASSUME NEW i \in E
        PROVE  \/ \A k \in E : g[k] = g[i] => i <= k
               \/ \E k \in E : k < i /\ g[k] = g[i] /\ rec[i].start <= rec[k].end
    <2> HIDE DEF D, E
    <2>1. CASE i = m
      <3>1. CASE \A k \in D : grp[k] # J
        <4>1. \A k \in E : g[k] = g[i] => k = m
          BY <1>1, <1>4, <2>1, <3>1
        <4>2. m <= m
          OBVIOUS
        <4> QED BY <2>1, <4>1, <4>2
      <3>2. CASE \E k \in D : grp[k] = J /\ rec[m].start <= rec[k].end
        <4>1. PICK k \in D : grp[k] = J /\ rec[m].start <= rec[k].end
          BY <3>2
        <4>2. k \in E /\ k < m /\ g[k] = J
          BY <1>1, <1>4, <4>1
        <4> QED BY <1>4, <2>1, <4>1, <4>2
      <3> QED BY <3>1, <3>2 DEF D
    <2>2. CASE i # m
      <3>1. i \in D /\ g[i] = grp[i] /\ i < m /\ i \in Nat
        BY <1>1, <1>4, <2>2
      <3>2. \/ \A k \in D : grp[k] = grp[i] => i <= k
            \/ \E k \in D : k < i /\ grp[k] = grp[i] /\ rec[i].start <= rec[k].end
        BY <3>1 DEF D, Grouping, Linked
      <3>3. CASE \A k \in D : grp[k] = grp[i] => i <= k
        <4>1. i <= m
          BY <3>1
        <4>2. ASSUME NEW k \in E, g[k] = g[i] PROVE i <= k
          <5>1. CASE k = m
            BY <4>1, <5>1
          <5>2. CASE k # m
            BY <1>1, <1>4, <3>1, <3>3, <4>2, <5>2
          <5> QED BY <5>1, <5>2
        <4> QED BY <4>2
      <3>4. CASE \E k \in D : k < i /\ grp[k] = grp[i] /\ rec[i].start <= rec[k].end
        BY <1>1, <1>4, <3>1, <3>4
      <3> QED BY <3>2, <3>3, <3>4
    <2> QED BY <2>1, <2>2
  <1>10. ASSUME NEW j \in 1 .. J
         PROVE  /\ G[j].signature = {rec[i].id : i \in {h \in E : g[h] = j}}
                /\ G[j].path_prefix = [h \in 1 .. j - 1 |-> G[h].signature]
                /\ \E i \in E : g[i] = j /\ rec[i].end = G[j].max_end
    <2>1. \A h \in 1 .. J - 1 : G[h].signature = groups[h].signature
      OBVIOUS
    <2>2. \A h \in 1 .. j - 1 : h \in 1 .. J - 1
      OBVIOUS
    <2> HIDE DEF D, E
    <2>3. CASE j = J
      <3>1. {h \in E : g[h] = j} = {h \in D : grp[h] = J} \cup {m}
        BY <1>1, <1>4, <2>3
      <3>2. G[j].signature = {rec[i].id : i \in {h \in E : g[h] = j}}
        BY <2>3, <3>1 DEF D
      <3>3. G[j].path_prefix = [h \in 1 .. j - 1 |-> G[h].signature]
        BY <2>1, <2>3
      <3>4. \E i \in E : g[i] = j /\ rec[i].end = G[j].max_end
        BY <1>1, <1>4, <2>3 DEF D
      <3> QED BY <3>2, <3>3, <3>4
    <2>4. CASE j # J
      <3>1. j \in 1 .. J - 1 /\ j \in 1 .. Len(groups) /\ G[j] = groups[j]
        BY <2>4
      <3>2. {h \in E : g[h] = j} = {h \in D : grp[h] = j}
        BY <1>1, <1>4, <2>4
      <3>3. /\ groups[j].signature = {rec[i].id : i \in {h \in D : grp[h] = j}}
            /\ groups[j].path_prefix = [h \in 1 .. j - 1 |-> groups[h].signature]
            /\ \E i \in D : grp[i] = j /\ rec[i].end = groups[j].max_end
        BY <3>1 DEF Grouping, Described, D
      <3>4. G[j].path_prefix = [h \in 1 .. j - 1 |-> G[h].signature]
        BY <2>1, <2>2, <3>1, <3>3
      <3>5. \E i \in E : g[i] = j /\ rec[i].end = G[j].max_end
        BY <1>1, <1>4, <3>1, <3>3
      <3> QED BY <3>1, <3>2, <3>3, <3>4, <3>5
    <2> QED BY <2>3, <2>4
  <1>11. G \in Seq(Group) /\ g \in [Ended(rec, m) -> 1 .. Len(G)]
    BY <1>5
  <1>12. InTime(rec, m, g)
    BY <1>7 DEF InTime
  <1>13. Linked(rec, m, g)
    BY <1>9 DEF Linked
  <1>14. Described(rec, m, G, g)
    BY <1>10 DEF Described
  <1>15. MaxEnds(rec, m, G, g)
    BY <1>8 DEF MaxEnds
  <1> QED BY <1>11, <1>12, <1>13, <1>14, <1>15, Zenon DEF Grouping

\* One more record.
LEMMA VisitRecord ==
  ASSUME NEW n \in Nat, NEW rec, Intervals(rec, n), NEW m \in 1 .. n,
         NEW groups, NEW grp, Grouping(rec, m - 1, groups, grp)
  PROVE  \E g : Grouping(rec, m, Visit(groups, rec[m]), g)
  <1>1. CASE rec[m].end = 0
    <2>1. Ended(rec, m) = Ended(rec, m - 1)
      BY <1>1 DEF Ended
    <2>2. Visit(groups, rec[m]) = groups
      BY <1>1 DEF Visit
    <2>3. Grouping(rec, m, groups, grp)
      BY <2>1 DEF Grouping, InTime, Linked, Described, MaxEnds
    <2> QED BY <2>2, <2>3
  <1>2. CASE rec[m].end # 0
    <2> DEFINE D == Ended(rec, m - 1)
    <2>0. PICK L \in Nat : L = Len(groups)
      BY DEF Grouping
    <2>1. /\ groups \in Seq(Group) /\ L \in Nat /\ grp \in [D -> 1 .. L]
          /\ DOMAIN groups = 1 .. L
          /\ InTime(rec, m - 1, grp) /\ Described(rec, m - 1, groups, grp)
          /\ MaxEnds(rec, m - 1, groups, grp)
      BY <2>0 DEF Grouping
    <2>2. /\ rec[m] \in ChildRecord /\ rec[m].id \in Child
          /\ rec[m].start \in Nat /\ rec[m].end \in Nat
      <3>1. rec[m] \in ChildRecord
        BY DEF Intervals
      <3> QED BY <3>1 DEF ChildRecord
    <2>3. \A i \in D : /\ i \in 1 .. n /\ i <= m /\ rec[i].start \in Nat /\ rec[i].end \in Nat
                       /\ rec[i].start <= rec[m].start
      <3>1. \A i \in D : i \in 1 .. n /\ i <= m
        BY DEF Ended
      <3>2. \A i \in D : rec[i] \in ChildRecord /\ rec[i].start <= rec[m].start
        BY <3>1 DEF Intervals
      <3> HIDE DEF D
      <3> QED BY <3>1, <3>2 DEF ChildRecord
    <2>4. \A j \in 1 .. L : /\ groups[j] \in Group /\ groups[j].max_end \in Nat
                            /\ groups[j].signature \in SUBSET Child
                            /\ groups[j].path_prefix \in Seq(SUBSET Child)
      <3>1. \A j \in 1 .. L : groups[j] \in Group
        BY <2>1
      <3> QED BY <3>1 DEF Group
    \* Everything before the last group has ended before m begins.
    <2>5. ASSUME NEW i \in D, grp[i] < L PROVE rec[i].end < rec[m].start
      <3>1. L \in 1 .. L
        BY <2>1, <2>5
      <3>2. PICK k \in D : grp[k] = L
        BY <2>0, <2>1, <3>1 DEF Described
      <3>3. rec[i].end < rec[k].start
        BY <2>1, <2>5, <3>2 DEF InTime
      <3> QED BY <2>2, <2>3, <3>2, <3>3
    <2>6. \A i \in D : grp[i] \in 1 .. L
      BY <2>1
    <2> HIDE DEF D
    <2>7. CASE groups # <<>> /\ rec[m].start <= Last(groups).max_end
      <3>1. L \in 1 .. L /\ L # 0 /\ Last(groups) = groups[L]
        BY <2>1, <2>7, <2>0 DEF Last
      <3> DEFINE new == [Last(groups) EXCEPT !.signature = @ \cup {rec[m].id},
                                             !.max_end = Max({@, rec[m].end})]
      <3>2. /\ new.path_prefix = groups[L].path_prefix
            /\ new.signature = groups[L].signature \cup {rec[m].id}
            /\ new.max_end = Max({groups[L].max_end, rec[m].end})
            /\ new = [path_prefix |-> new.path_prefix, signature |-> new.signature,
                      max_end |-> new.max_end]
        <4>1. PICK last \in Group : last = Last(groups) /\ last = groups[L]
          BY <2>4, <3>1
        <4>2. new = [last EXCEPT !.signature = last.signature \cup {rec[m].id},
                                 !.max_end = Max({last.max_end, rec[m].end})]
          BY <4>1 DEF Group
        <4>3. PICK mx : mx = Max({last.max_end, rec[m].end})
          OBVIOUS
        <4>4. new = [last EXCEPT !.signature = last.signature \cup {rec[m].id}, !.max_end = mx]
          BY <4>2, <4>3
        <4> HIDE DEF new
        <4>5. new = [path_prefix |-> last.path_prefix, signature |-> last.signature \cup {rec[m].id},
                     max_end |-> mx]
          BY <4>1, <4>4 DEF Group
        <4> QED BY <4>1, <4>3, <4>5
      <3>3. new.max_end = IF groups[L].max_end >= rec[m].end THEN groups[L].max_end ELSE rec[m].end
        BY <2>2, <2>4, <3>1, <3>2, MaxOfTwo
      <3>4. new \in Group
        <4>1. new.max_end \in Nat
          BY <2>2, <2>4, <3>1, <3>3
        <4>2. new.path_prefix \in Seq(SUBSET Child) /\ new.signature \in SUBSET Child
          BY <2>2, <2>4, <3>1, <3>2
        <4> HIDE DEF new
        <4> QED BY <3>2, <4>1, <4>2 DEF Group
      <3>5. Visit(groups, rec[m]) = ReplaceAt(groups, L, new)
        BY <1>2, <2>0, <2>7 DEF Visit, Sweep
      <3> HIDE DEF new
      <3>6. PICK G : G = ReplaceAt(groups, L, new)
        OBVIOUS
      <3>7. /\ G \in Seq(Group) /\ Len(G) = L /\ G[L] = new
            /\ \A j \in 1 .. L : j # L => G[j] = groups[j]
        <4>1. L \in 1 .. Len(groups)
          BY <2>0, <3>1
        <4>2. G = [groups EXCEPT ![L] = new]
          BY <3>6 DEF ReplaceAt
        <4> QED BY <2>0, <2>1, <3>4, <4>1, <4>2
      <3>8. \A j \in 1 .. L - 1 : j \in 1 .. L /\ G[j] = groups[j]
        <4> TAKE j \in 1 .. L - 1
        <4>1. j \in 1 .. L /\ j # L
          BY <2>1
        <4> QED BY <3>7, <4>1
      <3>9. /\ groups[L].signature = {rec[i].id : i \in {h \in D : grp[h] = L}}
            /\ groups[L].path_prefix = [h \in 1 .. L - 1 |-> groups[h].signature]
            /\ \E i \in D : grp[i] = L /\ rec[i].end = groups[L].max_end
        BY <2>0, <2>1, <3>1 DEF Described, D
      <3>10. /\ rec[m].end <= G[L].max_end
             /\ \A i \in D : grp[i] = L => rec[i].end <= G[L].max_end
             /\ rec[m].end = G[L].max_end \/ groups[L].max_end = G[L].max_end
        <4>1. \A i \in D : grp[i] = L => rec[i].end <= groups[L].max_end
          BY <2>1 DEF MaxEnds, D
        <4>2. groups[L].max_end \in Nat
          BY <2>4, <3>1
        <4> QED BY <2>2, <2>3, <3>3, <3>7, <4>1, <4>2
      <3>11. \E i \in D : grp[i] = L /\ rec[m].start <= rec[i].end
        BY <2>7, <3>1, <3>9
      <3>12. /\ L \in Nat \ {0}
             /\ \A i \in D : grp[i] <= L
             /\ G[L].path_prefix = [h \in 1 .. L - 1 |-> groups[h].signature]
             /\ G[L].signature = {rec[i].id : i \in {h \in D : grp[h] = L}} \cup {rec[m].id}
        BY <2>1, <2>6, <3>1, <3>2, <3>7, <3>9
      <3>13. \/ rec[m].end = G[L].max_end
             \/ \E i \in D : grp[i] = L /\ rec[i].end = G[L].max_end
        BY <3>9, <3>10
      <3>14. JoinsGroup(rec, m, groups, grp, L, G)
        <4>1. \A i \in D : /\ grp[i] <= L
                           /\ grp[i] < L => rec[i].end < rec[m].start
                           /\ grp[i] = L => rec[i].end <= G[L].max_end
          BY <2>5, <3>10, <3>12
        <4>2. \A j \in 1 .. L - 1 : j \in 1 .. Len(groups) /\ G[j] = groups[j]
          BY <2>0, <3>8
        <4>3. rec[m].end <= G[L].max_end
          BY <3>10
        <4> QED BY <3>11, <3>12, <3>13, <4>1, <4>2, <4>3 DEF JoinsGroup, D
      <3>15. \E g : Grouping(rec, m, G, g)
        BY <1>2, <3>7, <3>12, <3>14, PlaceRecord
      <3> QED BY <3>5, <3>6, <3>15
    <2>8. CASE ~(groups # <<>> /\ rec[m].start <= Last(groups).max_end)
      <3> DEFINE new == [path_prefix |-> Signatures(groups), signature |-> {rec[m].id},
                         max_end |-> rec[m].end]
      <3>1. /\ Signatures(groups) = [h \in 1 .. L |-> groups[h].signature]
            /\ Signatures(groups) \in Seq(SUBSET Child)
        BY <2>1, <2>4 DEF Signatures
      <3>2. new \in Group
        BY <2>2, <3>1 DEF Group
      <3>3. Visit(groups, rec[m]) = Append(groups, new)
        BY <1>2, <2>8 DEF Visit, Sweep, NewGroup
      <3>4. PICK J : J = L + 1
        OBVIOUS
      <3>5. PICK G : G = Append(groups, new)
        OBVIOUS
      <3>6. /\ G \in Seq(Group) /\ Len(G) = J /\ G[J] = new
            /\ \A j \in 1 .. L : G[j] = groups[j]
        <4> HIDE DEF new
        <4> QED BY <2>1, <3>2, <3>4, <3>5, <2>0, AppendProperties
      <3>7. /\ J \in Nat \ {0} /\ J - 1 = L
            /\ \A j \in 1 .. J - 1 : j \in 1 .. L /\ G[j] = groups[j]
            /\ \A i \in D : grp[i] <= J /\ grp[i] # J
        BY <2>1, <2>6, <3>4, <3>6
      <3>8. /\ G[J].path_prefix = [h \in 1 .. J - 1 |-> groups[h].signature]
            /\ G[J].signature = {rec[m].id} /\ G[J].max_end = rec[m].end
        BY <3>1, <3>6, <3>7
      <3>9. G[J].signature = {rec[i].id : i \in {h \in D : grp[h] = J}} \cup {rec[m].id}
        BY <3>7, <3>8
      <3>10. ASSUME NEW i \in D PROVE rec[i].end < rec[m].start
        <4>1. CASE grp[i] < L
          BY <2>5, <4>1
        <4>2. CASE grp[i] = L
          <5>1. L \in 1 .. L /\ groups # <<>> /\ Last(groups) = groups[L]
            BY <2>1, <2>6, <4>2, <2>0 DEF Last
          <5>2. rec[i].end <= groups[L].max_end
            BY <2>1, <4>2 DEF MaxEnds, D
          <5>3. groups[L].max_end \in Nat
            BY <2>4, <5>1
          <5> QED BY <2>2, <2>3, <2>8, <5>1, <5>2, <5>3
        <4> QED BY <2>1, <2>6, <4>1, <4>2
      <3>11. rec[m].end <= G[J].max_end /\ rec[m].end = G[J].max_end
        BY <2>2, <3>8
      <3> HIDE DEF new
      <3>12. JoinsGroup(rec, m, groups, grp, J, G)
        <4>1. \A i \in D : /\ grp[i] <= J /\ grp[i] # J
                           /\ grp[i] < J => rec[i].end < rec[m].start
                           /\ grp[i] = J => rec[i].end <= G[J].max_end
          BY <3>7, <3>10
        <4>2. \A j \in 1 .. J - 1 : j \in 1 .. Len(groups) /\ G[j] = groups[j]
          BY <2>0, <3>7
        <4> QED BY <3>8, <3>9, <3>11, <4>1, <4>2 DEF JoinsGroup, D
      <3>13. \E g : Grouping(rec, m, G, g)
        BY <1>2, <3>6, <3>7, <3>12, PlaceRecord
      <3> QED BY <3>3, <3>5, <3>13
    <2> QED BY <2>7, <2>8
  <1> QED BY <1>1, <1>2

\* What recover_path_groups makes of the first m records.
LEMMA SweepGroups ==
  ASSUME NEW n \in Nat, NEW rec, Intervals(rec, n), NEW swept, IsSweep(swept, rec, n)
  PROVE  \A m \in 0 .. n : \E grp : Grouping(rec, m, swept[m], grp)
  <1> DEFINE Bad == {m \in 0 .. n : ~\E grp : Grouping(rec, m, swept[m], grp)}
  <1>1. \E grp : Grouping(rec, 0, swept[0], grp)
    <2>1. Ended(rec, 0) = {} /\ 1 .. 0 = {}
      BY DEF Ended
    <2>2. PICK grp : grp = [i \in {} |-> 0]
      OBVIOUS
    <2>3. grp \in [Ended(rec, 0) -> 1 .. Len(<<>>)] /\ <<>> \in Seq(Group) /\ 1 .. Len(<<>>) = {}
      BY <2>1, <2>2
    <2> QED BY <2>1, <2>3 DEF IsSweep, Grouping, InTime, Linked, Described, MaxEnds
  <1>2. Bad = {}
    <2> SUFFICES ASSUME Bad # {} PROVE FALSE
      OBVIOUS
    <2>1. PICK m \in Bad : \A o \in Bad : m <= o
      <3>1. Bad \in SUBSET Nat
        OBVIOUS
      <3> HIDE DEF Bad
      <3> QED BY <3>1, LeastNat
    <2>2. m \in 0 .. n /\ m # 0
      BY <1>1, <2>1
    <2>3. m \in 1 .. n /\ m - 1 \in 0 .. n /\ m - 1 \notin Bad
      <3>1. m \in 1 .. n /\ m - 1 \in 0 .. n /\ ~(m <= m - 1)
        BY <2>2
      <3> HIDE DEF Bad
      <3> QED BY <2>1, <3>1
    <2>4. PICK grp : Grouping(rec, m - 1, swept[m - 1], grp)
      BY <2>3
    <2>5. \E g : Grouping(rec, m, Visit(swept[m - 1], rec[m]), g)
      BY <2>3, <2>4, VisitRecord
    <2> QED BY <2>1, <2>3, <2>5 DEF IsSweep
  <1> QED BY <1>2

-----------------------------------------------------------------------------
(***************************************************************************)
(* The trackers of child RPCs and the groups of their records              *)
(***************************************************************************)

\* The child RPCs whose begin the estimation module has been told of.
Known == {c \in Child : Est \in open[c] \/ told[c][Est] > 0}

\* A module that was told of a begin, or of an end, has been told for ever.
LEMMA KnownStays ==
  ASSUME StackIInv, [Next]_vars, NEW c \in Child
  PROVE  /\ c \in Known => c \in Known'
         /\ told[c][Est] > 0 => told'[c][Est] > 0
  <1>1. /\ open \in [Child -> SUBSET Module] /\ told \in [Child -> [Module -> Nat]]
        /\ Est \in Module /\ told[c][Est] \in Nat
    BY FanoutAssumption DEF StackIInv, TypeOK, Module
  <1>2. CASE UNCHANGED <<open, told>>
    BY <1>2 DEF Known
  <1>3. ASSUME NEW d \in Child, BeforeOk(d) \/ BeforeRejects(d)
        PROVE  UNCHANGED told /\ open[c] \subseteq open'[c]
    BY <1>1, <1>3 DEF BeforeOk, BeforeRejects
  <1>4. ASSUME NEW d \in Child, Unwind(d) \/ AfterStep(d)
        PROVE  /\ c \in Known => c \in Known'
               /\ told[c][Est] > 0 => told'[c][Est] > 0
    <2>1. /\ open' = [open EXCEPT ![d] = @ \ {cat[d]}]
          /\ told' = [told EXCEPT ![d][cat[d]] = @ + 1]
      BY <1>4 DEF Unwind, AfterStep, Tell
    <2>2. CASE c = d /\ Est = cat[d]
      <3>1. told'[c][Est] = told[c][Est] + 1
        BY <1>1, <2>1, <2>2
      <3> QED BY <1>1, <3>1 DEF Known
    <2>3. CASE ~(c = d /\ Est = cat[d])
      <3>1. told'[c][Est] = told[c][Est] /\ (Est \in open'[c] <=> Est \in open[c])
        BY <1>1, <2>1, <2>3
      <3> QED BY <3>1 DEF Known
    <2> QED BY <2>2, <2>3
  <1>5. \/ UNCHANGED <<open, told>>
        \/ \E d \in Child : BeforeOk(d) \/ BeforeRejects(d) \/ Unwind(d) \/ AfterStep(d)
    <2>1. CASE UNCHANGED vars
      BY <2>1 DEF vars, childVars
    <2>2. CASE DecodeOk \/ DecodeFails \/ BeforePoll \/ \E r \in BOOLEAN : HandlerReturns(r)
      BY <2>2 DEF DecodeOk, DecodeFails, BeforePoll, HandlerReturns, BeginCall, childVars
    <2>3. CASE RequestStep
      BY <2>3 DEF RequestStep, BeforePollOk, BeforePollEnds, AfterPollOk, AfterPollEnds, PollEnds,
                  DropHandler, LosesHandler, BeginFinalize, FinalizeStep, BeginCall, childVars
    <2>4. ASSUME NEW d \in Child, Begin(d) \/ Respond(d) \/ BeginAfter(d) \/ DropChild(d)
          PROVE  UNCHANGED <<open, told>>
      BY <2>4 DEF Begin, Respond, BeginAfter, DropChild
    <2>5. ASSUME NEW d \in Child, SealOk(d) \/ SealRejects(d) \/ Send(d)
          PROVE  UNCHANGED <<open, told>>
      BY <2>5 DEF SealOk, SealRejects, Send
    <2>6. CASE DropRequest \/ HandlerPanics
      BY <2>6 DEF DropRequest, HandlerPanics, LosesHandler
    <2> QED BY <2>1, <2>2, <2>3, <2>4, <2>5, <2>6 DEF Next, ChildStep
  <1>6. CASE \E d \in Child : BeforeOk(d) \/ BeforeRejects(d)
    BY <1>3, <1>6 DEF Known
  <1> QED BY <1>2, <1>4, <1>5, <1>6

\* It is told of a begin once, before it is told of the end, once.
LEMMA EstTold ==
  ASSUME StackIInv, NEW c \in Child, cat[c] = Est
  PROVE  /\ BeforeOk(c) => c \notin Known /\ c \in Known'
         /\ AfterStep(c) => told[c][Est] = 0 /\ told'[c][Est] > 0
  <1>1. /\ open \in [Child -> SUBSET Module] /\ told \in [Child -> [Module -> Nat]]
        /\ Est \in Module /\ told[c][Est] \in Nat /\ Est <= Est /\ ~(Est < Est)
    <2>1. Est \in Nat
      BY ChildRpcAssumption, FanoutAssumption
    <2>2. Est <= Est /\ ~(Est < Est)
      BY <2>1
    <2> QED BY <2>2, FanoutAssumption DEF StackIInv, TypeOK, Module
  <1>2. Shape(c)
    BY DEF StackIInv
  <1>3. ASSUME BeforeOk(c) PROVE c \notin Known /\ c \in Known'
    <2>1. Est \notin open[c] /\ told[c][Est] = 0
      BY <1>1, <1>2, <1>3 DEF Shape, BeforeOk
    <2>2. Est \in open'[c]
      BY <1>1, <1>3 DEF BeforeOk
    <2> QED BY <2>1, <2>2 DEF Known
  <1>4. ASSUME AfterStep(c) PROVE told[c][Est] = 0 /\ told'[c][Est] > 0
    <2>1. Est \in open[c]
      BY <1>1, <1>2, <1>4 DEF Shape, AfterStep, Tell
    <2>2. told[c][Est] = 0
      BY <1>1, <1>2, <2>1 DEF Shape
    <2>3. told'[c][Est] = told[c][Est] + 1
      BY <1>1, <1>4 DEF AfterStep, Tell
    <2> QED BY <2>2, <2>3
  <1> QED BY <1>3, <1>4

\* What begin_child and record_child_complete do to the records.
LEMMA BeginChildEffect ==
  ASSUME RecordsInv, NEW c \in Child, BeginChild(c)
  PROVE  /\ Len(children) \in Nat /\ DOMAIN children = 1 .. Len(children)
         /\ DOMAIN children' = 1 .. Len(children) + 1
         /\ clock \in Nat /\ clock' \in Nat /\ clock <= clock'
         /\ children'[Len(children) + 1] = [id |-> c, start |-> clock', end |-> 0, terminal |-> FALSE]
         /\ \A i \in 1 .. Len(children) : children'[i] = children[i] /\ i # Len(children) + 1
  <1>1. /\ children \in Seq(ChildRecord) /\ clock \in Nat /\ Len(children) \in Nat
        /\ DOMAIN children = 1 .. Len(children)
    BY DEF RecordsInv
  <1>2. clock' \in Nat /\ clock <= clock'
    BY <1>1 DEF BeginChild, BeginTimes
  <1> DEFINE new == [id |-> c, start |-> clock', end |-> 0, terminal |-> FALSE]
  <1>3. new \in ChildRecord
    BY <1>2 DEF ChildRecord
  <1>4. children' = Append(children, new)
    BY DEF BeginChild
  <1> HIDE DEF new
  <1>5. /\ children' \in Seq(ChildRecord) /\ Len(children') = Len(children) + 1
        /\ children'[Len(children) + 1] = new
        /\ \A i \in 1 .. Len(children) : children'[i] = children[i]
    BY <1>1, <1>3, <1>4, AppendProperties
  <1>6. DOMAIN children' = 1 .. Len(children) + 1
    BY <1>1, <1>5, LenProperties
  <1> QED BY <1>1, <1>2, <1>5, <1>6 DEF new

LEMMA CompleteChildEffect ==
  ASSUME RecordsInv, NEW c \in Child, NEW early \in BOOLEAN, RecordChildComplete(c, early)
  PROVE  /\ Len(children) \in Nat /\ DOMAIN children = 1 .. Len(children)
         /\ DOMAIN children' = 1 .. Len(children)
         /\ \A i \in 1 .. Len(children) :
              /\ children'[i].id = children[i].id /\ children'[i].start = children[i].start
              /\ i # tracker[c].index => children'[i] = children[i]
              /\ \/ children'[i].end = children[i].end
                 \/ children'[i].end = clock' /\ clock' \in Nat /\ clock < clock'
  <1>1. /\ children \in Seq(ChildRecord) /\ clock \in Nat /\ Len(children) \in Nat
        /\ \A i \in 1 .. Len(children) : children[i] \in ChildRecord
        /\ DOMAIN children = 1 .. Len(children)
    BY DEF RecordsInv
  <1>2. clock' \in Nat /\ (early => clock' = clock) /\ (~early => clock < clock')
    BY <1>1 DEF RecordChildComplete
  <1>3. CASE tracker[c].index \in DOMAIN children
    <2>1. PICK n \in 1 .. Len(children) : n = tracker[c].index
      BY <1>1, <1>3
    <2>2. PICK e : e = IF early THEN children[n].end ELSE clock'
      OBVIOUS
    <2>3. children' = [children EXCEPT ![n] = [children[n] EXCEPT !.terminal = TRUE, !.end = e]]
      BY <1>1, <1>3, <2>1, <2>2 DEF RecordChildComplete
    <2>4. /\ DOMAIN children' = 1 .. Len(children)
          /\ \A i \in 1 .. Len(children) : i # n => children'[i] = children[i]
          /\ children'[n] = [children[n] EXCEPT !.terminal = TRUE, !.end = e]
      BY <1>1, <2>3
    <2>5. /\ children'[n].id = children[n].id /\ children'[n].start = children[n].start
          /\ children'[n].end = e
      BY <1>1, <2>4 DEF ChildRecord
    <2> QED BY <1>1, <1>2, <2>1, <2>2, <2>4, <2>5
  <1>4. CASE tracker[c].index \notin DOMAIN children
    BY <1>1, <1>4 DEF RecordChildComplete
  <1> QED BY <1>3, <1>4

\* The trackers of child RPCs, before and after a flush: a child RPC has a
\* tracker and is in the lower bound of others only once it has begun, its
\* record is where its tracker says, and those in its lower bound began no
\* later and end no earlier than it began.
BaseStillOpen(a, b) ==
  children[b].id \in tracker[children[a].id].base =>
    b <= a /\ (children[b].end = 0 \/ children[a].start <= children[b].end)

TrackerInv ==
  /\ DOMAIN tracker = Child
  /\ \A c \in Child : /\ c \notin Known => tracker[c].index = 0
                      /\ \A d \in tracker[c].base : d \in Known
  /\ \A i \in DOMAIN children : children[i].id \in Known /\ tracker[children[i].id].index = i
  /\ \A a, b \in DOMAIN children : BaseStillOpen(a, b)

LEMMA BeginChildTrackers ==
  ASSUME RecordsInv, TrackerInv, NEW c \in Child, BeginChild(c),
         c \notin Known, c \in Known', Known \subseteq Known'
  PROVE  TrackerInv'
  <1> DEFINE n == Len(children)
             new == [id |-> c, start |-> clock', end |-> 0, terminal |-> FALSE]
  <1>1. /\ n \in Nat /\ DOMAIN children = 1 .. n /\ DOMAIN children' = 1 .. n + 1
        /\ children'[n + 1] = new
        /\ \A i \in 1 .. n : children'[i] = children[i] /\ i # n + 1
    BY BeginChildEffect
  <1>2. /\ DOMAIN tracker' = Child
        /\ tracker'[c].index = n + 1 /\ tracker'[c].base = Base(c)
        /\ \A d \in Child : d # c => tracker'[d] = tracker[d]
    BY DEF BeginChild, TrackerInv
  <1>3. \A i \in 1 .. n : /\ children[i] \in ChildRecord /\ children[i].id \in Child
                          /\ children[i].id \in Known /\ children[i].id # c
                          /\ tracker[children[i].id].index = i
    <2> TAKE i \in 1 .. n
    <2>1. children[i] \in ChildRecord
      BY DEF RecordsInv
    <2>2. children[i].id \in Child
      BY <2>1 DEF ChildRecord
    <2> QED BY <1>1, <2>1, <2>2 DEF TrackerInv
  <1>4. Base(c) = {children[i].id : i \in {h \in 1 .. n : ~children[h].terminal}} \cup {c}
    BY <1>1 DEF Base, Open, ToSet
  <1>5. \A i \in 1 .. n : children[i].id \in Base(c) => children[i].end = 0
    <2> TAKE i \in 1 .. n
    <2> HAVE children[i].id \in Base(c)
    <2>1. PICK h \in 1 .. n : children[h].id = children[i].id /\ ~children[h].terminal
      BY <1>3, <1>4
    <2>2. h = i
      BY <1>3, <2>1
    <2> QED BY <1>1, <2>1, <2>2 DEF RecordsInv, EndsAfterStart
  <1>6. \A d \in Child : /\ d \notin Known' => tracker'[d].index = 0
                         /\ \A e \in tracker'[d].base : e \in Known'
    <2> TAKE d \in Child
    <2>1. CASE d = c
      <3>1. \A e \in Base(c) : e \in Known'
        BY <1>3, <1>4
      <3> QED BY <1>2, <2>1, <3>1
    <2>2. CASE d # c
      BY <1>2, <2>2 DEF TrackerInv
    <2> QED BY <2>1, <2>2
  <1>7. \A i \in 1 .. n + 1 : children'[i].id \in Known' /\ tracker'[children'[i].id].index = i
    <2> TAKE i \in 1 .. n + 1
    <2>1. CASE i = n + 1
      BY <1>1, <1>2, <2>1
    <2>2. CASE i # n + 1
      <3>1. i \in 1 .. n
        BY <1>1, <2>2
      <3>2. children'[i] = children[i] /\ tracker'[children[i].id] = tracker[children[i].id]
        BY <1>1, <1>2, <1>3, <3>1
      <3>3. children[i].id \in Known'
        BY <1>3, <3>1
      <3> QED BY <1>3, <3>1, <3>2, <3>3
    <2> QED BY <2>1, <2>2
  <1>8. ASSUME NEW a \in 1 .. n + 1, NEW b \in 1 .. n + 1 PROVE BaseStillOpen(a, b)'
    <2> SUFFICES ASSUME children'[b].id \in tracker'[children'[a].id].base
                 PROVE  b <= a /\ (children'[b].end = 0 \/ children'[a].start <= children'[b].end)
      BY DEF BaseStillOpen
    <2>1. CASE a = n + 1
      <3>1. b <= a
        BY <1>1, <2>1
      <3>2. children'[b].id \in Base(c)
        BY <1>1, <1>2, <2>1
      <3>3. CASE b = n + 1
        BY <1>1, <3>1, <3>3
      <3>4. CASE b # n + 1
        <4>1. b \in 1 .. n /\ children'[b] = children[b]
          BY <1>1, <3>4
        <4> QED BY <1>5, <3>1, <3>2, <4>1
      <3> QED BY <3>3, <3>4
    <2>2. CASE a # n + 1
      <3>1. a \in 1 .. n /\ children'[a] = children[a]
        BY <1>1, <2>2
      <3>2. tracker'[children[a].id] = tracker[children[a].id] /\ children[a].id \in Child
        BY <1>2, <1>3, <3>1
      <3>3. children'[b].id \in Known
        BY <3>1, <3>2 DEF TrackerInv
      <3>4. b # n + 1
        BY <1>1, <3>3
      <3>5. b \in 1 .. n /\ children'[b] = children[b]
        BY <1>1, <3>4
      <3>6. BaseStillOpen(a, b)
        BY <1>1, <3>1, <3>5 DEF TrackerInv
      <3> QED BY <3>1, <3>2, <3>5, <3>6 DEF BaseStillOpen
    <2> QED BY <2>1, <2>2
  <1> QED BY <1>1, <1>2, <1>6, <1>7, <1>8 DEF TrackerInv

LEMMA CompleteChildTrackers ==
  ASSUME RecordsInv, TrackerInv, NEW c \in Child, NEW early \in BOOLEAN,
         RecordChildComplete(c, early), Known \subseteq Known'
  PROVE  TrackerInv'
  <1> DEFINE n == Len(children)
  <1>1. /\ n \in Nat /\ DOMAIN children = 1 .. n /\ DOMAIN children' = 1 .. n
        /\ \A i \in 1 .. n :
             /\ children'[i].id = children[i].id /\ children'[i].start = children[i].start
             /\ \/ children'[i].end = children[i].end
                \/ children'[i].end = clock' /\ clock' \in Nat /\ clock < clock'
    BY CompleteChildEffect
  <1>2. tracker' = tracker
    BY DEF RecordChildComplete
  <1>3. \A i \in 1 .. n : /\ children[i].id \in Child /\ children[i].start \in Nat
                          /\ clock \in Nat /\ children[i].start <= clock
    <2> TAKE i \in 1 .. n
    <2>1. children[i] \in ChildRecord
      BY DEF RecordsInv
    <2> QED BY <1>1, <2>1 DEF RecordsInv, EndsAfterStart, ChildRecord
  <1>4. \A i \in 1 .. n : children'[i].id \in Known' /\ tracker'[children'[i].id].index = i
    <2> TAKE i \in 1 .. n
    <2>1. children[i].id \in Known /\ tracker[children[i].id].index = i
      BY <1>1 DEF TrackerInv
    <2>2. children[i].id \in Known'
      BY <1>3, <2>1
    <2> QED BY <1>1, <1>2, <2>1, <2>2
  <1>5. ASSUME NEW a \in 1 .. n, NEW b \in 1 .. n PROVE BaseStillOpen(a, b)'
    <2> SUFFICES ASSUME children'[b].id \in tracker'[children'[a].id].base
                 PROVE  b <= a /\ (children'[b].end = 0 \/ children'[a].start <= children'[b].end)
      BY DEF BaseStillOpen
    <2>1. b <= a /\ (children[b].end = 0 \/ children[a].start <= children[b].end)
      BY <1>1, <1>2 DEF TrackerInv, BaseStillOpen
    <2> QED BY <1>1, <1>3, <2>1
  <1>6. \A d \in Child : /\ d \notin Known' => tracker'[d].index = 0
                         /\ \A e \in tracker'[d].base : e \in Known'
    BY <1>2 DEF TrackerInv
  <1> QED BY <1>1, <1>2, <1>4, <1>5, <1>6 DEF TrackerInv

\* Also across a flush, and whichever child RPCs outlive it, every child RPC has
\* at most one record, its tracker points at it, and a child RPC is in the lower
\* bound of one that began while it was open.
THEOREM TrackersFit == FanoutSpec => []TrackerInv
  <1>1. FanoutInit => TrackerInv
    BY DEF FanoutInit, TrackerInv, NoTracker
  <1>2. StackIInv /\ RecordsInv /\ TrackerInv /\ [FanoutNext]_allVars => TrackerInv'
    <2> SUFFICES ASSUME StackIInv, RecordsInv, TrackerInv, [FanoutNext]_allVars PROVE TrackerInv'
      OBVIOUS
    <2>1. Known \subseteq Known'
      BY FanoutStep, KnownStays DEF Known
    <2>2. CASE UNCHANGED fanoutVars
      <3>1. UNCHANGED <<children, tracker>>
        BY <2>2 DEF fanoutVars
      <3>2. \A a, b \in DOMAIN children : BaseStillOpen(a, b)'
        BY <3>1 DEF TrackerInv, BaseStillOpen
      <3> QED BY <2>1, <3>1, <3>2 DEF TrackerInv
    <2>3. CASE Flush
      <3>1. children' = <<>> /\ tracker' = tracker
        BY <2>3 DEF Flush
      <3>2. DOMAIN children' = {}
        BY <3>1
      <3> QED BY <2>1, <3>1, <3>2 DEF TrackerInv
    <2>4. ASSUME NEW c \in Child, EstBefore(c) PROVE TrackerInv'
      <3>1. c \notin Known /\ c \in Known' /\ BeginChild(c)
        BY <2>4, EstTold DEF EstBefore
      <3> QED BY <2>1, <3>1, BeginChildTrackers
    <2>5. ASSUME NEW c \in Child, EstAfter(c) PROVE TrackerInv'
      BY <2>1, <2>5, CompleteChildTrackers DEF EstAfter
    <2> QED BY <2>2, <2>3, <2>4, <2>5
            DEF FanoutNext, EstRequestStep, EstFinalize, EstChildStep, allVars
  <1> QED BY <1>1, <1>2, FanoutIsStack, StackInvariant, RecordsInOrder, PTL DEF FanoutSpec

\* The groups recovered from the records of a request.
LEMMA RecordGroups ==
  ASSUME RecordsInv, TrackerInv
  PROVE  /\ Len(children) \in Nat /\ DOMAIN children = 1 .. Len(children)
         /\ Intervals(children, Len(children))
         /\ \A i, j \in 1 .. Len(children) : children[i].id = children[j].id => i = j
         /\ \A i \in 1 .. Len(children) : RecordOf(children[i].id) = children[i]
         /\ \E grp : Grouping(children, Len(children), Groups, grp)
  <1>1. /\ children \in Seq(ChildRecord) /\ Len(children) \in Nat
        /\ DOMAIN children = 1 .. Len(children)
    BY DEF RecordsInv
  <1>2. \A i, j \in 1 .. Len(children) : children[i].id = children[j].id => i = j
    BY <1>1 DEF TrackerInv
  <1>3. Intervals(children, Len(children))
    BY <1>1 DEF RecordsInv, SortedByStart, EndsAfterStart, Intervals
  <1>4. ASSUME NEW i \in 1 .. Len(children) PROVE RecordOf(children[i].id) = children[i]
    <2>1. children[i] \in ToSet(children)
      BY <1>1 DEF ToSet
    <2>2. \A r \in ToSet(children) : r.id = children[i].id => r = children[i]
      BY <1>1, <1>2 DEF ToSet
    <2> QED BY <2>1, <2>2 DEF RecordOf
  <1>5. PICK swept : /\ IsSweep(swept, children, Len(children))
                     /\ RecoverPathGroups(children) = swept[Len(children)]
    BY <1>1, SweepSteps
  <1>6. \A m \in 0 .. Len(children) : \E grp : Grouping(children, m, swept[m], grp)
    BY <1>1, <1>3, <1>5, SweepGroups
  <1>7. \E grp : Grouping(children, Len(children), Groups, grp)
    <2>1. Len(children) \in 0 .. Len(children)
      BY <1>1
    <2>2. Groups = swept[Len(children)]
      BY <1>5 DEF Groups
    <2> QED BY <1>6, <2>1, <2>2
  <1> QED BY <1>1, <1>2, <1>3, <1>4, <1>7

LEMMA SignatureMembers ==
  ASSUME RecordsInv, TrackerInv, NEW grp, Grouping(children, Len(children), Groups, grp)
  PROVE  /\ DOMAIN Groups = 1 .. Len(Groups) /\ Len(Groups) \in Nat
         /\ \A j \in 1 .. Len(Groups) : \A c \in Groups[j].signature :
              \E i \in Ended(children, Len(children)) :
                /\ grp[i] = j /\ children[i].id = c /\ RecordOf(c) = children[i]
         /\ \A i \in Ended(children, Len(children)) :
              /\ i \in 1 .. Len(children) /\ i \in Nat
              /\ children[i].start \in Nat /\ children[i].end \in Nat
              /\ children[i].start < children[i].end
              /\ grp[i] \in 1 .. Len(Groups) /\ children[i].id \in Groups[grp[i]].signature
              /\ RecordOf(children[i].id) = children[i]
  <1>1. /\ Groups \in Seq(Group) /\ grp \in [Ended(children, Len(children)) -> 1 .. Len(Groups)]
        /\ DOMAIN Groups = 1 .. Len(Groups) /\ Len(Groups) \in Nat
    BY DEF Grouping
  <1>2. \A j \in 1 .. Len(Groups) :
          Groups[j].signature =
            {children[i].id : i \in {h \in Ended(children, Len(children)) : grp[h] = j}}
    BY DEF Grouping, Described
  <1>3. /\ Intervals(children, Len(children)) /\ Len(children) \in Nat
        /\ \A i \in 1 .. Len(children) : RecordOf(children[i].id) = children[i]
    BY RecordGroups
  <1>4. \A i \in Ended(children, Len(children)) : i \in 1 .. Len(children) /\ children[i].end # 0
    BY DEF Ended
  <1>5. \A j \in 1 .. Len(Groups) : \A c \in Groups[j].signature :
          \E i \in Ended(children, Len(children)) :
            grp[i] = j /\ children[i].id = c /\ RecordOf(c) = children[i]
    BY <1>2, <1>3, <1>4
  <1>6. ASSUME NEW i \in Ended(children, Len(children))
        PROVE  /\ i \in 1 .. Len(children) /\ i \in Nat
               /\ children[i].start \in Nat /\ children[i].end \in Nat
               /\ children[i].start < children[i].end
               /\ grp[i] \in 1 .. Len(Groups) /\ children[i].id \in Groups[grp[i]].signature
               /\ RecordOf(children[i].id) = children[i]
    <2>1. i \in 1 .. Len(children) /\ i \in Nat
      BY <1>3, <1>4
    <2>2. children[i] \in ChildRecord /\ children[i].start < children[i].end
      BY <1>3, <1>4, <2>1 DEF Intervals
    <2>3. grp[i] \in 1 .. Len(Groups)
      BY <1>1
    <2>4. children[i].id \in Groups[grp[i]].signature
      BY <1>2, <2>3
    <2>5. children[i].start \in Nat /\ children[i].end \in Nat
      BY <2>2 DEF ChildRecord
    <2> QED BY <1>3, <2>1, <2>2, <2>3, <2>4, <2>5
  <1> QED BY <1>1, <1>5, <1>6

\* A set of members of a group that is not all of it overlaps the rest: the
\* first member that is on the other side of the group's first begins before an
\* earlier one ends.
LEMMA GroupsConnected ==
  ASSUME RecordsInv, TrackerInv, NEW grp, Grouping(children, Len(children), Groups, grp),
         NEW j \in 1 .. Len(Groups), NEW S \in SUBSET Groups[j].signature,
         S # {}, S # Groups[j].signature
  PROVE  \E c \in S, d \in Groups[j].signature \ S : Overlap(c, d)
  <1> DEFINE M == {i \in Ended(children, Len(children)) : grp[i] = j}
             In(i) == children[i].id \in S
  <1>1. /\ \A i \in M : /\ i \in Nat /\ i \in 1 .. Len(children)
                        /\ children[i].start \in Nat /\ children[i].end \in Nat
                        /\ children[i].start < children[i].end
                        /\ children[i].id \in Groups[j].signature
                        /\ RecordOf(children[i].id) = children[i]
        /\ \A c \in Groups[j].signature : \E i \in M : children[i].id = c
    BY SignatureMembers
  <1>2. \A i \in M : \/ \A k \in M : i <= k
                     \/ \E k \in M : k < i /\ children[i].start <= children[k].end
    <2>1. Linked(children, Len(children), grp)
      BY DEF Grouping
    <2> QED BY <2>1 DEF Linked
  <1>3. Intervals(children, Len(children))
    BY RecordGroups
  <1> HIDE DEF M
  <1>4. PICK f \in M : \A k \in M : f <= k
    <2>1. M \in SUBSET Nat /\ M # {}
      BY <1>1
    <2> QED BY <2>1, LeastNat
  <1> DEFINE Other == {i \in M : In(i) # In(f)}
  <1>5. PICK i \in Other : \A k \in Other : i <= k
    <2>1. Other \in SUBSET Nat
      BY <1>1
    <2>2. Other # {}
      <3>1. PICK c \in S : TRUE
        OBVIOUS
      <3>2. PICK d \in Groups[j].signature : d \notin S
        OBVIOUS
      <3>3. PICK a \in M : children[a].id = c
        BY <1>1, <3>1
      <3>4. PICK b \in M : children[b].id = d
        BY <1>1, <3>2
      <3>5. In(a) /\ ~In(b)
        BY <3>1, <3>2, <3>3, <3>4
      <3> QED BY <3>5
    <2> HIDE DEF Other
    <2> QED BY <2>1, <2>2, LeastNat
  <1>6. i \in M /\ In(i) # In(f) /\ i # f
    BY <1>5
  <1>7. PICK k \in M : k < i /\ children[i].start <= children[k].end
    <2>1. ~\A k \in M : i <= k
      BY <1>1, <1>4, <1>6
    <2> QED BY <1>2, <1>6, <2>1
  <1>8. In(k) = In(f)
    <2>1. k \notin Other
      <3> HIDE DEF Other
      <3> QED BY <1>1, <1>5, <1>6, <1>7
    <2> QED BY <1>7, <2>1
  <1>9. children[k].start <= children[i].end
    <2>1. k <= i
      BY <1>1, <1>6, <1>7
    <2>2. children[k].start <= children[i].start
      BY <1>1, <1>3, <1>6, <1>7, <2>1 DEF Intervals
    <2>3. /\ children[i].start \in Nat /\ children[i].end \in Nat /\ children[k].start \in Nat
          /\ children[i].start < children[i].end
      BY <1>1, <1>6, <1>7
    <2> QED BY <2>2, <2>3
  <1>10. Overlap(children[i].id, children[k].id) /\ Overlap(children[k].id, children[i].id)
    BY <1>1, <1>6, <1>7, <1>9 DEF Overlap
  <1>11. /\ children[i].id \in Groups[j].signature /\ children[k].id \in Groups[j].signature
         /\ (children[i].id \in S) # (children[k].id \in S)
    BY <1>1, <1>6, <1>7, <1>8
  <1> QED BY <1>10, <1>11

\* recover_path_groups computes the connected components of the intervals of
\* the completed child RPCs, in the order of time, in every state a request can
\* be in.
THEOREM GroupsRecovered == FanoutSpec => []GroupsAreComponents
  <1>1. ASSUME RecordsInv, TrackerInv PROVE GroupsAreComponents
    <2> DEFINE E == Ended(children, Len(children))
    <2>1. PICK grp : Grouping(children, Len(children), Groups, grp)
      BY <1>1, RecordGroups
    <2>2. /\ DOMAIN Groups = 1 .. Len(Groups)
          /\ \A j \in 1 .. Len(Groups) : \A c \in Groups[j].signature :
               \E i \in E : grp[i] = j /\ children[i].id = c /\ RecordOf(c) = children[i]
          /\ \A i \in E : grp[i] \in 1 .. Len(Groups) /\ children[i].id \in Groups[grp[i]].signature
      BY <1>1, <2>1, SignatureMembers
    <2>3. Completed = {children[i] : i \in E}
      <3>1. DOMAIN children = 1 .. Len(children)
        BY <1>1, RecordGroups
      <3> QED BY <3>1 DEF Completed, ToSet, Ended
    <2> HIDE DEF E
    <2>4. UNION ToSet(Signatures(Groups)) = {r.id : r \in Completed}
      <3>1. ToSet(Signatures(Groups)) = {Groups[j].signature : j \in 1 .. Len(Groups)}
        BY <2>2 DEF ToSet, Signatures
      <3>2. {r.id : r \in Completed} = {children[i].id : i \in E}
        BY <2>3
      <3>3. \A c : c \in UNION ToSet(Signatures(Groups)) <=> \E i \in E : children[i].id = c
        BY <2>2, <3>1
      <3> QED BY <3>2, <3>3
    <2>5. \A i \in DOMAIN Groups :
            \A S \in (SUBSET Groups[i].signature) \ {{}, Groups[i].signature} :
              \E c \in S, d \in Groups[i].signature \ S : Overlap(c, d)
      BY <1>1, <2>1, <2>2, GroupsConnected
    <2>6. \A i, j \in DOMAIN Groups :
            i < j => \A c \in Groups[i].signature, d \in Groups[j].signature :
                       RecordOf(c).end < RecordOf(d).start
      <3>1. \A a, b \in E : grp[a] < grp[b] => children[a].end < children[b].start
        BY <2>1 DEF Grouping, InTime, E
      <3> QED BY <2>2, <3>1
    <2> QED BY <2>4, <2>5, <2>6 DEF GroupsAreComponents
  <1> QED BY <1>1, RecordsInOrder, TrackersFit, PTL

\* begin_child: the open siblings a child RPC is issued with end up in its
\* group if both complete, however they interleave with other child RPCs, with
\* early returns and with a flush.
THEOREM BaseInGroup == FanoutSpec => []BaseIsLowerBound
  <1>1. ASSUME RecordsInv, TrackerInv PROVE BaseIsLowerBound
    <2> DEFINE E == Ended(children, Len(children))
    <2>1. PICK grp : Grouping(children, Len(children), Groups, grp)
      BY <1>1, RecordGroups
    <2>2. /\ DOMAIN Groups = 1 .. Len(Groups)
          /\ \A j \in 1 .. Len(Groups) : \A c \in Groups[j].signature :
               \E i \in E : grp[i] = j /\ children[i].id = c
          /\ \A i \in E : /\ i \in 1 .. Len(children) /\ i \in Nat
                          /\ children[i].start \in Nat /\ children[i].end \in Nat
                          /\ grp[i] \in 1 .. Len(Groups) /\ Len(Groups) \in Nat
      BY <1>1, <2>1, SignatureMembers
    <2>3. \A a, b \in E : /\ b < a => grp[b] <= grp[a]
                          /\ grp[b] < grp[a] => children[b].end < children[a].start
      BY <2>1 DEF Grouping, InTime, E
    <2>4. \A a, b \in E : BaseStillOpen(a, b) /\ children[b].end # 0
      <3>1. \A i \in E : i \in DOMAIN children /\ children[i].end # 0
        BY <1>1, RecordGroups DEF Ended
      <3> QED BY <1>1, <3>1 DEF TrackerInv
    <2> HIDE DEF E
    <2> SUFFICES ASSUME NEW i \in 1 .. Len(Groups), NEW j \in 1 .. Len(Groups),
                        NEW c \in Groups[i].signature, NEW d \in Groups[j].signature,
                        d \in tracker[c].base
                 PROVE  i = j
      BY <2>2 DEF BaseIsLowerBound
    <2>5. PICK a \in E : grp[a] = i /\ children[a].id = c
      BY <2>2
    <2>6. PICK b \in E : grp[b] = j /\ children[b].id = d
      BY <2>2
    <2>7. b <= a /\ children[a].start <= children[b].end
      BY <2>4, <2>5, <2>6 DEF BaseStillOpen
    <2>8. ~(grp[b] < grp[a])
      BY <2>2, <2>3, <2>7
    <2>9. grp[b] <= grp[a]
      <3>1. CASE b = a
        BY <2>2, <3>1
      <3>2. CASE b # a
        BY <2>2, <2>3, <2>7, <3>2
      <3> QED BY <3>1, <3>2
    <2> QED BY <2>2, <2>5, <2>6, <2>8, <2>9
  <1> QED BY <1>1, RecordsInOrder, TrackersFit, PTL

-----------------------------------------------------------------------------
(***************************************************************************)
(* The path: it can be folded in parts where the records are apart         *)
(***************************************************************************)

\* Two sweeps over the same records are in the same state.
LEMMA SweepsAgree ==
  ASSUME NEW n \in Nat, NEW p, NEW q, NEW rec, NEW other,
         IsSweep(p, rec, n), IsSweep(q, other, n), \A m \in 1 .. n : rec[m] = other[m]
  PROVE  p[n] = q[n]
  <1> DEFINE Bad == {m \in 0 .. n : p[m] # q[m]}
  <1>1. Bad = {}
    <2> SUFFICES ASSUME Bad # {} PROVE FALSE
      OBVIOUS
    <2>1. PICK m \in Bad : \A o \in Bad : m <= o
      <3>1. Bad \in SUBSET Nat
        OBVIOUS
      <3> HIDE DEF Bad
      <3> QED BY <3>1, LeastNat
    <2>2. m \in 1 .. n /\ m - 1 \in 0 .. n /\ ~(m <= m - 1)
      BY <2>1 DEF IsSweep
    <2>3. m - 1 \notin Bad
      <3> HIDE DEF Bad
      <3> QED BY <2>1, <2>2
    <2>4. p[m] = q[m]
      BY <2>2, <2>3 DEF IsSweep
    <2> QED BY <2>1, <2>4
  <1> QED BY <1>1

\* The groups of the first k records are those the sweep has after k steps.
LEMMA SweepPrefixes ==
  ASSUME NEW S, NEW rec \in Seq(S)
  PROVE  \E swept : /\ IsSweep(swept, rec, Len(rec))
                    /\ \A s \in Seq(S) :
                         Len(s) <= Len(rec) /\ (\A m \in 1 .. Len(s) : s[m] = rec[m])
                           => RecoverPathGroups(s) = swept[Len(s)]
  <1>1. PICK swept : IsSweep(swept, rec, Len(rec))
    BY SweepSteps
  <1>2. ASSUME NEW s \in Seq(S), Len(s) <= Len(rec), \A m \in 1 .. Len(s) : s[m] = rec[m]
        PROVE  RecoverPathGroups(s) = swept[Len(s)]
    <2>1. PICK q : IsSweep(q, s, Len(s)) /\ RecoverPathGroups(s) = q[Len(s)]
      BY SweepSteps
    <2>2. Len(s) \in Nat /\ IsSweep(swept, rec, Len(s))
      BY <1>1, <1>2 DEF IsSweep
    <2>3. q[Len(s)] = swept[Len(s)]
      BY <1>2, <2>1, <2>2, SweepsAgree
    <2> QED BY <2>1, <2>3
  <1> QED BY <1>1, <1>2

\* C is what the sweep that has made A makes of further records, and B what it
\* makes of them alone.
CutOf(A, B, C) ==
  /\ A \in Seq(Group) /\ B \in Seq(Group) /\ C \in Seq(Group)
  /\ Len(C) = Len(A) + Len(B)
  /\ \A j \in 1 .. Len(A) : C[j] = A[j]
  /\ \A j \in 1 .. Len(B) : /\ C[Len(A) + j].signature = B[j].signature
                            /\ C[Len(A) + j].max_end = B[j].max_end

\* A record that begins a group.
Begins(groups, r) == groups = <<>> \/ Last(groups).max_end < r.start

\* One step of the sweep: a record of a new group, or one more of the last.
OneMoreGroup(G, V, r) ==
  /\ Len(V) = Len(G) + 1
  /\ \A j \in 1 .. Len(G) : V[j] = G[j]
  /\ V[Len(G) + 1].signature = {r.id} /\ V[Len(G) + 1].max_end = r.end

OneMoreMember(G, V, r) ==
  /\ Len(G) \in 1 .. Len(G) /\ Len(V) = Len(G)
  /\ \A j \in 1 .. Len(G) : j # Len(G) => V[j] = G[j]
  /\ V[Len(G)].signature = G[Len(G)].signature \cup {r.id}
  /\ V[Len(G)].max_end = Max({G[Len(G)].max_end, r.end})

LEMMA SweepCases ==
  ASSUME NEW G \in Seq(Group), NEW r \in ChildRecord, r.end # 0
  PROVE  /\ Visit(G, r) \in Seq(Group)
         /\ Begins(G, r) => OneMoreGroup(G, Visit(G, r), r)
         /\ ~Begins(G, r) => OneMoreMember(G, Visit(G, r), r)
  <1>1. /\ Len(G) \in Nat /\ DOMAIN G = 1 .. Len(G) /\ \A j \in 1 .. Len(G) : G[j] \in Group
        /\ r.id \in Child /\ r.start \in Nat /\ r.end \in Nat
    BY DEF ChildRecord
  <1>2. \A g \in Group : /\ g.signature \in SUBSET Child /\ g.path_prefix \in Seq(SUBSET Child)
                         /\ g.max_end \in Nat
    BY DEF Group
  <1>3. CASE Begins(G, r)
    <2> DEFINE new == [path_prefix |-> Signatures(G), signature |-> {r.id}, max_end |-> r.end]
    <2>1. Signatures(G) \in Seq(SUBSET Child)
      BY <1>1, <1>2 DEF Signatures
    <2>2. new \in Group /\ new.signature = {r.id} /\ new.max_end = r.end
      BY <1>1, <2>1 DEF Group
    <2>3. ~(G # <<>> /\ r.start <= Last(G).max_end)
      <3>1. CASE G = <<>>
        BY <3>1
      <3>2. CASE G # <<>>
        <4>1. Last(G) \in Group
          BY <1>1, <3>2 DEF Last
        <4> QED BY <1>1, <1>2, <1>3, <3>2, <4>1 DEF Begins
      <3> QED BY <3>1, <3>2
    <2>4. Visit(G, r) = Append(G, new)
      BY <2>3 DEF Visit, Sweep, NewGroup
    <2> HIDE DEF new
    <2>5. /\ Append(G, new) \in Seq(Group) /\ Len(Append(G, new)) = Len(G) + 1
          /\ Append(G, new)[Len(G) + 1] = new
          /\ \A j \in 1 .. Len(G) : Append(G, new)[j] = G[j]
      BY <2>2, AppendProperties
    <2>6. OneMoreGroup(G, Append(G, new), r)
      BY <2>2, <2>5 DEF OneMoreGroup
    <2> QED BY <1>3, <2>4, <2>5, <2>6
  <1>4. CASE ~Begins(G, r)
    <2>1. G # <<>> /\ Len(G) \in 1 .. Len(G) /\ Last(G) = G[Len(G)] /\ Last(G) \in Group
      BY <1>1, <1>4 DEF Begins, Last
    <2>2. G # <<>> /\ r.start <= Last(G).max_end
      BY <1>1, <1>2, <1>4, <2>1 DEF Begins
    <2>3. PICK last \in Group : last = Last(G)
      BY <2>1
    <2>4. PICK mx : mx = Max({last.max_end, r.end})
      OBVIOUS
    <2>5. mx \in Nat
      BY <1>1, <1>2, <2>3, <2>4, MaxOfTwo
    <2>6. PICK new : new = [last EXCEPT !.signature = last.signature \cup {r.id}, !.max_end = mx]
      OBVIOUS
    <2>7. /\ new = [path_prefix |-> last.path_prefix, signature |-> last.signature \cup {r.id},
                    max_end |-> mx]
          /\ new.signature = last.signature \cup {r.id} /\ new.max_end = mx
      BY <2>3, <2>6 DEF Group
    <2>8. new \in Group
      BY <1>1, <1>2, <2>3, <2>5, <2>7 DEF Group
    <2>9. Visit(G, r) = [G EXCEPT ![Len(G)] = new]
      BY <2>2, <2>3, <2>4, <2>6 DEF Visit, Sweep, ReplaceAt, Group
    <2>10. PICK V : V = [G EXCEPT ![Len(G)] = new]
      OBVIOUS
    <2>11. /\ V \in Seq(Group) /\ Len(V) = Len(G) /\ V[Len(G)] = new
           /\ \A j \in 1 .. Len(G) : j # Len(G) => V[j] = G[j]
      <3>1. PICK l \in Nat : l = Len(G)
        BY <1>1
      <3>2. l \in 1 .. l /\ DOMAIN G = 1 .. l /\ V = [G EXCEPT ![l] = new]
        BY <1>1, <2>1, <2>10, <3>1
      <3>3. V \in Seq(Group) /\ Len(V) = l /\ V[l] = new /\ \A j \in 1 .. l : j # l => V[j] = G[j]
        BY <2>8, <3>1, <3>2
      <3> QED BY <3>1, <3>3
    <2>12. OneMoreMember(G, V, r)
      BY <2>1, <2>3, <2>4, <2>7, <2>11 DEF OneMoreMember
    <2> QED BY <1>4, <2>9, <2>10, <2>11, <2>12
  <1> QED BY <1>3, <1>4

LEMMA CutStep ==
  ASSUME NEW A, NEW B, NEW C, CutOf(A, B, C), NEW r \in ChildRecord, r.end # 0,
         B = <<>> => Begins(A, r)
  PROVE  CutOf(A, Visit(B, r), Visit(C, r)) /\ Visit(B, r) # <<>>
  <1>1. /\ A \in Seq(Group) /\ B \in Seq(Group) /\ C \in Seq(Group)
        /\ Len(A) \in Nat /\ Len(B) \in Nat /\ Len(C) = Len(A) + Len(B)
        /\ \A j \in 1 .. Len(A) : C[j] = A[j]
        /\ \A j \in 1 .. Len(B) : /\ C[Len(A) + j].signature = B[j].signature
                                  /\ C[Len(A) + j].max_end = B[j].max_end
    BY DEF CutOf
  <1>2. PICK a \in Nat, b \in Nat : a = Len(A) /\ b = Len(B) /\ Len(C) = a + b
    BY <1>1
  <1>3. Begins(B, r) <=> Begins(C, r)
    <2>1. CASE B = <<>>
      <3>1. b = 0 /\ Len(C) = a
        BY <1>2, <2>1
      <3>2. CASE A = <<>>
        <4>1. C = <<>>
          BY <1>1, <1>2, <3>1, <3>2
        <4> QED BY <2>1, <4>1 DEF Begins
      <3>3. CASE A # <<>>
        <4>1. a \in 1 .. a /\ Last(A) = A[a] /\ Last(C) = C[a] /\ C[a] = A[a]
          BY <1>1, <1>2, <3>1, <3>3 DEF Last
        <4> QED BY <2>1, <3>3, <4>1 DEF Begins
      <3> QED BY <3>2, <3>3
    <2>2. CASE B # <<>>
      <3>1. b \in 1 .. b /\ Last(B) = B[b] /\ Last(C) = C[a + b] /\ C # <<>>
        BY <1>1, <1>2, <2>2 DEF Last
      <3>2. Last(C).max_end = Last(B).max_end
        BY <1>1, <1>2, <3>1
      <3> QED BY <2>2, <3>1, <3>2 DEF Begins
    <2> QED BY <2>1, <2>2
  <1>4. PICK W \in Seq(Group), X \in Seq(Group) : W = Visit(B, r) /\ X = Visit(C, r)
    BY <1>1, SweepCases
  <1>5. CASE Begins(B, r)
    <2>1. /\ Len(W) = b + 1 /\ \A j \in 1 .. b : W[j] = B[j]
          /\ W[b + 1].signature = {r.id} /\ W[b + 1].max_end = r.end
      <3>1. OneMoreGroup(B, W, r)
        BY <1>1, <1>3, <1>4, <1>5, SweepCases
      <3> QED BY <1>2, <3>1 DEF OneMoreGroup
    <2>2. /\ Len(X) = a + b + 1 /\ \A j \in 1 .. a + b : X[j] = C[j]
          /\ X[a + b + 1].signature = {r.id} /\ X[a + b + 1].max_end = r.end
      <3>1. OneMoreGroup(C, X, r)
        BY <1>1, <1>3, <1>4, <1>5, SweepCases
      <3> QED BY <1>2, <3>1 DEF OneMoreGroup
    <2>3. \A j \in 1 .. a : X[j] = A[j]
      BY <1>1, <1>2, <2>2
    <2>4. ASSUME NEW j \in 1 .. b + 1
          PROVE  X[a + j].signature = W[j].signature /\ X[a + j].max_end = W[j].max_end
      <3>1. CASE j = b + 1
        <4>1. a + j = a + b + 1
          BY <1>2, <3>1
        <4> QED BY <2>1, <2>2, <3>1, <4>1
      <3>2. CASE j # b + 1
        <4>1. j \in 1 .. b /\ a + j \in 1 .. a + b
          BY <1>2, <3>2
        <4> QED BY <1>1, <1>2, <2>1, <2>2, <4>1
      <3> QED BY <3>1, <3>2
    <2>5. W # <<>>
      BY <1>2, <2>1
    <2> QED BY <1>1, <1>2, <1>4, <2>1, <2>2, <2>3, <2>4, <2>5 DEF CutOf
  <1>6. CASE ~Begins(B, r)
    <2>1. /\ b \in 1 .. b /\ Len(W) = b /\ \A j \in 1 .. b : j # b => W[j] = B[j]
          /\ W[b].signature = B[b].signature \cup {r.id}
          /\ W[b].max_end = Max({B[b].max_end, r.end})
      <3>1. OneMoreMember(B, W, r)
        BY <1>1, <1>3, <1>4, <1>6, SweepCases
      <3> QED BY <1>2, <3>1 DEF OneMoreMember
    <2>2. /\ Len(X) = a + b /\ \A j \in 1 .. a + b : j # a + b => X[j] = C[j]
          /\ X[a + b].signature = C[a + b].signature \cup {r.id}
          /\ X[a + b].max_end = Max({C[a + b].max_end, r.end})
      <3>1. OneMoreMember(C, X, r)
        BY <1>1, <1>3, <1>4, <1>6, SweepCases
      <3> QED BY <1>2, <3>1 DEF OneMoreMember
    <2>3. \A j \in 1 .. a : X[j] = A[j]
      BY <1>1, <1>2, <2>1, <2>2
    <2>4. ASSUME NEW j \in 1 .. b
          PROVE  X[a + j].signature = W[j].signature /\ X[a + j].max_end = W[j].max_end
      <3>1. C[a + j].signature = B[j].signature /\ C[a + j].max_end = B[j].max_end
        BY <1>1, <1>2
      <3>2. CASE j = b
        BY <2>1, <2>2, <3>1, <3>2
      <3>3. CASE j # b
        <4>1. a + j \in 1 .. a + b /\ a + j # a + b
          BY <1>2, <3>3
        <4> QED BY <2>1, <2>2, <3>1, <3>3, <4>1
      <3> QED BY <3>2, <3>3
    <2>5. W # <<>>
      BY <1>2, <2>1
    <2> QED BY <1>1, <1>2, <1>4, <2>1, <2>2, <2>3, <2>4, <2>5 DEF CutOf
  <1> QED BY <1>5, <1>6

\* tail is the p records after the first k, which have ended,
IsTail(tail, rec, k, p) == \A m \in 1 .. p : tail[m] = rec[k + m] /\ rec[k + m].end # 0

\* and begin after the first k have ended.
Apart(rec, k, p) == \A i \in Ended(rec, k) : p # 0 => rec[i].end < rec[k + 1].start

\* If the first k records have all ended before record k + 1 begins, their
\* groups stay as they are, and the p records that follow, which have ended,
\* make groups of their own.
LEMMA CutSweep ==
  ASSUME NEW n \in Nat, NEW rec, Intervals(rec, n), NEW swept, IsSweep(swept, rec, n),
         NEW k \in 0 .. n, NEW p \in 0 .. n - k, NEW tail, NEW after, IsSweep(after, tail, p),
         IsTail(tail, rec, k, p), Apart(rec, k, p)
  PROVE  CutOf(swept[k], after[p], swept[k + p])
  <1>1. PICK A : A = swept[k]
    OBVIOUS
  <1>2. PICK grp : Grouping(rec, k, A, grp)
    BY <1>1, SweepGroups
  <1>3. A \in Seq(Group) /\ Len(A) \in Nat
    BY <1>2 DEF Grouping
  <1>4. p # 0 => Begins(A, rec[k + 1])
    <2> SUFFICES ASSUME p # 0, A # <<>> PROVE Last(A).max_end < rec[k + 1].start
      BY DEF Begins
    <2>1. Len(A) \in 1 .. Len(A) /\ Last(A) = A[Len(A)]
      BY <1>3 DEF Last
    <2>2. PICK i \in Ended(rec, k) : rec[i].end = A[Len(A)].max_end
      BY <1>2, <2>1 DEF Grouping, Described
    <2> QED BY <2>1, <2>2 DEF Apart
  <1> DEFINE Good(m) == CutOf(A, after[m], swept[k + m]) /\ (m # 0 => after[m] # <<>>)
             Bad == {m \in 0 .. p : ~Good(m)}
  <1>5. Good(0)
    <2>1. after[0] = <<>> /\ k + 0 = k
      BY DEF IsSweep
    <2>2. CutOf(A, <<>>, A)
      BY <1>3 DEF CutOf
    <2> QED BY <1>1, <2>1, <2>2
  <1>6. Bad = {}
    <2> SUFFICES ASSUME Bad # {} PROVE FALSE
      OBVIOUS
    <2>1. PICK m \in Bad : \A o \in Bad : m <= o
      <3>1. Bad \in SUBSET Nat
        OBVIOUS
      <3> HIDE DEF Bad
      <3> QED BY <3>1, LeastNat
    <2>2. m \in 0 .. p /\ ~Good(m) /\ m # 0
      <3> HIDE DEF Good
      <3> QED BY <1>5, <2>1
    <2>3. m \in 1 .. p /\ m - 1 \in 0 .. p /\ ~(m <= m - 1) /\ k + m \in 1 .. n
      BY <2>2
    <2>4. Good(m - 1)
      <3>1. m - 1 \notin Bad
        <4> HIDE DEF Bad
        <4> QED BY <2>1, <2>3
      <3> HIDE DEF Good
      <3> QED BY <2>3, <3>1
    <2>5. PICK r : r = rec[k + m]
      OBVIOUS
    <2>6. r \in ChildRecord /\ r.end # 0 /\ r = tail[m]
      BY <2>3, <2>5 DEF Intervals, IsTail
    <2>7. after[m - 1] = <<>> => Begins(A, r)
      <3> SUFFICES ASSUME after[m - 1] = <<>> PROVE Begins(A, r)
        OBVIOUS
      <3>1. m - 1 = 0
        BY <2>4
      <3>2. m = 1 /\ p # 0
        BY <2>2, <2>3, <3>1
      <3> QED BY <1>4, <2>5, <3>2
    <2>8. after[m] = Visit(after[m - 1], r)
      BY <2>3, <2>6 DEF IsSweep
    <2>9. swept[k + m] = Visit(swept[k + (m - 1)], r)
      <3>1. (k + m) - 1 = k + (m - 1)
        BY <2>3
      <3> QED BY <2>3, <2>5, <3>1 DEF IsSweep
    <2>10. CutOf(A, after[m], swept[k + m]) /\ after[m] # <<>>
      BY <2>4, <2>6, <2>7, <2>8, <2>9, CutStep
    <2> QED BY <2>2, <2>10
  <1>7. CutOf(A, after[p], swept[k + p])
    <2>1. p \in 0 .. p
      OBVIOUS
    <2>2. Good(p)
      <3> HIDE DEF Good
      <3> QED BY <1>6, <2>1
    <2> QED BY <2>2
  <1> QED BY <1>1, <1>7

\* The path over the first k records.
PathUpTo(rec, k) == Signatures(RecoverPathGroups(SubSeq(rec, 1, k)))

\* It depends on these records only.
LEMMA SamePath ==
  ASSUME NEW rec \in Seq(ChildRecord), NEW other \in Seq(ChildRecord), NEW k \in Nat,
         k <= Len(rec), k <= Len(other), \A i \in 1 .. k : rec[i] = other[i]
  PROVE  PathUpTo(rec, k) = PathUpTo(other, k)
  <1>1. k \in 0 .. Len(rec) /\ k \in 0 .. Len(other)
    OBVIOUS
  <1>2. /\ SubSeq(rec, 1, k) \in Seq(ChildRecord) /\ Len(SubSeq(rec, 1, k)) = k
        /\ \A i \in 1 .. k : SubSeq(rec, 1, k)[i] = rec[i]
    BY <1>1, FirstRecords
  <1>3. /\ SubSeq(other, 1, k) \in Seq(ChildRecord) /\ Len(SubSeq(other, 1, k)) = k
        /\ \A i \in 1 .. k : SubSeq(other, 1, k)[i] = other[i]
    BY <1>1, FirstRecords
  <1>4. SubSeq(rec, 1, k) = SubSeq(other, 1, k)
    <2>1. PICK s \in Seq(ChildRecord), t \in Seq(ChildRecord) :
            s = SubSeq(rec, 1, k) /\ t = SubSeq(other, 1, k)
      BY <1>2, <1>3
    <2> QED BY <1>2, <1>3, <2>1
  <1> QED BY <1>4 DEF PathUpTo

\* The path is folded in parts: over the first f records, then over the t that
\* follow, if these all end and begin after the first f have ended.
LEMMA PathInParts ==
  ASSUME NEW rec \in Seq(ChildRecord), Intervals(rec, Len(rec)),
         NEW f \in Nat, NEW t \in Nat, f + t <= Len(rec),
         NEW tail \in Seq(ChildRecord), Len(tail) = t,
         \A m \in 1 .. t : tail[m] = rec[f + m] /\ rec[f + m].end # 0,
         \A i \in 1 .. f : t # 0 => rec[i].end < rec[f + 1].start
  PROVE  PathUpTo(rec, f + t) = PathUpTo(rec, f) \o Signatures(RecoverPathGroups(tail))
  <1>1. PICK swept : /\ IsSweep(swept, rec, Len(rec))
                     /\ \A s \in Seq(ChildRecord) :
                          Len(s) <= Len(rec) /\ (\A m \in 1 .. Len(s) : s[m] = rec[m])
                            => RecoverPathGroups(s) = swept[Len(s)]
    BY SweepPrefixes
  <1>2. PICK after : IsSweep(after, tail, t) /\ RecoverPathGroups(tail) = after[t]
    BY SweepSteps
  <1>3. ASSUME NEW k \in 0 .. Len(rec) PROVE RecoverPathGroups(SubSeq(rec, 1, k)) = swept[k]
    <2>1. /\ SubSeq(rec, 1, k) \in Seq(ChildRecord) /\ Len(SubSeq(rec, 1, k)) = k
          /\ \A i \in 1 .. k : SubSeq(rec, 1, k)[i] = rec[i]
      BY FirstRecords
    <2>2. k <= Len(rec)
      OBVIOUS
    <2> QED BY <1>1, <2>1, <2>2
  <1>4. f \in 0 .. Len(rec) /\ t \in 0 .. Len(rec) - f /\ f + t \in 0 .. Len(rec) /\ Len(rec) \in Nat
    OBVIOUS
  <1>5. CutOf(swept[f], after[t], swept[f + t])
    <2>1. Apart(rec, f, t) /\ IsTail(tail, rec, f, t)
      BY DEF Ended, Apart, IsTail
    <2>2. PICK n \in Nat : n = Len(rec)
      BY <1>4
    <2>3. f \in 0 .. n /\ t \in 0 .. n - f /\ Intervals(rec, n) /\ IsSweep(swept, rec, n)
      BY <1>1, <1>4, <2>2
    <2>4. IsSweep(after, tail, t)
      BY <1>2
    <2> QED BY <2>1, <2>3, <2>4, CutSweep
  <1>6. ASSUME NEW A, NEW B, NEW C, CutOf(A, B, C) PROVE Signatures(C) = Signatures(A) \o Signatures(B)
    <2>1. /\ A \in Seq(Group) /\ B \in Seq(Group) /\ C \in Seq(Group)
          /\ Len(A) \in Nat /\ Len(B) \in Nat /\ Len(C) = Len(A) + Len(B)
          /\ DOMAIN A = 1 .. Len(A) /\ DOMAIN B = 1 .. Len(B) /\ DOMAIN C = 1 .. Len(A) + Len(B)
          /\ \A j \in 1 .. Len(A) : C[j].signature = A[j].signature
          /\ \A j \in 1 .. Len(B) : C[Len(A) + j].signature = B[j].signature
      BY <1>6 DEF CutOf
    <2>2. PICK a \in Nat, b \in Nat : a = Len(A) /\ b = Len(B)
      BY <2>1
    <2>3. \A g \in Group : g.signature \in SUBSET Child
      BY DEF Group
    <2>4. /\ Signatures(A) = [j \in 1 .. a |-> A[j].signature]
          /\ Signatures(B) = [j \in 1 .. b |-> B[j].signature]
          /\ Signatures(C) = [j \in 1 .. a + b |-> C[j].signature]
      BY <2>1, <2>2 DEF Signatures
    <2>5. /\ Signatures(A) \in Seq(SUBSET Child) /\ Len(Signatures(A)) = a
          /\ Signatures(B) \in Seq(SUBSET Child) /\ Len(Signatures(B)) = b
          /\ Signatures(C) \in Seq(SUBSET Child) /\ Len(Signatures(C)) = a + b
      BY <2>1, <2>2, <2>3, <2>4
    <2>6. PICK u, v, w : u = Signatures(A) /\ v = Signatures(B) /\ w = Signatures(C)
      OBVIOUS
    <2>7. /\ u \in Seq(SUBSET Child) /\ v \in Seq(SUBSET Child) /\ w \in Seq(SUBSET Child)
          /\ Len(u) = a /\ Len(v) = b /\ Len(w) = a + b
      BY <2>5, <2>6
    <2>8. \A j \in 1 .. a : w[j] = u[j]
      <3> TAKE j \in 1 .. a
      <3>1. j \in 1 .. a + b
        OBVIOUS
      <3> QED BY <2>1, <2>2, <2>4, <2>6, <3>1
    <2>9. \A j \in 1 .. b : w[a + j] = v[j]
      <3> TAKE j \in 1 .. b
      <3>1. a + j \in 1 .. a + b
        OBVIOUS
      <3> QED BY <2>1, <2>2, <2>4, <2>6, <3>1
    <2>10. w = u \o v
      <3>1. PICK S : S = SUBSET Child
        OBVIOUS
      <3>2. u \in Seq(S) /\ v \in Seq(S) /\ w \in Seq(S)
        BY <2>7, <3>1
      <3>3. /\ Len(w) = Len(u) + Len(v)
            /\ \A j \in 1 .. Len(u) : w[j] = u[j]
            /\ \A j \in 1 .. Len(v) : w[Len(u) + j] = v[j]
        BY <2>7, <2>8, <2>9
      <3> QED BY <3>2, <3>3, ConcatIs
    <2> QED BY <2>6, <2>10
  <1>7. Signatures(swept[f + t]) = Signatures(swept[f]) \o Signatures(after[t])
    BY <1>5, <1>6
  <1> QED BY <1>2, <1>3, <1>4, <1>7 DEF PathUpTo

\* The members of each group, when all records have ended.
Members(rec, m, groups, grp) ==
  \A j \in 1 .. Len(groups) :
    /\ \A c \in groups[j].signature : \E h \in 1 .. m : grp[h] = j /\ rec[h].id = c
    /\ \A h \in 1 .. m : grp[h] = j => rec[h].id \in groups[j].signature
    /\ groups[j].path_prefix = [h \in 1 .. j - 1 |-> groups[h].signature]
    /\ \E x \in 1 .. m : grp[x] = j

LEMMA GroupMembers ==
  ASSUME NEW rec, NEW m, NEW groups, NEW grp, Grouping(rec, m, groups, grp), Ended(rec, m) = 1 .. m
  PROVE  Members(rec, m, groups, grp)
  <1> SUFFICES ASSUME NEW j \in 1 .. Len(groups)
               PROVE  /\ \A c \in groups[j].signature : \E h \in 1 .. m : grp[h] = j /\ rec[h].id = c
                      /\ \A h \in 1 .. m : grp[h] = j => rec[h].id \in groups[j].signature
                      /\ groups[j].path_prefix = [h \in 1 .. j - 1 |-> groups[h].signature]
                      /\ \E x \in 1 .. m : grp[x] = j
    BY DEF Members
  <1>1. /\ groups[j].signature = {rec[h].id : h \in {x \in 1 .. m : grp[x] = j}}
        /\ groups[j].path_prefix = [h \in 1 .. j - 1 |-> groups[h].signature]
        /\ \E x \in 1 .. m : grp[x] = j
    BY Zenon DEF Grouping, Described
  <1> QED BY <1>1, Zenon

AllEnded(rec, n) ==
  /\ \A i, j \in 1 .. n : rec[i].id = rec[j].id => i = j
  /\ \A i \in 1 .. n : rec[i].end # 0

\* Record i begins before record k + 1 ends, and the first k have ended before
\* that one begins.
CutAt(rec, k, i) ==
  /\ k \in 0 .. i - 1 /\ rec[i].start <= rec[k + 1].end
  /\ \A j \in 1 .. k : rec[j].end < rec[k + 1].start

\* Then record i is in the group of record k + 1, and the path of the group is
\* the path over the first k.
LEMMA GroupAfterCut ==
  ASSUME NEW rec \in Seq(ChildRecord), NEW n, n = Len(rec), Intervals(rec, n), AllEnded(rec, n),
         NEW G, G = RecoverPathGroups(rec), NEW grp, Grouping(rec, n, G, grp),
         NEW i \in 1 .. n, NEW k, CutAt(rec, k, i)
  PROVE  G[grp[i]].path_prefix = PathUpTo(rec, k)
  <1> USE DEF AllEnded, CutAt
  <1>1. /\ n \in Nat /\ k \in Nat /\ k \in 0 .. n /\ k + 1 \in 1 .. n /\ k + 1 <= i
        /\ n - k \in 0 .. n - k /\ k + (n - k) = n
    OBVIOUS
  <1>2. PICK swept : /\ IsSweep(swept, rec, Len(rec))
                     /\ \A s \in Seq(ChildRecord) :
                          Len(s) <= Len(rec) /\ (\A m \in 1 .. Len(s) : s[m] = rec[m])
                            => RecoverPathGroups(s) = swept[Len(s)]
    BY SweepPrefixes
  <1>3. G = swept[n]
    BY <1>1, <1>2
  <1>4. PICK A : A = swept[k] /\ PathUpTo(rec, k) = Signatures(A)
    <2>1. /\ SubSeq(rec, 1, k) \in Seq(ChildRecord) /\ Len(SubSeq(rec, 1, k)) = k
          /\ \A h \in 1 .. k : SubSeq(rec, 1, k)[h] = rec[h]
      BY <1>1, FirstRecords
    <2>2. PICK s \in Seq(ChildRecord) : s = SubSeq(rec, 1, k)
      BY <2>1
    <2>3. Len(s) = k /\ k <= Len(rec) /\ \A m \in 1 .. Len(s) : s[m] = rec[m]
      BY <1>1, <2>1, <2>2
    <2>4. RecoverPathGroups(s) = swept[k]
      BY <1>2, <2>3
    <2> QED BY <2>2, <2>4 DEF PathUpTo
  <1>5. PICK own : Grouping(rec, k, A, own)
    BY <1>1, <1>2, <1>4, SweepGroups
  <1>6. Ended(rec, n) = 1 .. n /\ Ended(rec, k) = 1 .. k
    BY <1>1 DEF Ended
  <1>7. /\ A \in Seq(Group) /\ Len(A) \in Nat /\ DOMAIN A = 1 .. Len(A)
        /\ own \in [1 .. k -> 1 .. Len(A)] /\ Members(rec, k, A, own) /\ Members(rec, n, G, grp)
    <2>1. A \in Seq(Group) /\ own \in [Ended(rec, k) -> 1 .. Len(A)]
      BY <1>5 DEF Grouping
    <2>2. Members(rec, k, A, own) /\ Members(rec, n, G, grp)
      BY <1>5, <1>6, GroupMembers
    <2> QED BY <1>6, <2>1, <2>2
  <1>8. /\ Len(G) \in Nat /\ grp \in [1 .. n -> 1 .. Len(G)]
        /\ \A x, y \in 1 .. n : /\ x < y => grp[x] <= grp[y]
                                /\ grp[x] < grp[y] => rec[x].end < rec[y].start
    <2>1. G \in Seq(Group) /\ grp \in [Ended(rec, n) -> 1 .. Len(G)] /\ InTime(rec, n, grp)
      BY DEF Grouping
    <2>2. Len(G) \in Nat /\ grp \in [1 .. n -> 1 .. Len(G)]
      BY <1>6, <2>1
    <2>3. \A x, y \in 1 .. n : /\ x < y => grp[x] <= grp[y]
                               /\ grp[x] < grp[y] => rec[x].end < rec[y].start
      BY <1>6, <2>1, Zenon DEF InTime
    <2> QED BY <2>2, <2>3, Zenon
  <1>9. Len(A) <= Len(G) /\ \A j \in 1 .. Len(A) : G[j] = A[j]
    <2>1. PICK tail : tail = SubSeq(rec, k + 1, n)
      OBVIOUS
    <2>2. /\ tail \in Seq(ChildRecord) /\ Len(tail) = n - k
          /\ \A m \in 1 .. n - k : tail[m] = rec[k + m]
      <3>1. \A h \in k + 1 .. n : rec[h] \in ChildRecord
        BY <1>1
      <3>2. /\ tail \in Seq(ChildRecord)
            /\ Len(tail) = IF k + 1 <= n THEN n - (k + 1) + 1 ELSE 0
            /\ \A m \in 1 .. n - (k + 1) + 1 : tail[m] = rec[k + 1 + m - 1]
        BY <1>1, <2>1, <3>1, SubSeqProperties
      <3>3. Len(tail) = n - k
        BY <1>1, <3>2
      <3>4. \A m \in 1 .. n - k : m \in 1 .. n - (k + 1) + 1 /\ k + 1 + m - 1 = k + m
        BY <1>1
      <3> QED BY <3>2, <3>3, <3>4
    <2>3. PICK after : IsSweep(after, tail, n - k)
      BY <2>2, SweepSteps
    <2>4. IsTail(tail, rec, k, n - k)
      <3>1. \A m \in 1 .. n - k : k + m \in 1 .. n
        BY <1>1
      <3> QED BY <2>2, <3>1 DEF IsTail
    <2>5. Apart(rec, k, n - k)
      BY <1>6 DEF Apart
    <2>6. CutOf(swept[k], after[n - k], swept[k + (n - k)])
      <3>1. PICK p \in 0 .. n - k : p = n - k
        BY <1>1
      <3>2. CutOf(swept[k], after[p], swept[k + p])
        <4>1. /\ IsSweep(after, tail, p) /\ IsTail(tail, rec, k, p) /\ Apart(rec, k, p)
              /\ IsSweep(swept, rec, n)
          BY <1>2, <2>3, <2>4, <2>5, <3>1
        <4> QED BY <1>1, <4>1, CutSweep
      <3> QED BY <3>1, <3>2
    <2>7. CutOf(A, after[n - k], G)
      BY <1>1, <1>3, <1>4, <2>6
    <2> QED BY <2>7 DEF CutOf
  <1>10. PICK L \in Nat : L = Len(A)
    BY <1>7
  \* The first k records are in the first L groups,
  <1>11. ASSUME NEW h \in 1 .. k PROVE grp[h] <= L
    <2>1. PICK j \in 1 .. L : own[h] = j
      BY <1>7, <1>10
    <2>2. rec[h].id \in A[j].signature /\ A[j] = G[j]
      BY <1>7, <1>9, <1>10, <2>1 DEF Members
    <2>3. j \in 1 .. Len(G) /\ h \in 1 .. n
      BY <1>1, <1>8, <1>9, <1>10
    <2>4. PICK x \in 1 .. n : grp[x] = j /\ rec[x].id = rec[h].id
      <3>1. \A c \in G[j].signature : \E x \in 1 .. n : grp[x] = j /\ rec[x].id = c
        BY <1>7, <2>3, Zenon DEF Members
      <3>2. rec[h].id \in G[j].signature
        BY <2>2
      <3> QED BY <3>1, <3>2, Zenon
    <2>5. x = h
      BY <2>3, <2>4
    <2> QED BY <2>4, <2>5
  \* and the next one is not.
  <1>12. ~(grp[k + 1] <= L)
    <2> SUFFICES ASSUME grp[k + 1] <= L PROVE FALSE
      OBVIOUS
    <2>1. PICK j \in 1 .. L : j = grp[k + 1]
      BY <1>1, <1>8, <1>10
    <2>2. j \in 1 .. Len(G)
      BY <1>8, <1>9, <1>10
    <2>3. rec[k + 1].id \in G[j].signature /\ A[j] = G[j]
      BY <1>1, <1>7, <1>9, <1>10, <2>1, <2>2 DEF Members
    <2>4. PICK h \in 1 .. k : rec[h].id = rec[k + 1].id
      <3>1. \A c \in A[j].signature : \E h \in 1 .. k : own[h] = j /\ rec[h].id = c
        <4>1. j \in 1 .. Len(A)
          BY <1>10
        <4> QED BY <1>7, <4>1, Zenon DEF Members
      <3>2. rec[k + 1].id \in A[j].signature
        BY <2>3
      <3> QED BY <3>1, <3>2, Zenon
    <2>5. h \in 1 .. n /\ h # k + 1
      BY <1>1
    <2> QED BY <1>1, <2>4, <2>5
  <1>13. grp[k + 1] = L + 1 /\ L + 1 \in 1 .. Len(G)
    <2>1. grp[k + 1] \in 1 .. Len(G)
      BY <1>1, <1>8
    <2>2. L + 1 \in 1 .. Len(G)
      BY <1>8, <1>10, <1>12, <2>1
    <2>3. PICK x \in 1 .. n : grp[x] = L + 1
      BY <1>7, <2>2, Zenon DEF Members
    <2>4. ~(x \in 1 .. k)
      <3>1. ~(grp[x] <= L)
        BY <2>3
      <3> QED BY <1>11, <3>1
    <2>5. x = k + 1 \/ k + 1 < x
      BY <1>1, <2>4
    <2>6. grp[k + 1] <= L + 1
      <3>1. CASE x = k + 1
        BY <2>1, <2>3, <3>1
      <3>2. CASE k + 1 < x
        BY <1>1, <1>8, <2>3, <3>2
      <3> QED BY <2>5, <3>1, <3>2
    <2> QED BY <1>12, <2>1, <2>2, <2>6
  <1>14. grp[i] = L + 1
    <2>1. CASE i = k + 1
      BY <1>13, <2>1
    <2>2. CASE i # k + 1
      <3>1. k + 1 < i
        BY <1>1, <2>2
      <3>2. grp[k + 1] <= grp[i]
        BY <1>1, <1>8, <3>1
      <3>3. ~(grp[k + 1] < grp[i])
        <4>1. rec[k + 1] \in ChildRecord /\ rec[i] \in ChildRecord
          BY <1>1
        <4>2. rec[k + 1].end \in Nat /\ rec[i].start \in Nat
          BY <4>1 DEF ChildRecord
        <4>3. ~(rec[k + 1].end < rec[i].start)
          BY <4>2
        <4> QED BY <1>1, <1>8, <4>3
      <3>4. grp[k + 1] \in Nat /\ grp[i] \in Nat
        BY <1>1, <1>8
      <3> QED BY <1>13, <3>2, <3>3, <3>4
    <2> QED BY <2>1, <2>2
  <1>15. G[L + 1].path_prefix = [h \in 1 .. L |-> G[h].signature]
    <2>1. L + 1 - 1 = L
      BY <1>10
    <2>2. G[L + 1].path_prefix = [h \in 1 .. (L + 1) - 1 |-> G[h].signature]
      BY <1>7, <1>13 DEF Members
    <2> QED BY <2>1, <2>2
  <1>16. Signatures(A) = [h \in 1 .. L |-> G[h].signature]
    BY <1>7, <1>9, <1>10 DEF Signatures
  <1> QED BY <1>4, <1>14, <1>15, <1>16

-----------------------------------------------------------------------------
(***************************************************************************)
(* The path a child RPC is issued under                                    *)
(***************************************************************************)

\* A child RPC that returned early has ended, but its record has no end.
Endless == \E i \in DOMAIN children : children[i].terminal /\ children[i].end = 0

\* z began before x ended and was open when y began, after x had ended: the
\* next fanout begins before this one is joined.
Spanned ==
  \E x, y, z \in DOMAIN children :
    /\ children[x].end # 0 /\ children[x].end <= children[y].start
    /\ children[z].start <= children[x].end
    /\ children[z].end = 0 \/ children[y].start <= children[z].end

\* What PrefixAsRecorded makes no promise about.
Excluded == Misdirected \/ Endless \/ Spanned

\* When record i began the first k had ended and the next was open.
CutBefore(rec, k, i) ==
  /\ k \in 0 .. i - 1
  /\ \A j \in 1 .. k : rec[j].end # 0 /\ rec[j].end <= rec[i].start
  /\ rec[k + 1].end = 0 \/ rec[i].start <= rec[k + 1].end

\* The path folded so far, and the one in a tracker, is the path over the first
\* records, up to the first that was open when a child RPC was issued.
PathInv ==
  /\ path_prefix = PathUpTo(children, folded)
  /\ folded # 0 => \E i \in DOMAIN children : CutBefore(children, folded, i)
  /\ \A i \in DOMAIN children :
       Cardinality(tracker[children[i].id].base) > 1 =>
         \E k : /\ CutBefore(children, k, i)
                /\ tracker[children[i].id].path_prefix = PathUpTo(children, k)

\* Unless another's end was written into it, a record has ended only if its
\* child RPC has.
EndedOnce ==
  Misdirected \/ \A i \in DOMAIN children : children[i].terminal => told[children[i].id][Est] > 0

PrefixInv == EndedOnce /\ (Excluded \/ PathInv)

LEMMA RecordFacts ==
  ASSUME RecordsInv
  PROVE  /\ clock \in Nat /\ Len(children) \in Nat /\ DOMAIN children = 1 .. Len(children)
         /\ \A i \in DOMAIN children :
              /\ i \in Nat /\ i \in 1 .. Len(children) /\ children[i].id \in Child
              /\ children[i].start \in Nat /\ children[i].end \in Nat
              /\ children[i].start <= clock /\ children[i].end <= clock
              /\ children[i].end # 0 => children[i].terminal /\ children[i].start < children[i].end
  <1>1. /\ children \in Seq(ChildRecord) /\ clock \in Nat /\ Len(children) \in Nat
        /\ DOMAIN children = 1 .. Len(children)
    BY DEF RecordsInv
  <1>2. ASSUME NEW i \in DOMAIN children
        PROVE  /\ i \in Nat /\ i \in 1 .. Len(children) /\ children[i].id \in Child
               /\ children[i].start \in Nat /\ children[i].end \in Nat
    <2>1. children[i] \in ChildRecord /\ i \in Nat /\ i \in 1 .. Len(children)
      BY <1>1
    <2> QED BY <2>1 DEF ChildRecord
  <1> QED BY <1>1, <1>2 DEF RecordsInv, EndsAfterStart

\* As no fanout spans the one after it, the first k records had ended before
\* the next began.
LEMMA CleanCut ==
  ASSUME RecordsInv, ~Spanned, NEW i \in DOMAIN children, NEW k, CutBefore(children, k, i),
         NEW j \in 1 .. k
  PROVE  children[j].end < children[k + 1].start
  <1>1. k \in Nat /\ i \in 1 .. Len(children) /\ Len(children) \in Nat /\ k \in 0 .. i - 1
    BY RecordFacts DEF CutBefore
  <1>2. j \in DOMAIN children /\ k + 1 \in DOMAIN children
    BY <1>1, RecordFacts
  <1>3. ~(children[k + 1].start <= children[j].end)
    BY <1>2 DEF Spanned, CutBefore
  <1>4. children[k + 1].start \in Nat /\ children[j].end \in Nat
    BY <1>2, RecordFacts
  <1> QED BY <1>3, <1>4

LEMMA EmptyPath == PathUpTo(<<>>, 0) = <<>>
  <1>1. <<>> \in Seq(ChildRecord) /\ Len(<<>>) = 0
    OBVIOUS
  <1>2. 0 \in 0 .. Len(<<>>)
    BY <1>1
  <1>3. SubSeq(<<>>, 1, 0) \in Seq(ChildRecord) /\ Len(SubSeq(<<>>, 1, 0)) = 0
    BY <1>1, <1>2, FirstRecords
  <1>4. PICK s \in Seq(ChildRecord) : s = SubSeq(<<>>, 1, 0)
    BY <1>3
  <1>5. PICK swept : IsSweep(swept, s, Len(s)) /\ RecoverPathGroups(s) = swept[Len(s)]
    BY SweepSteps
  <1>6. RecoverPathGroups(s) = <<>>
    BY <1>3, <1>4, <1>5 DEF IsSweep
  <1>7. Signatures(<<>>) = <<>>
    BY DEF Signatures
  <1> QED BY <1>4, <1>6, <1>7 DEF PathUpTo

\* A begin changes no record,
LEMMA BeginChildExcluded ==
  ASSUME RecordsInv, TrackerInv, NEW c \in Child, BeginChild(c), c \notin Known
  PROVE  /\ Misdirected => Misdirected'
         /\ Endless => Endless'
         /\ Spanned => Spanned'
  <1>1. /\ DOMAIN children \subseteq DOMAIN children' /\ 0 \notin DOMAIN children
        /\ \A i \in DOMAIN children : children'[i] = children[i]
    <2>1. /\ Len(children) \in Nat /\ DOMAIN children = 1 .. Len(children)
          /\ DOMAIN children' = 1 .. Len(children) + 1
          /\ \A i \in 1 .. Len(children) : children'[i] = children[i]
      BY BeginChildEffect
    <2> QED BY <2>1
  <1>2. \A d \in Child : d # c => tracker'[d] = tracker[d]
    BY DEF BeginChild, TrackerInv
  <1>3. tracker[c].index = 0
    BY DEF TrackerInv
  <1>4. ASSUME Misdirected PROVE Misdirected'
    <2>1. PICK d \in Child : tracker[d].index \in DOMAIN children /\ children[tracker[d].index].id # d
      BY <1>4 DEF Misdirected
    <2>2. d # c
      BY <1>1, <1>3, <2>1
    <2>3. /\ tracker'[d] = tracker[d] /\ tracker[d].index \in DOMAIN children'
          /\ children'[tracker[d].index] = children[tracker[d].index]
      BY <1>1, <1>2, <2>1, <2>2
    <2>4. tracker'[d].index \in DOMAIN children' /\ children'[tracker'[d].index].id # d
      BY <2>1, <2>3
    <2> QED BY <2>4 DEF Misdirected
  <1>5. ASSUME Endless PROVE Endless'
    BY <1>1, <1>5 DEF Endless
  <1>6. ASSUME Spanned PROVE Spanned'
    <2>1. PICK x \in DOMAIN children, y \in DOMAIN children, z \in DOMAIN children :
            /\ children[x].end # 0 /\ children[x].end <= children[y].start
            /\ children[z].start <= children[x].end
            /\ children[z].end = 0 \/ children[y].start <= children[z].end
      BY <1>6 DEF Spanned
    <2>2. /\ x \in DOMAIN children' /\ y \in DOMAIN children' /\ z \in DOMAIN children'
          /\ children'[x] = children[x] /\ children'[y] = children[y] /\ children'[z] = children[z]
      BY <1>1
    <2> QED BY <2>1, <2>2 DEF Spanned
  <1> QED BY <1>4, <1>5, <1>6

\* and an end only that of its child RPC, which had not ended.
LEMMA CompleteChildFreezes ==
  ASSUME RecordsInv, TrackerInv, EndedOnce, ~Misdirected, NEW c \in Child, NEW early \in BOOLEAN,
         RecordChildComplete(c, early), told[c][Est] = 0
  PROVE  \A i \in DOMAIN children :
           /\ children[i].terminal => children'[i] = children[i]
           /\ children'[i].terminal /\ ~children[i].terminal => children[i].id = c
  <1> TAKE i \in DOMAIN children
  <1>1. /\ i \in 1 .. Len(children) /\ (i # tracker[c].index => children'[i] = children[i])
    BY CompleteChildEffect
  <1>2. ~(0 > 0)
    OBVIOUS
  <1>3. CASE i = tracker[c].index
    <2>1. children[i].id = c
      BY <1>3 DEF Misdirected
    <2>2. ~children[i].terminal
      BY <1>2, <2>1 DEF EndedOnce
    <2> QED BY <2>1, <2>2
  <1>4. CASE i # tracker[c].index
    BY <1>1, <1>4
  <1> QED BY <1>3, <1>4

LEMMA CompleteChildExcluded ==
  ASSUME RecordsInv, TrackerInv, EndedOnce, NEW c \in Child, NEW early \in BOOLEAN,
         RecordChildComplete(c, early), told[c][Est] = 0
  PROVE  /\ Misdirected <=> Misdirected'
         /\ Excluded => Excluded'
  <1>1. /\ DOMAIN children' = DOMAIN children
        /\ \A i \in DOMAIN children :
             /\ i \in 1 .. Len(children)
             /\ children'[i].id = children[i].id /\ children'[i].start = children[i].start
             /\ \/ children'[i].end = children[i].end
                \/ children'[i].end = clock' /\ clock' \in Nat /\ clock < clock'
    BY CompleteChildEffect
  <1>2. Misdirected <=> Misdirected'
    <2>1. tracker' = tracker
      BY DEF RecordChildComplete
    <2> QED BY <1>1, <2>1 DEF Misdirected
  <1>3. ASSUME ~Misdirected, Endless PROVE Endless'
    BY <1>1, <1>3, CompleteChildFreezes DEF Endless
  <1>4. ASSUME ~Misdirected, Spanned PROVE Spanned'
    <2>1. PICK x \in DOMAIN children, y \in DOMAIN children, z \in DOMAIN children :
            /\ children[x].end # 0 /\ children[x].end <= children[y].start
            /\ children[z].start <= children[x].end
            /\ children[z].end = 0 \/ children[y].start <= children[z].end
      BY <1>4 DEF Spanned
    <2>2. children'[x] = children[x]
      BY <1>4, <2>1, CompleteChildFreezes, RecordFacts
    <2>3. children'[y].start = children[y].start /\ children'[z].start = children[z].start
      BY <1>1
    <2>4. children'[z].end = 0 \/ children[y].start <= children'[z].end
      <3>1. /\ children[y].start \in Nat /\ children[y].start <= clock /\ clock \in Nat
        BY RecordFacts
      <3>2. CASE children'[z].end = children[z].end
        BY <2>1, <3>2
      <3>3. CASE children'[z].end = clock' /\ clock' \in Nat /\ clock < clock'
        BY <3>1, <3>3
      <3> QED BY <1>1, <3>2, <3>3
    <2> QED BY <1>1, <2>1, <2>2, <2>3, <2>4 DEF Spanned
  <1> QED BY <1>2, <1>3, <1>4 DEF Excluded

\* A step that changes none of the records that have ended, and ends others
\* after now only, changes no path that was looked up.
RecordsKept ==
  /\ DOMAIN children \subseteq DOMAIN children' /\ children' \in Seq(ChildRecord)
  /\ \A i \in DOMAIN children :
       /\ children[i].end # 0 => children'[i] = children[i]
       /\ children'[i].id = children[i].id /\ children'[i].start = children[i].start
       /\ children'[i].end = 0 \/ children'[i].end = children[i].end \/ clock <= children'[i].end

LEMMA CutKept ==
  ASSUME RecordsInv, RecordsKept, NEW i \in DOMAIN children, NEW k, CutBefore(children, k, i)
  PROVE  CutBefore(children', k, i) /\ PathUpTo(children', k) = PathUpTo(children, k)
  <1>1. /\ k \in Nat /\ k \in 0 .. i - 1 /\ i \in 1 .. Len(children) /\ Len(children) \in Nat
        /\ DOMAIN children = 1 .. Len(children) /\ children \in Seq(ChildRecord)
    BY RecordFacts DEF CutBefore, RecordsInv
  <1>2. k + 1 \in DOMAIN children /\ \A j \in 1 .. k : j \in DOMAIN children
    BY <1>1
  <1>3. children'[i].start = children[i].start
    BY DEF RecordsKept
  <1>4. \A j \in 1 .. k : children'[j] = children[j]
    BY <1>2 DEF RecordsKept, CutBefore
  <1>5. \A j \in 1 .. k : children'[j].end # 0 /\ children'[j].end <= children'[i].start
    BY <1>3, <1>4 DEF CutBefore
  <1>6. children'[k + 1].end = 0 \/ children'[i].start <= children'[k + 1].end
    <2>1. CASE children[k + 1].end # 0
      <3>1. children'[k + 1] = children[k + 1]
        BY <1>2, <2>1 DEF RecordsKept
      <3> QED BY <1>3, <2>1, <3>1 DEF CutBefore
    <2>2. CASE children[k + 1].end = 0
      <3>1. children'[k + 1].end = 0 \/ clock <= children'[k + 1].end
        BY <1>2, <2>2 DEF RecordsKept
      <3>2. CASE children'[k + 1].end = 0
        BY <3>2
      <3>3. CASE clock <= children'[k + 1].end /\ children'[k + 1].end # 0
        <4>1. children[i].start \in Nat /\ clock \in Nat /\ children[i].start <= clock
          BY RecordFacts
        <4>2. children'[k + 1] \in ChildRecord
          BY <1>2 DEF RecordsKept
        <4>3. children'[k + 1].end \in Nat
          BY <4>2 DEF ChildRecord
        <4> QED BY <1>3, <3>3, <4>1, <4>3
      <3> QED BY <3>1, <3>2, <3>3
    <2> QED BY <2>1, <2>2
  <1>7. PathUpTo(children', k) = PathUpTo(children, k)
    <2>1. k \in 1 .. Len(children') \/ k = 0
      BY <1>1, <1>2 DEF RecordsKept
    <2>2. k <= Len(children) /\ k <= Len(children') /\ children' \in Seq(ChildRecord)
      BY <1>1, <2>1 DEF RecordsKept
    <2> QED BY <1>1, <1>4, <2>2, SamePath
  <1> QED BY <1>1, <1>5, <1>6, <1>7 DEF CutBefore

LEMMA BeginChildExtends ==
  ASSUME RecordsInv, NEW c \in Child, BeginChild(c)
  PROVE  RecordsKept
  <1>1. /\ Len(children) \in Nat /\ DOMAIN children = 1 .. Len(children)
        /\ DOMAIN children' = 1 .. Len(children) + 1
        /\ \A i \in 1 .. Len(children) : children'[i] = children[i]
    BY BeginChildEffect
  <1>2. children' \in Seq(ChildRecord)
    BY BeginChildRecords DEF RecordsInv
  <1>3. DOMAIN children \subseteq DOMAIN children'
    BY <1>1
  <1> QED BY <1>1, <1>2, <1>3 DEF RecordsKept

LEMMA CompleteChildExtends ==
  ASSUME RecordsInv, TrackerInv, EndedOnce, ~Misdirected, NEW c \in Child, NEW early \in BOOLEAN,
         RecordChildComplete(c, early), told[c][Est] = 0
  PROVE  RecordsKept
  <1>1. /\ DOMAIN children' = DOMAIN children
        /\ \A i \in DOMAIN children :
             /\ children'[i].id = children[i].id /\ children'[i].start = children[i].start
             /\ \/ children'[i].end = children[i].end
                \/ children'[i].end = clock' /\ clock' \in Nat /\ clock < clock'
    BY CompleteChildEffect
  <1>2. children' \in Seq(ChildRecord)
    BY CompleteChildRecords DEF RecordsInv
  <1>3. \A i \in DOMAIN children : children[i].end # 0 => children'[i] = children[i]
    BY CompleteChildFreezes, RecordFacts
  <1>4. \A i \in DOMAIN children :
          children'[i].end = children[i].end \/ clock <= children'[i].end
    BY <1>1, RecordFacts
  <1> QED BY <1>1, <1>2, <1>3, <1>4 DEF RecordsKept

\* begin_child brings the path up to date: what it folds into it is apart from
\* what is in it, and the record after that is open.
LEMMA RefreshedPath ==
  ASSUME RecordsInv, ~Endless, ~Spanned, PathInv, NEW c \in Child, BeginChild(c), MustRefresh
  PROVE  /\ path_prefix' = PathUpTo(children', folded')
         /\ CutBefore(children', folded', Len(children) + 1)
  <1>1. /\ folded \in 0 .. Len(children) /\ Len(children) \in Nat /\ folded \in Nat
        /\ children \in Seq(ChildRecord) /\ DOMAIN children = 1 .. Len(children)
    BY RecordFacts DEF RecordsInv, FoldedHasEnded
  <1>2. PICK t \in Nat : /\ t = TerminalLen /\ folded + t \in 0 .. Len(children) - 1
                         /\ ~children[folded + t + 1].terminal
    <2>1. /\ TerminalLen \in 0 .. Len(children) - folded
          /\ TerminalLen < Len(children) - folded
          /\ ~children[folded + TerminalLen + 1].terminal
      BY TerminalLenFacts DEF MustRefresh
    <2> QED BY <1>1, <2>1
  <1>3. PICK tail \in Seq(ChildRecord) :
          /\ tail = SubSeq(Pending, 1, t) /\ Len(tail) = t
          /\ \A m \in 1 .. t : tail[m] = children[folded + m]
    BY <1>2, TerminalLenFacts
  <1>4. \A i \in 1 .. folded + t : /\ i \in DOMAIN children /\ children[i].end # 0
                                   /\ children[i].end \in Nat /\ children[i].end <= clock
    <2> TAKE i \in 1 .. folded + t
    <2>1. i \in DOMAIN children /\ children[i].terminal
      BY <1>1, <1>2, TerminalLenFacts
    <2> QED BY <2>1, RecordFacts DEF Endless
  <1>5. /\ folded' = folded + t
        /\ path_prefix' = PathUpTo(children, folded) \o Signatures(RecoverPathGroups(tail))
    BY <1>2, <1>3 DEF BeginChild, RefreshedPrefix, PathInv
  <1>6. PathUpTo(children, folded + t) = PathUpTo(children, folded) \o Signatures(RecoverPathGroups(tail))
    <2>1. Intervals(children, Len(children))
      BY <1>1 DEF RecordsInv, SortedByStart, EndsAfterStart, Intervals
    <2>2. \A m \in 1 .. t : tail[m] = children[folded + m] /\ children[folded + m].end # 0
      <3> TAKE m \in 1 .. t
      <3>1. folded + m \in 1 .. folded + t
        BY <1>1, <1>2
      <3> QED BY <1>3, <1>4, <3>1
    <2>3. \A i \in 1 .. folded : t # 0 => children[i].end < children[folded + 1].start
      <3> TAKE i \in 1 .. folded
      <3>1. PICK j \in DOMAIN children : CutBefore(children, folded, j)
        BY <1>1 DEF PathInv
      <3> QED BY <3>1, CleanCut
    <2>4. folded + t <= Len(children)
      BY <1>1, <1>2
    <2> QED BY <1>1, <1>3, <2>1, <2>2, <2>3, <2>4, PathInParts
  <1>7. /\ clock \in Nat /\ clock' \in Nat /\ clock <= clock'
        /\ children'[Len(children) + 1].start = clock'
        /\ \A i \in 1 .. Len(children) : children'[i] = children[i]
        /\ DOMAIN children' = 1 .. Len(children) + 1
    <2>1. /\ clock \in Nat /\ clock' \in Nat /\ clock <= clock'
          /\ DOMAIN children' = 1 .. Len(children) + 1
          /\ children'[Len(children) + 1] = [id |-> c, start |-> clock', end |-> 0, terminal |-> FALSE]
          /\ \A i \in 1 .. Len(children) : children'[i] = children[i]
      BY BeginChildEffect
    <2> QED BY <2>1
  <1>8. \A i \in 1 .. folded + t : children'[i] = children[i]
    BY <1>1, <1>4, <1>7
  <1>9. PathUpTo(children', folded + t) = PathUpTo(children, folded + t)
    <2>1. children' \in Seq(ChildRecord) /\ Len(children') = Len(children) + 1
      <3>1. children' \in Seq(ChildRecord)
        BY BeginChildRecords DEF RecordsInv
      <3> QED BY <1>1, <1>7, <3>1
    <2>2. folded + t \in Nat /\ folded + t <= Len(children) /\ folded + t <= Len(children')
      BY <1>1, <1>2, <2>1
    <2> QED BY <1>1, <1>8, <2>1, <2>2, SamePath
  <1>10. /\ folded + t \in 0 .. (Len(children) + 1) - 1
         /\ \A j \in 1 .. folded + t :
              children'[j].end # 0 /\ children'[j].end <= children'[Len(children) + 1].start
         /\ children'[folded + t + 1].end = 0
    <2>1. folded + t + 1 \in DOMAIN children
      BY <1>1, <1>2
    <2>2. children'[folded + t + 1].end = 0
      BY <1>1, <1>2, <1>7, <2>1, RecordFacts
    <2>3. \A j \in 1 .. folded + t :
            children'[j].end # 0 /\ children'[j].end <= children'[Len(children) + 1].start
      BY <1>4, <1>7, <1>8
    <2> QED BY <1>1, <1>2, <2>2, <2>3
  <1>11. CutBefore(children', folded', Len(children) + 1)
    BY <1>5, <1>10 DEF CutBefore
  <1> QED BY <1>5, <1>6, <1>9, <1>11

LEMMA BeginChildPath ==
  ASSUME RecordsInv, TrackerInv, ~Endless, ~Spanned, PathInv, NEW c \in Child, BeginChild(c),
         c \notin Known
  PROVE  PathInv'
  <1>1. PICK n \in Nat : /\ n = Len(children) /\ DOMAIN children = 1 .. n
                         /\ DOMAIN children' = 1 .. n + 1 /\ children'[n + 1].id = c
                         /\ \A i \in 1 .. n : children'[i] = children[i]
    <2>1. /\ Len(children) \in Nat /\ DOMAIN children = 1 .. Len(children)
          /\ DOMAIN children' = 1 .. Len(children) + 1
          /\ children'[Len(children) + 1] = [id |-> c, start |-> clock', end |-> 0, terminal |-> FALSE]
          /\ \A i \in 1 .. Len(children) : children'[i] = children[i]
      BY BeginChildEffect
    <2>2. children'[Len(children) + 1].id = c
      BY <2>1
    <2> QED BY <2>1, <2>2
  <1>2. RecordsKept
    BY BeginChildExtends
  <1>3. /\ tracker'[c].path_prefix = path_prefix' /\ tracker'[c].base = Base(c)
        /\ \A d \in Child : d # c => tracker'[d] = tracker[d]
    BY DEF BeginChild, TrackerInv
  <1>4. ASSUME NEW i \in 1 .. n, Cardinality(tracker'[children'[i].id].base) > 1
        PROVE  \E k : /\ CutBefore(children', k, i)
                      /\ tracker'[children'[i].id].path_prefix = PathUpTo(children', k)
    <2>1. /\ i \in DOMAIN children /\ children'[i] = children[i]
          /\ children[i].id \in Child /\ children[i].id \in Known
      BY <1>1, RecordFacts DEF TrackerInv
    <2>2. tracker'[children'[i].id] = tracker[children[i].id]
      BY <1>3, <2>1
    <2>3. PICK k : /\ CutBefore(children, k, i)
                   /\ tracker[children[i].id].path_prefix = PathUpTo(children, k)
      BY <1>4, <2>1, <2>2 DEF PathInv
    <2>4. CutBefore(children', k, i) /\ PathUpTo(children', k) = PathUpTo(children, k)
      BY <1>2, <2>1, <2>3, CutKept
    <2> QED BY <2>2, <2>3, <2>4
  <1>5. CASE MustRefresh
    <2>1. path_prefix' = PathUpTo(children', folded') /\ CutBefore(children', folded', n + 1)
      BY <1>1, <1>5, RefreshedPath
    <2>2. n + 1 \in DOMAIN children'
      BY <1>1
    <2>3. \A i \in DOMAIN children' : i \in 1 .. n \/ i = n + 1
      BY <1>1
    <2>4. /\ CutBefore(children', folded', n + 1)
          /\ tracker'[children'[n + 1].id].path_prefix = PathUpTo(children', folded')
      BY <1>1, <1>3, <2>1
    <2> QED BY <1>4, <2>1, <2>2, <2>3, <2>4 DEF PathInv
  <1>6. CASE ~MustRefresh
    <2>1. path_prefix' = path_prefix /\ folded' = folded
      BY <1>6 DEF BeginChild
    <2>2. path_prefix' = PathUpTo(children', folded')
      <3>1. /\ folded \in Nat /\ folded <= Len(children) /\ children \in Seq(ChildRecord)
            /\ \A i \in 1 .. folded : i \in 1 .. n
        BY <1>1 DEF RecordsInv, FoldedHasEnded
      <3>2. children' \in Seq(ChildRecord) /\ Len(children') = n + 1
        BY <1>1, <1>2 DEF RecordsKept
      <3>3. folded <= Len(children')
        BY <1>1, <3>1, <3>2
      <3>4. PathUpTo(children, folded) = PathUpTo(children', folded)
        BY <1>1, <3>1, <3>2, <3>3, SamePath
      <3> QED BY <2>1, <3>4 DEF PathInv
    <2>3. folded' # 0 => \E i \in DOMAIN children' : CutBefore(children', folded, i)
      <3> SUFFICES ASSUME folded # 0 PROVE \E i \in DOMAIN children' : CutBefore(children', folded, i)
        BY <2>1
      <3>1. PICK i \in DOMAIN children : CutBefore(children, folded, i)
        BY DEF PathInv
      <3>2. PICK f : f = folded /\ f = folded'
        BY <2>1
      <3>3. CutBefore(children', f, i)
        BY <1>2, <3>1, <3>2, CutKept
      <3>4. i \in DOMAIN children'
        BY <1>2, <3>1 DEF RecordsKept
      <3> QED BY <3>2, <3>3, <3>4
    <2>4. ~(Cardinality(tracker'[children'[n + 1].id].base) > 1)
      <3>1. Base(c) = {c}
        BY <1>6 DEF MustRefresh, Base
      <3>2. Cardinality({c}) = 1
        BY FS_Singleton
      <3> QED BY <1>1, <1>3, <3>1, <3>2
    <2>5. \A i \in DOMAIN children' : i \in 1 .. n \/ i = n + 1
      BY <1>1
    <2> QED BY <1>4, <2>1, <2>2, <2>3, <2>4, <2>5 DEF PathInv
  <1> QED BY <1>5, <1>6

LEMMA CompleteChildPath ==
  ASSUME RecordsInv, TrackerInv, EndedOnce, ~Misdirected, PathInv, NEW c \in Child,
         NEW early \in BOOLEAN, RecordChildComplete(c, early), told[c][Est] = 0
  PROVE  PathInv'
  <1>1. RecordsKept
    BY CompleteChildExtends
  <1>2. /\ DOMAIN children' = DOMAIN children /\ Len(children) \in Nat
        /\ DOMAIN children = 1 .. Len(children) /\ DOMAIN children' = 1 .. Len(children)
        /\ \A i \in DOMAIN children : children'[i].id = children[i].id
    BY CompleteChildEffect
  <1>3. UNCHANGED <<path_prefix, folded, tracker>>
    BY DEF RecordChildComplete
  <1>4. path_prefix' = PathUpTo(children', folded')
    <2>1. /\ folded \in Nat /\ folded <= Len(children) /\ children \in Seq(ChildRecord)
          /\ \A i \in 1 .. folded : i \in DOMAIN children /\ children[i].terminal
      BY <1>2 DEF RecordsInv, FoldedHasEnded
    <2>2. \A i \in 1 .. folded : children[i] = children'[i]
      BY <2>1, CompleteChildFreezes
    <2>3. children' \in Seq(ChildRecord) /\ Len(children') = Len(children)
      BY <1>1, <1>2 DEF RecordsKept
    <2>4. PathUpTo(children, folded) = PathUpTo(children', folded)
      BY <2>1, <2>2, <2>3, SamePath
    <2> QED BY <1>3, <2>4 DEF PathInv
  <1>5. folded' # 0 => \E i \in DOMAIN children' : CutBefore(children', folded', i)
    <2> SUFFICES ASSUME folded # 0 PROVE \E i \in DOMAIN children' : CutBefore(children', folded', i)
      BY <1>3
    <2>1. PICK i \in DOMAIN children : CutBefore(children, folded, i)
      BY DEF PathInv
    <2>2. PICK f : f = folded /\ f = folded'
      BY <1>3
    <2>3. CutBefore(children', f, i)
      BY <1>1, <2>1, <2>2, CutKept
    <2> QED BY <1>2, <2>1, <2>2, <2>3
  <1>6. ASSUME NEW i \in DOMAIN children, Cardinality(tracker'[children'[i].id].base) > 1
        PROVE  \E k : /\ CutBefore(children', k, i)
                      /\ tracker'[children'[i].id].path_prefix = PathUpTo(children', k)
    <2>1. tracker'[children'[i].id] = tracker[children[i].id]
      BY <1>2, <1>3
    <2>2. PICK k : /\ CutBefore(children, k, i)
                   /\ tracker[children[i].id].path_prefix = PathUpTo(children, k)
      BY <1>6, <2>1 DEF PathInv
    <2>3. CutBefore(children', k, i) /\ PathUpTo(children', k) = PathUpTo(children, k)
      BY <1>1, <2>2, CutKept
    <2> QED BY <2>1, <2>2, <2>3
  <1> QED BY <1>2, <1>4, <1>5, <1>6 DEF PathInv

LEMMA BeginChildPrefix ==
  ASSUME RecordsInv, TrackerInv, PrefixInv, NEW c \in Child, BeginChild(c), c \notin Known,
         \A d \in Child : told[d][Est] > 0 => told'[d][Est] > 0
  PROVE  PrefixInv'
  <1>1. /\ Misdirected => Misdirected'
        /\ Endless => Endless'
        /\ Spanned => Spanned'
    BY BeginChildExcluded
  <1>2. EndedOnce'
    <2> SUFFICES ASSUME ~Misdirected', NEW i \in DOMAIN children', children'[i].terminal
                 PROVE  told'[children'[i].id][Est] > 0
      BY DEF EndedOnce
    <2>1. /\ Len(children) \in Nat /\ DOMAIN children = 1 .. Len(children)
          /\ DOMAIN children' = 1 .. Len(children) + 1
          /\ children'[Len(children) + 1] = [id |-> c, start |-> clock', end |-> 0, terminal |-> FALSE]
          /\ \A j \in 1 .. Len(children) : children'[j] = children[j]
      BY BeginChildEffect
    <2>2. i # Len(children) + 1
      BY <2>1
    <2>3. i \in DOMAIN children /\ children'[i] = children[i]
      BY <2>1, <2>2
    <2>4. children[i].id \in Child
      BY <2>3, RecordFacts
    <2>5. told[children[i].id][Est] > 0
      BY <1>1, <2>3 DEF PrefixInv, EndedOnce
    <2> QED BY <2>3, <2>4, <2>5
  <1>3. Excluded' \/ PathInv'
    BY <1>1, BeginChildPath DEF PrefixInv, Excluded
  <1> QED BY <1>2, <1>3 DEF PrefixInv

LEMMA CompleteChildPrefix ==
  ASSUME RecordsInv, TrackerInv, PrefixInv, NEW c \in Child, NEW early \in BOOLEAN,
         RecordChildComplete(c, early), told[c][Est] = 0, told'[c][Est] > 0,
         \A d \in Child : told[d][Est] > 0 => told'[d][Est] > 0
  PROVE  PrefixInv'
  <1>1. EndedOnce /\ (Misdirected <=> Misdirected') /\ (Excluded => Excluded')
    BY CompleteChildExcluded DEF PrefixInv
  <1>2. EndedOnce'
    <2> SUFFICES ASSUME ~Misdirected', NEW i \in DOMAIN children', children'[i].terminal
                 PROVE  told'[children'[i].id][Est] > 0
      BY DEF EndedOnce
    <2>1. i \in DOMAIN children /\ children'[i].id = children[i].id
      BY CompleteChildEffect
    <2>2. children[i].id \in Child
      BY <2>1, RecordFacts
    <2>3. children[i].terminal \/ children[i].id = c
      BY <1>1, <2>1, CompleteChildFreezes
    <2>4. told'[children[i].id][Est] > 0
      BY <1>1, <2>1, <2>2, <2>3 DEF EndedOnce
    <2> QED BY <2>1, <2>4
  <1>3. Excluded' \/ PathInv'
    BY <1>1, CompleteChildPath DEF PrefixInv, Excluded
  <1> QED BY <1>2, <1>3 DEF PrefixInv

\* The path of a request, and the one each child RPC was looked up under, is
\* the path over the records that had ended when the child RPC was issued, up to
\* the first that had not.
THEOREM PathsFold == FanoutSpec => []PrefixInv
  <1>1. FanoutInit => PrefixInv
    BY EmptyPath DEF FanoutInit, PrefixInv, EndedOnce, PathInv
  <1>2. StackIInv /\ RecordsInv /\ TrackerInv /\ PrefixInv /\ [FanoutNext]_allVars => PrefixInv'
    <2> SUFFICES ASSUME StackIInv, RecordsInv, TrackerInv, PrefixInv, [FanoutNext]_allVars
                 PROVE  PrefixInv'
      OBVIOUS
    <2>1. \A d \in Child : told[d][Est] > 0 => told'[d][Est] > 0
      BY FanoutStep, KnownStays
    <2>2. CASE UNCHANGED fanoutVars
      <3>1. UNCHANGED <<children, tracker, path_prefix, folded, clock>>
        BY <2>2 DEF fanoutVars
      <3>2. (Misdirected <=> Misdirected') /\ (Excluded <=> Excluded') /\ (PathInv <=> PathInv')
        BY <3>1 DEF Misdirected, Excluded, Endless, Spanned, PathInv
      <3>3. EndedOnce'
        BY <2>1, <3>1, <3>2, RecordFacts DEF PrefixInv, EndedOnce
      <3> QED BY <3>2, <3>3 DEF PrefixInv
    <2>3. CASE Flush
      <3>1. children' = <<>> /\ path_prefix' = <<>> /\ folded' = 0
        BY <2>3 DEF Flush
      <3>2. DOMAIN children' = {}
        BY <3>1
      <3> QED BY <3>1, <3>2, EmptyPath DEF PrefixInv, EndedOnce, PathInv
    <2>4. ASSUME NEW c \in Child, EstBefore(c) PROVE PrefixInv'
      <3>1. c \notin Known /\ BeginChild(c)
        BY <2>4, EstTold DEF EstBefore
      <3> QED BY <2>1, <3>1, BeginChildPrefix
    <2>5. ASSUME NEW c \in Child, EstAfter(c) PROVE PrefixInv'
      <3>1. told[c][Est] = 0 /\ told'[c][Est] > 0
        BY <2>5, EstTold DEF EstAfter
      <3>2. PICK early \in BOOLEAN : RecordChildComplete(c, early)
        BY <2>5 DEF EstAfter
      <3> QED BY <2>1, <3>1, <3>2, CompleteChildPrefix
    <2> QED BY <2>2, <2>3, <2>4, <2>5
            DEF FanoutNext, EstRequestStep, EstFinalize, EstChildStep, allVars
  <1> QED BY <1>1, <1>2, FanoutIsStack, StackInvariant, RecordsInOrder, TrackersFit, PTL
          DEF FanoutSpec

\* Fanouts that are joined before they end do not span the next one.
LEMMA JoinedNotSpanned ==
  ASSUME RecordsInv, TrackerInv, \A i \in DOMAIN children : children[i].end # 0,
         NEW grp, Grouping(children, Len(children), Groups, grp),
         \A g \in ToSet(Groups) : Joined(g.signature)
  PROVE  ~Spanned
  <1> SUFFICES ASSUME NEW x \in DOMAIN children, NEW y \in DOMAIN children,
                      NEW z \in DOMAIN children,
                      children[x].end <= children[y].start, children[z].start <= children[x].end,
                      children[y].start <= children[z].end
               PROVE  FALSE
    BY DEF Spanned
  <1> DEFINE E == Ended(children, Len(children))
  <1>1. x \in E /\ y \in E /\ z \in E
    BY RecordFacts DEF Ended
  <1>2. \A i \in E : /\ children[i].start \in Nat /\ children[i].end \in Nat
                     /\ children[i].start < children[i].end
                     /\ grp[i] \in 1 .. Len(Groups) /\ grp[i] \in Nat
                     /\ children[i].id \in Groups[grp[i]].signature
                     /\ RecordOf(children[i].id) = children[i]
    BY SignatureMembers
  <1>3. \A a, b \in E : grp[a] < grp[b] => children[a].end < children[b].start
    BY DEF Grouping, InTime
  <1>4. DOMAIN Groups = 1 .. Len(Groups)
    BY SignatureMembers
  <1> HIDE DEF E
  <1>5. ASSUME NEW a \in E, NEW b \in E, children[a].start <= children[b].end,
               children[b].start <= children[a].end
        PROVE  grp[a] = grp[b]
    <2>1. ~(grp[a] < grp[b]) /\ ~(grp[b] < grp[a])
      BY <1>2, <1>3, <1>5
    <2>2. grp[a] \in Nat /\ grp[b] \in Nat
      BY <1>2
    <2> QED BY <2>1, <2>2
  <1>6. /\ children[x].start \in Nat /\ children[x].end \in Nat /\ children[x].start < children[x].end
        /\ children[y].start \in Nat /\ children[y].end \in Nat /\ children[y].start < children[y].end
        /\ children[z].start \in Nat /\ children[z].end \in Nat
    BY <1>1, <1>2
  <1>7. grp[x] = grp[z]
    <2>1. children[x].start <= children[z].end
      BY <1>6
    <2> QED BY <1>1, <1>5, <2>1
  <1>8. grp[y] = grp[z]
    <2>1. children[z].start <= children[y].end
      BY <1>6
    <2> QED BY <1>1, <1>5, <2>1
  <1>9. PICK S : S = Groups[grp[x]].signature /\ Joined(S)
    <2>1. grp[x] \in DOMAIN Groups
      BY <1>1, <1>2, <1>4
    <2> QED BY <2>1 DEF ToSet
  <1>10. children[x].id \in S /\ children[y].id \in S
    BY <1>1, <1>2, <1>7, <1>8, <1>9
  <1>11. children[y].start < children[x].end
    BY <1>1, <1>2, <1>9, <1>10 DEF Joined
  <1> QED BY <1>6, <1>11

\* The path a child RPC was issued under is the one its group is recorded
\* under, for every number of child RPCs and of modules: also after a flush, as
\* long as nobody else's end went into a record.
THEOREM PrefixRecorded == FanoutSpec => []PrefixAsRecorded
  <1>1. ASSUME RecordsInv, TrackerInv, PrefixInv PROVE PrefixAsRecorded
    <2> SUFFICES ASSUME Completed = ToSet(children), ~Misdirected,
                        \A g \in ToSet(Groups) : Joined(g.signature),
                        NEW g \in ToSet(Groups), NEW c \in g.signature,
                        Cardinality(tracker[c].base) > 1
                 PROVE  tracker[c].path_prefix = g.path_prefix
      BY DEF PrefixAsRecorded
    <2>1. \A i \in DOMAIN children : children[i].end # 0
      BY DEF Completed, ToSet
    <2>2. PICK grp : Grouping(children, Len(children), Groups, grp)
      BY <1>1, RecordGroups
    <2>3. ~Spanned /\ ~Endless
      BY <1>1, <2>1, <2>2, JoinedNotSpanned DEF Endless
    <2>4. PathInv
      BY <1>1, <2>3 DEF PrefixInv, Excluded
    <2>5. DOMAIN Groups = 1 .. Len(Groups)
      BY <1>1, <2>2, SignatureMembers
    <2>6. PICK j \in 1 .. Len(Groups) : g = Groups[j]
      BY <2>5 DEF ToSet
    <2>7. PICK i \in Ended(children, Len(children)) : grp[i] = j /\ children[i].id = c
      BY <1>1, <2>2, <2>6, SignatureMembers
    <2>8. /\ Len(children) \in Nat /\ DOMAIN children = 1 .. Len(children)
          /\ children \in Seq(ChildRecord) /\ Intervals(children, Len(children))
          /\ \A a, b \in 1 .. Len(children) : children[a].id = children[b].id => a = b
      BY <1>1, RecordGroups DEF RecordsInv
    <2>9. i \in DOMAIN children /\ i \in 1 .. Len(children)
      BY <2>7, <2>8 DEF Ended
    <2>10. PICK k : CutBefore(children, k, i) /\ tracker[c].path_prefix = PathUpTo(children, k)
      BY <2>4, <2>7, <2>9 DEF PathInv
    <2>11. \A h \in 1 .. k : children[h].end < children[k + 1].start
      BY <1>1, <2>3, <2>9, <2>10, CleanCut
    <2>12. k \in 0 .. i - 1 /\ children[i].start <= children[k + 1].end
      <3>1. k \in 0 .. i - 1
        BY <2>10 DEF CutBefore
      <3>2. k + 1 \in DOMAIN children
        BY <2>8, <2>9, <3>1
      <3> QED BY <2>1, <2>10, <3>1, <3>2 DEF CutBefore
    <2>13. \A h \in 1 .. Len(children) : children[h].end # 0
      BY <2>1, <2>8
    <2>14. Groups[grp[i]].path_prefix = PathUpTo(children, k)
      <3>1. PICK G : G = Groups /\ G = RecoverPathGroups(children)
        BY DEF Groups
      <3>2. Grouping(children, Len(children), G, grp)
        BY <2>2, <3>1
      <3>3. G[grp[i]].path_prefix = PathUpTo(children, k)
        <4>1. PICK n : n = Len(children)
          OBVIOUS
        <4>2. AllEnded(children, n) /\ CutAt(children, k, i)
          BY <2>8, <2>11, <2>12, <2>13, <4>1 DEF AllEnded, CutAt
        <4>3. Intervals(children, n) /\ Grouping(children, n, G, grp) /\ i \in 1 .. n
          BY <2>8, <2>9, <3>2, <4>1
        <4> QED BY <2>8, <3>1, <4>1, <4>2, <4>3, GroupAfterCut
      <3> QED BY <3>1, <3>3
    <2> QED BY <2>6, <2>7, <2>10, <2>14
  <1> QED BY <1>1, RecordsInOrder, TrackersFit, PathsFold, PTL

-----------------------------------------------------------------------------
(***************************************************************************)
(* The price table of Rajomon                                              *)
(***************************************************************************)

\* A request has called children of its method only, and while its admission
\* is decided its tokens cover both prices that were loaded.
Served(r) ==
  /\ req[r].calls \subseteq EdgesOf(req[r].method)
  /\ At(r, "decide") => req[r].tokens >= Accumulated(req[r].own, req[r].down)

\* The worker recomputes a parent only when all entries are halved, and reads
\* no entries but that parent's.
Ticking ==
  /\ worker.parent = None => worker.scan = {} /\ worker.best = 0
  /\ worker.parent # None => worker.halve = {} /\ worker.scan \subseteq EdgesOf(worker.parent)

\* The worker has met the largest entry of p or has still to visit it.
Scanned(p) ==
  /\ worker.best = 0 \/ \E e \in EdgesOf(p) : ValueOf(e) = worker.best
  /\ \A e \in EdgesOf(p) : ValueOf(e) <= worker.best \/ e \in worker.scan

\* A parent no learner is about is recomputed after its last entry is halved,
\* and its copy of the maximum is exact from then on.
Decays(p) ==
  IF worker.parent = p THEN Scanned(p)
  ELSE \/ \E e \in EdgesOf(p) : e \in worker.halve /\ ValueOf(e) > 0
       \/ p \in worker.affected
       \/ worker.halve = {} /\ max_down[p] = Largest(p)

PriceIInv ==
  /\ TableTypes
  /\ \A r \in Rpc : Served(r)
  /\ Ticking
  /\ \A p \in alone : ~Learning(p) /\ Decays(p)

\* Every entry is a u64, also the one that is not there.
LEMMA ValueFacts ==
  ASSUME TableTypes, NEW e \in Edge
  PROVE  ValueOf(e) \in U64 /\ ValueOf(e) \in Nat
  BY RajomonAssumption DEF TableTypes, ValueOf, U64

\* The arithmetic of the table stays within u64.
LEMMA U64Facts ==
  ASSUME NEW a \in U64, NEW b \in Nat
  PROVE  /\ a \in Nat /\ Halved(a) \in U64 /\ SatAdd(a, b) \in U64
         /\ b <= a => a - b \in U64 /\ WrapSub(a, b) = a - b
         /\ b \in U64 => WrapSub(a, b) \in U64 /\ Max({a, b}) \in U64
  <1>1. Top \in Nat /\ a \in Nat /\ a <= Top
    BY RajomonAssumption DEF U64
  <1>2. Halved(a) \in U64
    BY <1>1 DEF Halved, U64
  <1>3. SatAdd(a, b) \in U64
    BY <1>1 DEF SatAdd, U64
  <1>4. ASSUME b <= a PROVE a - b \in U64 /\ WrapSub(a, b) = a - b
    <2>1. a - b \in 0 .. Top
      BY <1>1, <1>4
    <2>2. (a - b) % (Top + 1) = a - b
      BY <1>1, <2>1
    <2> QED BY <2>1, <2>2 DEF U64, WrapSub
  <1>5. ASSUME b \in U64 PROVE WrapSub(a, b) \in U64 /\ Max({a, b}) \in U64
    <2>1. a - b \in Int /\ Top + 1 \in Nat \ {0}
      BY <1>1
    <2>2. (a - b) % (Top + 1) \in 0 .. Top
      BY <1>1, <2>1
    <2>3. Max({a, b}) = IF a >= b THEN a ELSE b
      BY <1>1, MaxOfTwo
    <2> QED BY <1>5, <2>2, <2>3 DEF U64, WrapSub
  <1> QED BY <1>1, <1>2, <1>3, <1>4, <1>5

LEMMA NewPriceFacts ==
  ASSUME own_price \in U64, NEW us \in Nat
  PROVE  NewPrice(us) \in U64
  <1>1. CASE us > Threshold
    <2>1. PICK x \in Nat : x = WrapMul(us - Threshold, PriceStepUp)
      <3>1. PICK n \in Nat : n = (us - Threshold) * PriceStepUp
        BY <1>1, RajomonAssumption
      <3>2. n % (Top + 1) \in Nat
        BY RajomonAssumption
      <3> QED BY <3>1, <3>2 DEF WrapMul
    <2>2. PICK y \in Nat : y = x \div Unit
      BY RajomonAssumption
    <2>3. Max({1, y}) \in Nat
      BY MaxOfTwo
    <2>4. NewPrice(us) = SatAdd(own_price, Max({1, y}))
      BY <1>1, <2>1, <2>2 DEF NewPrice
    <2> QED BY <2>3, <2>4, U64Facts
  <1>2. CASE ~(us > Threshold)
    <2>1. NewPrice(us) = own_price \/ (own_price > 0 /\ NewPrice(us) = own_price - 1)
      BY <1>2 DEF NewPrice
    <2> QED BY <2>1, RajomonAssumption DEF U64
  <1> QED BY <1>1, <1>2

LEMMA FreeSlotFacts == FreeSlot \in RajomonModule
  <1>1. (CHOOSE p \in Parent : TRUE) \in Parent
    BY RajomonAssumption
  <1> QED BY <1>1, RajomonAssumption DEF FreeSlot, RajomonModule, U64

\* The slot of a request keeps its type through every hook.
LEMMA HookTypes ==
  ASSUME TableTypes, NEW r \in Rpc, HookStep(r) \/ Event(r)
  PROVE  TableTypes'
  <1>1. /\ own_price \in U64 /\ window_max \in Nat
        /\ req \in [Rpc -> RajomonModule] /\ req[r] \in RajomonModule
    BY DEF TableTypes
  <1>2. \A e \in Edge : ValueOf(e) \in U64
    BY ValueFacts
  <1>3. FreeSlot \in RajomonModule
    BY FreeSlotFacts
  <1>4. /\ req[r].own \in U64 /\ req[r].best \in U64 /\ req[r].tokens \in U64
        /\ req[r].method \in Parent
        /\ req[r].calls \subseteq Edge /\ req[r].scan \subseteq Edge
    BY <1>1 DEF RajomonModule
  <1>5. max_down[req[r].method] \in U64
    BY <1>4 DEF TableTypes
  <1>6. \A p : EdgesOf(p) \subseteq Edge
    BY DEF EdgesOf
  <1>7. ASSUME NEW m \in Parent, NEW n \in Tokens, New(r, m, n) PROVE TableTypes'
    <2>1. n \in U64
      BY RajomonAssumption
    <2>2. req' \in [Rpc -> RajomonModule]
      BY <1>1, <1>3, <1>7, <2>1 DEF New, RajomonModule
    <2>3. worker' \in Worker
      BY <1>7 DEF New, TableTypes, Worker
    <2> QED BY <1>7, <2>2, <2>3 DEF New, TableTypes, tableVars
  <1>8. CASE LoadDown(r)
    <2>1. req' \in [Rpc -> RajomonModule]
      BY <1>1, <1>3, <1>4, <1>5, <1>8 DEF LoadDown, RajomonModule
    <2> QED BY <1>8, <2>1 DEF LoadDown, TableTypes, tableVars
  <1>9. CASE Admit(r)
    <2>1. own_price \in Nat /\ 0 \in U64
      BY <1>1, RajomonAssumption DEF U64
    <2>2. WrapSub(req[r].tokens, own_price) \in U64
      BY <1>1, <1>4, <2>1, U64Facts
    <2>3. req' \in [Rpc -> RajomonModule]
      BY <1>1, <1>9, <2>1, <2>2 DEF Admit, RajomonModule
    <2> QED BY <1>9, <2>3 DEF Admit, TableTypes, tableVars
  <1>10. ASSUME NEW us \in Latency, RajomonBeforePoll(r, us) PROVE TableTypes'
    <2>1. us \in Nat
      BY RajomonAssumption
    <2>2. window_max' \in Nat
      BY <1>1, <1>10, <2>1, MaxOfTwo DEF RajomonBeforePoll
    <2>3. req' \in [Rpc -> RajomonModule]
      BY <1>1, <1>10 DEF RajomonBeforePoll, RajomonModule
    <2> QED BY <1>10, <2>2, <2>3 DEF RajomonBeforePoll, TableTypes
  <1>11. ASSUME NEW e \in Edge, BeforeChildRpc(r, e) \/ AfterChildPlain(r, e) PROVE TableTypes'
    <2>1. req' \in [Rpc -> RajomonModule]
      BY <1>1, <1>4, <1>11 DEF BeforeChildRpc, AfterChildPlain, RajomonModule
    <2> QED BY <1>11, <2>1 DEF BeforeChildRpc, AfterChildPlain, TableTypes, tableVars
  <1>12. ASSUME NEW e \in Edge, NEW price \in Price, AfterChildPrice(r, e, price) PROVE TableTypes'
    <2>1. price \in U64
      BY RajomonAssumption
    <2>2. req' \in [Rpc -> RajomonModule]
      BY <1>1, <1>4, <1>6, <1>12 DEF AfterChildPrice, RajomonModule
    <2>3. downstream' \in [Edge -> U64 \cup {None}]
      BY <1>12, <2>1 DEF AfterChildPrice, TableTypes
    <2> QED BY <1>12, <2>2, <2>3 DEF AfterChildPrice, TableTypes
  <1>13. ASSUME NEW e \in Edge, LearnScan(r, e) PROVE TableTypes'
    <2>1. Max({req[r].best, ValueOf(e)}) \in U64
      BY <1>2, <1>4, ValueFacts, U64Facts
    <2>2. req' \in [Rpc -> RajomonModule]
      BY <1>1, <1>4, <1>13, <2>1 DEF LearnScan, RajomonModule
    <2> QED BY <1>13, <2>2 DEF LearnScan, TableTypes, tableVars
  <1>14. CASE LearnStore(r)
    <2>1. 0 \in U64
      BY RajomonAssumption DEF U64
    <2>2. req' \in [Rpc -> RajomonModule]
      BY <1>1, <1>14, <2>1 DEF LearnStore, RajomonModule
    <2>3. max_down' \in [Parent -> U64]
      BY <1>4, <1>14 DEF LearnStore, TableTypes
    <2> QED BY <1>14, <2>2, <2>3 DEF LearnStore, TableTypes
  <1>15. CASE RequestEnds(r) \/ FinalizePlain(r) \/ FinalizeQuote(r) \/ Quote(r)
    <2>1. req' \in [Rpc -> RajomonModule]
      <3>1. CASE RequestEnds(r)
        BY <1>1, <1>3, <1>4, <3>1 DEF RequestEnds, RajomonModule
      <3>2. CASE FinalizePlain(r) \/ Quote(r)
        BY <1>1, <1>3, <3>2 DEF FinalizePlain, Quote
      <3>3. CASE FinalizeQuote(r)
        BY <1>1, <3>3 DEF FinalizeQuote, RajomonModule
      <3> QED BY <1>15, <3>1, <3>2, <3>3
    <2> QED BY <1>15, <2>1 DEF RequestEnds, FinalizePlain, FinalizeQuote, Quote, TableTypes, tableVars
  <1> QED BY <1>7, <1>8, <1>9, <1>10, <1>11, <1>12, <1>13, <1>14, <1>15 DEF HookStep, Event

LEMMA TickTypes ==
  ASSUME TableTypes, Tick
  PROVE  TableTypes'
  <1>1. worker \in Worker /\ own_price \in U64 /\ window_max \in Nat
    BY DEF TableTypes
  <1>2. \A p : EdgesOf(p) \subseteq Edge
    BY DEF EdgesOf
  <1>3. 0 \in U64 /\ \A e \in Edge : e[1] \in Parent
    BY RajomonAssumption DEF U64
  <1>4. CASE UpdatePrices
    <2>1. own_price' \in U64 /\ window_max' \in Nat
      BY <1>1, <1>4, NewPriceFacts DEF UpdatePrices
    <2>2. worker' \in Worker
      BY <1>1, <1>4 DEF UpdatePrices, Worker
    <2> QED BY <1>4, <2>1, <2>2 DEF UpdatePrices, TableTypes
  <1>5. CASE WorkerStore
    <2>1. worker' \in Worker
      BY <1>1, <1>3, <1>5 DEF WorkerStore, Worker
    <2>2. worker.parent \in Parent /\ worker.best \in U64
      BY <1>1, <1>5 DEF WorkerStore, Worker
    <2> QED BY <1>5, <2>1, <2>2 DEF WorkerStore, TableTypes
  <1>6. ASSUME NEW e \in Edge, HalveEntry(e) PROVE TableTypes'
    <2>1. worker' \in Worker
      BY <1>1, <1>3, <1>6 DEF HalveEntry, Worker
    <2>2. downstream' \in [Edge -> U64 \cup {None}]
      <3>1. CASE ValueOf(e) > 0
        <4>1. downstream[e] \in U64
          BY <3>1 DEF ValueOf, TableTypes
        <4>2. Halved(downstream[e]) \in U64
          BY <4>1, U64Facts
        <4> QED BY <1>6, <3>1, <4>2 DEF HalveEntry, TableTypes
      <3>2. CASE ~(ValueOf(e) > 0)
        BY <1>6, <3>2 DEF HalveEntry, TableTypes
      <3> QED BY <3>1, <3>2
    <2> QED BY <1>6, <2>1, <2>2 DEF HalveEntry, TableTypes
  <1>7. ASSUME NEW e \in Edge, WorkerScan(e) PROVE TableTypes'
    <2>1. Max({worker.best, ValueOf(e)}) \in U64
      BY <1>1, ValueFacts, U64Facts DEF Worker
    <2>2. worker' \in Worker
      BY <1>1, <1>7, <2>1 DEF WorkerScan, Worker
    <2> QED BY <1>7, <2>2 DEF WorkerScan, TableTypes, tableVars
  <1>8. ASSUME NEW p \in Parent, Recompute(p) PROVE TableTypes'
    <2>1. worker' \in Worker
      BY <1>1, <1>2, <1>8 DEF Recompute, Worker
    <2> QED BY <1>8, <2>1 DEF Recompute, TableTypes, tableVars
  <1> QED BY <1>4, <1>5, <1>6, <1>7, <1>8 DEF Tick

\* The number that is met among a parent's entries, or 0, and that none of
\* them exceeds is what Largest says.
LEMMA LargestFacts ==
  ASSUME TableTypes, NEW p
  PROVE  /\ Largest(p) \in Nat
         /\ \A m \in Nat :
              m = Largest(p) <=> /\ m = 0 \/ \E e \in EdgesOf(p) : ValueOf(e) = m
                                 /\ \A e \in EdgesOf(p) : ValueOf(e) <= m
  <1>1. PICK S : S = {0} \cup {ValueOf(e) : e \in EdgesOf(p)}
    OBVIOUS
  <1>2. Top \in Nat /\ \A e \in EdgesOf(p) : ValueOf(e) \in 0 .. Top
    BY RajomonAssumption, ValueFacts DEF EdgesOf, U64
  <1>3. \A y \in S : y \in 0 .. Top
    BY <1>1, <1>2
  <1>4. S \in SUBSET (0 .. Top) /\ S # {}
    BY <1>1, <1>3
  <1>5. Max(S) \in S /\ \A y \in S : y <= Max(S)
    BY <1>2, <1>4, MaxFacts
  <1>6. Largest(p) = Max(S) /\ Max(S) \in Nat
    <2>1. Largest(p) = Max(S)
      BY <1>1 DEF Largest
    <2>2. Max(S) \in 0 .. Top
      BY <1>3, <1>5
    <2> QED BY <2>1, <2>2
  <1>7. ASSUME NEW m \in Nat, m = 0 \/ \E e \in EdgesOf(p) : ValueOf(e) = m,
               \A e \in EdgesOf(p) : ValueOf(e) <= m
        PROVE  m = Largest(p)
    <2>1. m \in S /\ \A y \in S : y <= m
      BY <1>1, <1>7
    <2>2. m <= Max(S) /\ Max(S) <= m
      BY <1>5, <2>1
    <2> QED BY <1>6, <2>2
  <1>8. /\ Largest(p) = 0 \/ \E e \in EdgesOf(p) : ValueOf(e) = Largest(p)
        /\ \A e \in EdgesOf(p) : ValueOf(e) <= Largest(p)
    BY <1>1, <1>5, <1>6
  <1> QED BY <1>6, <1>7, <1>8

\* What a hook of a request does to everybody else: it leaves the tick as it
\* is, and the entries and the copy of every parent that stays alone.
LEMMA HookFacts ==
  ASSUME PriceIInv, NEW r \in Rpc, HookStep(r) \/ Event(r)
  PROVE  /\ \A s \in Rpc \ {r} : req'[s] = req[s]
         /\ Served(r)'
         /\ worker' = [worker EXCEPT !.on = worker'.on]
         /\ alone' \subseteq alone
         /\ At(r, "learn")' =>
              \/ At(r, "learn") /\ req'[r].method = req[r].method
              \/ req'[r].method \notin alone'
         /\ \A p \in alone' : /\ max_down'[p] = max_down[p]
                              /\ \A e \in EdgesOf(p) : ValueOf(e)' = ValueOf(e)
  <1>1. /\ req \in [Rpc -> RajomonModule] /\ req[r] \in RajomonModule
        /\ worker \in Worker /\ worker = [worker EXCEPT !.on = worker.on]
        /\ max_down \in [Parent -> U64] /\ downstream \in [Edge -> U64 \cup {None}]
        /\ req[r].calls \subseteq EdgesOf(req[r].method)
        /\ At(r, "decide") => req[r].tokens >= Accumulated(req[r].own, req[r].down)
    BY DEF PriceIInv, TableTypes, Served, Worker
  <1>2. FreeSlot \in RajomonModule /\ FreeSlot.calls = {}
    BY FreeSlotFacts DEF FreeSlot
  <1>3. alone \subseteq Parent /\ (At(r, "learn") => req[r].method \notin alone)
    BY DEF PriceIInv, TableTypes, Learning
  <1>4. \A s \in Rpc \ {r} : req'[s] = req[s]
    BY <1>1 DEF HookStep, Event, New, LoadDown, Admit, RajomonBeforePoll, BeforeChildRpc,
        AfterChildPlain, AfterChildPrice, LearnScan, LearnStore, RequestEnds, FinalizePlain,
        FinalizeQuote, Quote
  <1>5. ASSUME NEW m \in Parent, NEW n \in Tokens, New(r, m, n)
        PROVE  /\ Served(r)' /\ req'[r].pc = "new" /\ worker' = [worker EXCEPT !.on = worker'.on]
               /\ UNCHANGED <<downstream, max_down, alone>>
    <2>1. req'[r].pc = "new" /\ req'[r].calls = {}
      BY <1>1, <1>2, <1>5 DEF New, RajomonModule
    <2>2. worker' = [worker EXCEPT !.on = worker'.on]
      BY <1>1, <1>5 DEF New, Worker
    <2> QED BY <1>5, <2>1, <2>2 DEF New, Served, At, tableVars
  <1>6. CASE LoadDown(r)
    <2>1. CASE req[r].tokens < Accumulated(req[r].own, max_down[req[r].method])
      <3>1. req'[r].pc = "rejected" /\ req'[r].calls = {}
        BY <1>1, <1>2, <1>6, <2>1 DEF LoadDown, RajomonModule
      <3> QED BY <1>1, <1>4, <1>6, <3>1 DEF LoadDown, Served, At, tableVars, ValueOf
    <2>2. CASE ~(req[r].tokens < Accumulated(req[r].own, max_down[req[r].method]))
      <3>1. /\ req'[r].pc = "decide" /\ req'[r].calls = req[r].calls
            /\ req'[r].method = req[r].method /\ req'[r].tokens = req[r].tokens
            /\ req'[r].own = req[r].own /\ req'[r].down = max_down[req[r].method]
        BY <1>1, <1>6, <2>2 DEF LoadDown, RajomonModule
      <3>2. req[r].tokens \in Nat /\ Accumulated(req[r].own, max_down[req[r].method]) \in Nat
        <4>1. req[r].own \in Nat /\ req[r].tokens \in Nat /\ req[r].method \in Parent
          BY <1>1, RajomonAssumption DEF RajomonModule, U64
        <4>2. max_down[req[r].method] \in Nat
          BY <1>1, <4>1 DEF U64
        <4> QED BY <4>1, <4>2, RajomonAssumption DEF Accumulated, SatAdd
      <3>3. Served(r)'
        BY <1>1, <2>2, <3>1, <3>2 DEF Served
      <3> QED BY <1>1, <1>4, <1>6, <3>1, <3>3 DEF LoadDown, At, tableVars, ValueOf
    <2> QED BY <2>1, <2>2
  <1>7. CASE Admit(r)
    <2>1. req'[r].pc = "admitted" /\ req'[r].calls = req[r].calls /\ req'[r].method = req[r].method
      BY <1>1, <1>7 DEF Admit, RajomonModule
    <2> QED BY <1>1, <1>4, <1>7, <2>1 DEF Admit, Served, At, tableVars, ValueOf
  <1>8. ASSUME NEW us \in Latency, RajomonBeforePoll(r, us)
        PROVE  /\ Served(r)' /\ req'[r].pc # "learn"
               /\ UNCHANGED <<downstream, max_down, alone, worker>>
    <2>1. /\ req'[r].pc \in {"final", "serving"}
          /\ req'[r].calls = req[r].calls /\ req'[r].method = req[r].method
      BY <1>1, <1>8 DEF RajomonBeforePoll, RajomonModule
    <2> QED BY <1>1, <1>8, <2>1 DEF RajomonBeforePoll, Served, At
  <1>9. ASSUME NEW e \in Edge, BeforeChildRpc(r, e) \/ AfterChildPlain(r, e)
        PROVE  /\ Served(r)' /\ req'[r].pc # "learn"
               /\ UNCHANGED <<downstream, max_down, alone, worker>>
    <2>1. /\ req'[r].pc = "serving" /\ req'[r].method = req[r].method
          /\ req'[r].calls \subseteq EdgesOf(req[r].method)
      BY <1>1, <1>9 DEF BeforeChildRpc, AfterChildPlain, At, RajomonModule
    <2> QED BY <1>9, <2>1 DEF BeforeChildRpc, AfterChildPlain, Served, At, tableVars
  <1>10. ASSUME NEW e \in Edge, NEW price \in Price, AfterChildPrice(r, e, price)
         PROVE  /\ Served(r)' /\ req'[r].method \notin alone' /\ alone' \subseteq alone
                /\ UNCHANGED <<max_down, worker>>
                /\ \A p \in alone' : \A d \in EdgesOf(p) : downstream'[d] = downstream[d]
    <2>1. /\ req'[r].pc = "learn" /\ req'[r].method = req[r].method
          /\ req'[r].calls \subseteq EdgesOf(req[r].method)
      BY <1>1, <1>10 DEF AfterChildPrice, RajomonModule
    <2>2. e \in EdgesOf(req[r].method)
      BY <1>1, <1>10 DEF AfterChildPrice
    <2>3. ASSUME NEW p \in alone', NEW d \in EdgesOf(p) PROVE downstream'[d] = downstream[d]
      <3>1. p # req[r].method /\ d # e
        BY <1>10, <2>2, <2>3 DEF AfterChildPrice, EdgesOf
      <3> QED BY <1>1, <1>10, <3>1 DEF AfterChildPrice, EdgesOf
    <2>4. Served(r)'
      BY <2>1 DEF Served, At
    <2> QED BY <1>10, <2>1, <2>3, <2>4 DEF AfterChildPrice
  <1>11. ASSUME NEW e \in Edge, LearnScan(r, e)
         PROVE  /\ Served(r)' /\ At(r, "learn") /\ req'[r].method = req[r].method
                /\ UNCHANGED <<downstream, max_down, alone, worker>>
    <2>1. /\ req'[r].pc = "learn" /\ req'[r].method = req[r].method
          /\ req'[r].calls = req[r].calls
      BY <1>1, <1>11 DEF LearnScan, At, RajomonModule
    <2> QED BY <1>1, <1>11, <2>1 DEF LearnScan, Served, At, tableVars
  <1>12. CASE LearnStore(r)
    <2>1. /\ req'[r].pc = "serving" /\ req'[r].method = req[r].method
          /\ req'[r].calls = req[r].calls
      BY <1>1, <1>12 DEF LearnStore, At, RajomonModule
    <2>2. Served(r)'
      BY <1>1, <2>1 DEF Served, At
    <2>3. \A p \in alone : max_down'[p] = max_down[p]
      <3>1. req[r].method \notin alone
        BY <1>3, <1>12 DEF LearnStore
      <3> QED BY <1>1, <1>3, <1>12, <3>1 DEF LearnStore
    <2> QED BY <1>1, <1>4, <1>12, <2>1, <2>2, <2>3 DEF LearnStore, At, ValueOf
  <1>13. CASE RequestEnds(r) \/ FinalizePlain(r) \/ FinalizeQuote(r) \/ Quote(r)
    <2>1. /\ req'[r].pc \in {"final", "idle", "quote"}
          /\ req'[r].calls = {} \/ (req'[r].calls = req[r].calls /\ req'[r].method = req[r].method)
      <3>1. FreeSlot.pc = "idle"
        BY DEF FreeSlot
      <3>2. CASE RequestEnds(r)
        BY <1>1, <1>2, <3>2 DEF RequestEnds, RajomonModule
      <3>3. CASE FinalizePlain(r) \/ Quote(r)
        BY <1>1, <1>2, <3>1, <3>3 DEF FinalizePlain, Quote
      <3>4. CASE FinalizeQuote(r)
        BY <1>1, <3>4 DEF FinalizeQuote, RajomonModule
      <3> QED BY <1>13, <3>2, <3>3, <3>4
    <2>2. Served(r)'
      BY <1>1, <2>1 DEF Served, At
    <2> QED BY <1>1, <1>4, <1>13, <2>1, <2>2
            DEF RequestEnds, FinalizePlain, FinalizeQuote, Quote, At, tableVars, ValueOf
  <1>14. CASE \E m \in Parent, n \in Tokens : New(r, m, n)
    BY <1>1, <1>4, <1>5, <1>14 DEF At, ValueOf
  <1>15. CASE \E us \in Latency : RajomonBeforePoll(r, us)
    BY <1>1, <1>4, <1>8, <1>15 DEF At, ValueOf
  <1>16. CASE \E e \in Edge : BeforeChildRpc(r, e) \/ AfterChildPlain(r, e)
    BY <1>1, <1>4, <1>9, <1>16 DEF At, ValueOf
  <1>17. CASE \E e \in Edge, price \in Price : AfterChildPrice(r, e, price)
    BY <1>1, <1>4, <1>10, <1>17 DEF At, ValueOf
  <1>18. CASE \E e \in Edge : LearnScan(r, e)
    BY <1>1, <1>4, <1>11, <1>18 DEF At, ValueOf
  <1> QED BY <1>6, <1>7, <1>12, <1>13, <1>14, <1>15, <1>16, <1>17, <1>18 DEF HookStep, Event

\* A hook of a request disturbs no parent that stays alone.
LEMMA HookKeeps ==
  ASSUME PriceIInv, NEW r \in Rpc, HookStep(r) \/ Event(r)
  PROVE  PriceIInv'
  <1>1. TableTypes /\ worker \in Worker
    BY DEF PriceIInv, TableTypes
  <1>2. TableTypes'
    BY <1>1, HookTypes
  <1>3. \A s \in Rpc : Served(s)'
    <2>1. \A s \in Rpc : Served(s)
      BY DEF PriceIInv
    <2>2. \A s \in Rpc \ {r} : req'[s] = req[s]
      BY HookFacts
    <2>3. \A s \in Rpc \ {r} : Served(s)'
      BY <2>1, <2>2 DEF Served, At
    <2> QED BY <2>3, HookFacts
  <1>4. /\ worker'.halve = worker.halve /\ worker'.affected = worker.affected
        /\ worker'.parent = worker.parent /\ worker'.scan = worker.scan
        /\ worker'.best = worker.best
    BY <1>1, HookFacts DEF Worker
  <1>5. Ticking'
    BY <1>4 DEF PriceIInv, Ticking
  <1>6. ASSUME NEW p \in alone' PROVE ~Learning(p)' /\ Decays(p)'
    <2>1. p \in alone /\ ~Learning(p) /\ Decays(p)
      BY HookFacts DEF PriceIInv
    <2>2. ~Learning(p)'
      <3>1. \A s \in Rpc \ {r} : req'[s] = req[s]
        BY HookFacts
      <3>2. \A s \in Rpc \ {r} : ~(req'[s].pc = "learn" /\ req'[s].method = p)
        BY <2>1, <3>1 DEF Learning, At
      <3>3. ~(req'[r].pc = "learn" /\ req'[r].method = p)
        BY <2>1, HookFacts DEF Learning, At
      <3> QED BY <3>2, <3>3 DEF Learning, At
    <2>3. /\ max_down'[p] = max_down[p]
          /\ \A e \in EdgesOf(p) : ValueOf(e)' = ValueOf(e)
      BY HookFacts
    <2>4. Largest(p)' = Largest(p)
      BY <2>3 DEF Largest
    <2>5. Decays(p)'
      BY <1>4, <2>1, <2>3, <2>4 DEF Decays, Scanned
    <2> QED BY <2>2, <2>5
  <1> QED BY <1>2, <1>3, <1>5, <1>6 DEF PriceIInv

\* A tick brings every parent that is alone closer to an exact copy.
LEMMA TickKeeps ==
  ASSUME PriceIInv, Tick
  PROVE  PriceIInv'
  <1>1. /\ TableTypes /\ worker \in Worker /\ alone \subseteq Parent
        /\ max_down \in [Parent -> U64] /\ downstream \in [Edge -> U64 \cup {None}]
        /\ None \notin Parent
    BY RajomonAssumption DEF PriceIInv, TableTypes
  <1>2. TableTypes'
    BY <1>1, TickTypes
  <1>3. UNCHANGED req
    BY DEF Tick, UpdatePrices, WorkerStore, HalveEntry, WorkerScan, Recompute, tableVars
  <1>4. /\ \A s \in Rpc : Served(s)'
        /\ \A p : Learning(p)' <=> Learning(p)
    BY <1>3 DEF PriceIInv, Served, Learning, At
  <1>5. \A p \in alone : ~Learning(p) /\ Decays(p)
    BY DEF PriceIInv
  <1>6. CASE UpdatePrices
    <2>1. /\ worker'.halve = Edge /\ worker'.parent = None /\ worker.parent = None
          /\ worker'.scan = worker.scan /\ worker'.best = worker.best
      BY <1>1, <1>6 DEF UpdatePrices, Idle, Worker
    <2>2. Ticking'
      BY <2>1 DEF PriceIInv, Ticking
    <2>3. ASSUME NEW p \in alone' PROVE ~Learning(p) /\ Decays(p)'
      <3>1. p \in Parent /\ Largest(p) > 0 /\ ~Learning(p)
        BY <1>6 DEF UpdatePrices
      <3>2. Largest(p) \in Nat /\ Largest(p) # 0
        BY <1>1, <3>1, LargestFacts
      <3>3. PICK e \in EdgesOf(p) : ValueOf(e) = Largest(p)
        BY <1>1, <3>2, LargestFacts
      <3>4. ValueOf(e)' > 0 /\ e \in Edge
        BY <1>6, <3>1, <3>3 DEF UpdatePrices, ValueOf, EdgesOf
      <3> QED BY <1>1, <2>1, <3>1, <3>4 DEF Decays
    <2> QED BY <1>2, <1>4, <2>2, <2>3 DEF PriceIInv
  <1>7. CASE WorkerStore
    <2>1. PICK q \in Parent : q = worker.parent
      BY <1>1, <1>7 DEF WorkerStore, Worker
    <2>2. /\ worker'.halve = worker.halve /\ worker'.affected = worker.affected
          /\ worker'.parent = None /\ worker'.scan = {} /\ worker'.best = 0
          /\ worker.scan = {} /\ worker.best \in Nat
      BY <1>1, <1>7 DEF WorkerStore, Worker, U64
    <2>3. Ticking' /\ worker.halve = {}
      BY <2>1, <2>2, <1>1 DEF PriceIInv, Ticking
    <2>4. /\ \A e : ValueOf(e)' = ValueOf(e)
          /\ max_down' = [max_down EXCEPT ![q] = worker.best] /\ alone' = alone
      BY <1>7, <2>1 DEF WorkerStore, ValueOf
    <2>5. \A p : Largest(p)' = Largest(p)
      BY <2>4 DEF Largest
    <2>6. ASSUME NEW p \in alone' PROVE Decays(p)'
      <3>1. p \in Parent /\ Decays(p) /\ worker'.parent # p
        BY <1>1, <1>5, <2>2, <2>4
      <3>2. CASE p = q
        <4>1. Scanned(p)
          BY <2>1, <3>1, <3>2 DEF Decays
        <4>2. worker.best = Largest(p)
          <5>1. /\ worker.best = 0 \/ \E e \in EdgesOf(p) : ValueOf(e) = worker.best
                /\ \A e \in EdgesOf(p) : ValueOf(e) <= worker.best
            BY <2>2, <4>1 DEF Scanned
          <5> QED BY <1>1, <2>2, <5>1, LargestFacts
        <4>3. max_down'[p] = Largest(p)'
          BY <1>1, <2>4, <2>5, <3>1, <3>2, <4>2
        <4> QED BY <2>2, <2>3, <3>1, <4>3 DEF Decays
      <3>3. CASE p # q
        <4>1. max_down'[p] = max_down[p]
          BY <1>1, <2>4, <3>1, <3>3
        <4> QED BY <2>1, <2>2, <2>4, <2>5, <3>1, <3>3, <4>1 DEF Decays
      <3> QED BY <3>2, <3>3
    <2> QED BY <1>2, <1>4, <1>5, <2>3, <2>4, <2>6 DEF PriceIInv
  <1>8. ASSUME NEW d \in Edge, HalveEntry(d) PROVE PriceIInv'
    <2>1. /\ worker'.halve = worker.halve \ {d} /\ worker'.parent = worker.parent
          /\ worker'.affected = IF Affects(d) THEN worker.affected \cup {d[1]} ELSE worker.affected
          /\ worker'.scan = worker.scan /\ worker'.best = worker.best /\ d \in worker.halve
      BY <1>1, <1>8 DEF HalveEntry, Worker
    <2>2. Ticking' /\ worker.parent = None
      BY <2>1 DEF PriceIInv, Ticking
    <2>3. alone' = alone /\ \A e \in Edge \ {d} : ValueOf(e)' = ValueOf(e)
      BY <1>1, <1>8 DEF HalveEntry, ValueOf
    <2>4. ASSUME NEW p \in alone' PROVE Decays(p)'
      <3>1. p \in Parent /\ Decays(p) /\ worker'.parent # p /\ worker.parent # p
        BY <1>1, <1>5, <2>1, <2>2, <2>3
      <3>2. CASE p \in worker.affected
        BY <2>1, <3>1, <3>2 DEF Decays
      <3>3. ASSUME NEW e \in EdgesOf(p), e \in worker.halve, ValueOf(e) > 0 PROVE Decays(p)'
        <4>1. CASE e = d
          BY <2>1, <3>1, <3>3, <4>1 DEF Decays, Affects, EdgesOf
        <4>2. CASE e # d
          <5>1. e \in worker'.halve /\ ValueOf(e)' > 0
            BY <2>1, <2>3, <3>3, <4>2 DEF EdgesOf
          <5> QED BY <3>1, <5>1 DEF Decays
        <4> QED BY <4>1, <4>2
      <3> QED BY <2>1, <3>1, <3>2, <3>3 DEF Decays
    <2> QED BY <1>2, <1>4, <1>5, <2>2, <2>3, <2>4 DEF PriceIInv
  <1>9. ASSUME NEW d \in Edge, WorkerScan(d) PROVE PriceIInv'
    <2>1. /\ worker'.halve = worker.halve /\ worker'.parent = worker.parent
          /\ worker'.affected = worker.affected /\ worker'.scan = worker.scan \ {d}
          /\ worker'.best = Max({worker.best, ValueOf(d)}) /\ d \in worker.scan
          /\ worker.best \in Nat
      BY <1>1, <1>9 DEF WorkerScan, Worker, U64
    <2>2. /\ worker.parent # None /\ d \in EdgesOf(worker.parent)
          /\ Ticking'
      BY <2>1 DEF PriceIInv, Ticking
    <2>3. UNCHANGED <<max_down, alone>> /\ \A e : ValueOf(e)' = ValueOf(e)
      BY <1>9 DEF WorkerScan, tableVars, ValueOf
    <2>4. \A p : Largest(p)' = Largest(p)
      BY <2>3 DEF Largest
    <2>5. worker'.best = IF worker.best >= ValueOf(d) THEN worker.best ELSE ValueOf(d)
      BY <1>1, <2>1, ValueFacts, MaxOfTwo
    <2>6. ASSUME NEW p \in alone' PROVE Decays(p)'
      <3>1. p \in Parent /\ Decays(p)
        BY <1>1, <1>5, <2>3
      <3>2. CASE p = worker.parent
        <4>1. Scanned(p)
          BY <3>1, <3>2 DEF Decays
        <4>2. ASSUME NEW e \in EdgesOf(p)
              PROVE  ValueOf(e) <= worker'.best \/ e \in worker'.scan
          <5>1. ValueOf(e) \in Nat /\ ValueOf(d) \in Nat
            BY <1>1, ValueFacts DEF EdgesOf
          <5>2. ValueOf(e) <= worker.best \/ e \in worker.scan
            BY <4>1 DEF Scanned
          <5> QED BY <2>1, <2>5, <5>1, <5>2
        <4>3. worker'.best = 0 \/ \E e \in EdgesOf(p) : ValueOf(e) = worker'.best
          BY <2>2, <2>5, <3>2, <4>1 DEF Scanned
        <4>4. Scanned(p)'
          BY <2>3, <4>2, <4>3 DEF Scanned
        <4> QED BY <2>1, <3>2, <4>4 DEF Decays
      <3>3. CASE p # worker.parent
        BY <2>1, <2>3, <2>4, <3>1, <3>3 DEF Decays
      <3> QED BY <3>2, <3>3
    <2> QED BY <1>2, <1>4, <1>5, <2>2, <2>3, <2>6 DEF PriceIInv
  <1>10. ASSUME NEW q \in Parent, Recompute(q) PROVE PriceIInv'
    <2>1. /\ worker'.halve = {} /\ worker.halve = {} /\ worker'.parent = q
          /\ worker.parent = None /\ worker'.affected = worker.affected \ {q}
          /\ worker'.scan = EdgesOf(q) /\ worker'.best = worker.best
      BY <1>1, <1>10 DEF Recompute, Worker
    <2>2. Ticking' /\ worker'.best = 0
      BY <1>1, <2>1 DEF PriceIInv, Ticking
    <2>3. UNCHANGED <<max_down, alone>> /\ \A e : ValueOf(e)' = ValueOf(e)
      BY <1>10 DEF Recompute, tableVars, ValueOf
    <2>4. \A p : Largest(p)' = Largest(p)
      BY <2>3 DEF Largest
    <2>5. ASSUME NEW p \in alone' PROVE Decays(p)'
      <3>1. p \in Parent /\ Decays(p)
        BY <1>1, <1>5, <2>3
      <3>2. CASE p = q
        BY <2>1, <2>2, <3>2 DEF Decays, Scanned
      <3>3. CASE p # q
        BY <1>1, <2>1, <2>3, <2>4, <3>1, <3>3 DEF Decays
      <3> QED BY <3>2, <3>3
    <2> QED BY <1>2, <1>4, <1>5, <2>2, <2>3, <2>5 DEF PriceIInv
  <1> QED BY <1>6, <1>7, <1>8, <1>9, <1>10 DEF Tick

\* Requests never have a foreign child's price to store, and a parent no
\* learner is about since the tick began is on its way to an exact maximum,
\* for every set of methods, of requests in flight and of prices.
THEOREM PriceInvariant == RajomonSpec => []PriceIInv
  <1>1. RajomonInit => PriceIInv
    <2> SUFFICES ASSUME RajomonInit PROVE PriceIInv
      OBVIOUS
    <2>1. /\ FreeSlot \in RajomonModule /\ FreeSlot.calls = {} /\ FreeSlot.pc = "idle"
          /\ 0 \in U64
      BY FreeSlotFacts, RajomonAssumption DEF FreeSlot, U64
    <2>2. worker \in Worker /\ worker.parent = None /\ worker.scan = {} /\ worker.best = 0
      BY <2>1 DEF RajomonInit, Worker
    <2>3. TableTypes
      BY <2>1, <2>2, RajomonAssumption DEF RajomonInit, TableTypes
    <2> QED BY <2>1, <2>2, <2>3 DEF RajomonInit, PriceIInv, Served, At, Ticking
  <1>2. PriceIInv /\ [RajomonNext]_rajomonVars => PriceIInv'
    <2>1. ASSUME PriceIInv, UNCHANGED rajomonVars PROVE PriceIInv'
      <3>1. UNCHANGED <<own_price, downstream, max_down, window_max, req, worker, alone>>
        BY <2>1 DEF rajomonVars, tableVars
      <3>2. TableTypes' /\ Ticking' /\ \A r \in Rpc : Served(r)'
        BY <2>1, <3>1 DEF PriceIInv, TableTypes, Ticking, Served, At
      <3>3. \A p \in alone' : ~Learning(p)' /\ Decays(p)'
        <4>1. \A e : ValueOf(e)' = ValueOf(e)
          BY <3>1 DEF ValueOf
        <4>2. \A p : Largest(p)' = Largest(p)
          BY <4>1 DEF Largest
        <4>3. \A p : Scanned(p)' <=> Scanned(p)
          BY <3>1, <4>1 DEF Scanned
        <4>4. \A p : Decays(p)' <=> Decays(p)
          BY <3>1, <4>1, <4>2, <4>3 DEF Decays
        <4>5. \A p : Learning(p)' <=> Learning(p)
          BY <3>1 DEF Learning, At
        <4> QED BY <2>1, <3>1, <4>4, <4>5 DEF PriceIInv
      <3> QED BY <3>2, <3>3 DEF PriceIInv
    <2> QED BY <2>1, HookKeeps, TickKeeps DEF RajomonNext
  <1> QED BY <1>1, <1>2, PTL DEF RajomonSpec

\* A tick no learner of a parent overlapped leaves that parent's copy of the
\* maximum exact, also when its entries have just gone to zero: no order of
\* the worker's reads and writes and those of the hooks loses an entry.
THEOREM TicksAreExact == RajomonSpec => []TableInv
  <1>1. PriceIInv => TableInv
    <2> SUFFICES ASSUME PriceIInv, Idle, NEW p \in alone
                 PROVE  max_down[p] = Largest(p)
      BY DEF PriceIInv, TableInv, TickExact
    <2>1. p \in Parent /\ worker.parent = None /\ worker.halve = {} /\ worker.affected = {}
      BY DEF PriceIInv, TableTypes, Idle
    <2>2. worker.parent # p /\ Decays(p)
      BY <2>1, RajomonAssumption DEF PriceIInv
    <2> QED BY <2>1, <2>2 DEF Decays
  <1> QED BY <1>1, PriceInvariant, PTL

\* A request is admitted only with a budget that still covers the dearest
\* child known when its price was computed, unless a tick raised the own price
\* in between or the sum saturated; and it never gains tokens by it.
THEOREM AdmissionCovers == RajomonSpec => AdmittedCovers
  <1>1. PriceIInv /\ [RajomonNext]_rajomonVars =>
          [ \A r \in Rpc :
              /\ At(r, "decide") /\ req'[r].pc = "admitted"
              /\ own_price <= req[r].own
              /\ req[r].own + req[r].down <= Top
              => req'[r].tokens >= req[r].down /\ req'[r].tokens <= req[r].tokens ]_rajomonVars
    <2> SUFFICES ASSUME PriceIInv, RajomonNext, NEW r \in Rpc, At(r, "decide"),
                        req'[r].pc = "admitted", own_price <= req[r].own,
                        req[r].own + req[r].down <= Top
                 PROVE  req'[r].tokens >= req[r].down /\ req'[r].tokens <= req[r].tokens
      OBVIOUS
    <2>1. /\ req \in [Rpc -> RajomonModule] /\ own_price \in U64 /\ own_price \in Nat
          /\ Served(r) /\ Top \in Nat
      BY RajomonAssumption DEF PriceIInv, TableTypes, U64
    <2>2. /\ req[r].own \in Nat /\ req[r].down \in Nat /\ req[r].tokens \in U64
          /\ req[r].tokens \in Nat /\ req[r].pc = "decide"
      BY <2>1, RajomonAssumption DEF RajomonModule, U64, At
    <2>3. req[r].tokens >= req[r].own + req[r].down
      BY <2>1, <2>2 DEF Served, Accumulated, SatAdd, At
    <2>4. Admit(r)
      <3>1. ~Tick
        BY <2>2 DEF Tick, UpdatePrices, WorkerStore, HalveEntry, WorkerScan, Recompute, tableVars
      <3>2. PICK s \in Rpc : HookStep(s) \/ Event(s)
        BY <3>1 DEF RajomonNext
      <3>3. \A x \in Rpc \ {s} : req'[x] = req[x]
        BY <3>2, HookFacts
      <3>4. s = r
        BY <2>2, <3>3
      <3> QED BY <2>2, <3>2, <3>4, <2>1 DEF HookStep, Event, New, LoadDown, Admit, RajomonBeforePoll,
            BeforeChildRpc, AfterChildPlain, AfterChildPrice, LearnScan, LearnStore, RequestEnds,
            FinalizePlain, FinalizeQuote, Quote, At, RajomonModule
    <2>5. req'[r].tokens = WrapSub(req[r].tokens, own_price)
      BY <2>1, <2>4 DEF Admit, RajomonModule
    <2>6. req'[r].tokens = req[r].tokens - own_price
      <3>1. own_price <= req[r].tokens
        BY <2>1, <2>2, <2>3
      <3>2. WrapSub(req[r].tokens, own_price) = req[r].tokens - own_price
        BY <2>1, <2>2, <3>1, U64Facts
      <3> QED BY <2>5, <3>2
    <2> QED BY <2>1, <2>2, <2>3, <2>6
  <1> QED BY <1>1, PriceInvariant, PTL DEF RajomonSpec, AdmittedCovers
=============================================================================
