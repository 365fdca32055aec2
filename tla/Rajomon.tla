------------------------------ MODULE Rajomon ------------------------------
(***************************************************************************)
(* Rajomon admission control in a server (libs/rajomon/src/module.rs and   *)
(* shared.rs).  One price table per process is read and written by all     *)
(* requests and by the worker that ticks: the server's own price, the      *)
(* price each child reported to each parent method, and per parent method  *)
(* a copy of the largest of these.                                         *)
(*                                                                         *)
(* Nothing locks the table as a whole.  A step is one atomic access or one *)
(* access to one entry of a DashMap; an iteration over a DashMap reads one *)
(* entry at a time, in any order, and sees what is there when it gets      *)
(* there.  Random decisions are choices.  u64 is scaled down to 0 .. Top;  *)
(* a difference or a product outside wraps, as in a release build.         *)
(***************************************************************************)
EXTENDS Integers, FiniteSetsExt

CONSTANTS Rpc,          \* the requests that may be in flight
          Parent,       \* the methods of this server
          Callee,       \* the methods it calls
          Edge,         \* which method calls which child
          Tokens,       \* the tokens a request may bring
          Price,        \* the prices children report
          Latency,      \* the queue latencies a poll may observe
          Threshold,    \* latency_threshold_us
          PriceStepUp,  \* price_step_up
          Unit,         \* the latency the step is for: 1000 us
          InitPrice,    \* init_price
          Top,          \* u64::MAX
          None          \* Option::None

U64 == 0 .. Top

ASSUME RajomonAssumption ==
  /\ Edge \subseteq Parent \X Callee
  /\ Top \in Nat /\ None \notin U64 /\ None \notin Parent /\ Parent # {}
  /\ InitPrice \in U64 /\ Price \subseteq U64 /\ Tokens \subseteq U64
  /\ Latency \subseteq Nat /\ Threshold \in Nat
  /\ PriceStepUp \in Nat /\ Unit \in Nat \ {0}

VARIABLES
  own_price,    \* RajomonSharedState::own_price
  downstream,   \* downstream_prices, None where there is no entry
  max_down,     \* max_downstream_for_method, 0 where there is no entry
  window_max,   \* QueueStats::window_max
  req,          \* the requests: RajomonModule and where the hooks are
  worker,       \* the price worker
  alone         \* history: the parents the last tick decays with no learner about

tableVars == <<own_price, downstream, max_down, window_max>>
rajomonVars == <<tableVars, req, worker, alone>>

SatAdd(a, b) == IF a + b > Top THEN Top ELSE a + b
WrapSub(a, b) == (a - b) % (Top + 1)
WrapMul(a, b) == (a * b) % (Top + 1)

EdgesOf(p) == {e \in Edge : e[1] = p}
ValueOf(e) == IF downstream[e] = None THEN 0 ELSE downstream[e]
Largest(p) == Max({0} \cup {ValueOf(e) : e \in EdgesOf(p)})

\* A request, or a free slot.  A field the program will not read again is reset.
RajomonModule ==
  [pc : {"idle", "new", "decide", "admitted", "rejected", "serving",
         "learn", "final", "quote"},
   method : Parent,
   tokens : U64,                \* inbound_tokens, once admitted remaining_tokens
   own : U64, down : U64,       \* what accumulated_price has loaded
   calls : SUBSET Edge,         \* the child RPCs in flight
   scan : SUBSET Edge,          \* the entries the iteration has still to visit
   best : U64]                  \* the largest price it has met

\* The worker is between two ticks when it has nothing left to do.
Worker ==
  [on : BOOLEAN,
   halve : SUBSET Edge,         \* the entries decay_downstream_prices has still to visit
   affected : SUBSET Parent,    \* parents_to_update
   parent : Parent \cup {None}, \* the one it recomputes
   scan : SUBSET Edge,
   best : U64]

TableTypes ==
  /\ own_price \in U64
  /\ downstream \in [Edge -> U64 \cup {None}]
  /\ max_down \in [Parent -> U64]
  /\ window_max \in Nat
  /\ req \in [Rpc -> RajomonModule]
  /\ worker \in Worker
  /\ alone \subseteq Parent

FreeSlot == [pc |-> "idle", method |-> CHOOSE p \in Parent : TRUE, tokens |-> 0, own |-> 0,
             down |-> 0, calls |-> {}, scan |-> {}, best |-> 0]

RajomonInit ==
  /\ own_price = InitPrice
  /\ downstream = [e \in Edge |-> None]
  /\ max_down = [p \in Parent |-> 0]
  /\ window_max = 0
  /\ req = [r \in Rpc |-> FreeSlot]
  /\ worker = [on |-> FALSE, halve |-> {}, affected |-> {}, parent |-> None,
               scan |-> {}, best |-> 0]
  /\ alone = {}

-----------------------------------------------------------------------------
(* A request: RajomonModule.                                               *)

At(r, p) == req[r].pc = p

\* new: the first request starts the worker (it runs inside the runtime), and
\* accumulated_price loads the own price.
New(r, m, n) ==
  /\ At(r, "idle")
  /\ req' = [req EXCEPT ![r] = [FreeSlot EXCEPT !.pc = "new", !.method = m, !.tokens = n,
                                                !.own = own_price]]
  /\ worker' = [worker EXCEPT !.on = TRUE]
  /\ UNCHANGED <<tableVars, alone>>

\* Mutant: the larger of the two prices, as in the Go implementation.
Accumulated_Maximal(own, down) == Max({own, down})

Accumulated(own, down) == SatAdd(own, down)

\* accumulated_price loads the copy of the maximum; that settles the decision.
LoadDown(r) ==
  /\ At(r, "new")
  /\ LET down == max_down[req[r].method]
     IN req' = IF req[r].tokens < Accumulated(req[r].own, down)
               THEN [req EXCEPT ![r] = [FreeSlot EXCEPT !.pc = "rejected",
                                                        !.method = req[r].method]]
               ELSE [req EXCEPT ![r].pc = "decide", ![r].down = down]
  /\ UNCHANGED <<tableVars, worker, alone>>

\* new loads the own price once more: that much of the budget is spent here.
Admit(r) ==
  /\ At(r, "decide")
  /\ req' = [req EXCEPT ![r].pc = "admitted", ![r].tokens = WrapSub(@, own_price),
                        ![r].own = 0, ![r].down = 0]
  /\ UNCHANGED <<tableVars, worker, alone>>

\* before_poll: the queue latency of the poll counts, also of a request that
\* is rejected.
RajomonBeforePoll(r, us) ==
  /\ req[r].pc \in {"admitted", "rejected", "serving"}
  /\ window_max' = Max({window_max, us})
  /\ req' = [req EXCEPT ![r].pc = IF @ = "rejected" THEN "final" ELSE "serving"]
  /\ UNCHANGED <<own_price, downstream, max_down, worker, alone>>

\* child_price: whichever entry for the child the map yields first, of any
\* parent.
ChildPrices(x) ==
  LET known == {e \in Edge : e[2] = x /\ downstream[e] # None}
  IN IF known = {} THEN {0} ELSE {downstream[e] : e \in known}

\* before_child_rpc.  A child RPC the budget does not cover is rejected and
\* changes nothing; the budget is not reduced by one that is sent.
BeforeChildRpc(r, e) ==
  /\ At(r, "serving") /\ e \in EdgesOf(req[r].method) \ req[r].calls
  /\ \E price \in ChildPrices(e[2]) : req[r].tokens >= price
  /\ req' = [req EXCEPT ![r].calls = @ \cup {e}]
  /\ UNCHANGED <<tableVars, worker, alone>>

\* after_child_rpc of a response without a price, or the caller drops the RPC.
AfterChildPlain(r, e) ==
  /\ At(r, "serving") /\ e \in req[r].calls
  /\ req' = [req EXCEPT ![r].calls = @ \ {e}]
  /\ UNCHANGED <<tableVars, worker, alone>>

\* after_child_rpc of a response that carries a price: the entry first.
AfterChildPrice(r, e, price) ==
  /\ At(r, "serving") /\ e \in req[r].calls
  /\ downstream' = [downstream EXCEPT ![e] = price]
  /\ req' = [req EXCEPT ![r].pc = "learn", ![r].calls = @ \ {e},
                        ![r].scan = EdgesOf(req[r].method)]
  /\ alone' = alone \ {req[r].method}
  /\ UNCHANGED <<own_price, max_down, window_max, worker>>

\* Then the maximum over the entries of this parent, one at a time.
LearnScan(r, e) ==
  /\ At(r, "learn") /\ e \in req[r].scan
  /\ req' = [req EXCEPT ![r].scan = @ \ {e}, ![r].best = Max({@, ValueOf(e)})]
  /\ UNCHANGED <<tableVars, worker, alone>>

\* Last, the copy of the maximum.
LearnStore(r) ==
  /\ At(r, "learn") /\ req[r].scan = {}
  /\ max_down' = [max_down EXCEPT ![req[r].method] = req[r].best]
  /\ req' = [req EXCEPT ![r].pc = "serving", ![r].best = 0]
  /\ UNCHANGED <<own_price, downstream, window_max, worker, alone>>

\* The handler returns, or another module ends the request; child RPCs in
\* flight are dropped.  The calls of a spawned task that outlives its request
\* are, for the table, those of a request that is still being served.
RequestEnds(r) ==
  /\ req[r].pc \in {"admitted", "rejected", "serving"}
  /\ req' = [req EXCEPT ![r] = [FreeSlot EXCEPT !.pc = "final", !.method = req[r].method]]
  /\ UNCHANGED <<tableVars, worker, alone>>

\* finalize, should_propagate_price: the response goes without the price,
FinalizePlain(r) ==
  /\ At(r, "final")
  /\ req' = [req EXCEPT ![r] = FreeSlot]
  /\ UNCHANGED <<tableVars, worker, alone>>

\* or with the accumulated price of now, two loads,
FinalizeQuote(r) ==
  /\ At(r, "final")
  /\ req' = [req EXCEPT ![r].pc = "quote", ![r].own = own_price]
  /\ UNCHANGED <<tableVars, worker, alone>>

\* the second of which completes it.  What the caller makes of the price is
\* the business of its own table.
Quote(r) ==
  /\ At(r, "quote")
  /\ req' = [req EXCEPT ![r] = FreeSlot]
  /\ UNCHANGED <<tableVars, worker, alone>>

-----------------------------------------------------------------------------
(* The price worker: update_prices, then decay_downstream_prices.          *)

Idle == worker.on /\ worker.halve = {} /\ worker.affected = {} /\ worker.parent = None

\* Mutant: the hold band reaches down to zero.
NewPrice_Holds(us) ==
  IF us > Threshold THEN SatAdd(own_price, Max({1, WrapMul(us - Threshold, PriceStepUp) \div Unit}))
  ELSE own_price

NewPrice(us) ==
  IF us > Threshold THEN SatAdd(own_price, Max({1, WrapMul(us - Threshold, PriceStepUp) \div Unit}))
  ELSE IF own_price > 0 /\ us < Threshold \div 2 THEN own_price - 1
  ELSE own_price

Learning(p) == \E r \in Rpc : At(r, "learn") /\ req[r].method = p

\* update_prices.  Only the worker writes the own price and halves the window,
\* so its accesses to the two are one step.
UpdatePrices ==
  /\ Idle
  /\ window_max' = window_max \div 2
  /\ own_price' = NewPrice(window_max)
  /\ worker' = [worker EXCEPT !.halve = Edge]
  /\ alone' = {p \in Parent : Largest(p) > 0 /\ ~Learning(p)}
  /\ UNCHANGED <<downstream, max_down, req>>

Halved(n) == n \div 2

\* Mutant: a parent whose entry has gone is not recomputed.
Affects_Gone(e) == Halved(ValueOf(e)) > 0

Affects(e) == ValueOf(e) > 0

HalveEntry(e) ==
  /\ e \in worker.halve
  /\ IF ValueOf(e) > 0
     THEN downstream' = [downstream EXCEPT ![e] = Halved(@)]
     ELSE UNCHANGED downstream
  /\ worker' = [worker EXCEPT !.halve = @ \ {e},
                              !.affected = IF Affects(e) THEN @ \cup {e[1]} ELSE @]
  /\ UNCHANGED <<own_price, max_down, window_max, req, alone>>

\* The next parent of parents_to_update.
Recompute(p) ==
  /\ worker.halve = {} /\ worker.parent = None /\ p \in worker.affected
  /\ worker' = [worker EXCEPT !.parent = p, !.affected = @ \ {p}, !.scan = EdgesOf(p)]
  /\ UNCHANGED <<tableVars, req, alone>>

WorkerScan(e) ==
  /\ e \in worker.scan
  /\ worker' = [worker EXCEPT !.scan = @ \ {e}, !.best = Max({@, ValueOf(e)})]
  /\ UNCHANGED <<tableVars, req, alone>>

WorkerStore ==
  /\ worker.parent # None /\ worker.scan = {}
  /\ max_down' = [max_down EXCEPT ![worker.parent] = worker.best]
  /\ worker' = [worker EXCEPT !.parent = None, !.best = 0]
  /\ UNCHANGED <<own_price, downstream, window_max, req, alone>>

Tick ==
  \/ UpdatePrices \/ WorkerStore
  \/ \E e \in Edge : HalveEntry(e) \/ WorkerScan(e)
  \/ \E p \in Parent : Recompute(p)

-----------------------------------------------------------------------------
\* What a thread does by itself once it is inside a hook.
HookStep(r) ==
  \/ LoadDown(r) \/ Admit(r)
  \/ \E e \in Edge : LearnScan(r, e)
  \/ LearnStore(r)
  \/ Quote(r)

\* What depends on clients, the scheduler, the handler and the children.
Event(r) ==
  \/ \E m \in Parent, n \in Tokens : New(r, m, n)
  \/ \E us \in Latency : RajomonBeforePoll(r, us)
  \/ \E e \in Edge : BeforeChildRpc(r, e)
  \/ \E e \in Edge : AfterChildPlain(r, e)
  \/ \E e \in Edge, price \in Price : AfterChildPrice(r, e, price)
  \/ RequestEnds(r)
  \/ FinalizePlain(r) \/ FinalizeQuote(r)

RajomonNext == Tick \/ \E r \in Rpc : HookStep(r) \/ Event(r)

RajomonSpec == RajomonInit /\ [][RajomonNext]_rajomonVars

\* The worker runs on a timer and a thread does not stop inside a hook.  Nobody
\* has to send a request, to poll a handler or to answer a child RPC.
RajomonFairSpec ==
  /\ RajomonSpec
  /\ WF_rajomonVars(Tick)
  /\ \A r \in Rpc : WF_rajomonVars(HookStep(r))

-----------------------------------------------------------------------------
(***************************************************************************)
(* Properties                                                              *)
(***************************************************************************)

\* new: a request is admitted only with a budget that, after the own price is
\* paid, still covers the dearest child its admission knew of, unless a tick
\* raised the own price between the two loads or the sum is beyond u64.
AdmittedCovers ==
  [][ \A r \in Rpc :
        /\ At(r, "decide") /\ req'[r].pc = "admitted"
        /\ own_price <= req[r].own
        /\ req[r].own + req[r].down <= Top
        => req'[r].tokens >= req[r].down /\ req'[r].tokens <= req[r].tokens ]_rajomonVars

\* decay_downstream_prices: a tick that no learner of the parent overlapped
\* leaves the copy of the maximum exact, also when the entries have just gone
\* to zero and will not be visited again.
TickExact ==
  Idle => \A p \in alone : max_down[p] = Largest(p)

\* The price table between and inside the hooks and the ticks: its types and
\* the exact copies of the maximum (RajomonSharedState).
TableInv == TableTypes /\ TickExact

\* No request learns a price any more.
Quiet == \A r \in Rpc : req[r].pc = "idle"

\* Once the traffic stops, the queue signal, the own price and every cached
\* price of a child go to zero and stay there, wherever a tick or a hook was
\* at that moment.
PricesDecay ==
  (<>[]Quiet /\ <>worker.on)
    => <>[](own_price = 0 /\ window_max = 0 /\ \A e \in Edge : ValueOf(e) = 0)

\* decay_downstream_prices: "breaking the stale-price deadlock where a high
\* cached downstream price blocks all traffic and therefore prevents itself
\* from being updated".  The price that blocks traffic is the copy of the
\* maximum.
StalePriceDecays ==
  <>[]Quiet => <>[](\A p \in Parent : max_down[p] = 0)
=============================================================================
