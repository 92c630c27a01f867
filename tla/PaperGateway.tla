---------------------------- MODULE PaperGateway ----------------------------
(***************************************************************************)
(* The quote-driven paper venue of trading/paper_trading_gateway.py.       *)
(*                                                                         *)
(* Execution listeners run inside _fill, that is in the middle of on_quote *)
(* and of the submit calls, and nothing stops a listener from calling the  *)
(* gateway back.  The Python call stack is therefore part of the state: a  *)
(* frame for every on_quote loop under way, holding its own symbol, its    *)
(* own prices, the list object it iterates, its position in it and its own *)
(* still_resting; and a frame for every listener that is running.          *)
(* ListenerCalls says what listeners may do: {} is the venue whose         *)
(* listeners only record.                                                  *)
(*                                                                         *)
(* self._resting is rebound by on_quote and mutated in place by cancel and *)
(* submit_limit, so list objects have an identity: heap.lists holds those  *)
(* somebody may still iterate, heap.resting is the one self._resting names.*)
(*                                                                         *)
(* Prices and quantities are integers and the average cost is the exact    *)
(* quotient.  The limit checker is external: it approves or it does not.   *)
(***************************************************************************)
EXTENDS Integers, Sequences, FiniteSets, SequencesExt, Fractions

CONSTANTS
  Symbols, Prices, Quantities,
  InitialCash,    (* initial_cash                                          *)
  CommissionRate, (* commission_rate                                       *)
  LogCap,         (* REJECTION_LOG_CAP                                     *)
  ListenerCalls,  (* what a listener may do: "submit", "cancel", "quote",
                     "raise"                                               *)
  MaxOrders,      (* bound: orders submitted in a behaviour                *)
  MaxDepth,       (* bound: listeners running at once that may call back   *)
  MaxFills        (* bound: fills a behaviour is followed for              *)

ASSUME PaperGatewayAssumption ==
  /\ IsFiniteSet(Symbols) /\ Prices \subseteq Nat \ {0} /\ Quantities \subseteq Nat
  /\ InitialCash \in Nat /\ CommissionRate \in Nat
  /\ LogCap \in Nat /\ MaxOrders \in Nat /\ MaxDepth \in Nat /\ MaxFills \in Nat
  /\ ListenerCalls \subseteq {"submit", "cancel", "quote", "raise"}

Sides == {"BUY", "SELL"}
Market == 0                     (* the NaN limit price of a market order   *)
NoQuote == [bid |-> 0, ask |-> 0]

VARIABLES
  orders,     (* _orders, by id; _next_id is one more than its length      *)
  quotes,     (* _quotes                                                   *)
  heap,       (* the list objects of resting orders                        *)
  acct,       (* _cash, _realized_pnl and _positions                       *)
  rejected,   (* _rejection_count and the orders in _rejection_log         *)
  stack,      (* the calls under way, innermost last                       *)
  fills       (* history: what the listeners were told                     *)

vars == <<orders, quotes, heap, acct, rejected, stack, fills>>

-----------------------------------------------------------------------------
(* Average-cost accounting: _apply_fill.                                   *)

Sign(x) == IF x < 0 THEN -1 ELSE 1              (* math.copysign(1, x)     *)
SignedQty(side, qty) == IF side = "BUY" THEN qty ELSE -qty

Opens(pos, signed) == pos = 0 \/ Sign(pos) = Sign(signed)

(* Blending the average cost of nothing with nothing divides by zero.      *)
DividesByZero(a, o) == a.pos[o.sym] = 0 /\ o.qty = 0

Settled(a, side, price, qty) ==
  [a EXCEPT !.cash = @ - SignedQty(side, price * qty) - price * qty * CommissionRate]

Blended(pos, avg, price, qty, new) ==
  Over(Plus(Times(avg, Abs(pos)), Whole(price * qty)), Abs(new))

RemainingAtOldCost(pos, avg, price, new) == IF new = 0 THEN Whole(0) ELSE avg

Remaining(pos, avg, price, new) ==
  CASE new = 0 -> Whole(0)
    [] new # 0 /\ Sign(new) # Sign(pos) -> Whole(price)
    [] OTHER -> avg

Realized(pos, avg, price, qty) ==
  Times(Plus(Whole(price), Times(avg, -1)),
        Sign(pos) * (IF Abs(pos) < qty THEN Abs(pos) ELSE qty))

Applied(a, sym, side, price, qty) ==
  LET signed == SignedQty(side, qty)
      pos == a.pos[sym]
      avg == a.avg[sym]
      moved == [Settled(a, side, price, qty) EXCEPT !.pos[sym] = @ + signed]
  IN IF Opens(pos, signed)
     THEN [moved EXCEPT !.avg[sym] = Blended(pos, avg, price, qty, pos + signed)]
     ELSE [moved EXCEPT !.realized = Plus(@, Realized(pos, avg, price, qty)),
                        !.avg[sym] = Remaining(pos, avg, price, pos + signed)]

-----------------------------------------------------------------------------
(* The call stack.                                                         *)

Listener == [at |-> "listener"]
Loop(sym, bid, ask) ==
  [at |-> "quote", sym |-> sym, bid |-> bid, ask |-> ask,
   list |-> heap.resting, i |-> 1, kept |-> <<>>]

Idle == stack = <<>>
Running(at) == ~Idle /\ Last(stack).at = at
Depth == Cardinality({k \in DOMAIN stack : stack[k].at = "listener"})
MayCall(op) == Idle \/ (Running("listener") /\ op \in ListenerCalls /\ Depth <= MaxDepth)

(* Back to calls s with list objects h: when no call is left under way only *)
(* the list self._resting names can be reached.                            *)
Returns(s, h) ==
  /\ stack' = s
  /\ heap' = IF s = <<>> THEN [lists |-> <<h.lists[h.resting]>>, resting |-> 1] ELSE h

Touch(q, side) == IF side = "BUY" THEN q.ask ELSE q.bid
CrossesThrough(q, side, limit) == IF side = "BUY" THEN q.ask < limit ELSE q.bid > limit
Crosses(q, side, limit) == IF side = "BUY" THEN q.ask <= limit ELSE q.bid >= limit

(* _fill without order.quantity = 0.                                       *)
FillKeepsQty(os, id, price, below) ==
  LET o == os[id] IN
  /\ acct' = Applied(acct, o.sym, o.side, price, o.qty)
  /\ orders' = [os EXCEPT ![id].status = "FILLED"]
  /\ fills' = Append(fills, [id |-> id, price |-> price, qty |-> o.qty])
  /\ Returns(Append(below, Listener), heap)

(* _fill of order id at price, called from the calls "below": a division   *)
(* by zero unwinds every call; otherwise the listener runs on top.         *)
Fill(os, id, price, below) ==
  LET o == os[id] IN
  IF DividesByZero(acct, o)
  THEN /\ orders' = os /\ UNCHANGED <<acct, fills>>
       /\ Returns(<<>>, heap)
  ELSE /\ acct' = Applied(acct, o.sym, o.side, price, o.qty)
       /\ orders' = [os EXCEPT ![id] = [@ EXCEPT !.qty = 0, !.status = "FILLED"]]
       /\ fills' = Append(fills, [id |-> id, price |-> price, qty |-> o.qty])
       /\ Returns(Append(below, Listener), heap)

-----------------------------------------------------------------------------
(* on_quote.                                                               *)

OnQuote(sym, bid, ask) ==
  /\ MayCall("quote") /\ bid <= ask
  /\ quotes' = [quotes EXCEPT ![sym] = [bid |-> bid, ask |-> ask]]
  /\ stack' = Append(stack, Loop(sym, bid, ask))
  /\ UNCHANGED <<orders, heap, acct, rejected, fills>>

Dropped(loop, id) == [loop EXCEPT !.i = @ + 1]
Kept(loop, id) == [loop EXCEPT !.i = @ + 1, !.kept = Append(@, id)]
KeptToo(loop) ==
  [loop EXCEPT !.i = @ + 1, !.kept = Append(@, heap.lists[loop.list][loop.i])]
Passed(loop) == [loop EXCEPT !.i = @ + 1]

AtLatestTouch(loop, o) == Touch(quotes[o.sym], o.side)

(* min(limit, ask) is the ask and max(limit, bid) the bid of an order that *)
(* crosses.                                                                *)
BestOf(loop, o) ==
  IF o.side = "BUY" THEN IF o.limit < loop.ask THEN o.limit ELSE loop.ask
                    ELSE IF o.limit > loop.bid THEN o.limit ELSE loop.bid

(* One pass of the loop over the list it iterates, by index.               *)
VisitResting ==
  /\ Running("quote")
  /\ LET loop == Last(stack)
         list == heap.lists[loop.list]
         id == list[loop.i]
         o == orders[id]
     IN /\ loop.i <= Len(list)
        /\ IF o.sym = loop.sym /\ Crosses(loop, o.side, o.limit)
           THEN Fill(orders, id, BestOf(loop, o), Append(Front(stack), Passed(loop)))
           ELSE /\ stack' = Append(Front(stack), Kept(loop, id))
                /\ UNCHANGED <<orders, heap, acct, fills>>
  /\ UNCHANGED <<quotes, rejected>>

Iterated(s) == {s[k].list : k \in {j \in DOMAIN s : s[j].at = "quote"}}

(* The list object kept, allocated where no call of s still iterates.      *)
Rebound(s, kept) ==
  LET n == CHOOSE h \in 1..(Len(heap.lists) + 1) :
             h \notin Iterated(s) /\ 1..(h - 1) \subseteq Iterated(s)
  IN [lists |-> [h \in 1..n |-> IF h = n THEN kept ELSE heap.lists[h]]
                  \o SubSeq(heap.lists, n + 1, Len(heap.lists)),
      resting |-> n]

(* self._resting = still_resting                                           *)
FinishQuote ==
  /\ Running("quote")
  /\ LET loop == Last(stack) IN
     /\ loop.i > Len(heap.lists[loop.list])
     /\ Returns(Front(stack), Rebound(Front(stack), loop.kept))
  /\ UNCHANGED <<orders, quotes, acct, rejected, fills>>

-----------------------------------------------------------------------------
(* The order entry calls.                                                  *)

NewId == Len(orders) + 1
Registered(sym, side, qty, limit, status) ==
  Append(orders, [sym |-> sym, side |-> side, qty |-> qty, limit |-> limit, status |-> status])

MaySubmit == MayCall("submit") /\ NewId <= MaxOrders

Logged(log, id) == IF Len(log) < LogCap THEN Append(log, id) ELSE log

(* _log_rejection                                                          *)
Reject(sym, side, qty, limit) ==
  /\ orders' = Registered(sym, side, qty, limit, "REJECTED")
  /\ rejected' = [count |-> rejected.count + 1, log |-> Logged(rejected.log, NewId)]
  /\ UNCHANGED <<quotes, heap, acct, stack, fills>>

Rest(sym, side, qty, limit) ==
  /\ orders' = Registered(sym, side, qty, limit, "NEW")
  /\ heap' = [heap EXCEPT !.lists[heap.resting] = Append(@, NewId)]
  /\ UNCHANGED <<quotes, acct, rejected, stack, fills>>

FillNew(sym, side, qty, limit) ==
  /\ Fill(Registered(sym, side, qty, limit, "NEW"), NewId, Touch(quotes[sym], side), stack)
  /\ UNCHANGED <<quotes, rejected>>

SubmitLimit(sym, side, qty, price, approved) ==
  /\ MaySubmit
  /\ LET q == quotes[sym] IN
     CASE ~approved -> Reject(sym, side, qty, price)
       [] approved /\ q # NoQuote /\ Crosses(q, side, price) -> FillNew(sym, side, qty, price)
       [] OTHER -> Rest(sym, side, qty, price)

SubmitMarket(sym, side, qty, approved) ==
  /\ MaySubmit
  /\ IF quotes[sym] = NoQuote \/ ~approved
     THEN Reject(sym, side, qty, Market)
     ELSE FillNew(sym, side, qty, Market)

Cancel(id) ==
  /\ MayCall("cancel")
  /\ orders[id].status = "NEW"
  /\ orders' = [orders EXCEPT ![id].status = "CANCELED"]
  /\ heap' = [heap EXCEPT !.lists[heap.resting] = RemoveFirst(@, id)]
  /\ UNCHANGED <<quotes, acct, rejected, stack, fills>>

-----------------------------------------------------------------------------
(* The listener comes back to _fill, or its exception unwinds every call.  *)

ListenerReturns ==
  /\ Running("listener")
  /\ Returns(Front(stack), heap)
  /\ UNCHANGED <<orders, quotes, acct, rejected, fills>>

ListenerRaises ==
  /\ Running("listener") /\ "raise" \in ListenerCalls
  /\ Returns(<<>>, heap)
  /\ UNCHANGED <<orders, quotes, acct, rejected, fills>>

-----------------------------------------------------------------------------
Init ==
  /\ orders = <<>>
  /\ quotes = [s \in Symbols |-> NoQuote]
  /\ heap = [lists |-> << <<>> >>, resting |-> 1]
  /\ acct = [cash |-> InitialCash, realized |-> Whole(0),
             pos |-> [s \in Symbols |-> 0], avg |-> [s \in Symbols |-> Whole(0)]]
  /\ rejected = [count |-> 0, log |-> <<>>]
  /\ stack = <<>>
  /\ fills = <<>>

Next ==
  \/ \E s \in Symbols, bid, ask \in Prices : OnQuote(s, bid, ask)
  \/ VisitResting
  \/ FinishQuote
  \/ \E s \in Symbols, side \in Sides, qty \in Quantities, p \in Prices, ok \in BOOLEAN :
       SubmitLimit(s, side, qty, p, ok)
  \/ \E s \in Symbols, side \in Sides, qty \in Quantities, ok \in BOOLEAN :
       SubmitMarket(s, side, qty, ok)
  \/ \E id \in DOMAIN orders : Cancel(id)
  \/ ListenerReturns
  \/ ListenerRaises

Spec == Init /\ [][Next]_vars

-----------------------------------------------------------------------------
(* Properties.                                                             *)

Status == {"NEW", "FILLED", "CANCELED", "REJECTED"}

\* The type of the state: ids in every list, frames that point into a live
\* list, and a rejection log that holds the first LogCap rejections.
TypeOK ==
  /\ Len(orders) <= MaxOrders
  /\ \A id \in DOMAIN orders :
       /\ orders[id].sym \in Symbols /\ orders[id].side \in Sides
       /\ orders[id].qty \in Quantities \cup {0}
       /\ orders[id].limit \in Prices \cup {Market}
       /\ orders[id].status \in Status
  /\ heap.resting \in DOMAIN heap.lists
  /\ \A h \in DOMAIN heap.lists : heap.lists[h] \in Seq(DOMAIN orders)
  /\ \A k \in DOMAIN stack :
       stack[k].at = "quote" => /\ stack[k].list \in DOMAIN heap.lists
                                /\ stack[k].kept \in Seq(DOMAIN orders)
  /\ rejected.count = Cardinality({id \in DOMAIN orders : orders[id].status = "REJECTED"})
  /\ Len(rejected.log) = (IF rejected.count < LogCap THEN rejected.count ELSE LogCap)

Resting == heap.lists[heap.resting]

\* _resting holds exactly the NEW orders, each once and in the order they were
\* submitted, whenever no call is under way: on_quote's rebuilt list loses,
\* duplicates and reorders nothing, even when listeners submit into it.
RestingAreTheNewOrders ==
  Idle => /\ ToSet(Resting) = {id \in DOMAIN orders : orders[id].status = "NEW"}
          /\ \A j, k \in DOMAIN Resting : j < k => Resting[j] < Resting[k]

\* Between calls no working order is marketable at the last quote of its
\* symbol: each was filled by the quote that crossed it or by its own submit.
NothingRestsCrossed ==
  Idle => \A id \in DOMAIN orders :
            orders[id].status = "NEW" =>
              LET q == quotes[orders[id].sym] IN
              q # NoQuote => IF orders[id].side = "BUY" THEN q.ask > orders[id].limit
                             ELSE q.bid < orders[id].limit

FillsOf(id) == {k \in DOMAIN fills : fills[k].id = id}

\* Listeners hear of every filled order exactly once, and of no other order.
FilledIsReportedOnce ==
  \A id \in DOMAIN orders :
    Cardinality(FillsOf(id)) = IF orders[id].status = "FILLED" THEN 1 ELSE 0

\* on_quote loses, duplicates and strands nothing: what rests is the orders
\* that are NEW, once each, none of them could have traded, and every order
\* that is FILLED was reported, once.
RestingIsRight == RestingAreTheNewOrders /\ NothingRestsCrossed /\ FilledIsReportedOnce

\* Whatever a listener does, no order trades its shares twice.
SharesTradeOnce ==
  \A id \in DOMAIN orders : Cardinality({k \in FillsOf(id) : fills[k].qty > 0}) <= 1

\* Whatever a listener does, no fill is worse than the order's own limit.
LimitsAreHonoured ==
  \A k \in DOMAIN fills :
    LET o == orders[fills[k].id] IN
    o.limit # Market => IF o.side = "BUY" THEN fills[k].price <= o.limit
                        ELSE fills[k].price >= o.limit

OfFill(k) == orders[fills[k].id]
Spent == SeqSum([k \in DOMAIN fills |-> SignedQty(OfFill(k).side, fills[k].price * fills[k].qty)])
Fees == SeqSum([k \in DOMAIN fills |-> fills[k].price * fills[k].qty * CommissionRate])
Traded(s) ==
  SeqSum([k \in DOMAIN fills |->
         IF OfFill(k).sym = s THEN SignedQty(OfFill(k).side, fills[k].qty) ELSE 0])

\* Cash is the initial cash less what the fills cost and their fees.
CashIsTheFills == acct.cash = InitialCash - Spent - Fees

\* A position is what the fills of its symbol traded.
PositionsAreTheFills == \A s \in Symbols : acct.pos[s] = Traded(s)

\* Cash before fees plus the open positions at their average cost.
AtCost ==
  FoldSet(LAMBDA s, sum : Plus(sum, Times(acct.avg[s], acct.pos[s])),
          Whole(acct.cash + Fees), Symbols)

\* Cash plus the open positions at their average cost is the initial cash plus
\* realized P&L less fees.
CostIsCarried == AtCost = Plus(Whole(InitialCash), acct.realized)

\* The books balance after every fill, through adding, reducing, closing and
\* flipping, with listeners calling back.
AccountBalances == CashIsTheFills /\ PositionsAreTheFills /\ CostIsCarried

\* A cancelled order never fills (tests/test_trading_paper_gateway.py: after
\* a successful cancel, a quote through the limit leaves the position alone).
CanceledStaysCanceled ==
  [][\A id \in DOMAIN orders :
       orders[id].status = "CANCELED" => orders'[id].status = "CANCELED"]_vars

(* For small instances: symbols differ only by name, and a listener that   *)
(* quotes back for ever is followed for MaxFills fills, and rejections     *)
(* until the log overflows.                                                *)
SymbolSymmetry == Permutations(Symbols)
FewFills == Len(fills) <= MaxFills /\ rejected.count <= LogCap
=============================================================================
