---------------------------- MODULE CentralRiskBook ----------------------------
(***************************************************************************)
(* The netted factor book of crb/central_risk_book.py with the registry of *)
(* crb/factor_registry.py that gives the factors their array indexes.      *)
(*                                                                         *)
(* Every product is booked as legs on factors <<kind, name>>.  Greeks are  *)
(* given, prices are whole numbers, and a leg whose size passes MaxFinite  *)
(* is what a float that is not finite is to the code.                      *)
(***************************************************************************)
EXTENDS Integers, Sequences, SequencesExt, FiniteSetsExt, Functions

CONSTANTS
  Desks,      (* who books                                                 *)
  Factors,    (* the factors flows can name                                *)
  Pairs,      (* currency pairs, <<base, quote>>                           *)
  Slots,      (* length the exposure arrays start with: 16 in the code     *)
  MaxFinite   (* bound: what is finite                                     *)

VARIABLE book   (* names, net, gross, desks, pending, flows                *)

NewBook ==
  [names |-> <<>>, net |-> [k \in 1..Slots |-> 0], gross |-> [k \in 1..Slots |-> 0],
   desks |-> [d \in {} |-> <<>>], pending |-> [p \in Pairs |-> 0], flows |-> 0]

Magnitude(x) == IF x < 0 THEN -x ELSE x
Finite(x) == Magnitude(x) <= MaxFinite

-----------------------------------------------------------------------------
(* What a product is booked as.                                            *)

Leg(kind, name, amount) == [factor |-> <<kind, name>>, amount |-> amount]
Flow(legs) == [legs |-> legs, pair |-> <<>>, fixing |-> 0]

CashEquity(symbol, qty, price) == Flow(<<Leg("EQ", symbol, qty * price)>>)
EquityOption(symbol, units, delta, gamma, vega, spot) ==
  Flow(<<Leg("EQ", symbol, units * delta * spot),
         Leg("EQGAMMA", symbol, units * gamma * spot * spot),
         Leg("EQVEGA", symbol, units * vega)>>)
FxSpot(pair, notional, rate) ==
  Flow(<<Leg("CCY", pair[1], notional), Leg("CCY", pair[2], -notional * rate)>>)
FxSwap(pair, notional, near, far) ==
  Flow(<<Leg("CCY", pair[2], notional * (far - near)), Leg("FXPOINTS", pair, -notional)>>)
Ndf(pair, notional, rate) ==
  [FxSpot(pair, notional, rate) EXCEPT !.pair = pair, !.fixing = Magnitude(notional)]
FxOption(pair, notional, delta, gamma, vega, spot) ==
  Flow(<<Leg("CCY", pair[1], notional * delta), Leg("CCY", pair[2], -notional * delta * spot),
         Leg("FXGAMMA", pair, notional * gamma * spot * spot),
         Leg("FXVEGA", pair, notional * vega)>>)

-----------------------------------------------------------------------------
(* The registry and the arrays indexed by it.                              *)

Registered(names, f) == IF Contains(names, f) THEN names ELSE Append(names, f)
IdOf(names, f) == IF Contains(names, f) THEN CHOOSE k \in DOMAIN names : names[k] = f ELSE 0

Zeros(n) == [k \in 1..n |-> 0]
Grown(a, n) == IF n > Len(a) THEN a \o Zeros(n - Len(a)) ELSE a
At(a, k) == IF k \in DOMAIN a THEN a[k] ELSE 0

DeskGrownBare(a, id, n) == IF id > Len(a) THEN Zeros(n) ELSE a
DeskGrown(a, id, n) == IF id > Len(a) THEN Grown(a, n) ELSE a

Added(b, desk, leg) ==
  LET names == Registered(b.names, leg.factor)
      id    == IdOf(names, leg.factor)
      size  == IF id > Len(b.net) THEN Max({2 * Len(b.net), id}) ELSE Len(b.net)
      mine  == IF desk \in DOMAIN b.desks THEN b.desks[desk] ELSE Zeros(size)
  IN  [b EXCEPT !.names = names,
                !.net = [Grown(b.net, size) EXCEPT ![id] = @ + leg.amount],
                !.gross = [Grown(b.gross, size) EXCEPT ![id] = @ + Magnitude(leg.amount)],
                !.desks = [d \in DOMAIN b.desks \cup {desk} |->
                             IF d = desk THEN [DeskGrown(mine, id, size) EXCEPT ![id] = @ + leg.amount]
                             ELSE b.desks[d]]]

\* The book after each of the legs.
Adding(b, desk, legs) ==
  LET after[k \in 0..Len(legs)] == IF k = 0 THEN b ELSE Added(after[k - 1], desk, legs[k])
  IN  after
AllAdded(b, desk, legs) == Adding(b, desk, legs)[Len(legs)]

\* Compute, validate, commit: a leg that is not finite refuses the whole flow.
BookedWhileFinite(b, desk, flow) ==
  AllAdded(b, desk, SelectSeq(flow.legs, LAMBDA leg : Finite(leg.amount)))
Booked(b, desk, flow) ==
  IF \E k \in DOMAIN flow.legs : ~Finite(flow.legs[k].amount) THEN b
  ELSE [AllAdded(b, desk, flow.legs) EXCEPT
          !.flows = @ + 1,
          !.pending = [p \in Pairs |-> IF p = flow.pair THEN b.pending[p] + flow.fixing ELSE b.pending[p]]]

Exposure(b, f) == At(b.net, IdOf(b.names, f))
GrossExposure(b, f) == At(b.gross, IdOf(b.names, f))
DeskExposure(b, desk, f) ==
  IF desk \in DOMAIN b.desks THEN At(b.desks[desk], IdOf(b.names, f)) ELSE 0
NetExposures(b) == [k \in DOMAIN b.names |-> At(b.net, k)]

-----------------------------------------------------------------------------
(* Operations, for a specification over the book to use.                   *)

BookFlow(desk, flow) == book' = Booked(book, desk, flow)

SettleFixing(pair, notional) ==
  /\ notional <= book.pending[pair]   \* over-settling raises
  /\ book' = [book EXCEPT !.pending = [book.pending EXCEPT ![pair] = @ - notional]]

\* A hedge instrument on a factor nobody booked: the registry alone grows.
RegisterFactor(f) == book' = [book EXCEPT !.names = Registered(@, f)]
=============================================================================
