------------------------------ MODULE DealingDesk ------------------------------
(***************************************************************************)
(* A desk that makes prices in FX: the composite of its venues             *)
(* (fx/aggregated_book.py), the orders pegged to its mid                   *)
(* (execution/mid_peg_tracker.py), the last look it takes at a request     *)
(* after a hold (trading/last_look_gate.py), the bandit that picks where   *)
(* to go (execution/ucb1_selector.py), whom it owes and who owes it        *)
(* (risk/counterparty_exposure_tracker.py, settlement_risk_analyzer.py).   *)
(*                                                                         *)
(* Prices and sizes are whole numbers, 0 for a side that is not quoted     *)
(* (NaN); a mid is kept doubled.  The hold of a request is the caller's:   *)
(* quotes move between the request and the look.                           *)
(***************************************************************************)
EXTENDS Fractions, Integers, Sequences, SequencesExt, FiniteSetsExt

CONSTANTS
  Venues,          \* 1..n, as the scan goes
  Quotes,          \* what a venue may show: [bid, bidSize, ask, askSize]
  Offset, Caps, Threshold,   \* of the pegs, doubled; Caps[side] or NaN
  Tolerance,       \* of the gate, doubled
  Arms, Rewards,   \* 1..n; per cent
  Bonus,           \* [total pulls][pulls of an arm]: sqrt(2 ln N / n), per cent
  Parties, Trades, Legs,
  MaxRequests, MaxPulls, MaxTrades     \* bounds

NaN == 0 - 1000000

VARIABLES
  shown, best,          \* _bids, _asks with sizes; _best_*
  peg,                  \* _current_price of a bid and of an offer
  held, gate, answered, \* the requests held, the counters, history
  arm, rewards,         \* the arm selected last; the rewards of each, in order
  trades, legs          \* _by_counterparty; the settlement instructions

composite == <<shown, best, peg>>
looking == <<held, gate, answered>>
bandit == <<arm, rewards>>
owed == <<trades, legs>>
vars == <<shown, best, peg, held, gate, answered, arm, rewards, trades, legs>>

-----------------------------------------------------------------------------
(* The scan keeps the first of the best.                                   *)
NoSide == [venue |-> 0, px |-> 0, sz |-> 0]
SideOf(quote, side) == IF side = "bid" THEN [px |-> quote.bid, sz |-> quote.bidSize]
                       ELSE [px |-> quote.ask, sz |-> quote.askSize]
Beats(side, p, q) == IF side = "bid" THEN p > q ELSE p < q
SideAt(v, s) == [venue |-> v, px |-> s.px, sz |-> s.sz]

Live(quotes, side) == {v \in Venues : SideOf(quotes[v], side).px # 0}
FirstOf(quotes, side, live) ==
  Min({v \in live : \A w \in live : ~Beats(side, SideOf(quotes[w], side).px, SideOf(quotes[v], side).px)})
Composite(quotes, side, live) ==
  IF live = {} THEN NoSide
  ELSE SideAt(FirstOf(quotes, side, live), SideOf(quotes[FirstOf(quotes, side, live)], side))
CompositeSticky(quotes, side, live) ==
  IF best[side].venue # 0 /\ \A w \in live : ~Beats(side, SideOf(quotes[w], side).px, best[side].px)
  THEN best[side] ELSE Composite(quotes, side, live)
RescanStale(quotes, side) == CompositeSticky(quotes, side, Live(quotes, side))
Rescan(quotes, side) == Composite(quotes, side, Live(quotes, side))

(* Twice the mid.                                                          *)
Mid(b) == IF b["bid"].venue = 0 \/ b["ask"].venue = 0 THEN NaN ELSE b["bid"].px + b["ask"].px
Fair == Mid(best)
IsCrossed == best["bid"].venue # 0 /\ best["ask"].venue # 0 /\ best["bid"].px >= best["ask"].px
Distance(side, quote) == Abs(best[side].px - quote.px)
TotalAtBest(side, tolerance) ==
  MapThenSumSet(LAMBDA v : SideOf(shown[v], side).sz,
    {v \in Live(shown, side) : Distance(side, SideOf(shown[v], side)) <= tolerance})

(* A NaN target is no further from anything: the peg stays.                *)
Capped(side, target) ==
  IF Caps[side] = NaN \/ target = NaN THEN target
  ELSE IF side = "bid" THEN Min({target, Caps[side]}) ELSE Max({target, Caps[side]})
PegTarget(side, mid) == Capped(side, IF mid = NaN THEN NaN ELSE mid + Offset)
Moves(side, target) ==
  peg[side] = NaN \/ (target # NaN /\ Abs(target - peg[side]) >= Threshold)
PegOnQuote(side, target) == IF Moves(side, target) THEN target ELSE peg[side]

OnQuote(v, quote) ==
  /\ shown' = [shown EXCEPT ![v] = quote]
  /\ best' = [side \in {"bid", "ask"} |-> Rescan(shown', side)]
  /\ peg' = [side \in {"bid", "ask"} |-> PegOnQuote(side, PegTarget(side, Mid(best')))]
Clear(v) == OnQuote(v, [bid |-> 0, bidSize |-> 0, ask |-> 0, askSize |-> 0])

Quoting ==
  /\ \E v \in Venues : Clear(v) \/ \E quote \in Quotes : OnQuote(v, quote)
  /\ UNCHANGED <<bandit, owed, looking>>

-----------------------------------------------------------------------------
(* Last look.  The maker shows its mid; a NaN fair is within no tolerance, *)
(* and hurts nobody.                                                       *)
NoneAnswered == [accepts |-> 0, rejects |-> 0, maker |-> 0, taker |-> 0]
AcceptsGains(sells, quoted, fair) ==
  fair # NaN /\ (Abs(fair - quoted) <= Tolerance \/ (sells <=> fair < quoted))
Accepts(sells, quoted, fair) == fair # NaN /\ Abs(fair - quoted) <= Tolerance
HurtsMaker(sells, quoted, fair) ==
  fair # NaN /\ IF sells THEN fair > quoted ELSE fair < quoted

Counted(g, accepted, hurts) ==
  IF accepted THEN [g EXCEPT !.accepts = @ + 1]
  ELSE [g EXCEPT !.rejects = @ + 1, !.maker = @ + (IF hurts THEN 1 ELSE 0),
                 !.taker = @ + (IF hurts THEN 0 ELSE 1)]

Request(sells) ==
  /\ Fair # NaN /\ Len(answered) + Cardinality(held) < MaxRequests
  /\ held' = held \cup {[sells |-> sells, quoted |-> Fair]}
  /\ UNCHANGED <<gate, answered, composite, bandit, owed>>

Accept(r) ==
  /\ gate' = Counted(gate, Accepts(r.sells, r.quoted, Fair), HurtsMaker(r.sells, r.quoted, Fair))
  /\ answered' = Append(answered, [sells |-> r.sells, accepted |-> gate'.accepts > gate.accepts,
                                   move |-> IF Fair = NaN THEN NaN ELSE Fair - r.quoted])
  /\ held' = held \ {r}
  /\ UNCHANGED <<composite, bandit, owed>>
Look == \E r \in held : Accept(r)

-----------------------------------------------------------------------------
(* UCB1: one look at each arm first, then the highest bound.               *)
Pulls(a) == Len(rewards[a])
TotalPulls == MapThenSumSet(Pulls, Arms)
Mean(a) == Frac(FoldSeq(LAMBDA r, sum : r + sum, 0, rewards[a]), Pulls(a))
BoundGreedy(a, total) == Mean(a)
Bound(a, total) == Plus(Mean(a), Whole(Bonus[total][Pulls(a)]))
Highest(total) ==
  {a \in Arms : \A b \in Arms : ~Less(Bound(a, total), Bound(b, total))}
Selected ==
  IF \E a \in Arms : Pulls(a) = 0 THEN Min({a \in Arms : Pulls(a) = 0})
  ELSE Min(Highest(TotalPulls))

Select == TotalPulls < MaxPulls /\ arm = 0 /\ arm' = Selected
          /\ UNCHANGED <<rewards, composite, looking, owed>>
Record(reward) == /\ arm # 0 /\ rewards' = [rewards EXCEPT ![arm] = Append(@, reward)]
                  /\ arm' = 0 /\ UNCHANGED <<composite, looking, owed>>
Exploring == Select \/ \E reward \in Rewards : Record(reward)

-----------------------------------------------------------------------------
(* Exposure with netting; add-ons in thousandths of the notional.          *)
AddOnFactor(tenor) == IF tenor < 1 THEN 10 ELSE IF tenor <= 5 THEN 50 ELSE 75
SumOver(s, Of(_)) == FoldSeq(LAMBDA x, sum : Of(x) + sum, 0, s)
Of(party) == SelectSeq(trades, LAMBDA t : t.party = party)
Positive(x) == Max({0, x})

CurrentExposure(ts) == Positive(SumOver(ts, LAMBDA t : t.mtm))
GrossAddOn(ts) == SumOver(ts, LAMBDA t : Abs(t.notional) * AddOnFactor(t.tenor))
GrossPositive(ts) == SumOver(ts, LAMBDA t : Positive(t.mtm))
NetToGrossUnrelieved(ts, gross) == IF CurrentExposure(ts) > 0 THEN Frac(gross, CurrentExposure(ts)) ELSE Whole(0)
NetToGross(ts, gross) == IF gross > 0 THEN Frac(CurrentExposure(ts), gross) ELSE Whole(1)
FutureExposure(ts) ==
  Times(Plus(Frac(2, 5), Product(Frac(3, 5), NetToGross(ts, GrossPositive(ts)))), GrossAddOn(ts))
TotalExposure(ts) == Plus(Whole(1000 * CurrentExposure(ts)), FutureExposure(ts))
AllExposures == [party \in {trades[k].party : k \in DOMAIN trades} |-> TotalExposure(Of(party))]

(* Settlement: paid and not yet received, payments first at a tie.         *)
HasHerstattWindow(l) == l.pay < l.receive
AtRisk(party) == SelectSeq(legs, LAMBDA l : l.party = party /\ HasHerstattWindow(l))
HerstattExposure(party) == SumOver(AtRisk(party), LAMBDA l : l.amount)

BeforeReceiptsFirst(e, f) == e.time < f.time \/ (e.time = f.time /\ e.delta < f.delta)
Before(e, f) == e.time < f.time \/ (e.time = f.time /\ e.delta > f.delta)
Events(ls) ==
  FlattenSeq([k \in DOMAIN ls |-> <<[time |-> ls[k].pay, delta |-> ls[k].amount],
                                    [time |-> ls[k].receive, delta |-> -ls[k].amount]>>])
PeakOf(events) ==
  FoldLeft(LAMBDA run, e : [out |-> run.out + e.delta, peak |-> Max({run.peak, run.out + e.delta})],
           [out |-> 0, peak |-> 0], events).peak
PeakExposure(party) == PeakOf(SortSeq(Events(AtRisk(party)), Before))

AddTrade(t) == /\ Len(trades) < MaxTrades /\ trades' = Append(trades, t)
               /\ UNCHANGED <<legs, composite, looking, bandit>>
AddLeg(l) == /\ Len(legs) < MaxTrades /\ legs' = Append(legs, l)
             /\ UNCHANGED <<trades, composite, looking, bandit>>
Dealing == (\E t \in Trades : AddTrade(t)) \/ (\E l \in Legs : AddLeg(l))

Making == Quoting \/ (\E sells \in BOOLEAN : Request(sells)) \/ Look

Init ==
  /\ shown = [v \in Venues |-> [bid |-> 0, bidSize |-> 0, ask |-> 0, askSize |-> 0]]
  /\ best = [side \in {"bid", "ask"} |-> NoSide] /\ peg = [side \in {"bid", "ask"} |-> NaN]
  /\ held = {} /\ gate = NoneAnswered /\ answered = <<>>
  /\ arm = 0 /\ rewards = [a \in Arms |-> <<>>] /\ trades = <<>> /\ legs = <<>>

-----------------------------------------------------------------------------
(* The composite is a quote somebody shows now, with all the size beside   *)
(* it; it is crossed when a bid reaches an offer, of any two venues; and a *)
(* pegged order is within the threshold of where the mid puts it, and on   *)
(* the right side of its limit.                                            *)
CompositeCanBeDealt ==
  /\ \A side \in {"bid", "ask"} :
       /\ best[side].venue = 0 <=> Live(shown, side) = {}
       /\ best[side].venue # 0 => SideOf(shown[best[side].venue], side)
                                    = [px |-> best[side].px, sz |-> best[side].sz]
       /\ TotalAtBest(side, 0) >= best[side].sz
       /\ Fair # NaN => Abs(peg[side] - PegTarget(side, Fair)) < Max({1, Threshold})
       /\ Caps[side] # NaN /\ peg[side] # NaN =>
            IF side = "bid" THEN peg[side] <= Caps[side] ELSE peg[side] >= Caps[side]
  /\ IsCrossed <=> \E v, w \in Venues :
                     shown[v].bid # 0 /\ shown[w].ask # 0 /\ shown[v].bid >= shown[w].ask

(* Two requests quoted at one price that the market left as far behind get *)
(* one answer, whoever it suits; and the disclosed counters are of the     *)
(* answers given.                                                          *)
Answers(P(_)) == Cardinality({k \in DOMAIN answered : P(answered[k])})
LastLookIsSymmetric ==
  /\ \A j, k \in DOMAIN answered :
       LET r == answered[j]
           s == answered[k]
       IN  NaN \notin {r.move, s.move} /\ Abs(r.move) = Abs(s.move) => r.accepted = s.accepted
  /\ gate.accepts = Answers(LAMBDA r : r.accepted)
  /\ gate.rejects = Answers(LAMBDA r : ~r.accepted)
  /\ gate.maker = Answers(LAMBDA r : ~r.accepted /\ r.move # NaN
                                      /\ IF r.sells THEN r.move > 0 ELSE r.move < 0)
  /\ gate.maker + gate.taker = gate.rejects

(* An arm is not passed over for one tried more often that did no better.  *)
ArmsAreTried ==
  arm # 0 => \A a \in Arms :
    Pulls(a) < Pulls(arm) => Pulls(a) > 0 /\ Less(Mean(a), Mean(arm))

(* Netting only relieves: a party owes no more than its trades would one   *)
(* by one, the add-on keeps two fifths; and the peak is what is out, paid  *)
(* and not received, at the worst instant.                                 *)
NettingIsRelief ==
  \A party \in Parties :
    LET ts == Of(party)
        one(k) == <<ts[k]>>
        ls == AtRisk(party)
        out(t) == SumOver(ls, LAMBDA l : IF l.pay <= t /\ t <= l.receive THEN l.amount ELSE 0)
    IN  /\ CurrentExposure(ts) <= MapThenSumSet(LAMBDA k : CurrentExposure(one(k)), DOMAIN ts)
        /\ ~Less(Whole(GrossAddOn(ts)), FutureExposure(ts))
        /\ ~Less(FutureExposure(ts), Frac(2 * GrossAddOn(ts), 5))
        /\ ts # <<>> => ~Less(AllExposures[party], FutureExposure(ts))
        /\ PeakExposure(party)
             = Max({0} \cup {out(t) : t \in {ls[k].pay : k \in DOMAIN ls} \cup {ls[k].receive : k \in DOMAIN ls}})
        /\ PeakExposure(party) <= HerstattExposure(party)
=============================================================================
