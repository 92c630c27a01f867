--------------------------- MODULE PortfolioResearch ---------------------------
(***************************************************************************)
(* A book of several names over a panel of closes that grows bar by bar:   *)
(* the weights (cross-sectional momentum, the sizing and neutralizing of   *)
(* alpha/portfolio_construction.py), the two engines that trade them       *)
(* (backtest/portfolio/portfolio_backtester.py, alpha/alpha_backtester.py) *)
(* and what is read off the result (drawdowns, trade statistics).          *)
(*                                                                         *)
(* Money is exact fractions and an index is one more than in the code.     *)
(* The z-score is clamped at three deviations, which fewer than eleven     *)
(* names cannot reach: the dispersion cancels when the gross is set.       *)
(***************************************************************************)
EXTENDS Fractions, Integers, Sequences, FiniteSets, FiniteSetsExt, SequencesExt

CONSTANTS
  Symbols,       (* 1..n, in the order of the dict                         *)
  Panels,        (* what the closes of a bar can be: [Symbols -> Nat]      *)
  MaxPanels,     (* bound                                                  *)
  Listed,        (* [Symbols -> the bars at which it is a member]          *)
  Lookback, Skip, PerSide, GrossPerSide,        (* of the momentum         *)
  Capital, Every, Rate,                         (* of the portfolio engine *)
  Window, Impact,                               (* bars impact needs, and  *)
                                                (* its cost by name        *)
  Start, Commission, HalfSpread, Slippage,      (* of the alpha engine     *)
  GrossTarget, MaxWeight, Sectors, Betas, Vols  (* of the construction     *)

VARIABLE market     (* the panels so far *)

Zero == Whole(0)
NaN == <<0, 0>>
TotalOf(f, set) == FoldSet(LAMBDA s, sum : Plus(f[s], sum), Zero, set)
Total(f) == TotalOf(f, DOMAIN f)
SizeOf(x) == MostOf(x, Minus(Zero, x))
Gross(w) == Total([s \in DOMAIN w |-> SizeOf(w[s])])

-----------------------------------------------------------------------------
(* CrossSectionalMomentum.target_weights.                                  *)

Cash == [s \in Symbols |-> Zero]
Momentum(ps, i, s) ==
  Minus(Quotient(Whole(ps[i - Skip][s]), Whole(ps[i - Lookback][s])), Whole(1))
Members(i) == {s \in Symbols : i \in Listed[s]}
(* Ascending and stable: of two alike, the earlier ranks lower.            *)
RankedBy(score, set) ==
  SetToSortSeq(set, LAMBDA a, b : Less(score[a], score[b]) \/ (score[a] = score[b] /\ a < b))
Side(n) == Min({PerSide, n \div 2})
Sided(rank, side) ==
  IF side = 0 THEN Cash
  ELSE [s \in Symbols |->
          CASE \E k \in 1..side : rank[Len(rank) + 1 - k] = s -> Over(GrossPerSide, side)
            [] \E k \in 1..side : rank[k] = s -> Minus(Zero, Over(GrossPerSide, side))
            [] OTHER -> Zero]
TargetWeights(ps, i) ==
  IF i <= Lookback THEN Cash
  ELSE Sided(RankedBy([s \in Symbols |-> Momentum(ps, i, s)], Members(i)),
             Side(Cardinality(Members(i))))

(* PortfolioConstruction.                                                  *)
ScaledTo(w, target, gross) ==
  IF gross = Zero THEN w ELSE [s \in DOMAIN w |-> Product(w[s], Quotient(target, gross))]
NormalizeGross(w, target) == ScaledTo(w, target, Gross(w))
ClippedTo(w, cap) ==
  [s \in DOMAIN w |-> LeastOf(cap, MostOf(Minus(Zero, cap), w[s]))]
CapWeightsOnce(w, cap, target) ==
  IF \A s \in DOMAIN w : ~Less(cap, SizeOf(w[s])) THEN w
  ELSE NormalizeGross(ClippedTo(w, cap), target)
CapWeights(w, cap, target) ==
  IF \A s \in DOMAIN w : ~Less(cap, SizeOf(w[s])) THEN w
  ELSE ClippedTo(NormalizeGross(ClippedTo(w, cap), target), cap)

Scored(score) == {s \in Symbols : score[s] # NaN}
Demeaned(score, set, mean) ==
  [s \in Symbols |-> IF s \in set THEN Minus(score[s], mean) ELSE Zero]
ZScoreWeights(score, target, cap) ==
  IF Cardinality(Scored(score)) < 2 THEN Cash
  ELSE CapWeights(NormalizeGross(
         Demeaned(score, Scored(score),
                  Over(TotalOf(score, Scored(score)), Cardinality(Scored(score)))), target),
         cap, target)

Held(w) == {s \in DOMAIN w : w[s] # Zero}
InverseVolBudget(w, vols, target) ==
  NormalizeGross([s \in DOMAIN w |-> Quotient(w[s], vols[s])], target)
OfSector(w, s) == {r \in Held(w) : Sectors[r] = Sectors[s]}
SectorNeutralize(w) ==
  [s \in DOMAIN w |-> IF w[s] = Zero THEN Zero
     ELSE Minus(w[s], Over(TotalOf(w, OfSector(w, s)), Cardinality(OfSector(w, s))))]
BetaOf(w, betas) == TotalOf([s \in DOMAIN w |-> Product(w[s], betas[s])], Held(w))
Squares(w, betas) == TotalOf([s \in DOMAIN w |-> Product(betas[s], betas[s])], Held(w))
Projected(w, betas, lam) ==
  [s \in DOMAIN w |-> IF w[s] = Zero THEN Zero ELSE Minus(w[s], Product(lam, betas[s]))]
BetaNeutralize(w, betas) ==
  IF Squares(w, betas) = Zero THEN w
  ELSE Projected(w, betas, Quotient(BetaOf(w, betas), Squares(w, betas)))

-----------------------------------------------------------------------------
(* PortfolioBacktester.run, with a cost model that charges impact once     *)
(* there are bars enough to estimate it.                                   *)

MarketValue(pos, closes) == Total([s \in Symbols |-> Times(pos[s], closes[s])])
CostRate(s, i) == IF i <= Window THEN Rate ELSE Plus(Rate, Impact[s])
Notionals(pos, target, closes) ==
  [s \in Symbols |-> Times(SizeOf(Minus(target[s], pos[s])), closes[s])]
Fees(notional, i) == Total([s \in Symbols |-> Product(notional[s], CostRate(s, i))])
PaidLater(b, target, closes, fees, notional) ==
  [b EXCEPT !.cash = Minus(Plus(@, MarketValue(b.pos, closes)), MarketValue(target, closes)),
            !.pos = target, !.costs = Plus(@, fees), !.turnover = Plus(@, Total(notional))]
Paid(b, target, closes, fees, notional) ==
  [b EXCEPT !.cash = Minus(Minus(Plus(@, MarketValue(b.pos, closes)), MarketValue(target, closes)), fees),
            !.pos = target, !.costs = Plus(@, fees), !.turnover = Plus(@, Total(notional))]
Moved(b, i, target, closes, notional) == Paid(b, target, closes, Fees(notional, i), notional)
Toward(b, i, target, closes) == Moved(b, i, target, closes, Notionals(b.pos, target, closes))
TargetOf(w, value, closes) ==
  [s \in Symbols |-> Quotient(Product(w[s], value), Whole(closes[s]))]
Rebalanced(b, i, w, closes) ==
  IF (i - 1) % Every # 0 THEN b
  ELSE Toward(b, i, TargetOf(w, Plus(b.cash, MarketValue(b.pos, closes)), closes), closes)
Valued(b, closes) == [b EXCEPT !.equity = Append(@, Plus(b.cash, MarketValue(b.pos, closes)))]
PortfolioRun(ps) ==
  FoldLeftDomain(LAMBDA b, i : Valued(Rebalanced(b, i, TargetWeights(ps, i), ps[i]), ps[i]),
    [cash |-> Capital, pos |-> Cash, equity |-> <<>>, costs |-> Zero, turnover |-> Zero], ps)

(* AlphaBacktester.run: fractions of equity, a cost that eats the equity   *)
(* refuses the whole run.                                                  *)
Traded(was, w) == [s \in Symbols |-> SizeOf(Minus(w[s], was[s]))]
FlatCosts(traded) == Product(Total(traded), Plus(Commission, Plus(HalfSpread, Slippage)))
ImpactCosts(traded) == Total([s \in Symbols |-> Product(traded[s], Impact[s])])
CostOf(traded) == Plus(FlatCosts(traded), ImpactCosts(traded))
BookReturn(w, from, to) ==
  Total([s \in Symbols |->
    Product(w[s], Minus(Quotient(Whole(to[s]), Whole(from[s])), Whole(1)))])
Earned(a, w, cost, r) ==
  IF a.refused \/ ~Less(cost, Whole(1)) THEN [a EXCEPT !.refused = TRUE]
  ELSE [a EXCEPT !.weights = w, !.drag = Plus(@, cost),
                 !.net = Append(@, Product(Product(Last(@), Minus(Whole(1), cost)), Plus(Whole(1), r))),
                 !.gross = Append(@, Product(Last(@), Plus(Whole(1), r)))]
Step(a, w, cost, from, to) == Earned(a, w, cost, BookReturn(w, from, to))
Bar(a, ps, t) ==
  IF (t - Start) % Every = 0
  THEN Step(a, TargetWeights(ps, t), CostOf(Traded(a.weights, TargetWeights(ps, t))), ps[t], ps[t + 1])
  ELSE Step(a, a.weights, Zero, ps[t], ps[t + 1])
AlphaRun(ps) ==
  FoldLeft(LAMBDA a, t : Bar(a, ps, t),
    [weights |-> Cash, net |-> <<Whole(1)>>, gross |-> <<Whole(1)>>, drag |-> Zero,
     refused |-> FALSE],
    [k \in 1..Max({0, Len(ps) - Start}) |-> Start + k - 1])

-----------------------------------------------------------------------------
(* DrawdownAnalytics.analyze over a positive curve; 0 while still open.    *)
Depth(e, d) == Minus(Whole(1), Quotient(e[d.trough], e[d.peak]))
Episode(a, recovery) == [peak |-> a.peak, trough |-> a.trough, recovery |-> recovery]
Dived(a, e, i) ==
  IF ~Less(e[i], e[a.peak])
  THEN [a EXCEPT !.peak = i, !.trough = 0,
                 !.episodes = IF a.trough = 0 THEN @ ELSE Append(@, Episode(a, i))]
  ELSE [a EXCEPT !.under = @ + 1,
                 !.trough = IF @ = 0 \/ Less(e[i], e[@]) THEN i ELSE @]
Closing(a) == IF a.trough = 0 THEN a.episodes ELSE Append(a.episodes, Episode(a, 0))
Dives(e) ==
  FoldLeft(LAMBDA a, i : Dived(a, e, i), [peak |-> 1, trough |-> 0, under |-> 0, episodes |-> <<>>],
           [k \in 1..(Len(e) - 1) |-> k + 1])
Duration(d, n) == (IF d.recovery = 0 THEN n ELSE d.recovery) - d.peak
Drawdowns(e) == Closing(Dives(e))
MaxDepth(e) == FoldSeq(MostOf, Zero, [k \in DOMAIN Drawdowns(e) |-> Depth(e, Drawdowns(e)[k])])
(* _risk.max_drawdown, from the running peak.                              *)
PeakBy(e, i) == FoldSeq(MostOf, e[1], SubSeq(e, 1, i))
MaxDrawdown(e) ==
  FoldSeq(MostOf, Zero, [i \in DOMAIN e |-> Quotient(Minus(PeakBy(e, i), e[i]), PeakBy(e, i))])

(* TradeAnalytics.analyze, of what each trade made.                        *)
Counted(c, pnl) ==
  CASE Less(Zero, pnl) -> [c EXCEPT !.wins = @ + 1, !.won = Plus(@, pnl), !.losing = 0,
                                    !.winning = @ + 1, !.best = Max({@, c.winning + 1})]
    [] Less(pnl, Zero) -> [c EXCEPT !.losses = @ + 1, !.lost = Minus(@, pnl), !.winning = 0,
                                    !.losing = @ + 1, !.worst = Max({@, c.losing + 1})]
    [] OTHER -> [c EXCEPT !.winning = 0, !.losing = 0]
Counts(trades) ==
  FoldLeft(Counted, [wins |-> 0, won |-> Zero, losses |-> 0, lost |-> Zero, winning |-> 0,
                     losing |-> 0, best |-> 0, worst |-> 0], trades)
Each(sum, n) == IF n = 0 THEN Zero ELSE Over(sum, n)
Expectancy(c, n) ==
  Minus(Over(Times(Each(c.won, c.wins), c.wins), n), Over(Times(Each(c.lost, c.losses), c.losses), n))
Kelly(c, n) ==
  CASE c.losses = 0 -> Whole(1)
    [] c.wins = 0 -> Zero
    [] OTHER -> MostOf(Zero, LeastOf(Whole(1),
         Minus(Frac(c.wins, n), Product(Frac(n - c.wins, n),
               Quotient(Each(c.lost, c.losses), Each(c.won, c.wins))))))

-----------------------------------------------------------------------------
OnPanel(closes) ==
  /\ Len(market) < MaxPanels
  /\ market' = Append(market, closes)

Init == market = <<>>

Next == \E closes \in Panels : OnPanel(closes)

Spec == Init /\ [][Next]_market

-----------------------------------------------------------------------------
(* portfolio_backtester.py:1-8: a rebalance pays for itself.  From one bar *)
(* to the next the equity moves by what was held across it less the fees,  *)
(* which are on all that was traded, and a run over fewer bars is the      *)
(* beginning of a run over more.                                           *)
PaysForItself(was, now, from, to) ==
  /\ IsPrefix(was.equity, now.equity)
  /\ Last(now.equity) =
       Minus(Plus(Last(was.equity), Minus(MarketValue(was.pos, to), MarketValue(was.pos, from))),
             Minus(now.costs, was.costs))
  /\ ~Less(Minus(now.costs, was.costs), Product(Minus(now.turnover, was.turnover), Rate))
BooksBalance ==
  Len(market) > 1 =>
    PaysForItself(PortfolioRun(Front(market)), PortfolioRun(market),
                  market[Len(market) - 1], Last(market))

(* alpha_backtester.py:137-155: the net curve trails the gross one, by no  *)
(* more than the costs reported, as long as the book is worth something;   *)
(* a run refused for its costs is not accepted when bars are added.        *)
Trails(net, gross, drag) ==
  ~Less(gross, net) /\ ~Less(net, Product(gross, Minus(Whole(1), drag)))
CostsAreCharged(was, now) ==
  /\ was.refused => now.refused
  /\ IsPrefix(was.net, now.net) /\ IsPrefix(was.gross, now.gross)
  /\ (\A k \in DOMAIN now.gross : Less(Zero, now.gross[k])) =>
       Trails(Last(now.net), Last(now.gross), now.drag)
NetTrailsGross ==
  market # <<>> => CostsAreCharged(AlphaRun(Front(market)), AlphaRun(market))

(* cross_sectional_momentum.py:1-20 and portfolio_construction.py: a       *)
(* momentum book is as long as it is short, of members alone, and nobody   *)
(* left out did better than a winner; a capped z-score book respects the   *)
(* cap and the gross and ranks as the scores do; a neutral book is.        *)
LastMomentum(i) ==
  [s \in Symbols |-> IF s \in Members(i) THEN Momentum(market, i, s) ELSE NaN]
LongShort(w, score, members) ==
  /\ Total(w) = Zero /\ Held(w) \subseteq members
  /\ w # Cash => Gross(w) = Times(GrossPerSide, 2)
  /\ \A a, b \in members : Less(w[a], w[b]) => ~Less(score[b], score[a])
Capped(w, score) ==
  /\ \A s \in Symbols : ~Less(MaxWeight, SizeOf(w[s]))
  /\ ~Less(GrossTarget, Gross(w))
  /\ \A a, b \in Scored(score) : Less(score[a], score[b]) => ~Less(w[b], w[a])
Neutral(w) ==
  /\ \A s \in Symbols : TotalOf(SectorNeutralize(w), OfSector(w, s)) = Zero
  /\ BetaOf(BetaNeutralize(w, Betas), Betas) = Zero
  /\ Gross(InverseVolBudget(w, Vols, GrossTarget)) \in {Zero, GrossTarget}
ScoresAreWeighed(score, members, i) ==
  /\ LongShort(TargetWeights(market, i), score, members)
  /\ Capped(ZScoreWeights(score, GrossTarget, MaxWeight), score)
  /\ Neutral(ZScoreWeights(score, GrossTarget, MaxWeight))
WeightsAreFair ==
  Len(market) > Lookback =>
    ScoresAreWeighed(LastMomentum(Len(market)), Members(Len(market)), Len(market))

(* drawdown_analytics.py:14-27: the episodes are the maximal stretches     *)
(* below the running peak, each measured at its lowest, and the deepest is *)
(* the plain maximum drawdown; trade_analytics.py:8-20: the expectancy is  *)
(* the mean and a streak is a run of losers.                               *)
Below(e) == {i \in DOMAIN e : Less(e[i], PeakBy(e, i))}
Within(d, n) == {i \in 1..n : d.peak < i /\ (d.recovery = 0 \/ i < d.recovery)}
DivesAreTrue(e, ds) ==
  /\ UNION {Within(ds[k], Len(e)) : k \in DOMAIN ds} = Below(e)
  /\ \A k \in DOMAIN ds, i \in Below(e) : i \in Within(ds[k], Len(e)) =>
       ~Less(e[i], e[ds[k].trough]) /\ e[ds[k].peak] = PeakBy(e, i)
  /\ \A k \in DOMAIN ds :
       Duration(ds[k], Len(e)) =
         Cardinality(Within(ds[k], Len(e))) + (IF ds[k].recovery = 0 THEN 0 ELSE 1)
  /\ MaxDepth(e) = MaxDrawdown(e) /\ Dives(e).under = Cardinality(Below(e))
LosingRuns(trades) ==
  {r[2] - r[1] + 1 : r \in {q \in (DOMAIN trades) \X (DOMAIN trades) :
     q[1] <= q[2] /\ \A k \in q[1]..q[2] : Less(trades[k], Zero)}}
TradesAreCounted(trades, c) ==
  /\ Expectancy(c, Len(trades)) = Over(Total(trades), Len(trades))
  /\ c.worst = Max({0} \cup LosingRuns(trades))
  /\ (Less(Zero, Kelly(c, Len(trades))) => c.losses = 0 \/ Less(Zero, Total(trades)))
Curve == [i \in DOMAIN market |-> Whole(market[i][1])]
Changes == [i \in 1..(Len(market) - 1) |-> Whole(market[i + 1][1] - market[i][1])]
StatisticsAreTrue ==
  Len(market) > 1 => DivesAreTrue(Curve, Drawdowns(Curve)) /\ TradesAreCounted(Changes, Counts(Changes))
=============================================================================
