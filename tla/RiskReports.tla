----------------------------- MODULE RiskReports -----------------------------
(***************************************************************************)
(* What risk, validation and market analytics report: of a history of a    *)
(* desk's and a model's profits that grows day by day (risk/, backtest/    *)
(* validation/, sim/), of a hedge found by coordinate descent (crb/        *)
(* hedge_optimizer.py), of an index that is re-weighted and re-constituted *)
(* (markets/index_construction.py), and of a single question asked of      *)
(* execution/, fx/, markets/, commodities/ or a book's covariance.         *)
(*                                                                         *)
(* Profits are whole numbers, everything derived an exact fraction; what   *)
(* the code puts under a root is kept as its square.                       *)
(***************************************************************************)
EXTENDS Indicators, FiniteSets, FiniteSetsExt

CONSTANTS
  Outcomes,       (* a day's profits, [desk, model]                        *)
  MaxDays,        (* bound                                                 *)
  Confidences,    (* levels between a half and one                         *)
  LeastDays,      (* of a tail or a test of one: 20 in the code            *)
  LeastPerBlock,  (* periods of a block of the cross-validation: 2         *)
  Capital,        (* the desk's equity before its first day                *)
  Problems,       (* hedges asked for: [e, cov, load, cost, weight]        *)
  MaxSweeps,      (* _MAX_ITERATIONS: 20000 in the code                    *)
  Tolerance,      (* _RELATIVE_TOLERANCE                                   *)
  Listings,       (* of an index: [prices, shares, float] by name          *)
  Prices,         (* a name can move to                                    *)
  MaxMoves,       (* bound                                                 *)
  Questions       (* [kind, ...], one for the last part                    *)

VARIABLES
  days,           (* the history                                           *)
  hedge,          (* the optimizer: [problem, h, at, moved, most, sweeps, status] *)
  index,          (* [prices, shares, float, divisor, grown, moves]        *)
  asked           (* the question                                          *)

Refused == <<>>
Least(x) == -((-x[1]) \div x[2])     \* ceil
Floor(x) == x[1] \div x[2]
InOrder(v) == SortSeq(v, LAMBDA a, b : a < b)
Fractional(v) == [t \in DOMAIN v |-> Whole(v[t])]
Column(name) == [t \in DOMAIN days |-> days[t][name]]

-----------------------------------------------------------------------------
(* Tails: risk/var_engine.py and risk/risk_metrics.py.                     *)

AtIndex(s, k) ==
  [var |-> Max({0, s[k]}), es |-> MostOf(Zero, Frac(SeqSum(SubSeq(s, k, Len(s))), Len(s) - k + 1))]
\* A rank one too low: the loss that is just inside the level.
TailTooLow(losses, c) == AtIndex(InOrder(losses), Max({1, Least(Times(c, Len(losses))) - 1}))
TailFrom(losses, c) == AtIndex(InOrder(losses), Min({Len(losses), Least(Times(c, Len(losses)))}))

PnlOf(e, day) == e[1] * day.desk + e[2] * day.model
HistoricalVar(e, c) ==
  IF Len(days) < LeastDays THEN Refused
  ELSE TailFrom([t \in DOMAIN days |-> -PnlOf(e, days[t])], c)
\* A scenario the caller's pricer cannot price is no quantile.
FullRevaluation(priced, c) ==
  IF Len(priced) < LeastDays \/ \E t \in DOMAIN priced : priced[t] = NaN THEN Refused
  ELSE TailFrom([t \in DOMAIN priced |-> -priced[t][1]], c)

PercentileOf(v, p) == PercentileSorted(Fractional(InOrder(v)), p)
QuantileVar(v, c) == MostOf(Zero, Minus(Zero, PercentileOf(v, Minus(One, c))))
MeanLoss(w) == IF w = <<>> THEN Zero ELSE MostOf(Zero, Frac(-SeqSum(w), Len(w)))
ConditionalVar(v, c) ==
  MeanLoss(SelectSeq(v, LAMBDA x : ~Less(PercentileOf(v, Minus(One, c)), Whole(x))))

PeakAt(equity, t) == Max({equity[k] : k \in 1..t})
FallAt(equity, t) ==
  IF PeakAt(equity, t) <= 0 THEN Zero ELSE Frac(PeakAt(equity, t) - equity[t], PeakAt(equity, t))
MaxDrawdown(equity) == FoldSeq(MostOf, Zero, [t \in DOMAIN equity |-> FallAt(equity, t)])

-----------------------------------------------------------------------------
(* Tests of a risk model: risk/var_backtest.py, dependence.py,             *)
(* pnl_attribution.py, frtb_es.py.  A log-likelihood is the terms it adds, *)
(* <<count, probability>> for count * ln(probability).                     *)

Exceptions(returns, var) == [t \in DOMAIN returns |-> returns[t] < -var]
Count(x, was, is) == Cardinality({t \in 2..Len(x) : x[t - 1] = was /\ x[t] = is})
Share(k, n) == IF n = 0 THEN Zero ELSE Frac(k, n)
TermsOf(misses, hits, p) == {<<misses, Minus(One, p)>>, <<hits, p>>}
KupiecTerms(n, x, c) == TermsOf(n - x, x, Minus(One, c)) \union TermsOf(n - x, x, Frac(x, n))
MarkovTerms(n00, n01, n10, n11) ==
  IF 0 < n01 + n11 /\ n01 + n11 < n00 + n01 + n10 + n11
  THEN TermsOf(n00 + n10, n01 + n11, Frac(n01 + n11, n00 + n01 + n10 + n11))
       \union TermsOf(n00, n01, Share(n01, n00 + n01)) \union TermsOf(n10, n11, Share(n11, n10 + n11))
  ELSE {}
IsFinite(term) == term[1] = 0 \/ Less(Zero, term[2])
Backtest(x, c) ==
  IF Len(x) < LeastDays THEN Refused
  ELSE [exceptions |-> Cardinality({t \in DOMAIN x : x[t]}),
        expected |-> Times(Minus(One, c), Len(x)),
        kupiec |-> KupiecTerms(Len(x), Cardinality({t \in DOMAIN x : x[t]}), c),
        markov |-> MarkovTerms(Count(x, FALSE, FALSE), Count(x, FALSE, TRUE),
                               Count(x, TRUE, FALSE), Count(x, TRUE, TRUE))]
TrafficLight(exceptions) ==
  IF exceptions <= 4 THEN "green" ELSE IF exceptions <= 9 THEN "amber" ELSE "red"

(* Midranks, doubled, less their mean.                                     *)
RanksOf(v) ==
  [t \in DOMAIN v |-> Cardinality({s \in DOMAIN v : v[s] < v[t]})
                    + Cardinality({s \in DOMAIN v : v[s] <= v[t]}) - Len(v)]
Products(u, v) == SeqSum([t \in DOMAIN u |-> u[t] * v[t]])
RankCorrelation(a, b) ==
  CorrelationOf(Products(RanksOf(a), RanksOf(b)), Products(RanksOf(a), RanksOf(a)),
                Products(RanksOf(b), RanksOf(b)))
PairsOf(v) == {p \in (DOMAIN v) \X (DOMAIN v) : p[1] < p[2]}
Agreement(a, b, p) == (a[p[1]] - a[p[2]]) * (b[p[1]] - b[p[2]])
KendallTau(a, b) ==
  Frac(Cardinality({p \in PairsOf(a) : Agreement(a, b, p) > 0})
       - Cardinality({p \in PairsOf(a) : Agreement(a, b, p) < 0}), Cardinality(PairsOf(a)))

Consumed(v, x) == Cardinality({t \in DOMAIN v : v[t] <= x})
GapAt(a, b, x) == Sized(Minus(Frac(Consumed(a, x), Len(a)), Frac(Consumed(b, x), Len(b))))
(* Both samples consume each distinct value before the gap is taken, until *)
(* one is used up; a transient gap is the one before the other catches up. *)
TransientGap(a, b) ==
  FoldSet(LAMBDA k, most : MostOf(Sized(Minus(Frac(k, Len(a)), Frac(Consumed(b, InOrder(a)[k]), Len(b)))), most),
          Zero, DOMAIN a)
KsStatistic(a, b) ==
  LET sa == InOrder(a)
      sb == InOrder(b)
      walk[i \in 0..Len(a), j \in 0..Len(b)] ==
        IF i = Len(a) \/ j = Len(b) THEN Zero
        ELSE LET v == Min({sa[i + 1], sb[j + 1]})
             IN  MostOf(GapAt(a, b, v), walk[Consumed(a, v), Consumed(b, v)])
  IN  walk[0, 0]
Hundredths(n) == Frac(n, 100)
(* The correlation is a signed square.                                     *)
ZoneOf(corr, ks) ==
  IF Less(corr, SignedSquare(Hundredths(70))) \/ Less(Hundredths(12), ks) THEN "red"
  ELSE IF Less(SignedSquare(Hundredths(80)), corr) /\ Less(ks, Hundredths(9)) THEN "green" ELSE "amber"
Attribution(hpl, rtpl) ==
  IF Len(hpl) < LeastDays THEN Refused
  ELSE [corr |-> RankCorrelation(hpl, rtpl), ks |-> KsStatistic(hpl, rtpl),
        zone |-> ZoneOf(RankCorrelation(hpl, rtpl), KsStatistic(hpl, rtpl))]

-----------------------------------------------------------------------------
(* How much of a backtest was luck: backtest/validation/, sim/simulation_  *)
(* result.py, backtest/benchmark_comparison.py.                            *)

SumTo(v, t) == SeqSum(SubSeq(v, 1, t))
(* Down from the running peak of the profits so far, the peak at least 0.  *)
PathDrawdown(pnls) ==
  Max({Max({0} \union {SumTo(pnls, k) : k \in 1..t}) - SumTo(pnls, t) : t \in DOMAIN pnls})
Shuffled(pnls, order) == [t \in DOMAIN pnls |-> pnls[order[t]]]
(* orders is what the generator drew.                                      *)
ShuffleReport(pnls, orders) ==
  LET dd == [s \in DOMAIN orders |-> PathDrawdown(Shuffled(pnls, orders[s]))]
      terminal == [s \in DOMAIN orders |-> SeqSum(Shuffled(pnls, orders[s]))]
  IN  [median |-> PercentileOf(dd, Frac(1, 2)), p95 |-> PercentileOf(dd, Hundredths(95)),
       p99 |-> PercentileOf(dd, Hundredths(99)), terminal |-> PercentileOf(terminal, Frac(1, 2)),
       loss |-> Frac(Cardinality({s \in DOMAIN orders : terminal[s] < 0}), Len(orders)),
       rank |-> Frac(Cardinality({s \in DOMAIN orders : dd[s] <= PathDrawdown(pnls)}), Len(orders))]

(* restarts are the positions, after the first, that start a block anew;   *)
(* starts is where each block starts in the history.                       *)
ResampledLate(n, restarts, starts) ==
  LET firsts == restarts \union {1}
      block(t) == Cardinality({f \in firsts : f <= t})
  IN  [t \in 1..n |-> ((starts[block(t)] + t - 2) % n) + 1]
Resampled(n, restarts, starts) ==
  LET firsts == restarts \union {1}
      first(t) == Max({f \in firsts : f <= t})
      block(t) == Cardinality({f \in firsts : f <= t})
  IN  [t \in 1..n |-> ((starts[block(t)] - 1 + t - first(t)) % n) + 1]

BlockLen(v, blocks) == Len(v) \div blocks
ScoreOn(v, picked, len) ==
  SeqSum([t \in DOMAIN v |-> IF (t - 1) \div len \in picked THEN v[t] ELSE 0])
Scores(vs, picked, len) == [j \in DOMAIN vs |-> ScoreOn(vs[j], picked, len)]
WinnerOf(scores) == Min({j \in DOMAIN scores : \A k \in DOMAIN scores : scores[k] <= scores[j]})
RankOf(scores, w) == 1 + Cardinality({k \in DOMAIN scores : scores[k] < scores[w]})
Halves(blocks) == {p \in SUBSET (0..(blocks - 1)) : 2 * Cardinality(p) = blocks}
OutOf(picked, blocks) == (0..(blocks - 1)) \ picked
(* The logit of rank / (n + 1) is not positive.                            *)
LosesOutside(vs, picked, blocks, len) ==
  2 * RankOf(Scores(vs, OutOf(picked, blocks), len), WinnerOf(Scores(vs, picked, len))) <= Len(vs) + 1
Cscv(vs, blocks) ==
  IF blocks < 4 \/ blocks % 2 # 0 \/ Len(vs[1]) < LeastPerBlock * blocks THEN Refused
  ELSE Frac(Cardinality({p \in Halves(blocks) : LosesOutside(vs, p, blocks, BlockLen(vs[1], blocks))}),
            Cardinality(Halves(blocks)))

(* Of final values in order: a share of the first value that can be lost.  *)
LossFrom(first, x) == MostOf(Zero, Quotient(Minus(Whole(first), x), Whole(first)))
ValueAtRisk(first, finals, c) == LossFrom(first, PercentileOf(finals, Minus(One, c)))
MeanOfFirst(s, k) == Frac(SumTo(s, k), k)
ConditionalValueAtRisk(first, finals, c) ==
  LossFrom(first, MeanOfFirst(InOrder(finals), Max({1, Floor(Times(Minus(One, c), Len(finals)))})))
ConfidenceInterval(finals, level) ==
  <<PercentileOf(finals, Over(Minus(One, level), 2)), PercentileOf(finals, Minus(One, Over(Minus(One, level), 2)))>>
ProbabilityOfProfit(first, finals) ==
  Frac(Cardinality({t \in DOMAIN finals : finals[t] > first}), Len(finals))

Covariance(u, v) ==
  Over(SumOf([t \in DOMAIN u |-> Product(Minus(u[t], Mean(u)), Minus(v[t], Mean(v)))]), Len(u) - 1)
Apart(u, v) == Tabulated([t \in DOMAIN u |-> Minus(u[t], v[t])])
(* The mean return over the periods in which the benchmark rose or fell.   *)
Capture(rs, rb, periods) ==
  IF periods = {} THEN NaN
  ELSE Quotient(FoldSet(LAMBDA t, s : Plus(rs[t], s), Zero, periods),
                FoldSet(LAMBDA t, s : Plus(rb[t], s), Zero, periods))
CompareWith(rs, rb, beta) ==
  [beta |-> beta, alpha |-> Minus(Mean(rs), Product(beta, Mean(rb))),
   active |-> Mean(Apart(rs, rb)), error |-> SampleVariance(Apart(rs, rb)),
   up |-> Capture(rs, rb, {t \in DOMAIN rb : Less(Zero, rb[t])}),
   down |-> Capture(rs, rb, {t \in DOMAIN rb : Less(rb[t], Zero)})]
Compare(rs, rb) ==
  IF Len(rs) < 3 THEN Refused
  ELSE IF SampleVariance(rb) = Zero THEN Refused
  ELSE CompareWith(rs, rb, Quotient(Covariance(rs, rb), SampleVariance(rb)))

-----------------------------------------------------------------------------
(* crb/hedge_optimizer.py: cyclic coordinate descent, one coordinate a     *)
(* step, on (e + L h)' cov (e + L h) + weight * sum of cost * |h|.         *)

Bilinear(c, u, v) == SeqSum([f \in DOMAIN u |-> u[f] * SeqSum([g \in DOMAIN v |-> c[f][g] * v[g]])])
LoadsOf(p, i) == [f \in DOMAIN p.load |-> p.load[f][i]]
Gram(p, i, j) == Bilinear(p.cov, LoadsOf(p, i), LoadsOf(p, j))
Marginal(p, h, i) ==
  FoldSet(LAMBDA j, b : Plus(b, Times(h[j], Gram(p, i, j))),
          Whole(Bilinear(p.cov, LoadsOf(p, i), p.e)), (DOMAIN h) \ {i})
\* The cost is paid on either side of the square: half of it is forgotten.
HalfThreshold(p, i) == Frac(p.weight * p.cost[i], 4)
Threshold(p, i) == Frac(p.weight * p.cost[i], 2)
SoftThreshold(b, threshold, a) ==
  IF Less(threshold, b) THEN Over(Minus(threshold, b), a)
  ELSE IF Less(b, Minus(Zero, threshold)) THEN Over(Minus(Zero, Plus(b, threshold)), a)
  ELSE Zero
Start(p) ==
  [problem |-> p, h |-> [i \in DOMAIN p.cost |-> Zero], at |-> 1, moved |-> Zero, most |-> One,
   sweeps |-> 0, status |-> "running"]
Placed(r, x) ==
  [r EXCEPT !.h[r.at] = x, !.moved = MostOf(@, Sized(Minus(x, r.h[r.at]))), !.most = MostOf(@, Sized(x))]
Swept(r) ==
  IF Less(r.moved, Product(Tolerance, r.most)) THEN [r EXCEPT !.status = "hedged"]
  ELSE IF r.sweeps + 1 = MaxSweeps THEN [r EXCEPT !.status = "failed"]
  ELSE [r EXCEPT !.at = 1, !.sweeps = @ + 1, !.moved = Zero, !.most = One]
Onward(r) == IF r.at < Len(r.h) THEN [r EXCEPT !.at = @ + 1] ELSE Swept(r)
Updated(r, a) ==
  IF a < 0 THEN [r EXCEPT !.status = "refused"]
  ELSE IF a = 0 THEN Onward(r)
  ELSE Onward(Placed(r, SoftThreshold(Marginal(r.problem, r.h, r.at), Threshold(r.problem, r.at), a)))
Descend ==
  /\ hedge.status = "running"
  /\ hedge' = Updated(hedge, Gram(hedge.problem, hedge.at, hedge.at))
  /\ UNCHANGED <<days, index, asked>>

Residual(p, h) ==
  [f \in DOMAIN p.e |-> Plus(Whole(p.e[f]), SumOf([i \in DOMAIN h |-> Times(h[i], p.load[f][i])]))]
RiskSquared(c, e) == DotOf(e, MatVec([f \in DOMAIN c |-> Fractional(c[f])], e))

-----------------------------------------------------------------------------
(* markets/index_construction.py: names come and go, the divisor follows.  *)

Sum(f) == FoldSet(LAMBDA n, s : Plus(f[n], s), Zero, DOMAIN f)
CapOf(x, n) == Times(x.float[n], x.prices[n] * x.shares[n])
Caps(x) == [n \in DOMAIN x.prices |-> CapOf(x, n)]
Parts(f) == [n \in DOMAIN f |-> Quotient(f[n], Sum(f))]
CapWeights(x) == Parts(Caps(x))
PriceWeights(x) == Parts(Fractional(x.prices))
EqualWeights(x) == [n \in DOMAIN x.prices |-> Frac(1, Cardinality(DOMAIN x.prices))]
Level(x) == Quotient(Sum(Caps(x)), x.divisor)
AdjustedBackwards(divisor, before, after) == Quotient(Product(divisor, before), after)
AdjustDivisor(divisor, before, after) == Quotient(Product(divisor, after), before)
Turnover(v, w) == Over(Sum([n \in DOMAIN v |-> Sized(Minus(v[n], w[n]))]), 2)

(* grown is a history variable: the level the weighted returns imply.      *)
ReturnOf(x, n, price) == Product(CapWeights(x)[n], Minus(Frac(price, x.prices[n]), One))
Repriced(x, n, price) ==
  [x EXCEPT !.prices[n] = price, !.grown = Product(@, Plus(One, ReturnOf(x, n, price))), !.moves = @ + 1]
PriceMove ==
  /\ index.moves < MaxMoves
  /\ \E n \in DOMAIN index.prices, price \in Prices : index' = Repriced(index, n, price)
  /\ UNCHANGED <<days, hedge, asked>>
(* The names that stay keep their price.                                   *)
Relisted(x, l) ==
  [x EXCEPT !.prices = [n \in DOMAIN l.prices |-> IF n \in DOMAIN x.prices THEN x.prices[n] ELSE l.prices[n]],
            !.shares = l.shares, !.float = l.float, !.moves = @ + 1]
Continued(x, y) == [y EXCEPT !.divisor = AdjustDivisor(@, Sum(Caps(x)), Sum(Caps(y)))]
Reconstitute ==
  /\ index.moves < MaxMoves
  /\ \E l \in Listings : index' = Continued(index, Relisted(index, l))
  /\ UNCHANGED <<days, hedge, asked>>
FirstListing(l) ==
  [prices |-> l.prices, shares |-> l.shares, float |-> l.float, divisor |-> One,
   grown |-> Sum(Caps(l)), moves |-> 0]

-----------------------------------------------------------------------------
(* A book of w under the covariance c: risk/component_var.py,              *)
(* stress_tester.py, concentration_risk.py and frtb_es.py.                 *)

Exposed(c, w) == [i \in DOMAIN w |-> SeqSum([j \in DOMAIN w |-> c[i][j] * w[j]])]
VarianceOf(c, w) == Bilinear(c, w, w)
ComponentsOf(c, w) == [i \in DOMAIN w |-> w[i] * Exposed(c, w)[i]]
Without(w, i) == [w EXCEPT ![i] = 0]
(* Shares of the variance; the level's z and the root are left out.        *)
Allocate(c, w) ==
  IF VarianceOf(c, w) <= 0 THEN Refused
  ELSE [variance |-> VarianceOf(c, w), components |-> ComponentsOf(c, w), marginals |-> Exposed(c, w)]
RestOf(c, w, i) == Max({0, VarianceOf(c, Without(w, i))})

(* Shocks are fractions, gammas whole: half a square is kept as it is.     *)
LinearPnl(w, shocks) == SumOf([i \in DOMAIN w |-> Times(shocks[i], w[i])])
ScenarioPnl(w, shocks, gamma) ==
  Plus(LinearPnl(w, shocks), Over(DotOf(shocks, MatVec([f \in DOMAIN w |-> Fractional(gamma[f])], shocks)), 2))
Rung(range, steps, s) == Plus(Minus(Zero, range), Over(Times(range, 2 * s), steps))
SensitivityLadder(w, f, range, steps, gamma) ==
  [s \in 0..steps |->
     Plus(Times(Rung(range, steps, s), w[f]), Times(Over(SquaresOf(<<Rung(range, steps, s)>>), 2), gamma[f][f]))]
ReverseStress(c, w, loss) ==
  IF VarianceOf(c, w) <= 0 THEN Refused
  ELSE [shocks |-> [i \in DOMAIN w |-> Frac(-loss * Exposed(c, w)[i], VarianceOf(c, w))],
        sigmasSquared |-> Frac(loss * loss, VarianceOf(c, w))]

AbsOf(w) == [i \in DOMAIN w |-> Abs(w[i])]
SharesOf(w) == [i \in DOMAIN w |-> Share(Abs(w[i]), SeqSum(AbsOf(w)))]
Herfindahl(w) == SquaresOf(SharesOf(w))
TopShare(w, n) ==
  Share(SeqSum(SubSeq(InOrder(AbsOf(w)), Max({0, Len(w) - n}) + 1, Len(w))), SeqSum(AbsOf(w)))
LimitBreaches(w, most) == {i \in DOMAIN w : Less(most, SharesOf(w)[i])}

(* Expected shortfalls of the factors at least as slow as each horizon.    *)
CascadeSquared(es, horizons) ==
  IF horizons[1] # 10 \/ \E j \in 2..Len(horizons) : horizons[j] <= horizons[j - 1] THEN Refused
  ELSE SumOf([j \in DOMAIN es |->
         Frac(es[j] * es[j] * (horizons[j] - (IF j = 1 THEN 0 ELSE horizons[j - 1])), 10)])
StressCalibrated(current, stressed, reduced) ==
  Times(MostOf(One, Frac(stressed, reduced)), current)

-----------------------------------------------------------------------------
(* Questions of execution/: anti_gaming_jitter.py and order_placement_     *)
(* policy.py.  draws are the generator's.                                  *)

Shift(draw, most) == Floor(Plus(Times(Minus(Times(draw, 2), One), most), Frac(1, 2)))
Passed(out, i, shift) == [out EXCEPT ![i] = @ + shift, ![i + 1] = @ - shift]
JitterMeanSizes(sizes, share, draws) ==
  FoldLeft(LAMBDA out, i : Passed(out, i, Shift(draws[i], Floor(Times(share, out[i])))),
           sizes, [i \in 1..(Len(sizes) - 1) |-> i])
JitterSizes(sizes, share, draws) ==
  FoldLeft(LAMBDA out, i : Passed(out, i, Shift(draws[i], Floor(Times(share, Min({out[i], out[i + 1]}))))),
           sizes, [i \in 1..(Len(sizes) - 1) |-> i])
GapBefore(times, i, start) == times[i] - (IF i = 1 THEN start ELSE times[i - 1])
Earliest(out, i, start) == IF i = 1 THEN start ELSE out[i - 1] + 1
Latest(out, times, i) == IF i = Len(times) THEN times[i] ELSE out[i + 1] - 1
Fired(out, times, i, start, shifted) ==
  [out EXCEPT ![i] = Max({Earliest(out, i, start), Min({Latest(out, times, i), shifted})})]
JitterTimes(times, start, share, draws) ==
  FoldLeft(LAMBDA out, i :
             Fired(out, times, i, start, times[i] + Shift(draws[i], Floor(Times(share, GapBefore(times, i, start))))),
           times, [i \in DOMAIN times |-> i])

(* h half the spread, p the chance of a fill, a the adverse selection, d   *)
(* the drift, r the rebate.                                                *)
PostCost(h, p, a, d, r) == Plus(Times(p, a - h - r), Times(Minus(One, p), h + d))
Posts(h, p, a, d, r) == Less(PostCost(h, p, a, d, r), Whole(h))
Never == [from |-> One, to |-> Zero]
SlopeOf(h, a, d, r) == 2 * h + r + d - a
PostRegion(h, a, d, r) ==
  CASE SlopeOf(h, a, d, r) > 0 ->
         IF d >= SlopeOf(h, a, d, r) THEN Never
         ELSE [from |-> MostOf(Zero, Frac(d, SlopeOf(h, a, d, r))), to |-> One]
    [] SlopeOf(h, a, d, r) < 0 ->
         IF d >= 0 THEN Never
         ELSE [from |-> Zero, to |-> LeastOf(One, Frac(-d, -SlopeOf(h, a, d, r)))]
    [] OTHER -> IF d < 0 THEN [from |-> Zero, to |-> One] ELSE Never
Holds(region, p) == ~Less(p, region.from) /\ ~Less(region.to, p)

(* crb/skewed_quoter.py: half and the shade in basis points.               *)
Clamped(x, lo, hi) == MostOf(lo, LeastOf(hi, x))
\* The load is not clamped.
SkewUnlimited(half, inventory, limit, fraction) == Times(Product(Frac(inventory, limit), fraction), -half)
SkewBps(half, inventory, limit, fraction) ==
  Times(Product(Clamped(Frac(inventory, limit), Whole(-1), One), fraction), -half)
Shaded(mid, bps) == Times(Plus(One, Over(bps, 10000)), mid)
QuoteFrom(mid, half, skew) ==
  [bid |-> Shaded(mid, Minus(skew, Whole(half))), ask |-> Shaded(mid, Plus(skew, Whole(half))), skew |-> skew]
CouldBidNothing(half, fraction) == ~Less(Times(Plus(One, fraction), half), Whole(10000))
SkewedQuote(mid, half, inventory, limit, fraction) ==
  IF CouldBidNothing(half, fraction) THEN Refused
  ELSE QuoteFrom(mid, half, SkewBps(half, inventory, limit, fraction))

-----------------------------------------------------------------------------
(* A question of alpha/alpha_validation.py: ic[i][j] is the coefficient of *)
(* the scores of date i and the returns after date j, shuffles the         *)
(* pairings the generator draws.                                           *)
PairedIcs(ic, pairing) == SelectSeq([i \in DOMAIN ic |-> ic[i][pairing[i]]], LAMBDA x : x # NaN)
MeanIcOf(ic, pairing) ==
  IF PairedIcs(ic, pairing) = <<>> THEN NaN
  ELSE Frac(SeqSum([k \in DOMAIN PairedIcs(ic, pairing) |-> PairedIcs(ic, pairing)[k][1]]),
            Len(PairedIcs(ic, pairing)))
FarFromZero(x) == MostOf(x, Minus(Zero, x))
\* Ties are not counted.
MoreExtreme(null, observed) ==
  null # NaN /\ observed # NaN /\ Less(FarFromZero(observed), FarFromZero(null))
AsExtreme(null, observed) ==
  null # NaN /\ observed # NaN /\ ~Less(FarFromZero(null), FarFromZero(observed))
InTime(ic) == [i \in DOMAIN ic |-> i]
PermutationP(ic, shuffles) ==
  Frac(Cardinality({t \in DOMAIN shuffles : AsExtreme(MeanIcOf(ic, shuffles[t]), MeanIcOf(ic, InTime(ic)))}) + 1,
       Len(shuffles) + 1)

-----------------------------------------------------------------------------
(* Questions of fx/: synthetic_cross.py and fixing_risk.py.  A price that  *)
(* is zero, negative or NaN is none.                                       *)

Priced(p) == p # NaN /\ p[1] > 0
SyntheticAsk(op, a, b) == IF op = "multiply" THEN Product(a.ask, b.ask) ELSE Quotient(a.ask, b.bid)
SyntheticBid(op, a, b) == IF op = "multiply" THEN Product(a.bid, b.bid) ELSE Quotient(a.bid, b.ask)
BuySavings(direct, op, a, b) ==
  IF Priced(direct.ask) /\ Priced(a.ask) /\ Priced(IF op = "multiply" THEN b.ask ELSE b.bid)
  THEN Minus(direct.ask, SyntheticAsk(op, a, b)) ELSE NaN
SellSavings(direct, op, a, b) ==
  IF Priced(direct.bid) /\ Priced(a.bid) /\ Priced(IF op = "multiply" THEN b.bid ELSE b.ask)
  THEN Minus(SyntheticBid(op, a, b), direct.bid) ELSE NaN
Wins(savings) == savings # NaN /\ Less(Zero, savings)

WindowTwap(prices) == Frac(SeqSum(prices), Len(prices))
WindowVwap(prices, sizes) ==
  IF SeqSum(sizes) <= 0 THEN Refused ELSE Frac(Products(prices, sizes), SeqSum(sizes))

-----------------------------------------------------------------------------
(* Questions of markets/private_market_analytics.py and commodities/       *)
(* commodity_curve.py.                                                     *)

Grown(amounts, levels) ==
  SumOf([t \in DOMAIN levels |-> Frac(amounts[t] * levels[Len(levels)], levels[t])])
KsPme(contributions, distributions, nav, levels) ==
  IF SeqSum(contributions) = 0 THEN Refused
  ELSE Quotient(Plus(Grown(distributions, levels), nav), Grown(contributions, levels))
Tvpi(contributions, distributions, nav) == Quotient(Plus(Whole(distributions), nav), Whole(contributions))
GeltnerDesmooth(observed, phi) ==
  Tabulated([t \in DOMAIN observed |->
    IF t = 1 THEN observed[1]
    ELSE Quotient(Minus(observed[t], Product(phi, observed[t - 1])), Minus(One, phi))])

CurveOf(spot, tenors, prices) ==
  IF tenors = <<>> \/ \E i \in DOMAIN tenors : tenors[i] <= (IF i = 1 THEN 0 ELSE tenors[i - 1])
  THEN Refused ELSE [spot |-> spot, tenors |-> tenors, prices |-> prices]
Below(curve, at) == {i \in DOMAIN curve.tenors : ~Less(at, Whole(curve.tenors[i]))}
OnLine(curve, i, at) ==
  Plus(Whole(curve.prices[i]),
       Product(Frac(curve.prices[i + 1] - curve.prices[i], curve.tenors[i + 1] - curve.tenors[i]),
               Minus(at, Whole(curve.tenors[i]))))
PriceAt(curve, at) ==
  IF Below(curve, at) = {} THEN NaN
  ELSE IF at = Whole(curve.tenors[Max(Below(curve, at))]) THEN Whole(curve.prices[Max(Below(curve, at))])
  ELSE IF Max(Below(curve, at)) = Len(curve.tenors) THEN NaN
  ELSE OnLine(curve, Max(Below(curve, at)), at)
FromSpot(curve) == <<curve.spot>> \o curve.prices
IsContango(curve) == \A i \in DOMAIN curve.prices : FromSpot(curve)[i] < FromSpot(curve)[i + 1]
IsBackwardation(curve) == \A i \in DOMAIN curve.prices : FromSpot(curve)[i + 1] < FromSpot(curve)[i]

-----------------------------------------------------------------------------
Init ==
  /\ days = <<>>
  /\ hedge \in {Start(p) : p \in Problems}
  /\ index \in {FirstListing(l) : l \in Listings}
  /\ asked = Refused

NextDay ==
  /\ Len(days) < MaxDays
  /\ \E d \in Outcomes : days' = Append(days, d)
  /\ UNCHANGED <<hedge, index, asked>>

Ask ==
  /\ asked = Refused
  /\ asked' \in Questions
  /\ UNCHANGED <<days, hedge, index>>

-----------------------------------------------------------------------------
(* What must be true of the history.                                       *)

Desk == Column("desk")
Model == Column("model")
AtLeast(x, y) == ~Less(x, y)

(* A tail is no better than its quantile; the quantile covers its level    *)
(* and no lower profit does; the shortfall of a sum of books is at most    *)
(* the sum of theirs; a book worth less in every scenario is no safer; and *)
(* a scenario that cannot be priced is never a number.                     *)
CoversItsLevel(losses, c, level) ==
  ~Less(Whole(Cardinality({t \in DOMAIN losses : losses[t] <= level})), Times(c, Len(losses)))
Linear(day) == Whole(PnlOf(<<1, 0>>, day))
ShortGamma(day) == Whole(PnlOf(<<1, 0>>, day) - day.desk * day.desk)
Gapped(day) == IF day.model < 0 THEN NaN ELSE Linear(day)
QuantileIsTight(v, c, r) ==
  /\ AtLeast(r.es, Whole(r.var))
  /\ CoversItsLevel(v, c, r.var)
  /\ r.var > 0 => ~CoversItsLevel(v, c, r.var - 1)
TailsAreCoherent ==
  Len(days) >= LeastDays => \A c \in Confidences :
    /\ QuantileIsTight([t \in DOMAIN days |-> -Desk[t]], c, HistoricalVar(<<1, 0>>, c))
    /\ AtLeast(Plus(HistoricalVar(<<1, 0>>, c).es, HistoricalVar(<<0, 1>>, c).es),
               HistoricalVar(<<1, 1>>, c).es)
    /\ FullRevaluation([t \in DOMAIN days |-> Linear(days[t])], c) = HistoricalVar(<<1, 0>>, c)
    /\ FullRevaluation([t \in DOMAIN days |-> ShortGamma(days[t])], c).var >= HistoricalVar(<<1, 0>>, c).var
    /\ AtLeast(FullRevaluation([t \in DOMAIN days |-> ShortGamma(days[t])], c).es, HistoricalVar(<<1, 0>>, c).es)
    /\ (FullRevaluation([t \in DOMAIN days |-> Gapped(days[t])], c) = Refused) = (\E t \in DOMAIN days : days[t].model < 0)

(* The two quantiles of one history agree on which tail is worse than      *)
(* which, and a drawdown is the fall of the same equity however measured.  *)
Equity == [t \in 1..(Len(days) + 1) |-> Capital + SumTo(Desk, t - 1)]
ReturnTailsAgree ==
  days # <<>> =>
    /\ \A c \in Confidences :
         /\ AtLeast(ConditionalVar(Desk, c), QuantileVar(Desk, c))
         /\ AtLeast(ConditionalValueAtRisk(Capital, Equity, c), ValueAtRisk(Capital, Equity, c))
         /\ AtLeast(ConfidenceInterval(Equity, c)[2], PercentileOf(Equity, Frac(1, 2)))
         /\ AtLeast(PercentileOf(Equity, Frac(1, 2)), ConfidenceInterval(Equity, c)[1])
    /\ AtLeast(Frac(PathDrawdown(Desk), Capital), MaxDrawdown(Equity))
    /\ AtLeast(MaxDrawdown(Equity), Frac(PathDrawdown(Desk), PeakAt(Equity, Len(Equity))))
    /\ ProbabilityOfProfit(Capital, Equity) = Zero => MaxDrawdown(Equity) = Frac(PathDrawdown(Desk), Capital)

(* No likelihood is ever that of an outcome of probability zero, whatever  *)
(* the exceptions; they are moved into as often as out of, but for one;    *)
(* and more of them never turn the light back.                             *)
LikelihoodsAreFinite ==
  Len(days) >= LeastDays => \A c \in Confidences, var \in 0..2 :
    LET x == Exceptions(Desk, var)
        r == Backtest(x, c)
    IN  /\ \A term \in r.kupiec \union r.markov : IsFinite(term) /\ term[1] >= 0 /\ AtLeast(One, term[2])
        /\ Abs(Count(x, FALSE, TRUE) - Count(x, TRUE, FALSE)) <= 1
        /\ r.exceptions <= Backtest(Exceptions(Desk, 0), c).exceptions

(* The gap is the largest between the two distributions, anywhere; the     *)
(* statistics do not depend on which series comes first, and a model that  *)
(* is right every day, or only in another unit, is never red for its ranks. *)
PlatIsRight ==
  Len(days) >= LeastDays =>
    LET r == Attribution(Desk, Model)
        values == {Desk[t] : t \in DOMAIN days} \union {Model[t] : t \in DOMAIN days}
    IN  /\ \A x \in values : AtLeast(r.ks, GapAt(Desk, Model, x))
        /\ r.ks = Zero \/ \E x \in values : r.ks = GapAt(Desk, Model, x)
        /\ r = Attribution(Model, Desk)
        /\ AtLeast(One, Sized(r.corr)) /\ AtLeast(One, Sized(KendallTau(Desk, Model)))
        /\ r.zone = "green" => Less(Zero, r.corr)
        /\ KendallTau(Desk, Desk) = One => Attribution(Desk, [t \in DOMAIN days |-> 3 * Desk[t]]).corr = One
        /\ Attribution(Desk, Desk).ks = Zero

(* A reordering keeps what was earned and falls by no more than all it     *)
(* lost; the order with its losses first is the worst; percentiles of any  *)
(* sample of orders come in order.                                         *)
Orders(n) == {o \in [1..n -> 1..n] : \A i, j \in 1..n : o[i] = o[j] => i = j}
LostIn(v) == SeqSum([t \in DOMAIN v |-> Max({0, -v[t]})])
ShuffleKeepsTheTrades ==
  Len(days) \in 2..3 => \A o, p \in Orders(Len(days)) :
    LET r == ShuffleReport(Desk, <<o, p>>)
    IN  /\ r.terminal = Whole(SeqSum(Desk)) /\ r.loss \in {Zero, One}
        /\ AtLeast(r.p95, r.median) /\ AtLeast(r.p99, r.p95) /\ AtLeast(Whole(LostIn(Desk)), r.p99)
        /\ AtLeast(r.median, Whole(-SeqSum(Desk)))
        /\ (\A t \in 2..Len(days) : Desk[t - 1] <= Desk[t]) =>
             r.rank = One /\ PathDrawdown(Desk) = LostIn(Desk)

(* A selection that is right in every block is never called overfit, one   *)
(* among equals always is; what loses is at or below the median outside;   *)
(* and of two that never tie a split and its complement lose together.     *)
Variants == <<Desk, Model, [t \in DOMAIN days |-> 0]>>
Better(v, w) == \A t \in DOMAIN v : v[t] > w[t]
MedianOf(scores) == InOrder(scores)[(Len(scores) + 1) \div 2]
OverfitIsJudged ==
  Len(days) >= 4 * LeastPerBlock =>
    LET len == BlockLen(Desk, 4)
        outside(p) == Scores(Variants, OutOf(p, 4), len)
        two(p) == Scores(<<Desk, Model>>, p, len)
    IN  /\ Better(Desk, Model) => Cscv(<<Desk, Model>>, 4) = Zero /\ Cscv(<<Model, Desk>>, 4) = Zero
        /\ Cscv(<<Desk, Desk, Desk>>, 4) = One
        /\ \A p \in Halves(4) :
             LosesOutside(Variants, p, 4, len) =
               (outside(p)[WinnerOf(Scores(Variants, p, len))] <= MedianOf(outside(p)))
        /\ (\A p \in Halves(4) : two(p)[1] # two(p)[2]) =>
             \A p \in Halves(4) : LosesOutside(<<Desk, Model>>, p, 4, len) =
                                  LosesOutside(<<Desk, Model>>, OutOf(p, 4), 4, len)

(* What beta and alpha leave unexplained has no mean, does not move with   *)
(* the benchmark and strays no further than the active return; against     *)
(* itself a strategy adds nothing.                                         *)
BenchmarkIsExplained ==
  LET rs == Fractional(Desk)
      rb == Fractional(Model)
      r == Compare(rs, rb)
      rest == [t \in DOMAIN days |-> Minus(rs[t], Plus(r.alpha, Product(r.beta, rb[t])))]
  IN  Len(days) >= 3 => (r # Refused =>
        /\ SumOf(rest) = Zero /\ DotOf(rest, rb) = Zero
        /\ AtLeast(r.error, SampleVariance(rest))
        /\ (r.up = NaN) = (\A t \in DOMAIN days : Model[t] <= 0)
        /\ LET self == Compare(rb, rb)
           IN  self.beta = One /\ self.alpha = Zero /\ self.error = Zero
               /\ self.up \in {One, NaN} /\ self.down \in {One, NaN})

-----------------------------------------------------------------------------
(* What must be true of the machines.                                      *)

Cost(p, h) == Times(SumOf([i \in DOMAIN h |-> Times(Sized(h[i]), p.cost[i])]), p.weight)
Objective(p, h) == Plus(RiskSquared(p.cov, Residual(p, h)), Cost(p, h))
Tried == {Frac(n, 2) : n \in -4..4}
(* Each coordinate just placed is the best for where the others are; the   *)
(* basket is never worse than no hedge, nor riskier; and a hedge that no   *)
(* longer moves is the best there is.                                      *)
HedgeIsSound ==
  LET p == hedge.problem
      h == hedge.h
      was == IF hedge.at = 1 THEN Len(h) ELSE hedge.at - 1
  IN  hedge.status # "refused" =>
        /\ AtLeast(Objective(p, Start(p).h), Objective(p, h))
        /\ AtLeast(RiskSquared(p.cov, Residual(p, Start(p).h)), RiskSquared(p.cov, Residual(p, h)))
        /\ (hedge.status = "running" /\ (hedge.sweeps > 0 \/ hedge.at > 1)) =>
             \A x \in Tried : AtLeast(Objective(p, [h EXCEPT ![was] = x]), Objective(p, h))
        /\ (hedge.status = "hedged" /\ hedge.moved = Zero) =>
             \A x, y \in Tried : AtLeast(Objective(p, <<x, y>>), Objective(p, h))

(* The level is what the weighted returns imply, through every change of   *)
(* its members; capitalization weights drift to the new weights by         *)
(* themselves, equal ones do not.                                          *)
LevelIsChained ==
  /\ Level(index) = index.grown
  /\ Sum(CapWeights(index)) = One /\ Sum(PriceWeights(index)) = One
  /\ \A n \in DOMAIN index.prices, price \in Prices :
       LET y == Repriced(index, n, price)
           held(w) == Parts([k \in DOMAIN w |-> Times(Over(w[k], index.prices[k]), y.prices[k])])
       IN  /\ Turnover(held(CapWeights(index)), CapWeights(y)) = Zero
           /\ (Turnover(held(EqualWeights(index)), EqualWeights(y)) = Zero) =
                (price = index.prices[n] \/ Cardinality(DOMAIN index.prices) = 1)

-----------------------------------------------------------------------------
(* What must be true of an answer.                                         *)

(* Closing a position that hedges raises the risk, and no position's       *)
(* closing saves more than its component; the breaking shock loses what it *)
(* is asked to and no likelier shock does; a ladder's rungs are scenarios; *)
(* the largest name bounds the concentration, few names breach a limit.    *)
(* Of saved = root of v less root of w: saved is at most k / root of v.    *)
SavesAtMost(v, w, k) == v <= k \/ (v - k) * (v - k) <= v * w
BookIsRight(q) ==
  LET w == q.w
      c == q.cov
      v == VarianceOf(c, w)
      a == Allocate(c, w)
      r == ReverseStress(c, w, q.loss)
      biggest == Max({0} \union {Abs(w[i]) : i \in DOMAIN w})
      only(f, x) == [i \in DOMAIN w |-> IF i = f THEN x ELSE Zero]
  IN  /\ (a = Refused) = (v = 0)
      /\ v > 0 =>
           /\ SeqSum(a.components) = v
           /\ \A i \in DOMAIN w :
                /\ a.components[i] < 0 => RestOf(c, w, i) > v
                /\ SavesAtMost(v, RestOf(c, w, i), a.components[i])
           /\ LinearPnl(w, r.shocks) = Whole(-q.loss)
           /\ \A y \in [DOMAIN w -> -1..1] :
                VarianceOf(c, y) * v >= Products(w, Exposed(c, y)) * Products(w, Exposed(c, y))
      /\ \A f \in DOMAIN w, s \in 0..q.steps :
           SensitivityLadder(w, f, q.range, q.steps, q.gamma)[s] =
             ScenarioPnl(w, only(f, Rung(q.range, q.steps, s)), q.gamma)
      /\ biggest > 0 =>
           /\ AtLeast(TopShare(w, 1), Herfindahl(w)) /\ AtLeast(Times(Herfindahl(w), Len(w)), One)
           /\ TopShare(w, Len(w)) = One
           /\ AtLeast(TopShare(w, 2), TopShare(w, 1))
           /\ Cardinality(LimitBreaches(w, Frac(1, 2))) <= 1

(* Slower factors can only add; a horizon whose factors add nothing new    *)
(* changes nothing; a calmer stress is no discount.                        *)
HorizonsAreRight(q) ==
  LET n == Len(q.es)
      sq == CascadeSquared(q.es, q.horizons)
      falls == \A j \in 2..n : q.es[j] <= q.es[j - 1]
      merged == CascadeSquared(SubSeq(q.es, 1, n - 1), SubSeq(q.horizons, 1, n - 2) \o <<q.horizons[n]>>)
  IN  /\ AtLeast(StressCalibrated(q.es[1], q.es[n], 2), Whole(q.es[1]))
      /\ (sq # Refused /\ n > 1) =>
           /\ AtLeast(sq, Whole(q.es[1] * q.es[1]))
           /\ falls => AtLeast(Frac(q.es[1] * q.es[1] * q.horizons[n], 10), sq)
           /\ (n > 2 /\ q.es[n] = q.es[n - 1]) => sq = merged

(* Jitter changes when and in what sizes, never how much: no child is      *)
(* negative, what is done by each child strays by at most half the next,   *)
(* times stay in order, in their own intervals and before the end.         *)
JitterKeepsTheSchedule(q) ==
  LET out == JitterSizes(q.sizes, q.share, q.draws)
      times == JitterTimes(q.times, q.start, q.share, q.draws)
  IN  /\ SeqSum(out) = SeqSum(q.sizes)
      /\ \A i \in DOMAIN out :
           /\ out[i] >= 0
           /\ i < Len(out) => 2 * Abs(SumTo(out, i) - SumTo(q.sizes, i)) <= q.sizes[i + 1]
      /\ times[1] >= q.start /\ times[Len(times)] <= q.times[Len(times)]
      /\ \A i \in DOMAIN times :
           /\ i > 1 => times[i - 1] < times[i]
           /\ AtLeast(Times(q.share, GapBefore(q.times, i, q.start)), Whole(Abs(times[i] - q.times[i])))

(* What posting decides at a chance of being filled, the region says of    *)
(* that chance; they differ only where both cost the same.                 *)
RegionIsTheDecision(q) ==
  \A k \in 0..8 :
    LET p == Frac(k, 8) IN
    /\ Posts(q.h, p, q.a, q.d, q.r) => Holds(PostRegion(q.h, q.a, q.d, q.r), p)
    /\ (Holds(PostRegion(q.h, q.a, q.d, q.r), p) /\ ~Posts(q.h, p, q.a, q.d, q.r)) =>
         PostCost(q.h, p, q.a, q.d, q.r) = Whole(q.h)

(* A quote keeps its width and stays around the mid, whatever is held; the *)
(* more is held the lower it is, equally far for as much owed, and no      *)
(* lower beyond the limit; what is quoted can be dealt: the bid is         *)
(* positive (skewed_quoter.py:56-63).                                         *)
QuoteIsShaded(q) ==
  LET of(inventory) == SkewedQuote(q.mid, q.half, inventory, q.limit, q.fraction)
      now == of(q.inventory)
  IN  now # Refused =>
        /\ Less(Zero, now.bid) /\ Less(now.bid, Whole(q.mid)) /\ Less(Whole(q.mid), now.ask)
        /\ Minus(now.ask, now.bid) = Frac(2 * q.half * q.mid, 10000)
        /\ Plus(now.skew, of(-q.inventory).skew) = Zero
        /\ ~Less(now.bid, of(q.inventory + 1).bid) /\ ~Less(now.ask, of(q.inventory + 1).ask)
        /\ Abs(q.inventory) >= q.limit => now.skew = Product(Frac(q.inventory, Abs(q.inventory)), of(q.limit).skew)

(* What is shuffled says nothing of a signal that ranks alike on every     *)
(* date: its p is 1.  A p is never 0, as extreme is as extreme for the     *)
(* signal turned round, and the pairing in time is as extreme as itself.   *)
IsStatic(ic) == \A i, k \in DOMAIN ic : ic[i] = ic[k]
Negated(ic) == [i \in DOMAIN ic |-> [j \in DOMAIN ic |-> IF ic[i][j] = NaN THEN NaN ELSE Minus(Zero, ic[i][j])]]
ShuffleIsTheNull(q) ==
  LET p(shuffles) == PermutationP(q.ic, shuffles)
      counted == MeanIcOf(q.ic, InTime(q.ic)) # NaN
  IN  /\ Less(Zero, p(q.shuffles)) /\ ~Less(One, p(q.shuffles))
      /\ p(q.shuffles) = PermutationP(Negated(q.ic), q.shuffles)
      /\ p(q.shuffles \o <<InTime(q.ic)>>) =
           Frac((p(q.shuffles)[1] * (Len(q.shuffles) + 1)) \div p(q.shuffles)[2] + (IF counted THEN 1 ELSE 0),
                Len(q.shuffles) + 2)
      /\ (IsStatic(q.ic) /\ counted) => p(q.shuffles) = One

(* A route with a leg nobody quotes never wins; dividing by a leg is       *)
(* multiplying by its inverse; legs that are not crossed make no crossed   *)
(* cross, and both routes winning means the direct market is the wider.    *)
OtherWayRound(b) == [bid |-> Quotient(One, b.ask), ask |-> Quotient(One, b.bid)]
Quoted(b) == Priced(b.bid) /\ Priced(b.ask)
Uncrossed(b) == AtLeast(b.ask, b.bid)
RoutesCompare(q) ==
  LET buy(op, b) == BuySavings(q.direct, op, q.a, b)
      sell(op, b) == SellSavings(q.direct, op, q.a, b)
  IN  /\ \A op \in {"multiply", "divide"} :
           /\ Wins(buy(op, q.b)) => Priced(q.direct.ask) /\ Priced(q.a.ask)
           /\ Wins(sell(op, q.b)) => Priced(q.direct.bid) /\ Priced(q.a.bid)
           /\ (Quoted(q.a) /\ Quoted(q.b) /\ Uncrossed(q.a) /\ Uncrossed(q.b)) =>
                /\ AtLeast(SyntheticAsk(op, q.a, q.b), SyntheticBid(op, q.a, q.b))
                /\ (Wins(buy(op, q.b)) /\ Wins(sell(op, q.b))) => Less(q.direct.bid, q.direct.ask)
      /\ Quoted(q.b) => /\ buy("divide", q.b) = buy("multiply", OtherWayRound(q.b))
                        /\ sell("divide", q.b) = sell("multiply", OtherWayRound(q.b))

(* A fund that only held the index is worth 1 of it, one worth more beat   *)
(* it, and over a flat index that is its plain multiple; desmoothing finds *)
(* the returns an appraisal smoothed; an average of a window lies in it.   *)
HeldIn(q) == Minus(Grown(q.contributions, q.levels), Grown(q.distributions, q.levels))
Appraised(r, phi) ==
  LET s[t \in 1..Len(r)] ==
        IF t = 1 THEN r[1] ELSE Plus(Product(Minus(One, phi), r[t]), Product(phi, s[t - 1]))
  IN  Tabulated([t \in 1..Len(r) |-> s[t]])
FundIsJudged(q) ==
  LET pme(nav) == KsPme(q.contributions, q.distributions, nav, q.levels)
      flat == [t \in DOMAIN q.levels |-> 1]
      vwap == WindowVwap(q.levels, q.contributions)
      returns == Fractional(q.levels)
  IN  /\ SeqSum(q.contributions) > 0 =>
           /\ ~Less(HeldIn(q), Zero) => pme(HeldIn(q)) = One /\ Less(One, pme(Plus(HeldIn(q), One)))
           /\ KsPme(q.contributions, q.distributions, One, flat) =
                Tvpi(SeqSum(q.contributions), SeqSum(q.distributions), One)
           /\ AtLeast(vwap, Whole(Min({q.levels[t] : t \in DOMAIN q.levels})))
           /\ AtLeast(Whole(Max({q.levels[t] : t \in DOMAIN q.levels})), vwap)
      /\ WindowVwap(q.levels, flat) = WindowTwap(q.levels)
      /\ \A phi \in {Zero, Frac(1, 2), Frac(2, 3)} : GeltnerDesmooth(Appraised(returns, phi), phi) = returns

(* A curve gives back its pillars, nothing beyond them, and between two    *)
(* pillars a price between theirs; a strict shape holds between them too.  *)
CurveIsRight(q) ==
  LET curve == CurveOf(q.spot, q.tenors, q.prices)
      at(k) == PriceAt(curve, Frac(k, 2))
      last == curve.tenors[Len(curve.tenors)]
  IN  curve # Refused =>
        /\ \A i \in DOMAIN q.tenors : PriceAt(curve, Whole(q.tenors[i])) = Whole(q.prices[i])
        /\ \A k \in 0..(2 * last + 2) : (at(k) = NaN) = (k < 2 * q.tenors[1] \/ k > 2 * last)
        /\ \A j, k \in (2 * q.tenors[1])..(2 * last) : j < k =>
             /\ IsContango(curve) => Less(at(j), at(k))
             /\ IsBackwardation(curve) => Less(at(k), at(j))
        /\ ~(IsContango(curve) /\ IsBackwardation(curve))

(* A resampled path starts a block where it is told and then follows the   *)
(* history, round its end: the walk, one step after the other.             *)
Walked(n, restarts, starts) ==
  LET at[t \in 1..n] ==
        IF t = 1 THEN starts[1]
        ELSE IF t \in restarts THEN starts[Cardinality({r \in restarts : r <= t}) + 1]
        ELSE (at[t - 1] % n) + 1
  IN  [t \in 1..n |-> at[t]]
PathIsTheWalk(q) == Resampled(q.n, q.restarts, q.starts) = Walked(q.n, q.restarts, q.starts)

AnswersAreRight ==
  asked # Refused =>
    CASE asked.kind = "book" -> BookIsRight(asked)
      [] asked.kind = "horizons" -> HorizonsAreRight(asked)
      [] asked.kind = "jitter" -> JitterKeepsTheSchedule(asked)
      [] asked.kind = "placement" -> RegionIsTheDecision(asked)
      [] asked.kind = "cross" -> RoutesCompare(asked)
      [] asked.kind = "fund" -> FundIsJudged(asked)
      [] asked.kind = "curve" -> CurveIsRight(asked)
      [] asked.kind = "quote" -> QuoteIsShaded(asked)
      [] asked.kind = "shuffles" -> ShuffleIsTheNull(asked)
      [] asked.kind = "path" -> PathIsTheWalk(asked)
=============================================================================
