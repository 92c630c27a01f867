----------------------------- MODULE CrossSection -----------------------------
(***************************************************************************)
(* How a cross-section of names is scored, graded and explained: the       *)
(* factors of alpha/factors.py over a panel of closes that grows bar by    *)
(* bar, signal_evaluator.py and alpha_report.py that grade them,           *)
(* fama_macbeth.py and calendar_anomalies.py that explain returns, the     *)
(* filters and the ranking of screener/, and the linear solver and the     *)
(* statistics of util/math_utils.py they rest on.                          *)
(*                                                                         *)
(* An index is one more than in the code.  A quotient by a root is kept as *)
(* its signed square, so a correlation, a t-statistic, a band position and *)
(* a deviation keep their sign and their order; what adds several of them  *)
(* up (a mean IC) is left out.                                             *)
(***************************************************************************)
EXTENDS Indicators, FiniteSets, FiniteSetsExt

CONSTANTS
  Symbols,       (* 1..n, sorted as AlphaContext.of sorts them             *)
  Panels,        (* the closes a bar can bring: [Symbols -> Nat]           *)
  MaxBars,       (* bound                                                  *)
  Listed,        (* [Symbols -> the bars at which it is a member]          *)
  Fast, Slow, Signal, Span, Lookback, Skip, Period, Devs,  (* of factors   *)
  Horizon, Quantiles,                                      (* of grading   *)
  Rows, MaxRows, (* a name of a regression: [y, x], NaN for the missing    *)
  Months, MaxMonths, MinMonths,           (* cross-sections; their number  *)
  Dated, MaxDated, MinDated,              (* [day, r]; their number        *)
  MonthStarts, BeforeEnd, AfterStart,     (* of the calendar               *)
  Bars, MaxStock, Kijun, Share,           (* of one stock that is screened *)
  Candidates, MaxListing, Criteria        (* metrics that are ranked       *)

VARIABLES
  panel,      (* the closes so far                                         *)
  rows,       (* of one regression                                         *)
  months,     (* of a Fama-MacBeth regression                              *)
  dated,      (* returns with their days                                   *)
  ohlcv,      (* one stock's bars                                          *)
  listing     (* the stocks that are ranked, metrics of each               *)

Total(f, set) == FoldSet(LAMBDA s, sum : Plus(f[s], sum), Zero, set)
Refused == <<>>

-----------------------------------------------------------------------------
(* Factors of a series v of closes at bar i.                               *)

SmaAt(v, i, p) == Mean(SubSeq(v, i - p + 1, i))
Toward(x, close, p) == EmaStep(p, x, close)
(* One pass from a real price carries both averages and the signal.        *)
MacdStep(s, close) ==
  LET f == Toward(s.fast, close, Fast) l == Toward(s.slow, close, Slow)
  IN  [fast |-> f, slow |-> l, signal |-> Toward(s.signal, Minus(f, l), Signal)]
MacdFrom(v, start, i) ==
  FoldLeft(MacdStep, [fast |-> v[start], slow |-> v[start], signal |-> Zero], SubSeq(v, start + 1, i))
Histogram(s) == Minus(Minus(s.fast, s.slow), s.signal)
MacdAlphaInPrice(v, i) == Histogram(MacdFrom(v, Max({1, i - Span * Slow + 1}), i))
MacdAlpha(v, i) ==
  Quotient(Histogram(MacdFrom(v, Max({1, i - Span * Slow + 1}), i)), v[i])
CrossAlpha(v, i) == Quotient(Minus(SmaAt(v, i, Fast), SmaAt(v, i, Slow)), SmaAt(v, i, Slow))
MomentumAlpha(v, i) == Minus(Quotient(v[i - Skip], v[i - Lookback]), One)
Changes(v, i) == [k \in 1..Period |-> Minus(v[i - Period + k], v[i - Period + k - 1])]
UpDown(gain, loss) ==
  IF Plus(gain, loss) = Zero THEN Zero
  ELSE Quotient(Minus(loss, gain), Plus(gain, loss))
RsiAlpha(v, i) ==
  UpDown(SumOf([k \in 1..Period |-> MostOf(Changes(v, i)[k], Zero)]),
         SumOf([k \in 1..Period |-> MostOf(Minus(Zero, Changes(v, i)[k]), Zero)]))
BandAlpha(v, i) ==
  LET w == SubSeq(v, i - Period + 1, i)
  IN  IF Variance(w) = Zero THEN Zero
      ELSE Quotient(SignedSquare(Minus(Mean(w), v[i])), Times(Variance(w), Devs * Devs))
ReversionAlpha(v, i) == Minus(One, Quotient(v[i], SmaAt(v, i, Lookback)))
CalmAlpha(v, i) ==
  Minus(Zero, Variance([k \in 1..Lookback |->
    Minus(Quotient(v[i - Lookback + k], v[i - Lookback + k - 1]), One)]))

Factors == {"MA_CROSS", "MACD", "MOMENTUM", "RSI", "BOLL", "MEAN_REV", "LOW_VOL"}
MinBars(f) ==
  CASE f = "MA_CROSS" -> Slow [] f = "MACD" -> Slow + Signal [] f \in {"MOMENTUM", "MEAN_REV"} -> Lookback
    [] f = "RSI" -> Period + 1 [] f = "BOLL" -> Period [] f = "LOW_VOL" -> Lookback + 1
PerSymbol(f, v, i) ==
  CASE f = "MA_CROSS" -> CrossAlpha(v, i) [] f = "MACD" -> MacdAlpha(v, i)
    [] f = "MOMENTUM" -> MomentumAlpha(v, i) [] f = "RSI" -> RsiAlpha(v, i)
    [] f = "BOLL" -> BandAlpha(v, i) [] f = "MEAN_REV" -> ReversionAlpha(v, i)
    [] f = "LOW_VOL" -> CalmAlpha(v, i)

Closes(p, s) == Tabulated([i \in DOMAIN p |-> Whole(p[i][s])])
EveryoneActive(s, i) == TRUE
IsActive(s, i) == i \in Listed[s]
Scores(f, p, i) ==
  Tabulated([s \in Symbols |->
     IF i - 1 < MinBars(f) \/ ~IsActive(s, i) THEN NaN ELSE PerSymbol(f, Closes(p, s), i)])

(* Fundamentals: the yields that are known, averaged; profit less leverage. *)
Yield(ratio) == Quotient(One, ratio)
Yields(pe, pb) == {x \in {<<"pe", pe>>, <<"pb", pb>>} : x[2] \notin {NaN, Zero}}
ValueAlpha(pe, pb) ==
  IF Yields(pe, pb) = {} THEN NaN
  ELSE Over(FoldSet(LAMBDA x, sum : Plus(Yield(x[2]), sum), Zero, Yields(pe, pb)),
            Cardinality(Yields(pe, pb)))
QualityAlpha(roe, leverage) ==
  IF roe = NaN THEN NaN ELSE Minus(roe, IF leverage = NaN THEN Zero ELSE Over(leverage, 10))

-----------------------------------------------------------------------------
(* Grading.                                                                *)

ReturnOver(p, s, from, to) == Minus(Frac(p[to][s], p[from][s]), One)
ForwardReturns(p, t) == Tabulated([s \in Symbols |-> ReturnOver(p, s, t, t + Horizon)])
Complete(x, y) == {s \in DOMAIN x : x[s] # NaN /\ y[s] # NaN}

Below(x, set, s) == Cardinality({r \in set : Less(x[r], x[s])})
AtMost(x, set, s) == Cardinality({r \in set : ~Less(x[s], x[r])})
(* Midranks, doubled, less their mean: their sum is zero.                  *)
LowRank(x, set, s) == 2 * Below(x, set, s) + 2 - (Cardinality(set) + 1)
Midrank(x, set, s) == Below(x, set, s) + AtMost(x, set, s) + 1 - (Cardinality(set) + 1)
Ranks(x, set) == [s \in set |-> Midrank(x, set, s)]
Dot(f, g) == FoldSet(LAMBDA s, sum : f[s] * g[s] + sum, 0, DOMAIN f)
Correlation(rx, ry) == CorrelationOf(Dot(rx, ry), Dot(rx, rx), Dot(ry, ry))
Spearman(x, y) ==
  IF Cardinality(Complete(x, y)) < 3 THEN NaN
  ELSE Correlation(Ranks(x, Complete(x, y)), Ranks(y, Complete(x, y)))

(* The weights of gross one that scores imply (the three-deviation clamp   *)
(* binds no book of so few names).                                         *)
ScoredBy(x) == {s \in DOMAIN x : x[s] # NaN}
Spread(x, mean) == Total([s \in DOMAIN x |-> Sized(Minus(x[s], mean))], ScoredBy(x))
WeightsAround(x, mean) ==
  Tabulated([s \in DOMAIN x |->
     IF s \notin ScoredBy(x) \/ Spread(x, mean) = Zero THEN Zero
     ELSE Quotient(Minus(x[s], mean), Spread(x, mean))])
Weights(x) == WeightsAround(x, Over(Total(x, ScoredBy(x)), Cardinality(ScoredBy(x))))
L1(w, v) == Total([s \in DOMAIN w |-> Sized(Minus(w[s], v[s]))], DOMAIN w)

SignOf(x) == IF x[1] > 0 THEN 1 ELSE IF x[1] < 0 THEN -1 ELSE 0
Pairs(x, y) == {s \in Complete(x, y) : x[s] # Zero}
Hits(x, y) == {s \in Pairs(x, y) : SignOf(x[s]) = SignOf(y[s])}

NothingGraded == [ics |-> <<>>, hits |-> 0, pairs |-> 0, turnover |-> Zero, count |-> 0, weights |-> <<>>]
Turned(g, w) ==
  IF g.weights = <<>> THEN g
  ELSE [g EXCEPT !.turnover = Plus(@, Over(L1(w, g.weights), 2)), !.count = @ + 1]
GradedOn(g, x, y, ic, w) ==
  [Turned(g, w) EXCEPT !.ics = Append(@, ic), !.hits = @ + Cardinality(Hits(x, y)),
                       !.pairs = @ + Cardinality(Pairs(x, y)), !.weights = w]
(* A date without an IC is in nobody's denominator.                        *)
GradedIf(g, x, y, ic) == IF ic = NaN THEN g ELSE GradedOn(g, x, y, ic, Weights(x))
Graded(g, x, y) == GradedIf(g, x, y, Spearman(x, y))
Dates(p) == SelectSeq([t \in 1..Len(p) |-> t], LAMBDA t : t + Horizon <= Len(p) /\ (t - 1) % Horizon = 0)
Evaluate(f, p) ==
  FoldLeft(LAMBDA g, t : Graded(g, Scores(f, p, t), ForwardReturns(p, t)), NothingGraded, Dates(p))

(* Ascending and stable: of two alike, the earlier name ranks lower.       *)
RankAmong(x, set, s) ==
  Cardinality({r \in set : Less(x[r], x[s]) \/ (x[r] = x[s] /\ r < s)})
BucketFromOne(rank, n) == ((rank + 1) * Quantiles) \div n
Bucket(rank, n) == (rank * Quantiles) \div n
BucketsOf(x, set) ==
  [b \in 0..(Quantiles - 1) |-> {s \in set : Bucket(RankAmong(x, set, s), Cardinality(set)) = b}]
Bucketed(x, set) ==
  IF Cardinality(set) < Quantiles THEN [b \in 0..(Quantiles - 1) |-> {}] ELSE BucketsOf(x, set)

(* The first horizon at which the IC is below half the first, on the line  *)
(* between it and the one before; 0 is never.                              *)
CrossedAt(hs, ics, k, target) ==
  Plus(Whole(hs[k - 1]),
       Times(Quotient(Minus(ics[k - 1], target), Minus(ics[k - 1], ics[k])), hs[k] - hs[k - 1]))
HalfLifeFrom(hs, ics, target, crossed) ==
  IF ~Less(Zero, ics[1]) \/ crossed = {} THEN Zero ELSE CrossedAt(hs, ics, Min(crossed), target)
BelowHalf(ics) == {k \in 2..Len(ics) : Less(ics[k], Over(ics[1], 2))}
HalfLife(hs, ics) == HalfLifeFrom(hs, ics, Over(ics[1], 2), BelowHalf(ics))

Peak(v, i) == Highs(SubSeq(v, 1, i))
DrawdownCurve(v) == [i \in DOMAIN v |-> Minus(Quotient(v[i], Peak(v, i)), One)]

-----------------------------------------------------------------------------
(* util/math_utils.py.                                                     *)

PivotRow(m, c) ==
  Min({r \in c..Len(m) : \A o \in c..Len(m) : ~Less(Sized(m[r][c]), Sized(m[o][c]))})
SwappedRows(m, c, r) == [m EXCEPT ![c] = m[r], ![r] = m[c]]
(* Row r less its multiple of row c that clears column c.                  *)
RowLess(row, pivot, k) == Tabulated([j \in DOMAIN row |-> Minus(row[j], Product(k, pivot[j]))])
ClearedBelow(m, c) ==
  Tabulated([r \in DOMAIN m |->
    IF r <= c THEN m[r] ELSE RowLess(m[r], m[c], Quotient(m[r][c], m[c][c]))])
Pivoted(m, c) == SwappedRows(m, c, PivotRow(m, c))
Eliminated(m, c) ==
  IF m = Refused \/ m[PivotRow(m, c)][c] = Zero THEN Refused ELSE ClearedBelow(Pivoted(m, c), c)
BackSubstituted(m) ==
  LET n == Len(m)
      x[i \in 1..n] ==
        Quotient(FoldSet(LAMBDA j, rest : Minus(rest, Product(m[i][j], x[j])), m[i][n + 1], (i + 1)..n),
                 m[i][i])
  IN  Tabulated([i \in 1..n |-> x[i]])
Indices(n) == [i \in 1..n |-> i]
SolveLinear(a, b) ==
  LET m == FoldLeft(Eliminated, [i \in DOMAIN a |-> Append(a[i], b[i])], Indices(Len(a)))
  IN  IF m = Refused THEN Refused ELSE BackSubstituted(m)

Normalized(m, c) == [m EXCEPT ![c] = Tabulated([j \in DOMAIN m[c] |-> Quotient(m[c][j], m[c][c])])]
ClearedAround(m, c) ==
  Tabulated([r \in DOMAIN m |-> IF r = c THEN m[r] ELSE RowLess(m[r], m[c], m[r][c])])
Jordan(m, c) ==
  IF m = Refused \/ m[PivotRow(m, c)][c] = Zero THEN Refused
  ELSE ClearedAround(Normalized(Pivoted(m, c), c), c)
Identity(n) == [i \in 1..n |-> [j \in 1..n |-> IF i = j THEN One ELSE Zero]]
MatrixInverse(a) ==
  LET n == Len(a)
      m == FoldLeft(Jordan, [i \in 1..n |-> a[i] \o Identity(n)[i]], Indices(n))
  IN  IF m = Refused THEN Refused ELSE [i \in 1..n |-> SubSeq(m[i], n + 1, 2 * n)]

(* A mean over its standard error: infinite, with its sign, for a series   *)
(* that never moves, and NaN for one that never moves from zero.           *)
Ratio(num, var) ==
  IF Less(Zero, var) THEN Quotient(SignedSquare(num), var)
  ELSE IF num = Zero THEN NaN ELSE <<SignOf(num), 0>>

-----------------------------------------------------------------------------
(* Regressions: AlphaReport.attribute and FamaMacBeth.fit.                 *)

Design(row) == <<One>> \o row.x
Xtx(rs) ==
  Tabulated([i \in 1..Len(Design(rs[1])) |-> Tabulated([j \in 1..Len(Design(rs[1])) |->
     SumOf([t \in DOMAIN rs |-> Product(Design(rs[t])[i], Design(rs[t])[j])])])])
Xty(rs) ==
  Tabulated([i \in 1..Len(Design(rs[1])) |->
    SumOf([t \in DOMAIN rs |-> Product(Design(rs[t])[i], rs[t].y)])])
Known(row) == row.y # NaN /\ \A k \in DOMAIN row.x : row.x[k] # NaN
Attribute(rs) ==
  IF rs = <<>> \/ \E t \in DOMAIN rs : ~Known(rs[t]) THEN Refused
  ELSE IF Len(rs) <= Len(Design(rs[1])) THEN Refused ELSE SolveLinear(Xtx(rs), Xty(rs))
Residual(row, beta) == Minus(row.y, DotOf(Design(row), beta))
RSquared(rs, beta) ==
  LET ys == [t \in DOMAIN rs |-> rs[t].y]
      around == SquaresOf([t \in DOMAIN rs |-> Minus(ys[t], Mean(ys))])
  IN  IF around = Zero THEN Zero
      ELSE Minus(One, Quotient(SquaresOf([t \in DOMAIN rs |-> Residual(rs[t], beta)]), around))

(* A month too thin or collinear prices nothing, and no other month less.  *)
LambdaOf(rs) ==
  IF rs = <<>> THEN Refused
  ELSE IF Len(rs) < Len(Design(rs[1])) + 1 THEN Refused ELSE SolveLinear(Xtx(rs), Xty(rs))
Prices(month) == LambdaOf(SelectSeq(month, Known))
Premium(series) ==
  [mean |-> Mean(series), t |-> Ratio(Mean(series), Over(SampleVariance(series), Len(series)))]
Lambdas(ms) == SelectSeq(Tabulated([t \in DOMAIN ms |-> Prices(ms[t])]), LAMBDA b : b # Refused)
PremiaOf(used) ==
  IF Len(used) < MinMonths THEN Refused
  ELSE [k \in DOMAIN used[1] |-> Premium([t \in DOMAIN used |-> used[t][k]])]
Premia(ms) == PremiaOf(Lambdas(ms))

-----------------------------------------------------------------------------
(* CalendarAnomalies: day 0 is a Monday, months start at MonthStarts.      *)

MonthOf(d) == Max({k \in DOMAIN MonthStarts : MonthStarts[k] <= d})
DayOfMonth(d) == d - MonthStarts[MonthOf(d)] + 1
DaysInMonth(d) == MonthStarts[MonthOf(d) + 1] - MonthStarts[MonthOf(d)]
ReturnsOn(obs, Test(_)) ==
  LET kept == SelectSeq(obs, LAMBDA o : Test(o.day)) IN [i \in DOMAIN kept |-> kept[i].r]
Profile(v) ==
  IF Len(v) = 0 THEN [mean |-> NaN, t |-> NaN, count |-> 0]
  ELSE [mean |-> Mean(v), count |-> Len(v),
        t |-> IF Len(v) < 2 THEN NaN ELSE Ratio(Mean(v), Over(SampleVariance(v), Len(v)))]
DayOfWeek(obs) == [w \in 0..6 |-> Profile(ReturnsOn(obs, LAMBDA d : d % 7 = w))]
AtTurnLate(d) == DayOfMonth(d) <= AfterStart \/ DayOfMonth(d) >= DaysInMonth(d) - BeforeEnd
AtTurn(d) == DayOfMonth(d) <= AfterStart \/ DayOfMonth(d) > DaysInMonth(d) - BeforeEnd
Welch(in, out) ==
  [inside |-> Mean(in), outside |-> Mean(out), insideCount |-> Len(in), outsideCount |-> Len(out),
   t |-> Ratio(Minus(Mean(in), Mean(out)),
               Plus(Over(SampleVariance(in), Len(in)), Over(SampleVariance(out), Len(out))))]
TurnOfMonth(obs) ==
  LET in == ReturnsOn(obs, AtTurn) out == ReturnsOn(obs, LAMBDA d : ~AtTurn(d))
  IN  IF Len(obs) < MinDated \/ Len(in) < 2 \/ Len(out) < 2 THEN Refused ELSE Welch(in, out)

-----------------------------------------------------------------------------
(* Filters of the screener: what the last bar of one stock looks like.     *)

ColumnOf(bs, name) == Tabulated([i \in DOMAIN bs |-> Whole(bs[i][name])])
H(bs) == ColumnOf(bs, "high")
L(bs) == ColumnOf(bs, "low")
C(bs) == ColumnOf(bs, "close")
V(bs) == ColumnOf(bs, "volume")
LastOf(v) == v[Len(v)]
(* A comparison with NaN is false.                                         *)
Above(x, y) == x # NaN /\ y # NaN /\ Less(y, x)

RsiAbove(bs, level) == Above(LastOf(Rsi(C(bs), Period)), level)
RsiBelow(bs, level) == Above(level, LastOf(Rsi(C(bs), Period)))
PriceAboveSma(bs) == Above(LastOf(C(bs)), LastOf(Sma(C(bs), Period)))
PriceBelowSma(bs) == Above(LastOf(Sma(C(bs), Period)), LastOf(C(bs)))
PriceAboveEma(bs) == Above(LastOf(C(bs)), LastOf(Ema(C(bs), Period)))
OverSignal(m) == Above(LastOf(m.line), LastOf(m.signal))
MacdBullish(bs) == OverSignal(Macd(C(bs), Fast, Slow, Signal))
AdxAbove(bs, level) == Above(LastOf(Adx(H(bs), L(bs), C(bs), Period).adx), level)
Calmer(atr, close, most) == atr # NaN /\ Less(Quotient(atr, close), most)
AtrPercentBelow(bs) == Calmer(LastOf(Atr(H(bs), L(bs), C(bs), Period)), LastOf(C(bs)), Share)
PriceAboveVwap(bs) == Above(LastOf(C(bs)), LastOf(Vwap(H(bs), L(bs), C(bs), V(bs))))
SuperTrendBullish(bs) == LastOf(SuperTrends(H(bs), L(bs), C(bs), Period, 1)).direction = 1
(* The close above the mean by more than Devs deviations.                  *)
Beyond(variance, over) == Less(Zero, over) /\ Less(Times(variance, Devs * Devs), SignedSquare(over))
BeyondBand(close, b) ==
  LastOf(b.middle) # NaN /\ Beyond(LastOf(b.variance), Minus(close, LastOf(b.middle)))
BollingerBreakout(bs) == BeyondBand(LastOf(C(bs)), Bollinger(C(bs), Period))
OverCloud(close, c) == Above(close, LastOf(c.senkouA)) /\ Above(close, LastOf(c.senkouB))
AboveIchimokuCloud(bs) == OverCloud(LastOf(C(bs)), Ichimoku(H(bs), L(bs), C(bs), Fast, Kijun, Slow))
Prior(v, n) == SubSeq(v, Len(v) - n, Len(v) - 1)
Breakout(bs) == Len(bs) >= Lookback + 2 /\ Less(Highs(Prior(H(bs), Lookback)), LastOf(C(bs)))
VolumeSpike(bs) ==
  /\ Len(bs) >= Lookback + 2
  /\ Less(Zero, Mean(Prior(V(bs), Lookback)))
  /\ Less(Times(Mean(Prior(V(bs), Lookback)), 2), LastOf(V(bs)))
GapUp(bs) ==
  Len(bs) >= 2 /\ ~Less(Whole(bs[Len(bs)].open),
                        Product(Whole(bs[Len(bs) - 1].close), Plus(One, Share)))
Year == 4
LastYear(v) == SubSeq(v, Len(v) - Min({Year, Len(v)}) + 1, Len(v))
NearHigh(bs) == ~Less(LastOf(C(bs)), Product(Highs(LastYear(H(bs))), Minus(One, Share)))
NearLow(bs) == ~Less(Product(Lows(LastYear(L(bs))), Plus(One, Share)), LastOf(C(bs)))

(* Which of the filters a stock matches.                                   *)
Level == Whole(50)
Matches(bs) ==
  [rsiAbove |-> RsiAbove(bs, Level), rsiBelow |-> RsiBelow(bs, Level), aboveSma |-> PriceAboveSma(bs),
   belowSma |-> PriceBelowSma(bs), aboveEma |-> PriceAboveEma(bs), macd |-> MacdBullish(bs),
   adx |-> AdxAbove(bs, Whole(25)), calm |-> AtrPercentBelow(bs), aboveVwap |-> PriceAboveVwap(bs),
   superTrend |-> SuperTrendBullish(bs), bollinger |-> BollingerBreakout(bs),
   cloud |-> AboveIchimokuCloud(bs), breakout |-> Breakout(bs), spike |-> VolumeSpike(bs),
   gap |-> GapUp(bs), high |-> NearHigh(bs), low |-> NearLow(bs)]

-----------------------------------------------------------------------------
(* RankingEngine.rank: the criteria weigh a metric scaled over the list.   *)

MetricOf(ls, c) == {ls[i][c] : i \in DOMAIN ls} \ {NaN}
LowestOf(set) == CHOOSE x \in set : \A y \in set : ~Less(y, x)
HighestOf(set) == CHOOSE x \in set : \A y \in set : ~Less(x, y)
Scaled(x, lo, hi) == IF hi = lo THEN Frac(1, 2) ELSE Quotient(Minus(x, lo), Minus(hi, lo))
NormMissingWorst(ls, c, i) ==
  IF ls[i][c] = NaN THEN Zero
  ELSE Scaled(ls[i][c], LowestOf(MetricOf(ls, c)), HighestOf(MetricOf(ls, c)))
Norm(ls, c, i) ==
  IF ls[i][c] = NaN THEN Frac(1, 2)
  ELSE Scaled(ls[i][c], LowestOf(MetricOf(ls, c)), HighestOf(MetricOf(ls, c)))
Preferred(weight, norm) == IF weight < 0 THEN Minus(One, norm) ELSE norm
AllWeight(cs) == FoldSeq(LAMBDA w, sum : Abs(w) + sum, 0, cs)
ScoreOf(cs, ls, i) ==
  SumOf([c \in DOMAIN cs |-> Times(Over(Preferred(cs[c], Norm(ls, c, i)), AllWeight(cs)), Abs(cs[c]))])
(* Best first; the sort is stable, reversed or not.                        *)
BestFirst(score) ==
  SetToSortSeq(DOMAIN score, LAMBDA i, j : Less(score[j], score[i]) \/ (score[i] = score[j] /\ i < j))
Rank(cs, ls) == BestFirst(Tabulated([i \in DOMAIN ls |-> ScoreOf(cs, ls, i)]))

-----------------------------------------------------------------------------
Init == panel = <<>> /\ rows = <<>> /\ months = <<>> /\ dated = <<>> /\ ohlcv = <<>> /\ listing = <<>>

NextBar ==
  /\ Len(panel) < MaxBars /\ \E p \in Panels : panel' = Append(panel, p)
  /\ UNCHANGED <<rows, months, dated, ohlcv, listing>>
NextRow ==
  /\ Len(rows) < MaxRows /\ \E r \in Rows : rows' = Append(rows, r)
  /\ UNCHANGED <<panel, months, dated, ohlcv, listing>>
NextMonth ==
  /\ Len(months) < MaxMonths /\ \E m \in Months : months' = Append(months, m)
  /\ UNCHANGED <<panel, rows, dated, ohlcv, listing>>
Observe ==
  /\ Len(dated) < MaxDated /\ \E d \in Dated : dated' = Append(dated, d)
  /\ UNCHANGED <<panel, rows, months, ohlcv, listing>>
Add ==
  /\ Len(ohlcv) < MaxStock /\ \E b \in Bars : ohlcv' = Append(ohlcv, b)
  /\ UNCHANGED <<panel, rows, months, dated, listing>>
List ==
  /\ Len(listing) < MaxListing /\ \E c \in Candidates : listing' = Append(listing, c)
  /\ UNCHANGED <<panel, rows, months, dated, ohlcv>>

Next == NextBar \/ NextRow \/ NextMonth \/ Observe \/ Add \/ List
Spec == Init /\ [][Next]_<<panel, rows, months, dated, ohlcv, listing>>
-----------------------------------------------------------------------------
(* Properties.                                                             *)

Scoring == IF panel = <<>> THEN {} ELSE Factors
TwiceOf(p) == [t \in DOMAIN p |-> [s \in Symbols |-> 2 * p[t][s]]]

(* A score of a bar stays what it was when later bars arrive: the contract *)
(* no validation can see broken (alpha_factor.py).                         *)
ScoresPeekNowhere ==
  \A f \in Scoring, t \in 1..(Len(panel) - 1) :
    Scores(f, panel, t) = Scores(f, SubSeq(panel, 1, t), t)

(* A score is free of the price level, contrarian factors are against the  *)
(* trend factors on a series that only rises or only falls, and RSI stays  *)
(* within one.                                                             *)
Rising(v, i, n) == i > n /\ \A k \in (i - n + 1)..i : Less(v[k - 1], v[k])
Trend == {"MA_CROSS", "MOMENTUM"}
Contrarian == {"RSI", "BOLL", "MEAN_REV"}
Oriented(f, x) ==
  /\ f \in Trend \cup Contrarian => \A s \in ScoredBy(x) :
       Rising(Closes(panel, s), Len(panel), Len(panel) - 1) => SignOf(x[s]) = IF f \in Trend THEN 1 ELSE -1
  /\ f = "RSI" => \A s \in ScoredBy(x) : ~Less(One, Sized(x[s]))
SameAndOriented(f, x, doubled) == doubled = x /\ Oriented(f, x)
FactorsAreOriented ==
  \A f \in Scoring :
    SameAndOriented(f, Scores(f, panel, Len(panel)), Scores(f, TwiceOf(panel), Len(panel)))

(* A name that is no member at the dates that are graded changes no grade, *)
(* wherever its price goes; hits are among pairs, a book turns over once   *)
(* at most, and only between dates that have an IC.                        *)
Delisted == {s \in Symbols : \A t \in 1..Len(panel) : t \notin Listed[s]}
Elsewhere == [t \in DOMAIN panel |-> [s \in Symbols |-> IF s \in Delisted THEN 1 + t ELSE panel[t][s]]]
GradeIsFair(g, elsewhere) ==
  /\ g = elsewhere
  /\ g.hits <= g.pairs
  /\ g.count = Max({0, Len(g.ics) - 1}) /\ ~Less(Whole(g.count), g.turnover)
  /\ \A k \in DOMAIN g.ics : ~Less(One, Sized(g.ics[k]))
GradesAreFair == \A f \in Scoring : GradeIsFair(Evaluate(f, panel), Evaluate(f, Elsewhere))

(* The rank correlation has two equal sides, turns over with either, sees  *)
(* order alone, and is the sum of squared rank differences when no two     *)
(* ranks are tied.                                                         *)
NewestDate == {t \in Range(Dates(panel)) : t + Horizon = Len(panel)}
Backwards(x) == [s \in DOMAIN x |-> IF x[s] = NaN THEN NaN ELSE Minus(Zero, x[s])]
Untied(x, set) == Cardinality({x[s] : s \in set}) = Cardinality(set)
RankDistance(x, y, set) ==
  FoldSet(LAMBDA s, sum : (Below(x, set, s) - Below(y, set, s)) ^ 2 + sum, 0, set)
ByDistance(x, y, n) == Minus(One, Frac(6 * RankDistance(x, y, Complete(x, y)), n * (n * n - 1)))
IsCorrelation(rho, x, y) ==
  rho # NaN =>
    /\ Spearman(y, x) = rho
    /\ Spearman(Backwards(x), y) = Minus(Zero, rho)
    /\ Untied(x, Complete(x, y)) /\ Untied(y, Complete(x, y)) =>
         rho = SignedSquare(ByDistance(x, y, Cardinality(Complete(x, y))))
Correlated(x, y) == IsCorrelation(Spearman(x, y), x, y)
RankCorrelationIsRight ==
  \A f \in Scoring : \A t \in NewestDate : Correlated(Scores(f, panel, t), ForwardReturns(panel, t))

(* The buckets of a date hold every complete pair once, in order of score, *)
(* and none is larger than another by more than one.                       *)
Fair(b, x, set) ==
  Cardinality(set) >= Quantiles =>
    /\ UNION {b[k] : k \in DOMAIN b} = set
    /\ \A j, k \in DOMAIN b :
         /\ j < k => b[j] \cap b[k] = {} /\ \A r \in b[j], s \in b[k] : ~Less(x[s], x[r])
         /\ Cardinality(b[j]) - Cardinality(b[k]) <= 1
FairlyBucketed(x, set) == Fair(Bucketed(x, set), x, set)
AllBucketed(x, y) == FairlyBucketed(x, Complete(x, y))
BucketsAreFair ==
  \A f \in Scoring : \A t \in NewestDate : AllBucketed(Scores(f, panel, t), ForwardReturns(panel, t))

(* The half-life of a decay lies between the horizons around it, and no    *)
(* earlier horizon was below half; a drawdown is the deepest fall so far.  *)
Series(s) == Closes(panel, s)
DecayIsRight ==
  Len(panel) > 1 => \A s \in Symbols :
    LET ics == [i \in DOMAIN panel |-> Minus(Series(s)[i], Whole(3))]
        hs == [i \in DOMAIN panel |-> i * i]
        half == HalfLife(hs, ics)
    IN  /\ half # Zero =>
             \E k \in 2..Len(ics) :
               /\ ~Less(half, Whole(hs[k - 1])) /\ Less(half, Whole(hs[k]))
               /\ \A j \in 1..(k - 1) : ~Less(Times(ics[j], 2), ics[1])
               /\ Less(Times(ics[k], 2), ics[1])
        /\ \A i, j \in DOMAIN panel :
             j <= i => ~Less(Minus(Quotient(Series(s)[i], Series(s)[j]), One), DrawdownCurve(Series(s))[i])

(* A system is solved or, if and only if it is singular, refused; and the  *)
(* inverse undoes the matrix.                                              *)
Det2(a) == Minus(Product(a[1][1], a[2][2]), Product(a[1][2], a[2][1]))
Minor(a, c) == [r \in 1..2 |-> [j \in 1..2 |-> a[r + 1][IF j < c THEN j ELSE j + 1]]]
Det(a) ==
  IF Len(a) = 2 THEN Det2(a)
  ELSE SumOf([c \in 1..3 |-> Times(Product(a[1][c], Det2(Minor(a, c))), IF c = 2 THEN -1 ELSE 1)])
FullRows == SelectSeq(rows, Known)
Solves(x, inv, a, b, singular) ==
  /\ (x = Refused) <=> singular
  /\ (inv = Refused) <=> singular
  /\ x # Refused => MatVec(a, x) = b /\ MatVec(inv, b) = x
SystemIsSolved(a, b) == Solves(SolveLinear(a, b), MatrixInverse(a), a, b, Det(a) = Zero)
SystemsAreSolved == FullRows # <<>> => SystemIsSolved(Xtx(FullRows), Xty(FullRows))

(* What is left of the returns is unrelated to every factor, and the fit   *)
(* explains between nothing and all of them.                               *)
IsOls(beta) ==
  beta # Refused =>
    /\ \A k \in DOMAIN beta :
         SumOf([t \in DOMAIN rows |-> Product(Residual(rows[t], beta), Design(rows[t])[k])]) = Zero
    /\ ~Less(RSquared(rows, beta), Zero) /\ ~Less(One, RSquared(rows, beta))
AttributionIsOls == IsOls(Attribute(rows))

(* A month that prices nothing, and a name with something missing, leave   *)
(* the premia as they are; a premium is among those of the months.         *)
Completed(ms) == [t \in DOMAIN ms |-> SelectSeq(ms[t], Known)]
PricedMonths == SelectSeq(months, LAMBDA m : Prices(m) # Refused)
IsAmong(x, set) == \E y, z \in set : ~Less(x, y) /\ ~Less(z, x)
OfTheMonths(premia, lambdas) ==
  premia # Refused =>
    \A k \in DOMAIN premia : IsAmong(premia[k].mean, {lambdas[t][k] : t \in DOMAIN lambdas})
SamePremia(premia, priced, completed) ==
  premia = priced /\ premia = completed /\ OfTheMonths(premia, Lambdas(months))
PremiaAreOfTheMonths ==
  SamePremia(Premia(months), Premia(PricedMonths), Premia(Completed(months)))

(* Every return is of one weekday and of one side of the month's turn, and *)
(* the turn is the days next to a first of the month.                      *)
ReturnTotal == SumOf([i \in DOMAIN dated |-> dated[i].r])
NextToFirst(d) ==
  \E k \in DOMAIN MonthStarts : MonthStarts[k] - BeforeEnd <= d /\ d < MonthStarts[k] + AfterStart
Weighted(profile) == IF profile.count = 0 THEN Zero ELSE Times(profile.mean, profile.count)
OnBothSides(turn) ==
  turn # Refused =>
    Plus(Times(turn.inside, turn.insideCount), Times(turn.outside, turn.outsideCount)) = ReturnTotal
ReturnsAreCountedOnce ==
  /\ FoldFunction(LAMBDA p, sum : Plus(Weighted(p), sum), Zero, DayOfWeek(dated)) = ReturnTotal
  /\ \A i \in DOMAIN dated : AtTurn(dated[i].day) <=> NextToFirst(dated[i].day)
  /\ OnBothSides(TurnOfMonth(dated))

(* A percentile is among the values around its rank and rises with p.      *)
Quarters == 0..4
SortedReturns == SortSeq([i \in DOMAIN dated |-> dated[i].r], Less)
PercentilesAreOrdered ==
  dated # <<>> =>
    /\ PercentileSorted(SortedReturns, Zero) = SortedReturns[1]
    /\ PercentileSorted(SortedReturns, One) = SortedReturns[Len(dated)]
    /\ \A k \in 1..4 : ~Less(PercentileSorted(SortedReturns, Frac(k, 4)),
                             PercentileSorted(SortedReturns, Frac(k - 1, 4)))

(* A stock too young for a filter does not match it, none matches two that *)
(* exclude each other, and no filter depends on the currency of the price. *)
Needs ==
  [rsiAbove |-> Period + 1, rsiBelow |-> Period + 1, aboveSma |-> Period, belowSma |-> Period,
   aboveEma |-> Period, macd |-> Slow + Signal - 1, adx |-> 2 * Period + 1, calm |-> Period, aboveVwap |-> 1,
   superTrend |-> Period, bollinger |-> Period, cloud |-> Kijun + Max({Fast, Kijun, Slow}),
   breakout |-> Lookback + 1, spike |-> Lookback + 1, gap |-> 2, high |-> 1, low |-> 1]
InCents(b) == [b EXCEPT !.open = 2 * @, !.high = 2 * @, !.low = 2 * @, !.close = 2 * @]
Sound(m, inCents) ==
  /\ \A f \in DOMAIN m : m[f] => Len(ohlcv) >= Needs[f]
  /\ ~(m.rsiAbove /\ m.rsiBelow) /\ ~(m.aboveSma /\ m.belowSma)
  /\ m.bollinger => m.aboveSma
  /\ m = inCents
FiltersAreSound ==
  ohlcv # <<>> => Sound(Matches(ohlcv), Matches([i \in DOMAIN ohlcv |-> InCents(ohlcv[i])]))

(* A rank lists every stock once, the better first and of two alike the    *)
(* one that came first; it does not depend on the unit of a metric, a      *)
(* metric weighed against is its opposite weighed for, a missing one says  *)
(* nothing, and a stock at least as good in everything is nowhere behind.  *)
Mapped(ls, c, Of(_)) == [i \in DOMAIN ls |-> IF ls[i][c] = NaN THEN ls[i] ELSE [ls[i] EXCEPT ![c] = Of(@)]]
AsGood(i, j) ==
  \A c \in DOMAIN Criteria :
    /\ listing[i][c] # NaN /\ listing[j][c] # NaN
    /\ IF Criteria[c] < 0 THEN ~Less(listing[j][c], listing[i][c]) ELSE ~Less(listing[i][c], listing[j][c])
RankIsFair(rank) ==
  /\ Range(rank) = DOMAIN listing /\ Len(rank) = Len(listing)
  /\ \A c \in DOMAIN Criteria :
       /\ Rank(Criteria, Mapped(listing, c, LAMBDA x : Plus(Times(x, 3), One))) = rank
       /\ Rank([Criteria EXCEPT ![c] = -@], Mapped(listing, c, LAMBDA x : Minus(Zero, x))) = rank
  /\ \A j, k \in DOMAIN rank :
       j < k /\ AsGood(rank[k], rank[j]) =>
         rank[j] < rank[k] /\ ScoreOf(Criteria, listing, rank[j]) = ScoreOf(Criteria, listing, rank[k])
RanksAreFair == listing # <<>> => RankIsFair(Rank(Criteria, listing))
=============================================================================
