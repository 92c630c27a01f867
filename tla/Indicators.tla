------------------------------ MODULE Indicators ------------------------------
(***************************************************************************)
(* The batch indicators of indicators/indicators.py: an array in, an array *)
(* out, NaN on warm-up bars.  Arrays are sequences of exact fractions, and *)
(* an index here is one more than in the code.  Where the code takes a     *)
(* square root (bollinger, rolling_std) the variance is kept; the records  *)
(* of several arrays are functions from a name to an array.                *)
(***************************************************************************)
EXTENDS Integers, Sequences, SequencesExt, Fractions

NaN == <<0, 0>>
Zero == Whole(0)
Hundred == Whole(100)

SumOf(w) == FoldSeq(Plus, Zero, w)
Mean(w) == Over(SumOf(w), Len(w))
Highs(w) == FoldSeq(MostOf, w[1], w)
Lows(w) == FoldSeq(LeastOf, w[1], w)

\* An array is computed once, not each time it is read.
Tabulated(f) == <<>> \o f
\* An array from what it holds at each index, on the bars from first on.
From(n, first, At(_)) == Tabulated([i \in 1..n |-> IF i < first THEN NaN ELSE At(i)])
\* A trailing window of p values at every bar that has one.
Trailing(v, p, Of(_)) == From(Len(v), p, LAMBDA i : Of(SubSeq(v, i - p + 1, i)))
Together(u, v, Of(_, _)) ==
  Tabulated([i \in DOMAIN u |-> IF u[i] = NaN \/ v[i] = NaN THEN NaN ELSE Of(u[i], v[i])])
ShiftedBack(v, k) == [i \in DOMAIN v |-> IF i + k \in DOMAIN v THEN v[i + k] ELSE NaN]
Shifted(v, k) == [i \in DOMAIN v |-> IF i - k \in DOMAIN v THEN v[i - k] ELSE NaN]

\* A recurrence: the mean of the first p, then Step(previous, value).
Smoothed(v, p, Step(_, _)) ==
  LET s[i \in Nat] == IF i = p THEN Mean(SubSeq(v, 1, p)) ELSE Step(s[i - 1], v[i])
  IN  From(Len(v), p, LAMBDA i : s[i])
Wilder(v, p) == Smoothed(v, p, LAMBDA prev, x : Over(Plus(Times(prev, p - 1), x), p))

-----------------------------------------------------------------------------
(* Moving averages.                                                        *)
Sma(v, p) == Trailing(v, p, Mean)
EmaStep(p, prev, x) == Plus(prev, Over(Times(Minus(x, prev), 2), p + 1))
Ema(v, p) == Smoothed(v, p, LAMBDA prev, x : EmaStep(p, prev, x))
Wma(v, p) == Trailing(v, p, LAMBDA w :
  Over(Times(SumOf([k \in 1..p |-> Times(w[k], k)]), 2), p * (p + 1)))

-----------------------------------------------------------------------------
(* Momentum and oscillators.                                               *)
Gains(v) == [i \in 1..(Len(v) - 1) |-> MostOf(Minus(v[i + 1], v[i]), Zero)]
Losses(v) == [i \in 1..(Len(v) - 1) |-> MostOf(Minus(v[i], v[i + 1]), Zero)]
ToRsi(gain, loss) ==
  IF loss = Zero THEN (IF gain = Zero THEN Whole(50) ELSE Hundred)
  ELSE Quotient(Product(Hundred, gain), Plus(gain, loss))
RsiFrom(n, p, gain, loss) == From(n, p + 1, LAMBDA i : ToRsi(gain[i - 1], loss[i - 1]))
Rsi(v, p) ==
  IF Len(v) <= p THEN [i \in DOMAIN v |-> NaN]
  ELSE RsiFrom(Len(v), p, Wilder(Gains(v), p), Wilder(Losses(v), p))

Momentum(v, p) == Together(v, Shifted(v, p), Minus)
Roc(v, p) ==
  Together(v, Shifted(v, p), LAMBDA x, before :
    Product(Minus(Quotient(x, before), Whole(1)), Hundred))

(* The signal line runs over the valid part of the line only.              *)
MacdWith(line, sig) == [line |-> line, signal |-> sig, hist |-> Together(line, sig, Minus)]
SignalLine(line, slow, sig) == From(Len(line), slow, LAMBDA i : sig[i - slow + 1])
MacdOf(line, slow, signal) ==
  MacdWith(line, SignalLine(line, slow, Ema(SubSeq(line, slow, Len(line)), signal)))
Macd(v, fast, slow, signal) == MacdOf(Together(Ema(v, fast), Ema(v, slow), Minus), slow, signal)

(* _smooth_ignoring_nan: the mean of a window without a NaN.               *)
Smooth(v, p) ==
  IF p <= 1 THEN v
  ELSE Trailing(v, p, LAMBDA w : IF \E k \in DOMAIN w : w[k] = NaN THEN NaN ELSE Mean(w))
Within(x, lo, hi) ==
  IF hi = lo THEN Whole(50) ELSE Product(Quotient(Minus(x, lo), Minus(hi, lo)), Hundred)
RawStochastic(r, p, stoch) ==
  From(Len(r), p + stoch, LAMBDA i :
    Within(r[i], Lows(SubSeq(r, i - stoch + 1, i)), Highs(SubSeq(r, i - stoch + 1, i))))
StochasticWith(fast, d) == [k |-> fast, d |-> Smooth(fast, d)]
StochasticRsi(v, p, stoch, k, d) == StochasticWith(Smooth(RawStochastic(Rsi(v, p), p, stoch), k), d)

Highest(v, p) == Trailing(v, p, Highs)
Lowest(v, p) == Trailing(v, p, Lows)
WilliamsR(high, low, close, p) ==
  LET hh == Highest(high, p) ll == Lowest(low, p)
  IN  From(Len(close), p, LAMBDA i :
        IF hh[i] = ll[i] THEN Whole(-50)
        ELSE Times(Quotient(Minus(hh[i], close[i]), Minus(hh[i], ll[i])), -100))

Typical(high, low, close) ==
  [i \in DOMAIN close |-> Over(Plus(Plus(high[i], low[i]), close[i]), 3)]
Distance(x, y) == MostOf(Minus(x, y), Minus(y, x))
Deviation(w) == Mean([k \in DOMAIN w |-> Distance(w[k], Mean(w))])
Cci(high, low, close, p) ==
  Trailing(Typical(high, low, close), p, LAMBDA w :
    IF Deviation(w) = Zero THEN Zero
    ELSE Quotient(Times(Minus(w[p], Mean(w)), 1000), Times(Deviation(w), 15)))

-----------------------------------------------------------------------------
(* Volatility and range.                                                   *)
TrueRange(high, low, close) ==
  Tabulated([i \in DOMAIN close |->
     IF i = 1 THEN Minus(high[1], low[1])
     ELSE MostOf(Minus(high[i], low[i]),
                 MostOf(Distance(high[i], close[i - 1]), Distance(low[i], close[i - 1])))])
Atr(high, low, close, p) == Wilder(TrueRange(high, low, close), p)

Variance(w) == Mean([k \in DOMAIN w |-> Product(Minus(w[k], Mean(w)), Minus(w[k], Mean(w)))])
RollingVariance(v, p) == Trailing(v, p, Variance)
Bollinger(v, p) == [middle |-> Sma(v, p), variance |-> RollingVariance(v, p)]
UpperBand(mid, atr, mult) == Together(mid, atr, LAMBDA m, a : Plus(m, Times(a, mult)))
LowerBand(mid, atr, mult) == Together(mid, atr, LAMBDA m, a : Minus(m, Times(a, mult)))
KeltnerOf(mid, atr, mult) ==
  [middle |-> mid, upper |-> UpperBand(mid, atr, mult), lower |-> LowerBand(mid, atr, mult)]
Keltner(high, low, close, p, atrP, mult) ==
  KeltnerOf(Ema(close, p), Atr(high, low, close, atrP), mult)
Half(x, y) == Over(Plus(x, y), 2)
MidChannel(high, low, p) == Together(Highest(high, p), Lowest(low, p), Half)
Donchian(high, low, p) ==
  [upper |-> Highest(high, p), lower |-> Lowest(low, p), middle |-> MidChannel(high, low, p)]

(* Directional movement, Wilder-smoothed sums; nothing at all is returned  *)
(* for an array of 2p bars or fewer.                                       *)
Leading(own, other) == IF Less(other, own) /\ Less(Zero, own) THEN own ELSE Zero
UpMoves(v) == [i \in DOMAIN v |-> IF i = 1 THEN Zero ELSE Minus(v[i], v[i - 1])]
DownMoves(v) == [i \in DOMAIN v |-> IF i = 1 THEN Zero ELSE Minus(v[i - 1], v[i])]
WilderSummed(v, p) ==
  LET s[i \in Nat] == IF i = p + 1 THEN SumOf(SubSeq(v, 2, p + 1))
                      ELSE Plus(Minus(s[i - 1], Over(s[i - 1], p)), v[i])
  IN  From(Len(v), p + 1, LAMBDA i : s[i])
Percent(part, whole) == IF whole = Zero THEN Zero ELSE Product(Hundred, Quotient(part, whole))
DirectionalIndex(own, other, range, p) ==
  Together(WilderSummed(Together(own, other, Leading), p), range, Percent)
AdxOf(n, p, plus, minus) ==
  LET average == Wilder(SubSeq(Together(plus, minus, LAMBDA a, b : Percent(Distance(a, b), Plus(a, b))),
                               p + 1, n), p)
  IN  [adx |-> From(n, 2 * p, LAMBDA i : average[i - p]), plus |-> plus, minus |-> minus]
Adx(high, low, close, p) ==
  LET range == WilderSummed(TrueRange(high, low, close), p)
      none == [i \in DOMAIN close |-> NaN]
  IN  IF Len(close) <= 2 * p THEN [adx |-> none, plus |-> none, minus |-> none]
      ELSE AdxOf(Len(close), p, DirectionalIndex(UpMoves(high), DownMoves(low), range, p),
                 DirectionalIndex(DownMoves(low), UpMoves(high), range, p))

-----------------------------------------------------------------------------
(* Volume.                                                                 *)
Running(v) == Tabulated([i \in DOMAIN v |-> SumOf(SubSeq(v, 1, i))])
Obv(close, volume) ==
  Running([i \in DOMAIN close |->
    IF i = 1 \/ close[i] = close[IF i = 1 THEN 1 ELSE i - 1] THEN Zero
    ELSE IF Less(close[i - 1], close[i]) THEN volume[i] ELSE Times(volume[i], -1)])
Vwap(high, low, close, volume) ==
  LET tp == Typical(high, low, close)
      pv == Running(Together(tp, volume, Product)) vol == Running(volume)
  IN  [i \in DOMAIN close |-> IF vol[i] = Zero THEN tp[i] ELSE Quotient(pv[i], vol[i])]
FlowOf(high, low, close) ==
  [i \in DOMAIN close |->
     IF high[i] = low[i] THEN Zero
     ELSE Quotient(Minus(Minus(close[i], low[i]), Minus(high[i], close[i])), Minus(high[i], low[i]))]
Cmf(high, low, close, volume, p) ==
  LET flow == Trailing(Together(FlowOf(high, low, close), volume, Product), p, SumOf)
  IN  Together(flow, Trailing(volume, p, SumOf), LAMBDA f, s : IF s = Zero THEN Zero ELSE Quotient(f, s))

-----------------------------------------------------------------------------
(* Trend systems.                                                          *)
(* The bands only tighten, until the close before goes through them.       *)
Flipped(was, up, lo, close) ==
  [up |-> up, lo |-> lo,
   trend |-> IF was = 1 /\ Less(close, lo) THEN -1 ELSE IF was = -1 /\ Less(up, close) THEN 1 ELSE was]
Tightened(s, up, lo, before, close) ==
  Flipped(s.trend, IF Less(up, s.up) \/ Less(s.up, before) THEN up ELSE s.up,
                   IF Less(s.lo, lo) \/ Less(before, s.lo) THEN lo ELSE s.lo, close)
BandTrend(n, p, up, lo, close) ==
  LET state[i \in Nat] ==
        IF i = p THEN Flipped(1, up[i], lo[i], close[i])
        ELSE Tightened(state[i - 1], up[i], lo[i], close[i - 1], close[i])
      Told(s) == [value |-> IF s.trend = 1 THEN s.lo ELSE s.up, direction |-> s.trend]
  IN  Tabulated([i \in 1..n |-> IF i < p THEN [value |-> NaN, direction |-> 0] ELSE Told(state[i])])
Banded(mid, atr, p, mult, close) ==
  BandTrend(Len(close), p, UpperBand(mid, atr, mult), LowerBand(mid, atr, mult), close)
SuperTrends(high, low, close, p, mult) ==
  Banded(Together(high, low, Half), Atr(high, low, close, p), p, mult, close)
SuperTrend(high, low, close, p, mult) ==
  LET s == SuperTrends(high, low, close, p, mult) IN [i \in DOMAIN close |-> s[i].value]

(* The spans are shown kijun bars ahead, the chikou kijun bars behind.     *)
Ichimoku(high, low, close, tenkanP, kijunP, spanP) ==
  LET tenkan == MidChannel(high, low, tenkanP)
      kijun == MidChannel(high, low, kijunP)
  IN  [tenkan |-> tenkan, kijun |-> kijun,
       senkouA |-> Shifted(Together(tenkan, kijun, Half), kijunP),
       senkouB |-> Shifted(MidChannel(high, low, spanP), kijunP),
       chikou |-> Shifted(close, -kijunP)]

(* Wilder's stop and reverse; the factor is start, then one step at a time *)
(* to the most.                                                            *)
SarStart(rising, least, peak, start) ==
  [up |-> rising, sar |-> IF rising THEN least ELSE peak, ep |-> IF rising THEN peak ELSE least,
   af |-> start]
SarStep(s, sar, high, low, start, step, most) ==
  IF IF s.up THEN Less(low, sar) ELSE Less(sar, high)
  THEN [up |-> ~s.up, sar |-> s.ep, ep |-> IF s.up THEN low ELSE high, af |-> start]
  ELSE IF IF s.up THEN Less(s.ep, high) ELSE Less(low, s.ep)
  THEN [up |-> s.up, sar |-> sar, ep |-> IF s.up THEN high ELSE low,
        af |-> LeastOf(Plus(s.af, step), most)]
  ELSE [s EXCEPT !.sar = sar]
\* The stop moves toward the extreme, and not into the last two bars.
SarMoved(s, moved, h1, h2, l1, l2) ==
  IF s.up THEN LeastOf(moved, LeastOf(l1, l2)) ELSE MostOf(moved, MostOf(h1, h2))
SarNext(s, i, high, low, start, step, most) ==
  SarStep(s, SarMoved(s, Plus(s.sar, Product(s.af, Minus(s.ep, s.sar))),
                      high[i - 1], high[i - 2], low[i - 1], low[i - 2]),
          high[i], low[i], start, step, most)
ParabolicSar(high, low, close, start, step, most) ==
  LET state[i \in Nat] ==
        IF i = 2 THEN SarStart(~Less(close[2], close[1]), LeastOf(low[1], low[2]),
                               MostOf(high[1], high[2]), start)
        ELSE SarNext(state[i - 1], i, high, low, start, step, most)
  IN  IF Len(close) < 2 THEN [i \in DOMAIN close |-> NaN]
      ELSE From(Len(close), 2, LAMBDA i : state[i].sar)

-----------------------------------------------------------------------------
(* The statistics of util/math_utils.py that reports and scores rest on; a *)
(* quotient by a root is kept as its signed square.                        *)
One == Whole(1)
Sized(x) == MostOf(x, Minus(Zero, x))
SignedSquare(x) == Product(x, Sized(x))
DotOf(u, v) == SumOf([i \in DOMAIN u |-> Product(u[i], v[i])])
MatVec(m, v) == [i \in DOMAIN m |-> DotOf(m[i], v)]
SquaresOf(v) == SumOf([t \in DOMAIN v |-> Product(v[t], v[t])])
SampleVariance(w) ==
  IF Len(w) < 2 THEN Zero
  ELSE Over(SumOf([k \in DOMAIN w |-> SignedSquare(Distance(w[k], Mean(w)))]), Len(w) - 1)
(* Zero, no information, if either side is constant.                       *)
CorrelationOf(cov, vx, vy) ==
  IF vx = 0 \/ vy = 0 THEN Zero ELSE Frac(cov * Abs(cov), vx * vy)
(* On sorted values; idx from 0 as in the code.                            *)
Between(v, lo, frac) ==
  IF frac = Zero THEN v[lo + 1]
  ELSE Plus(Product(v[lo + 1], Minus(One, frac)), Product(v[lo + 2], frac))
PercentileSorted(v, p) ==
  LET idx == Times(p, Len(v) - 1)
      lo == idx[1] \div idx[2]
  IN  Between(v, lo, Minus(idx, Whole(lo)))
=============================================================================
