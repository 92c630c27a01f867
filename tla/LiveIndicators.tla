---------------------------- MODULE LiveIndicators ----------------------------
(***************************************************************************)
(* The indicators while bars arrive: the streaming classes of              *)
(* indicators/streaming_indicators.py, updated bar by bar, beside the      *)
(* batch ones, computed again over all the bars there are.                 *)
(***************************************************************************)
EXTENDS Indicators

CONSTANTS
  Bars,       (* what a bar may be: [high, low, close, volume], whole      *)
  MaxBars,    (* bound                                                     *)
  Period, Slow, Signal   (* the periods used                               *)

VARIABLES
  bars,       (* the bars so far                                           *)
  live        (* the streaming classes, by name                            *)

vars == <<bars, live>>

-----------------------------------------------------------------------------
(* StreamingIndicators.                                                    *)

SmaNew == [window |-> [k \in 0..(Period - 1) |-> Zero], sum |-> Zero, count |-> 0, idx |-> 0,
           value |-> NaN]
SmaUpdate(s, v) ==
  LET sum == Plus(IF s.count >= Period THEN Minus(s.sum, s.window[s.idx]) ELSE s.sum, v)
  IN  [window |-> [s.window EXCEPT ![s.idx] = v], sum |-> sum,
       idx |-> (s.idx + 1) % Period, count |-> s.count + 1,
       value |-> IF s.count + 1 >= Period THEN Over(sum, Period) ELSE NaN]

EmaNew == [seed |-> Zero, count |-> 0, value |-> NaN]
EmaUpdateUnseeded(s, p, v) ==
  [s EXCEPT !.count = @ + 1,
            !.value = IF s.count + 1 < p THEN NaN ELSE IF s.count + 1 = p THEN v
                      ELSE EmaStep(p, @, v)]
EmaUpdate(s, p, v) ==
  IF s.count + 1 < p THEN [s EXCEPT !.count = @ + 1, !.seed = Plus(@, v)]
  ELSE [s EXCEPT !.count = @ + 1,
                 !.value = IF s.count + 1 = p THEN Over(Plus(s.seed, v), p)
                           ELSE EmaStep(p, @, v)]

RsiNew == [prev |-> NaN, changes |-> 0, gain |-> Zero, loss |-> Zero, value |-> NaN]
RsiUpdate(s, v) ==
  LET up == MostOf(Minus(v, s.prev), Zero)
      down == MostOf(Minus(s.prev, v), Zero)
      changes == s.changes + 1
      next(sum, x) ==
        IF changes < Period THEN Plus(sum, x)
        ELSE IF changes = Period THEN Over(Plus(sum, x), Period)
        ELSE Over(Plus(Times(sum, Period - 1), x), Period)
  IN  IF s.prev = NaN THEN [s EXCEPT !.prev = v]
      ELSE [prev |-> v, changes |-> changes,
            gain |-> next(s.gain, up), loss |-> next(s.loss, down),
            value |-> IF changes < Period THEN NaN
                      ELSE ToRsi(next(s.gain, up), next(s.loss, down))]

MacdNew == [fast |-> EmaNew, slow |-> EmaNew, signal |-> EmaNew, line |-> NaN, hist |-> NaN]
MacdUpdate(s, v) ==
  LET fast == EmaUpdate(s.fast, Period, v)
      slow == EmaUpdate(s.slow, Slow, v)
      line == Minus(fast.value, slow.value)
      signal == EmaUpdate(s.signal, Signal, line)
  IN  IF slow.value = NaN THEN [s EXCEPT !.fast = fast, !.slow = slow]
      ELSE [fast |-> fast, slow |-> slow, signal |-> signal, line |-> line,
            hist |-> IF signal.value = NaN THEN NaN ELSE Minus(line, signal.value)]

VwapNew == [pv |-> Zero, vol |-> Zero, value |-> NaN]
VwapUpdate(s, price, volume) ==
  LET pv == Plus(s.pv, Product(price, volume)) vol == Plus(s.vol, volume)
  IN  [pv |-> pv, vol |-> vol, value |-> IF vol = Zero THEN price ELSE Quotient(pv, vol)]

-----------------------------------------------------------------------------
(* Every batch array over the bars b, by name.                             *)
Array(b, Field(_)) == [i \in DOMAIN b |-> Whole(Field(b[i]))]
BatchOf(high, low, close, volume, macd, stoch, keltner, adx, cloud) ==
  [sma |-> Sma(close, Period), ema |-> Ema(close, Period), wma |-> Wma(close, Period),
   rsi |-> Rsi(close, Period), roc |-> Roc(close, Period), momentum |-> Momentum(close, Period),
   line |-> macd.line, signal |-> macd.signal, hist |-> macd.hist,
   stochK |-> stoch.k, stochD |-> stoch.d,
   williams |-> WilliamsR(high, low, close, Period), cci |-> Cci(high, low, close, Period),
   atr |-> Atr(high, low, close, Period), variance |-> Bollinger(close, Period).variance,
   keltnerUp |-> keltner.upper, keltnerLow |-> keltner.lower,
   donchian |-> Donchian(high, low, Period).middle, adx |-> adx.adx, plusDi |-> adx.plus,
   obv |-> Obv(close, volume), vwap |-> Vwap(high, low, close, volume),
   cmf |-> Cmf(high, low, close, volume, Period),
   superTrend |-> SuperTrend(high, low, close, Period, 1),
   tenkan |-> cloud.tenkan, senkouA |-> cloud.senkouA, senkouB |-> cloud.senkouB,
   chikou |-> cloud.chikou,
   sar |-> ParabolicSar(high, low, close, <<1, 5>>, <<1, 5>>, <<2, 5>>)]
BatchFrom(high, low, close, volume) ==
  BatchOf(high, low, close, volume, Macd(close, Period, Slow, Signal),
          StochasticRsi(close, Period, Period, 1, 2), Keltner(high, low, close, Period, Period, 2),
          Adx(high, low, close, Period), Ichimoku(high, low, close, Period, Period, Slow))
Batch(b) ==
  BatchFrom(Array(b, LAMBDA x : x.high), Array(b, LAMBDA x : x.low),
            Array(b, LAMBDA x : x.close), Array(b, LAMBDA x : x.volume))

OnBar(bar) ==
  LET close == Whole(bar.close)
      typical == Over(Whole(bar.high + bar.low + bar.close), 3)
  IN  /\ Len(bars) < MaxBars
      /\ bars' = Append(bars, bar)
      /\ live' = [sma |-> SmaUpdate(live.sma, close), ema |-> EmaUpdate(live.ema, Period, close),
                  rsi |-> RsiUpdate(live.rsi, close), macd |-> MacdUpdate(live.macd, close),
                  vwap |-> VwapUpdate(live.vwap, typical, Whole(bar.volume))]

Init ==
  /\ bars = <<>>
  /\ live = [sma |-> SmaNew, ema |-> EmaNew, rsi |-> RsiNew, macd |-> MacdNew, vwap |-> VwapNew]

Next == \E bar \in Bars : OnBar(bar)

Spec == Init /\ [][Next]_vars

-----------------------------------------------------------------------------
(* streaming_indicators.py:5-8: what a strategy sees live is what it saw   *)
(* in the backtest, warm-up bars included.                                 *)
AgreeAt(n, batch) ==
  /\ live.sma.value = batch.sma[n] /\ live.ema.value = batch.ema[n]
  /\ live.rsi.value = batch.rsi[n] /\ live.macd.line = batch.line[n]
  /\ live.macd.signal.value = batch.signal[n] /\ live.macd.hist = batch.hist[n]
  /\ live.vwap.value = batch.vwap[n]
LiveIsBatch == bars # <<>> => AgreeAt(Len(bars), Batch(bars))

(* No array looks ahead: what it tells of a bar, it told before the next   *)
(* one had come.       The chikou span does, by its definition; the        *)
(* directional arrays tell nothing until there are 2p + 1 bars, and then   *)
(* speak of bars gone by, so only what they told must stay.                *)
Unrepainted(before, after) ==
  \A name \in DOMAIN before \ {"chikou"}, i \in DOMAIN Front(bars) :
    \/ after[name][i] = before[name][i]
    \/ name \in {"adx", "plusDi"} /\ before[name][i] = NaN
NothingIsRepainted == bars # <<>> => Unrepainted(Batch(Front(bars)), Batch(bars))
=============================================================================
