---------------------------- MODULE StrategyBacktest ----------------------------
(***************************************************************************)
(* Strategies on bars: the rules of dsl/, the shipped strategies of        *)
(* backtest/strategies/, the single-instrument engine of                   *)
(* backtest/backtester.py, and what is run on top of it, the grid search   *)
(* and the walk-forward of backtest/validation/.  The series grows bar by  *)
(* bar; a run over it is a function.  Prices and money are exact           *)
(* fractions; an index is one more than in the code.                       *)
(***************************************************************************)
EXTENDS Indicators, FiniteSets

CONSTANTS
  Bars,          (* [open, high, low, close], whole                        *)
  MaxBars,       (* bound                                                  *)
  Strategies,    (* what is run, as records                                *)
  Rules,         (* the rules asked on their own                           *)
  Grid,          (* a sequence of [name, values]: the parameter grid       *)
  Capital, Commission, Slippage, StopLoss, TakeProfit,   (* BacktestConfig *)
  LeastTrain,    (* 10 in the code                                         *)
  TrainBars, TestBars

VARIABLE series    (* the bars so far *)

-----------------------------------------------------------------------------
(* The DSL: a rule is a predicate of a bar index over arrays by name.      *)

Closes(bars) == [i \in DOMAIN bars |-> Whole(bars[i].close)]
ArrayOf(bars, a) ==
  CASE a.name = "close" -> Closes(bars)
    [] a.name = "sma" -> Sma(Closes(bars), a.period)
    [] a.name = "value" -> [i \in DOMAIN bars |-> Whole(a.level)]

Valid(v, i) == v[i] # NaN

CrossedAbove(a, b, i) ==
  i > 1 /\ Valid(a, i) /\ Valid(b, i) /\ Valid(a, i - 1) /\ Valid(b, i - 1)
  /\ ~Less(b[i - 1], a[i - 1]) /\ Less(b[i], a[i])
Rises(a, n, i) ==
  i > n /\ \A j \in (i - n + 1)..i : Valid(a, j) /\ Valid(a, j - 1) /\ Less(a[j - 1], a[j])
Falls(a, n, i) ==
  i > n /\ \A j \in (i - n + 1)..i : Valid(a, j) /\ Valid(a, j - 1) /\ Less(a[j], a[j - 1])

RECURSIVE Satisfied(_, _, _)
Satisfied(rule, bars, i) ==
  LET a == ArrayOf(bars, rule.a)
      b == ArrayOf(bars, rule.b)
  IN  CASE rule.op = "above" -> Valid(a, i) /\ Valid(b, i) /\ Less(b[i], a[i])
        [] rule.op = "below" -> Valid(a, i) /\ Valid(b, i) /\ Less(a[i], b[i])
        [] rule.op = "crossAbove" -> CrossedAbove(a, b, i)
        [] rule.op = "crossBelow" -> CrossedAbove(b, a, i)
        [] rule.op = "rising" -> Rises(a, rule.n, i)
        [] rule.op = "falling" -> Falls(a, rule.n, i)
        [] rule.op = "and" -> Satisfied(rule.l, bars, i) /\ Satisfied(rule.r, bars, i)
        [] rule.op = "or" -> Satisfied(rule.l, bars, i) \/ Satisfied(rule.r, bars, i)
        [] rule.op = "not" -> ~Satisfied(rule.l, bars, i)
        [] rule.op = "never" -> FALSE

-----------------------------------------------------------------------------
(* on_bar of each strategy.                                                *)

Crossing(a, b, i) ==
  IF i < 2 \/ ~Valid(b, i) \/ ~Valid(b, i - 1) THEN "HOLD"
  ELSE IF ~Less(b[i - 1], a[i - 1]) /\ Less(b[i], a[i]) THEN "BUY"
  ELSE IF ~Less(a[i - 1], b[i - 1]) /\ Less(a[i], b[i]) THEN "SELL"
  ELSE "HOLD"

RsiSignal(r, low, high, i) ==
  IF i < 2 \/ ~Valid(r, i) \/ ~Valid(r, i - 1) THEN "HOLD"
  ELSE IF ~Less(low, r[i - 1]) /\ Less(low, r[i]) THEN "BUY"
  ELSE IF ~Less(r[i - 1], high) /\ Less(r[i], high) THEN "SELL"
  ELSE "HOLD"

(* Below and above the bands: k deviations, squared, against the variance. *)
Outside(x, mid, variance, k) ==
  Less(Times(variance, k * k), Product(Minus(x, mid), Minus(x, mid)))
BandSignal(close, band, mid, k, i) ==
  IF ~Valid(mid, i) THEN "HOLD"
  ELSE IF Less(close[i], mid[i]) /\ Outside(close[i], mid[i], band.variance[i], k) THEN "BUY"
  ELSE IF /\ ~Less(close[i], mid[i])
          /\ \/ Outside(close[i], mid[i], band.variance[i], k)
             \/ i > 1 /\ Valid(mid, i - 1) /\ Less(close[i - 1], mid[i - 1]) THEN "SELL"
  ELSE "HOLD"
BollingerSignal(close, band, k, i) == BandSignal(close, band, band.middle, k, i)

(* StrategyBuilder.build: without an exit rule there is no exit.           *)
NoRule == [op |-> "unset"]
Never == [op |-> "never"]
Built(entry, exit, stop, target) ==
  [kind |-> "dsl", entry |-> entry, exit |-> IF exit = NoRule THEN Never ELSE exit,
   stop |-> stop, target |-> target, fast |-> 1, slow |-> 1, signal |-> 1, period |-> 1]
DslSignal(s, bars, i) ==
  IF Satisfied(s.entry, bars, i) THEN "BUY"
  ELSE IF Satisfied(s.exit, bars, i) THEN "SELL" ELSE "HOLD"

SmaCross(s, c, i) == Crossing(Sma(c, s.fast), Sma(c, s.slow), i)
EmaCross(s, c, i) == Crossing(Ema(c, s.fast), Ema(c, s.slow), i)
LineCross(macd, i) == Crossing(macd.line, macd.signal, i)
MacdCross(s, c, i) == LineCross(Macd(c, s.fast, s.slow, s.signal), i)

OnBar(s, bars, c, i) ==
  CASE s.kind = "sma" -> SmaCross(s, c, i)
    [] s.kind = "ema" -> EmaCross(s, c, i)
    [] s.kind = "macd" -> MacdCross(s, c, i)
    [] s.kind = "rsi" -> RsiSignal(Rsi(c, s.period), Whole(s.oversold), Whole(s.overbought), i)
    [] s.kind = "bollinger" -> BollingerSignal(c, Bollinger(c, s.period), s.k, i)
    [] s.kind = "dsl" -> DslSignal(s, bars, i)
Signals(s, bars) == [i \in DOMAIN bars |-> OnBar(s, bars, Closes(bars), i)]

-----------------------------------------------------------------------------
(* Backtester.run.                                                         *)

Flat == [qty |-> Zero, price |-> Zero, cost |-> Zero, index |-> 0]
Holds(p) == p.qty # Zero
Rest(rate) == Minus(Whole(1), rate)

Sold(s, i, price, reason, net) ==
  [s EXCEPT !.cash = Plus(@, net), !.pos = Flat,
            !.trades = Append(@, [entry |-> s.pos.index, exit |-> i, price |-> s.pos.price,
                                  fill |-> price, pnl |-> Minus(net, s.pos.cost),
                                  reason |-> reason])]
Closed(s, i, price, reason) ==
  Sold(s, i, price, reason, Product(Product(s.pos.qty, price), Rest(Commission)))

StopOf(strategy) == IF strategy.stop # Zero THEN strategy.stop ELSE StopLoss
TargetOf(strategy) == IF strategy.target # Zero THEN strategy.target ELSE TakeProfit
StopFillUngapped(stop, bar) == stop
StopFill(stop, bar) == LeastOf(stop, Whole(bar.open))

(* The stop first, then the target, on the bars after the entry.           *)
StopAt(strategy, price) == Product(price, Rest(StopOf(strategy)))
TargetAt(strategy, price) == Product(price, Plus(Whole(1), TargetOf(strategy)))
RiskExits(s, strategy, bar, i) ==
  IF ~Holds(s.pos) THEN s
  ELSE IF StopOf(strategy) # Zero /\ ~Less(StopAt(strategy, s.pos.price), Whole(bar.low))
    THEN Closed(s, i, StopFill(StopAt(strategy, s.pos.price), bar), "STOP_LOSS")
  ELSE IF TargetOf(strategy) # Zero /\ ~Less(Whole(bar.high), TargetAt(strategy, s.pos.price))
    THEN Closed(s, i, MostOf(TargetAt(strategy, s.pos.price), Whole(bar.open)), "TAKE_PROFIT")
  ELSE s

Bought(s, i, price) ==
  [s EXCEPT !.cash = Zero,
            !.pos = [qty |-> Quotient(Product(s.cash, Rest(Commission)), price),
                     price |-> price, cost |-> s.cash, index |-> i]]
Acted(s, signal, bar, i) ==
  CASE signal = "BUY" /\ ~Holds(s.pos) /\ Less(Zero, s.cash) ->
         Bought(s, i, Product(Whole(bar.close), Plus(Whole(1), Slippage)))
    [] signal = "SELL" /\ Holds(s.pos) ->
         Closed(s, i, Product(Whole(bar.close), Rest(Slippage)), "SIGNAL")
    [] OTHER -> s

Marked(s, bar) ==
  [s EXCEPT !.equity = Append(@, Plus(s.cash, Product(s.pos.qty, Whole(bar.close))))]

(* Nothing is traded before bar from; what is open at the end is closed.   *)
Begin(capital) == [cash |-> capital, pos |-> Flat, trades |-> <<>>, equity |-> <<>>]
Worked(strategy, bars, signals, capital, from) ==
  FoldLeftDomain(LAMBDA s, i :
    IF i < from THEN s
    ELSE Marked(Acted(RiskExits(s, strategy, bars[i], i), signals[i], bars[i], i), bars[i]),
    Begin(capital), bars)
Settled(s) == [s EXCEPT !.equity[Len(s.equity)] = s.cash]
Ended(s, last, n) ==
  IF Holds(s.pos) THEN Settled(Closed(s, n, Product(Whole(last.close), Rest(Slippage)), "END_OF_DATA"))
  ELSE s
Run(strategy, bars, capital, from) ==
  Ended(Worked(strategy, bars, Signals(strategy, bars), capital, from), bars[Len(bars)], Len(bars))

FinalEquity(run) == run.equity[Len(run.equity)]

-----------------------------------------------------------------------------
(* ParameterGrid and GridSearchOptimizer, for moving-average crosses; the  *)
(* objective is the final equity.                                          *)

Combinations(grid) ==
  IF grid = <<>> THEN <<>>
  ELSE FoldLeft(LAMBDA out, p :
         FlattenSeq([k \in DOMAIN out |->
           [j \in DOMAIN p.values |-> out[k] @@ (p.name :> p.values[j])]]), <<<<>>>>, grid)
Factory(params) ==
  [kind |-> "sma", fast |-> params.fast, slow |-> params.slow, signal |-> 1, period |-> 1,
   stop |-> Zero, target |-> Zero]

FirstBest(score) ==
  CHOOSE k \in DOMAIN score :
    /\ \A j \in DOMAIN score : ~Less(score[k], score[j])
    /\ \A j \in 1..(k - 1) : Less(score[j], score[k])
Picked(all, score, k) == [params |-> all[k], objective |-> score[k]]
BestOf(all, score) == Picked(all, score, FirstBest(score))
Scores(all, bars, capital) ==
  [k \in DOMAIN all |-> FinalEquity(Run(Factory(all[k]), bars, capital, 1))]
Best(grid, bars, capital) == BestOf(Combinations(grid), Scores(Combinations(grid), bars, capital))

(* WalkForwardAnalyzer.analyze: the winner of a train window is run on the *)
(* bars after it, warm; the capital is carried from fold to fold.          *)
TrainWindowLeaking(bars, start) == SubSeq(bars, start + 1, start + TrainBars + TestBars)
TrainWindow(bars, start) == SubSeq(bars, start + 1, start + TrainBars)

Folds(bars) ==
  IF TrainBars < LeastTrain \/ TestBars < 2 \/ TrainBars + TestBars > Len(bars) THEN 0
  ELSE (Len(bars) - TrainBars - TestBars) \div TestBars + 1
TestRun(best, bars, start, carry) ==
  Run(Factory(best.params), SubSeq(bars, start + 1, start + TrainBars + TestBars), carry,
      TrainBars + 1)
Stitched(w, start, best, oos) ==
  [folds |-> Append(w.folds, [from |-> start + TrainBars, best |-> best]),
   equity |-> w.equity \o oos.equity, trades |-> w.trades \o oos.trades,
   carry |-> FinalEquity(oos)]
FoldWith(w, bars, start, best) == Stitched(w, start, best, TestRun(best, bars, start, w.carry))
Walk(bars) ==
  FoldLeft(LAMBDA w, start : FoldWith(w, bars, start, Best(Grid, TrainWindow(bars, start), Capital)),
           [folds |-> <<>>, equity |-> <<>>, trades |-> <<>>, carry |-> Capital],
           [k \in 1..Folds(bars) |-> (k - 1) * TestBars])

-----------------------------------------------------------------------------
OnNewBar(bar) ==
  /\ Len(series) < MaxBars
  /\ series' = Append(series, bar)

Init == series = <<>>

Next == \E bar \in Bars : OnNewBar(bar)

Spec == Init /\ [][Next]_series

-----------------------------------------------------------------------------
Earned(trades) == FoldLeft(Plus, Capital, [k \in DOMAIN trades |-> trades[k].pnl])

(* backtester.py:5-9: round trips follow one another, and what they earned *)
(* is the equity at the end; a stop or a target is executed on the first   *)
(* bar that reaches it, at a price that bar traded at, never better than   *)
(* the stop and never worse than the target.                               *)
Touched(s, price, bar) ==
  \/ StopOf(s) # Zero /\ ~Less(StopAt(s, price), Whole(bar.low))
  \/ TargetOf(s) # Zero /\ ~Less(Whole(bar.high), TargetAt(s, price))
TripIsReal(s, t, bar) ==
  /\ t.entry < t.exit \/ (t.reason = "END_OF_DATA" /\ t.exit = Len(series))
  /\ \A i \in (t.entry + 1)..(t.exit - 1) : ~Touched(s, t.price, series[i])
  /\ t.reason \in {"STOP_LOSS", "TAKE_PROFIT"} =>
       /\ Touched(s, t.price, bar)
       /\ ~Less(t.fill, Whole(bar.low)) /\ ~Less(Whole(bar.high), t.fill)
  /\ t.reason = "STOP_LOSS" => ~Less(StopAt(s, t.price), t.fill)
  /\ t.reason = "TAKE_PROFIT" => ~Less(t.fill, TargetAt(s, t.price))
TripsAreReal(s, run) ==
  /\ FinalEquity(run) = Earned(run.trades)
  /\ \A k \in DOMAIN run.trades :
       /\ TripIsReal(s, run.trades[k], series[run.trades[k].exit])
       /\ k > 1 => run.trades[k - 1].exit <= run.trades[k].entry
RoundTripsAreReal ==
  series # <<>> => \A s \in Strategies : TripsAreReal(s, Run(s, series, Capital, 1))

(* walk_forward_analyzer.py:4-18: a fold once reported is never reported   *)
(* otherwise when bars arrive after it, and the stitched equity is one     *)
(* account: it ends with what the trades of all the folds earned, none of  *)
(* them entered before its own test window.                                *)
OneAccount(was, now) ==
  /\ IsPrefix(was.folds, now.folds) /\ IsPrefix(was.equity, now.equity)
  /\ IsPrefix(was.trades, now.trades)
  /\ now.carry = Earned(now.trades)
  /\ \A k \in DOMAIN now.trades : now.trades[k].entry > TrainBars
  /\ \A k \in DOMAIN now.folds :
       now.folds[k].best =
         Best(Grid, SubSeq(series, now.folds[k].from - TrainBars + 1, now.folds[k].from), Capital)
FoldsAreOutOfSample == series # <<>> => OneAccount(Walk(Front(series)), Walk(series))

-----------------------------------------------------------------------------
RECURSIVE ArraysOf(_)
ArraysOf(rule) ==
  CASE rule.op \in {"and", "or"} -> ArraysOf(rule.l) \union ArraysOf(rule.r)
    [] rule.op = "not" -> ArraysOf(rule.l)
    [] OTHER -> {rule.a}

(* rules.py:19-21, as its docstring states it: on a warm-up bar nothing is *)
(* satisfied, and combining rules keeps that.                              *)
WarmupSatisfiesNothing ==
  \A rule \in Rules, i \in DOMAIN series :
    (\A a \in ArraysOf(rule) : ~Valid(ArrayOf(series, a), i)) => ~Satisfied(rule, series, i)
=============================================================================
