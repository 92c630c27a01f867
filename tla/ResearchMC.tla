----------------------------- MODULE ResearchMC -----------------------------
(* What research computes of bars, prices and dates, on small instances:   *)
(* the execution-aware backtester, the bar backtester with its strategies  *)
(* and walk-forward, the indicators, FX value dates, factors and reports.   *)
(* They share no state, so a behavior is of one of them: part says which.  *)
EXTENDS Backtest

VARIABLES
  part,
  bars, live,
  pair, today, quotes, curve, deals,
  series,
  study, day, ic, ensemble, learner, seen,
  market,
  file, acts, entries, tape, defined, disk,
  panel, rows, months, dated, ohlcv, listing,
  days, hedge, index, asked

Bar(o, h, l, c, v) == [open |-> o, high |-> h, low |-> l, close |-> c, volume |-> v]

(* Quiet; a rally and a fall within the bar (last look refuses the buyer   *)
(* and the seller); a gap up and a gap down between bars; a thin bar.      *)
SomeBars == {Bar(10, 10, 10, 10, 4), Bar(10, 13, 10, 13, 4), Bar(10, 10, 7, 8, 4),
             Bar(14, 14, 12, 12, 4), Bar(7, 8, 7, 8, 1)}

Instant  == [inner |-> "instant", cost |-> 10, reject |-> 0, display |-> {}, share |-> 0]
LastLook == [inner |-> "lastlook", cost |-> 10, reject |-> 500, display |-> {}, share |-> 0]
SomeModels ==
  {Instant, LastLook, [Instant EXCEPT !.display = {1, 2}, !.share = 50],
   [LastLook EXCEPT !.display = {2}]}

Hlcv(h, l, c, v) == [high |-> h, low |-> l, close |-> c, volume |-> v]
Stream == INSTANCE LiveIndicators WITH
  Bars <- {Hlcv(10, 8, 9, 1), Hlcv(12, 10, 12, 2), Hlcv(9, 6, 6, 0)},
  MaxBars <- 5, Period <- 2, Slow <- 3, Signal <- 2

(* January from a Monday, February, March and April.                       *)
T(u, n) == [unit |-> u, n |-> n]
P(b, q, l, f) == [base |-> b, quote |-> q, lag |-> l, fixing |-> f]
Q(t, p) == [tenor |-> t, points |-> p]
Dates == INSTANCE FxDates WITH
  Starts <- <<0, 31, 59, 90, 120>>,
  Pairs <- {P({}, {}, 2, 2), P({}, {30, 32, 56, 57}, 2, 1), P({31, 58}, {30, 57}, 1, 2),
            P({28}, {}, 0, 2), P({31, 32, 58, 59}, {}, 2, 2)},
  Tenors <- {T("ON", 0), T("TN", 0), T("SN", 0), T("D", 3), T("W", 1), T("M", 1), T("M", 2)},
  Quoted <- {Q(T("TN", 0), -2), Q(T("W", 1), 5), Q(T("M", 1), 3), Q(T("M", 2), -7), Q(T("SN", 0), 1)},
  Dealt <- {T("TN", 0), T("D", 3), T("M", 1)},
  SpotRate <- 100, MaxQuotes <- 2, MaxDeals <- 1, FirstDay <- 28, LastDay <- 30

close == [name |-> "close"]
sma == [name |-> "sma", period |-> 2]
Dsl == INSTANCE StrategyBacktest WITH
  Bars <- {}, MaxBars <- 0, Strategies <- {}, Rules <- {}, Grid <- <<>>, Capital <- <<0, 1>>,
  Commission <- <<0, 1>>, Slippage <- <<0, 1>>, StopLoss <- <<0, 1>>, TakeProfit <- <<0, 1>>,
  LeastTrain <- 1, TrainBars <- 1, TestBars <- 1
R(op, a, b, l, r) == [op |-> op, a |-> a, b |-> b, l |-> l, r |-> r, n |-> 1]
Cmp(op, a, b) == R(op, a, b, Dsl!Never, Dsl!Never)
OverTwo == Cmp("above", sma, [name |-> "value", level |-> 6])
Falling == Cmp("falling", close, close)
Plain(kind) ==
  [kind |-> kind, fast |-> 1, slow |-> 2, signal |-> 1, period |-> 2, k |-> 1,
   oversold |-> 40, overbought |-> 60, stop |-> <<0, 1>>, target |-> <<0, 1>>]
MCStrategies ==
  {Plain("sma"), [Plain("ema") EXCEPT !.target = <<1, 4>>], Plain("macd"),
   [Plain("rsi") EXCEPT !.stop = <<1, 2>>], Plain("bollinger"),
   Dsl!Built(R("or", close, close, Cmp("crossAbove", close, sma), Cmp("rising", close, close)),
             R("and", close, close, Falling, R("not", close, close, OverTwo, Dsl!Never)), <<1, 4>>, <<0, 1>>),
   Dsl!Built(Cmp("crossBelow", close, sma), Dsl!NoRule, <<0, 1>>, <<0, 1>>)}
Ohlc(o, h, l, c) == [open |-> o, high |-> h, low |-> l, close |-> c]
Strategy == INSTANCE StrategyBacktest WITH
  Bars <- {Ohlc(8, 8, 8, 8), Ohlc(8, 16, 8, 16), Ohlc(2, 32, 2, 4)}, MaxBars <- 6,
  Strategies <- MCStrategies,
  Rules <- {OverTwo, Falling, Cmp("crossBelow", close, sma), R("not", close, close, OverTwo, Dsl!Never)},
  Grid <- <<[name |-> "fast", values |-> <<1>>], [name |-> "slow", values |-> <<2, 3>>]>>,
  Capital <- <<1024, 1>>, Commission <- <<1, 2>>, Slippage <- <<1, 3>>,
  StopLoss <- <<0, 1>>, TakeProfit <- <<1, 2>>, LeastTrain <- 3, TrainBars <- 3, TestBars <- 2

(* Horizons of one and two days; a factor with a warm-up hole; a silent    *)
(* component.                                                              *)
St(s, h, tr, te, b, e) ==
  [start |-> s, horizon |-> h, train |-> tr, test |-> te, blocks |-> b, embargo |-> e]
N(n) == <<n, 1>>
Alpha == INSTANCE AlphaResearch WITH
  Candidates <- {1, 2}, MaxDays <- 7, Studies <- {St(0, 1, 3, 2, 2, 0), St(0, 2, 4, 3, 2, 1)},
  Correlations <- {<<N(1), N(0)>>, <<N(0), N(1)>>, <<N(0), N(-1)>>, <<Dsl!NaN, N(0)>>},
  Components <- {1, 2}, Shows <- {<<N(1), N(-1)>>, <<Dsl!NaN, N(1)>>, <<Dsl!NaN, Dsl!NaN>>},
  Returns <- {N(1), N(-1), Dsl!NaN}, Memory <- 2, MaxIntervals <- 3

(* Three names in two sectors, one of them off the list for a bar; a cap   *)
(* that binds, a name too thin to trade.                                   *)
H(a, b) == <<a, b>>
Books == INSTANCE PortfolioResearch WITH
  Symbols <- 1..3, MaxPanels <- 6, Listed <- <<1..9, 1..9, {1, 2, 3, 4, 6}>>,
  Panels <- {<<1, 1, 1>>, <<2, 1, 4>>, <<4, 4, 2>>},
  Lookback <- 2, Skip <- 1, PerSide <- 2, GrossPerSide <- H(1, 2),
  Capital <- N(64), Every <- 2, Rate <- H(1, 8), Window <- 4,
  Impact <- <<N(0), H(1, 4), H(5, 4)>>, Start <- 3, Commission <- H(1, 16),
  HalfSpread <- H(1, 8), Slippage <- H(1, 16), GrossTarget <- N(1), MaxWeight <- H(2, 5),
  Sectors <- <<"tech", "tech", "oil">>, Betas <- <<N(1), N(2), N(-1)>>,
  Vols <- <<N(1), N(2), N(4)>>

(* Rows in and out of order, a repeated stamp, a date; a split and a       *)
(* dividend on one day, a dividend nobody can pay; two intervals of one    *)
(* name, one that ends before it starts, a death before a later row.       *)
Row(d, s, c, v) == [iso |-> d, stamp |-> s, close |-> c, volume |-> v]
Act(x, t, v) == [ex |-> x, type |-> t, value |-> v]
En(s, e, d, f) == [symbol |-> s, event |-> e, iso |-> FALSE, date |-> d, end |-> f]
NoEnd == 0 - 1
Prep == INSTANCE DataPrep WITH
  Names <- {"p", "q"}, MaxRows <- 4, MaxActions <- 2, MaxEntries <- 4, MaxRecords <- 4,
  Rows <- {Row(FALSE, 1, 2, 4), Row(FALSE, 2, 4, 4), Row(FALSE, 3, 8, 2), Row(TRUE, 20, 2, 1),
           Row(FALSE, 2, 6, 1)},
  Actions <- {Act(20, "split", 2), Act(20, "dividend", 1), Act(30, "dividend", 3), Act(30, "split", 3)},
  Entries <- {En("a", "MEMBER", 1, 3), En("a", "MEMBER", 2, NoEnd), En("b", "MEMBER", 1, NoEnd),
              En("a", "DELIST", 2, NoEnd), En("b", "MERGER", 3, NoEnd), En("c", "MEMBER", 3, 2),
              [En("b", "MEMBER", 20, NoEnd) EXCEPT !.iso = TRUE]},
  Ids <- {1, 2}, SecondsFrom <- 1, SecondsTo <- 10, Thousand <- 10,
  Clock <- {0, 1, 2, 3, 9, 10, 15, 20, 25, 30, 31, 40}

(* Four names, one that never is a member and one that leaves; rows with   *)
(* something missing; months that are exact, noisy, thin and collinear; a  *)
(* week around two turns of a month; bars that gap, spike and break out.   *)
X(y, a, b) == [y |-> y, x |-> <<a, b>>]
Y(y, a) == [y |-> y, x |-> <<a>>]
Vb(o, h, l, c, v) == [open |-> o, high |-> h, low |-> l, close |-> c, volume |-> v]
Signals == INSTANCE CrossSection WITH
  Symbols <- 1..5, MaxBars <- 5, Listed <- <<1..9, 1..9, 1..9, 1..3, {}>>,
  Panels <- {<<4, 4, 8, 4, 2>>, <<8, 6, 8, 2, 4>>, <<9, 12, 4, 8, 4>>},
  Fast <- 1, Slow <- 2, Signal <- 2, Span <- 2, Lookback <- 2, Skip <- 1, Period <- 2, Devs <- 1,
  Horizon <- 1, Quantiles <- 3,
  Rows <- {X(N(1), N(0), N(1)), X(N(2), N(2), N(1)), X(N(4), N(3), N(-1)), X(N(0), N(-1), N(0)),
           X(Dsl!NaN, N(1), N(1))}, MaxRows <- 4,
  Months <- {<<Y(N(1), N(0)), Y(N(3), N(1)), Y(N(5), N(2)), Y(N(9), Dsl!NaN)>>,
             <<Y(N(0), N(0)), Y(Dsl!NaN, N(3)), Y(N(2), N(1)), Y(N(0), N(2)), Y(N(1), N(1))>>,
             <<Y(N(1), N(2)), Y(N(2), N(2)), Y(N(0), N(2)), Y(Dsl!NaN, N(1))>>,
             <<Y(N(1), N(0)), Y(N(2), N(1))>>},
  MaxMonths <- 4, MinMonths <- 2,
  Dated <- {[day |-> d, r |-> Frac(d % 3, 2)] : d \in {8, 9, 10, 12, 13, 40}}, MaxDated <- 4, MinDated <- 4,
  MonthStarts <- <<0, 10, 38, 69>>, BeforeEnd <- 1, AfterStart <- 3,
  Bars <- {Vb(8, 8, 8, 8, 4), Vb(6, 7, 2, 6, 1), Vb(11, 16, 10, 16, 9)},
  MaxStock <- 6, Kijun <- 3, Share <- H(1, 4),
  Candidates <- {<<N(1), N(4)>>, <<N(2), Dsl!NaN>>, <<N(4), N(1)>>, <<Dsl!NaN, N(1)>>, <<N(2), N(2)>>},
  MaxListing <- 4, Criteria <- <<2, -1>>

(* Days on which the desk and its model differ; hedges that settle, that   *)
(* creep, that cannot be afforded, with an idle and with an impossible     *)
(* instrument; names that join and leave an index; and a question each.    *)
Day(d, m) == [desk |-> d, model |-> m]
Problem(e, c, l, cost, w) == [e |-> e, cov |-> c, load |-> l, cost |-> cost, weight |-> w]
Eye == <<<<1, 0>>, <<0, 1>>>>
Lent(p, s, f) == [prices |-> p, shares |-> s, float |-> f]
Two(b, a) == [bid |-> b, ask |-> a]
BookQuestions ==
  {[kind |-> "book", w |-> w, cov |-> c, loss |-> 3, steps |-> 3, range |-> H(1, 2),
    gamma |-> <<<<-2, 1>>, <<1, 3>>>>] :
     w \in [1..2 -> -2..3],
     c \in {<<<<2, 1>>, <<1, 2>>>>, <<<<1, 1>>, <<1, 1>>>>, <<<<4, -1>>, <<-1, 1>>>>, <<<<0, 0>>, <<0, 1>>>>}}
  \union {[kind |-> "horizons", es |-> e, horizons |-> h] :
     e \in [1..3 -> 1..3], h \in {<<10, 20, 60>>, <<10, 40, 40>>, <<20, 40, 60>>}}
ExecutionQuestions ==
  {[kind |-> "jitter", sizes |-> z, times |-> t, start |-> 2, share |-> H(1, 2), draws |-> d] :
     z \in {<<4, 5, 2>>, <<1, 7, 0>>, <<6, 6, 6>>}, t \in {<<2, 6, 7>>, <<4, 8, 12>>},
     d \in [1..3 -> {N(0), H(1, 2), H(9, 10)}]}
  \union {[kind |-> "placement", h |-> h, a |-> a, d |-> d, r |-> r] :
     h \in 1..2, a \in 0..6, d \in -3..3, r \in 0..1}
  \union {[kind |-> "cross", direct |-> Two(x, y), a |-> a, b |-> b] :
     x \in {N(5), Dsl!NaN}, y \in {N(6), N(9), N(0)},
     a \in {Two(N(2), N(3)), Two(N(0), N(3)), Two(N(4), H(9, 2))},
     b \in {Two(N(2), H(5, 2)), Two(H(1, 2), H(1, 2)), Two(Dsl!NaN, N(2)), Two(N(2), N(0))}}
MarketQuestions ==
  {[kind |-> "fund", contributions |-> c, distributions |-> d, levels |-> l] :
     c \in [1..3 -> 0..2], d \in [1..3 -> 0..1], l \in {<<2, 1, 4>>, <<4, 6, 3>>}}
  \union {[kind |-> "curve", spot |-> s, tenors |-> t, prices |-> p] :
     s \in {2, 4}, t \in {<<1, 2, 4>>, <<2, 3, 5>>, <<1, 1, 2>>}, p \in [1..3 -> {1, 3, 5}]}
  \union {[kind |-> "path", n |-> 4, restarts |-> r, starts |-> s] :
     r \in SUBSET (2..4), s \in [1..4 -> 1..4]}
Ic(n) == IF n = 2 THEN Dsl!NaN ELSE N(n)
DeskQuestions ==
  {[kind |-> "quote", mid |-> m, half |-> h, inventory |-> v, limit |-> 3, fraction |-> f] :
     m \in {1, 8}, h \in {1, 6, 5000, 9000}, v \in -5..5, f \in {N(0), H(1, 2), H(9, 10)}}
  \union {[kind |-> "shuffles", ic |-> [k \in 1..3 |-> [l \in 1..3 |-> Ic(IF k = l THEN d[k] ELSE o[k])]],
           shuffles |-> s] :
     d \in [1..3 -> -1..2], o \in {<<0, 0, 0>>, <<1, -1, 0>>, <<2, 2, 1>>},
     s \in {<<<<2, 3, 1>>, <<3, 1, 2>>>>, <<<<1, 2, 3>>, <<2, 1, 3>>, <<3, 2, 1>>>>}}
  \union {[kind |-> "shuffles", ic |-> [k \in 1..3 |-> [l \in 1..3 |-> Ic(r[l])]],
           shuffles |-> <<<<2, 3, 1>>, <<3, 2, 1>>, <<1, 2, 3>>>>] : r \in [1..3 -> -1..2]}
Reports == INSTANCE RiskReports WITH
  Outcomes <- {Day(1, 1), Day(-2, 1), Day(0, -1), Day(3, 2), Day(-1, -3)}, MaxDays <- 4,
  Confidences <- {H(3, 5), H(3, 4), H(19, 20)}, LeastDays <- 3, LeastPerBlock <- 1, Capital <- 12,
  Problems <- {Problem(<<2, -1>>, <<<<2, 1>>, <<1, 2>>>>, Eye, <<1, 1>>, 0),
               Problem(<<2, 1>>, <<<<2, 1>>, <<1, 2>>>>, <<<<1, 1>>, <<0, 1>>>>, <<1, 2>>, 1),
               Problem(<<3, 0>>, Eye, <<<<1, 0>>, <<0, 0>>>>, <<1, 1>>, 2),
               Problem(<<1, 1>>, <<<<1, 2>>, <<2, 1>>>>, <<<<1, 1>>, <<1, -1>>>>, <<1, 0>>, 1),
               Problem(<<1, 2>>, <<<<1, 1>>, <<1, 1>>>>, Eye, <<1, 1>>, 4),
               Problem(<<2, -3>>, <<<<2, 1>>, <<1, 1>>>>, Eye, <<1, 3>>, 2)},
  MaxSweeps <- 4, Tolerance <- H(1, 4),
  Listings <- {Lent([a |-> 2, b |-> 3], [a |-> 1, b |-> 2], [a |-> N(1), b |-> H(1, 2)]),
               Lent([a |-> 2, b |-> 3, c |-> 1], [a |-> 1, b |-> 1, c |-> 3],
                    [a |-> N(1), b |-> H(1, 2), c |-> N(1)]),
               Lent([b |-> 3, c |-> 1], [b |-> 1, c |-> 2], [b |-> N(1), c |-> H(1, 2)])},
  Prices <- {1, 2, 4}, MaxMoves <- 3,
  Questions <- BookQuestions \union DeskQuestions \union ExecutionQuestions \union MarketQuestions

stream == <<bars, live>>
reports == <<days, hedge, index, asked>>
judged == <<panel, rows, months, dated, ohlcv, listing>>
data == <<file, acts, entries, tape, defined, disk>>
dates == <<pair, today, quotes, curve, deals>>
alpha == <<study, day, ic, ensemble, learner, seen>>

MCInit ==
  /\ part \in {"engine", "stream", "dates", "strategy", "days", "intervals", "books",
              "files", "actions", "universe", "tape",
              "factors", "rows", "months", "calendar", "screener", "ranking",
              "history", "hedging", "index", "asking"}
  /\ Reports!Init /\ Prep!Init /\ Signals!Init /\ Init /\ Stream!Init /\ Dates!Init /\ Strategy!Init /\ Alpha!Init /\ Books!Init
  /\ part # "engine" => model = Instant /\ bar = Bar(10, 10, 10, 10, 4)
  /\ part # "dates" => pair = P({}, {}, 2, 2) /\ today = 28
  /\ part # "hedging" => hedge.problem.weight = 4
  /\ part # "index" => index.grown = N(5)
  /\ part # "days" => study = St(0, 1, 3, 2, 2, 0)

Preparing ==
  /\ UNCHANGED <<part, vars, stream, dates, series, alpha, market, judged, reports>>
  /\ \/ part = "files" /\ Prep!AddToFiles
     \/ part = "actions" /\ (Prep!AddToFiles \/ Prep!AddActions) /\ Len(file'["q"]) = 0
     \/ part = "universe" /\ Prep!AddEntries
     \/ part = "tape" /\ Prep!Capturing

MCNext ==
  \/ part = "engine" /\ Next /\ UNCHANGED <<part, stream, dates, series, alpha, market, data, judged, reports>>
  \/ part = "stream" /\ Stream!Next /\ UNCHANGED <<part, vars, dates, series, alpha, market, data, judged, reports>>
  \/ part = "dates" /\ Dates!Next /\ UNCHANGED <<part, vars, stream, series, alpha, market, data, judged, reports>>
  \/ part = "strategy" /\ Strategy!Next /\ UNCHANGED <<part, vars, stream, dates, alpha, market, data, judged, reports>>
  \/ part = "days" /\ Alpha!NextDay /\ UNCHANGED <<part, vars, stream, dates, series, market, data, judged, reports>>
  \/ part = "intervals" /\ Alpha!Intervals /\ UNCHANGED <<part, vars, stream, dates, series, market, data, judged, reports>>
  \/ part = "books" /\ Books!Next /\ UNCHANGED <<part, vars, stream, dates, series, alpha, data, judged, reports>>
  \/ Preparing
  \/ /\ UNCHANGED <<part, vars, stream, dates, series, alpha, market, data, reports>>
     /\ \/ part = "factors" /\ Signals!NextBar
        \/ part = "rows" /\ Signals!NextRow
        \/ part = "months" /\ Signals!NextMonth
        \/ part = "calendar" /\ Signals!Observe
        \/ part = "screener" /\ Signals!Add
        \/ part = "ranking" /\ Signals!List
  \/ /\ UNCHANGED <<part, vars, stream, dates, series, alpha, market, data, judged>>
     /\ \/ part = "history" /\ Reports!NextDay
        \/ part = "hedging" /\ Reports!Descend
        \/ part = "index" /\ (Reports!PriceMove \/ Reports!Reconstitute)
        \/ part = "asking" /\ Reports!Ask

MCSpec == MCInit /\ [][MCNext]_<<part, vars, stream, dates, series, alpha, market, data, judged, reports>>

(* A streaming indicator fed bar by bar shows what the batch arrays show   *)
(* of the same bars, from the first value on; and a value the arrays gave  *)
(* for a bar stays as it was when later bars arrive, the chikou span apart.*)
LiveIsBatch == part = "stream" => Stream!LiveIsBatch /\ Stream!NothingIsRepainted
(* Each trade of the bar backtester could have happened on its bars: in    *)
(* order, at prices the bars traded, and the capital adds up.              *)
(* A book of several names pays for what it trades, its costs are those of *)
(* its curve, its weights are what they promise and its statistics true; a *)
(* hedge never adds to what it hedges, an index moves for its prices only. *)
BooksAddUp ==
  /\ part = "strategy" => Strategy!RoundTripsAreReal
  /\ part = "books" => Books!BooksBalance /\ Books!NetTrailsGross /\ Books!WeightsAreFair
                        /\ Books!StatisticsAreTrue
  /\ part = "hedging" => Reports!HedgeIsSound
  /\ part = "index" => Reports!LevelIsChained
(* What a walk-forward fold reports, of strategies or of factors, is       *)
(* chosen on bars before those it is tested on, and a signal is graded on  *)
(* a return that came after it; and what is said of a backtest's luck is   *)
(* what reordering, resampling and splitting its history shows.            *)
OutOfSample ==
  /\ part = "strategy" => Strategy!FoldsAreOutOfSample
  /\ part = "days" => Alpha!SelectionPeeksNowhere
  /\ part = "intervals" => Alpha!GradedOnThePast
  /\ part = "history" => Reports!ShuffleKeepsTheTrades /\ Reports!OverfitIsJudged
                          /\ Reports!BenchmarkIsExplained
(* What the files become is true of them: aligned series of what was known *)
(* by then, adjusted returns a holder made, members nobody learnt later,   *)
(* of a torn capture its beginning; and a value date is a business day of  *)
(* both centers in the right month, a curve gives back what it was quoted. *)
DataIsHonest ==
  /\ part = "dates" => Dates!ValueDatesAreGood /\ Dates!QuotesComeBack
  /\ part = "files" => Prep!AlignedIsTrue
  /\ part = "actions" => Prep!ReturnsAreTheHolders
  /\ part = "universe" => Prep!MembershipIsPointInTime
  /\ part = "tape" => Prep!ReplayIsAPrefix
(* Scores see no later bar, are graded on every pair once and on nothing   *)
(* else, and what explains returns, screens and ranks stocks says of them  *)
(* what it promises, whatever is missing.                                  *)
SignalsAreJudged ==
  /\ part = "factors" => /\ Signals!ScoresPeekNowhere /\ Signals!FactorsAreOriented
                         /\ Signals!GradesAreFair /\ Signals!RankCorrelationIsRight
                         /\ Signals!BucketsAreFair /\ Signals!DecayIsRight
  /\ part = "rows" => Signals!SystemsAreSolved /\ Signals!AttributionIsOls
  /\ part = "months" => Signals!PremiaAreOfTheMonths
  /\ part = "calendar" => Signals!ReturnsAreCountedOnce /\ Signals!PercentilesAreOrdered
  /\ part = "screener" => Signals!FiltersAreSound
  /\ part = "ranking" => Signals!RanksAreFair
  /\ part = "history" => /\ Reports!TailsAreCoherent /\ Reports!ReturnTailsAgree
                          /\ Reports!LikelihoodsAreFinite /\ Reports!PlatIsRight
  /\ part = "asking" => Reports!AnswersAreRight
(* A rule over an indicator that has no value yet is not satisfied.        *)
WarmupSatisfiesNothing == part = "strategy" => Strategy!WarmupSatisfiesNothing
=============================================================================
