----------------------------- MODULE MarketStreams -----------------------------
(***************************************************************************)
(* What the streaming estimators of microstructure/ have learned from the  *)
(* market: the intraday volume profile and the time-of-day baselines of    *)
(* spread and volatility, one set for each type of day; the side of each   *)
(* print, the flow imbalances and VPIN; the place in a queue and the hidden *)
(* size seen through aggregated levels; covariance, lead-lag and impact.   *)
(*                                                                         *)
(* Weights are powers of a half, so every average is an exact fraction, and *)
(* a decay halves per unit of time.  What the market did is kept beside    *)
(* each estimator (learned, means, tape, queue, samples) and only the      *)
(* properties read it.                                                     *)
(***************************************************************************)
EXTENDS Fractions, Integers, Sequences, SequencesExt, FiniteSetsExt

CONSTANTS
  Buckets, DayTypes,       \* 1..n; the caller's taxonomy
  Volumes, Shapes,         \* of a print; profiles to seed with
  Readings,                \* of a spread or a volatility; negative for garbage
  Quotes, Prices, Sizes,   \* [bid, bidSize, ask, askSize], 0 for NaN; of prints
  BucketVolume, Window,    \* of VPIN
  Tip, Reserves,           \* an iceberg's display and what may hide behind it
  MaxLag, Returns,         \* pairs, with NaN for a gap
  Weights,                 \* portfolios of two
  MaxEvents, MaxTime       \* bounds

NaN == 0 - 1000000
NoFraction == Whole(NaN)
Ewma(old, new, over) == Plus(old, Over(Minus(new, old), over))
Decayed(x, dt) == IF dt <= 0 THEN x ELSE Over(x, 2^dt)
AtMost(x, y) == ~Less(y, x)
Within(x, S) == (\E y \in S : AtMost(y, x)) /\ (\E y \in S : AtMost(x, y))
Total(s) == FoldLeft(Plus, Whole(0), s)

VARIABLES
  now, events,
  curve, saved, learned,       \* VolumeCurve of each type of day, its checkpoint
  season, shock, means,        \* SpreadForecaster and VolatilityCurve
  sides, flow, vpin, tape, quotes,
  place, queue, seen, iceberg,
  cov, lag, kyle, samples

volumes == <<curve, saved, learned>>
hours == <<season, shock, means>>
prints == <<sides, flow, vpin, tape, quotes>>
levels == <<place, queue, seen, iceberg>>
pairs == <<cov, lag, kyle, samples>>
vars == <<now, events, volumes, hours, prints, levels, pairs>>

-----------------------------------------------------------------------------
(* volume_curve.py, one curve for each type of day.                        *)
NoVolume == [b \in Buckets |-> 0]
PrefixSums(ewma) == [b \in Buckets |-> Total([i \in 1..b |-> ewma[i]])]
Rebuilt(c, ewma) ==
  [c EXCEPT !.ewma = ewma, !.cum = PrefixSums(ewma), !.total = PrefixSums(ewma)[Max(Buckets)]]
NewDay(c) == [c EXCEPT !.today = NoVolume, !.todayTotal = 0]
NewCurve == [ewma |-> [b \in Buckets |-> Whole(0)], cum |-> [b \in Buckets |-> Whole(0)],
             total |-> Whole(0), today |-> NoVolume, todayTotal |-> 0, days |-> 0]

(* One curve for each type of day, built up front.                         *)
NewProfiles == [t \in DayTypes |-> NewCurve]

OnVolume(t, b, q) ==
  /\ curve' = [curve EXCEPT ![t].today[b] = @ + q, ![t].todayTotal = @ + q]
  /\ UNCHANGED <<saved, learned>>

SeedProfile(t, shape) ==
  /\ curve' = [curve EXCEPT ![t] = [Rebuilt(@, [b \in Buckets |-> Whole(shape[b])]) EXCEPT !.days = 1]]
  /\ learned' = [learned EXCEPT ![t] = <<shape>>]
  /\ UNCHANGED saved

FoldedRamping(c, b) == Ewma(c.ewma[b], Whole(c.today[b]), 2)
Folded(c, b) == IF c.days = 0 THEN Whole(c.today[b]) ELSE FoldedRamping(c, b)
RolledUnsummed(c) ==
  NewDay([c EXCEPT !.ewma = [b \in Buckets |-> Folded(c, b)], !.days = @ + 1])
Rolled(c) == NewDay([Rebuilt(c, [b \in Buckets |-> Folded(c, b)]) EXCEPT !.days = @ + 1])
RollDay(t) ==
  /\ curve' = [curve EXCEPT ![t] = Rolled(@)]
  /\ learned' = [learned EXCEPT ![t] = Append(@, curve[t].today)]
  /\ UNCHANGED saved

NotSaved == [days |-> NaN, ewma |-> [b \in Buckets |-> Whole(0)], learned |-> <<>>]
WriteState(t) ==
  /\ saved' = [days |-> curve[t].days, ewma |-> curve[t].ewma, learned |-> learned[t]]
  /\ UNCHANGED <<curve, learned>>
ReadState(t) ==
  /\ saved # NotSaved
  /\ curve' = [curve EXCEPT ![t] = NewDay([Rebuilt(@, saved.ewma) EXCEPT !.days = saved.days])]
  /\ learned' = [learned EXCEPT ![t] = saved.learned]
  /\ UNCHANGED saved

(* f halves of bucket b are over.                                          *)
Clamped(f) == Frac(Max({0, Min({2, f})}), 2)
ExpectedFraction(c, b, f) ==
  IF c.total[1] <= 0 THEN Over(Plus(Whole(b - 1), Clamped(f)), Max(Buckets))
  ELSE LeastOf(Whole(1), Quotient(Plus(IF b > 1 THEN c.cum[b - 1] ELSE Whole(0),
                                       Product(Clamped(f), c.ewma[b])), c.total))
ExpectedSoFar(c, b, f) == Product(ExpectedFraction(c, b, f), c.total)
Scale(c, expected) ==
  Plus(Whole(1), Product(LeastOf(Whole(1), Quotient(expected, c.total)),
                         Minus(Quotient(Whole(c.todayTotal), expected), Whole(1))))
ProjectedDayVolume(c, b, f) ==
  IF c.total[1] <= 0 THEN Whole(c.todayTotal)
  ELSE IF ExpectedSoFar(c, b, f)[1] <= 0 THEN c.total
  ELSE Product(c.total, MostOf(Whole(0), Scale(c, ExpectedSoFar(c, b, f))))
ExpectedRemaining(c, b, f) ==
  MostOf(Whole(0), Minus(ProjectedDayVolume(c, b, f), Whole(c.todayTotal)))

Sessions ==
  /\ \E t \in DayTypes :
       \/ \E b \in Buckets, q \in Volumes : OnVolume(t, b, q)
       \/ \E shape \in Shapes : SeedProfile(t, shape)
       \/ RollDay(t) \/ WriteState(t) \/ ReadState(t)
  /\ UNCHANGED <<now, hours, prints, levels, pairs>>

(* The curve a VWAP schedule follows goes from 0 to 1 without a step back  *)
(* or a jump between buckets, whatever was seeded, rolled or restored; and *)
(* at the close nothing is expected any more.                              *)
FractionIsACurve ==
  \A t \in DayTypes :
    LET c == curve[t]
        At(b, f) == ExpectedFraction(c, b, f)
    IN /\ At(1, 0) = Whole(0) /\ At(Max(Buckets), 2) = Whole(1)
       /\ \A b \in Buckets :
            /\ AtMost(At(b, 0), At(b, 1)) /\ AtMost(At(b, 1), At(b, 2))
            /\ b + 1 \in Buckets => At(b, 2) = At(b + 1, 0)
       /\ c.total[1] > 0 => ExpectedRemaining(c, Max(Buckets), 2) = Whole(0)

(* Every bucket of a profile lies among the volumes of that bucket on the  *)
(* days of that type: a first day counts whole, the day cut by a restore   *)
(* not at all.                                                             *)
ProfileIsLearned ==
  \A t \in DayTypes :
    /\ curve[t].days = Len(learned[t])
    /\ \A b \in Buckets : learned[t] # <<>> =>
         Within(curve[t].ewma[b], {Whole(learned[t][i][b]) : i \in DOMAIN learned[t]})

-----------------------------------------------------------------------------
(* spread_forecaster.py and volatility_curve.py learn their baselines with *)
(* the same code; the forecaster also keeps a deviation.                   *)
Kinds == {"spread", "vol"}
NewSeason == [base |-> [b \in Buckets |-> Whole(0)], sum |-> NoVolume, count |-> NoVolume, days |-> 0]
NewShock == [dev |-> Whole(0), at |-> 0, has |-> FALSE, last |-> NaN, seen |-> {}]

CurrentDeviation(at) ==
  IF shock.has THEN Decayed(shock.dev, at - shock.at) ELSE Whole(0)
HasNoBaselineYet(s, b) == s.days = 0
HasNoBaseline(s, b) == s.days = 0 \/ s.base[b] = Whole(0)
Shocked(b, x, dev) ==
  [shock EXCEPT !.last = x, !.has = TRUE, !.at = now,
     !.seen = IF means["spread"][b] = {} THEN @ ELSE @ \cup {dev},
     !.dev = IF shock.has THEN Ewma(CurrentDeviation(now), dev, 4) ELSE dev]
OnSpread(b, x) ==
  shock' = IF HasNoBaseline(season["spread"], b) THEN [shock EXCEPT !.last = x]
           ELSE Shocked(b, x, Minus(Whole(x), season["spread"].base[b]))

OnReading(k, b, x) ==
  IF x < 0 THEN UNCHANGED hours
  ELSE /\ season' = [season EXCEPT ![k].sum[b] = @ + x, ![k].count[b] = @ + 1]
       /\ IF k = "spread" THEN OnSpread(b, x) ELSE UNCHANGED shock
       /\ UNCHANGED means

TodayMean(s, b) == Frac(s.sum[b], s.count[b])
FoldedInFromZero(s, b) ==
  IF s.count[b] = 0 THEN s.base[b]
  ELSE IF s.days = 0 THEN TodayMean(s, b)
  ELSE Ewma(s.base[b], TodayMean(s, b), 2)
FoldedIn(s, b) ==
  IF s.count[b] = 0 THEN s.base[b]
  ELSE IF s.base[b] = Whole(0) THEN TodayMean(s, b)
  ELSE Ewma(s.base[b], TodayMean(s, b), 2)
RollHours(k) ==
  LET s == season[k]
  IN /\ season' = [season EXCEPT ![k] = [base |-> [b \in Buckets |-> FoldedIn(s, b)],
                                         sum |-> NoVolume, count |-> NoVolume, days |-> s.days + 1]]
     /\ means' = [means EXCEPT ![k] = [b \in Buckets |->
                    IF s.count[b] = 0 THEN @[b] ELSE @[b] \cup {TodayMean(s, b)}]]
     /\ shock' = IF k = "spread" THEN [shock EXCEPT !.dev = Whole(0), !.has = FALSE, !.seen = {}]
                 ELSE shock

Forecast(b, at) ==
  IF season["spread"].days = 0 THEN IF shock.last = NaN THEN NoFraction ELSE Whole(shock.last)
  ELSE MostOf(Whole(0), Plus(season["spread"].base[b], CurrentDeviation(at)))
Regime(b, x) ==
  LET base == season["vol"].base[b]
  IN IF base[1] <= 0 \/ x < 0 THEN Whole(0)
     ELSE MostOf(Whole(0), LeastOf(Whole(1), Minus(Quotient(Whole(x), base), Whole(1))))

Seasons ==
  /\ \/ \E k \in Kinds, b \in Buckets, x \in Readings : OnReading(k, b, x) /\ UNCHANGED now
     \/ \E k \in Kinds : RollHours(k) /\ UNCHANGED now
     \/ now < MaxTime /\ now' = now + 1 /\ UNCHANGED hours
  /\ UNCHANGED <<volumes, prints, levels, pairs>>

(* A baseline lies among the daily means of its own bucket, whichever day  *)
(* the bucket was seen first; the deviation among the shocks of the day at *)
(* hours that have one; so a forecast is no further from its baseline than *)
(* the market was, and an hour reads extreme only above what it has seen.  *)
HoursAreLearned ==
  /\ \A k \in Kinds, b \in Buckets :
       IF means[k][b] = {} THEN season[k].base[b] = Whole(0)
       ELSE Within(season[k].base[b], means[k][b])
  /\ Within(CurrentDeviation(now), shock.seen \cup {Whole(0)})
  /\ \A b \in Buckets :
       /\ season["spread"].days > 0 => AtMost(Whole(0), Forecast(b, now))
       /\ \A x \in Readings : AtMost(Whole(1), Regime(b, x)) =>
            \E y \in means["vol"][b] : AtMost(Times(y, 2), Whole(x))

-----------------------------------------------------------------------------
(* trade_classifier.py, flow_signals.py and vpin.py, fed by one tape.      *)
NoQuote == [bid |-> 0, bidSize |-> 0, ask |-> 0, askSize |-> 0]
NewSides == [bid |-> 0, ask |-> 0, price |-> 0, last |-> 0]
Buy == 1
Sell == 0 - 1
Unknown == 0
Lean(x) == IF x > 0 THEN Buy ELSE IF x < 0 THEN Sell ELSE Unknown

QuoteRule(p) ==
  IF sides.ask # 0 /\ p >= sides.ask THEN Buy
  ELSE IF sides.bid # 0 /\ p <= sides.bid THEN Sell
  ELSE IF sides.bid # 0 /\ sides.ask # 0 THEN Lean(2 * p - sides.bid - sides.ask)
  ELSE Unknown
TickTest(p) ==
  IF sides.price = 0 THEN Unknown
  ELSE IF p = sides.price THEN sides.last ELSE Lean(p - sides.price)
Class(p) == IF QuoteRule(p) # Unknown THEN QuoteRule(p) ELSE TickTest(p)
ClassifiedIfKnown(p) ==
  IF Class(p) = Unknown THEN sides ELSE [sides EXCEPT !.price = p, !.last = Class(p)]
Classified(p) ==
  [sides EXCEPT !.price = p, !.last = IF Class(p) # Unknown THEN Class(p) ELSE @]
IsBuyAggressor(p) == Classified(p).last = Buy

(* One bid or ask leg of the flow: more at the price, or a better price.   *)
BidLeg(q) == IF q.bid > flow.prev.bid THEN q.bidSize
             ELSE IF q.bid = flow.prev.bid THEN q.bidSize - flow.prev.bidSize
             ELSE -flow.prev.bidSize
AskLegDropped(q) == IF q.ask < flow.prev.ask THEN -q.askSize
             ELSE IF q.ask = flow.prev.ask THEN flow.prev.askSize - q.askSize ELSE 0
AskLeg(q) == IF q.ask < flow.prev.ask THEN -q.askSize
             ELSE IF q.ask = flow.prev.ask THEN flow.prev.askSize - q.askSize
             ELSE flow.prev.askSize
Dealable(q) == q.bidSize > 0 /\ q.askSize > 0 /\ q.bid > 0 /\ q.ask > 0
NewFlow == [prev |-> NoQuote, has |-> FALSE, bidSize |-> 0, askSize |-> 0, ofi |-> Whole(0),
            at |-> 0, signed |-> Whole(0), total |-> Whole(0), traded |-> 0]
FlowOnQuote(q) ==
  IF ~Dealable(q) THEN [flow EXCEPT !.bidSize = 0, !.askSize = 0, !.has = FALSE]
  ELSE [flow EXCEPT !.bidSize = q.bidSize, !.askSize = q.askSize, !.prev = q, !.has = TRUE, !.at = now,
          !.ofi = IF flow.has THEN Plus(Decayed(@, now - flow.at), Whole(BidLeg(q) + AskLeg(q))) ELSE @]
Ofi(at) == Decayed(flow.ofi, at - flow.at)
FlowOnTrade(buy, n) ==
  [flow EXCEPT !.signed = Plus(Decayed(@, now - flow.traded), Whole(IF buy THEN n ELSE -n)),
               !.total = Plus(Decayed(@, now - flow.traded), Whole(n)), !.traded = now]
QueueImbalance ==
  IF flow.bidSize <= 0 \/ flow.askSize <= 0 THEN Whole(0)
  ELSE Frac(flow.bidSize - flow.askSize, flow.bidSize + flow.askSize)
TradeImbalance == IF flow.total[1] <= 0 THEN Whole(0) ELSE Quotient(flow.signed, flow.total)

(* The ring holds |buys - sells| of each full bucket.                      *)
NewVpin == [ring |-> [i \in 0..(Window - 1) |-> 0], filled |-> 0, head |-> 0, buy |-> 0, sell |-> 0]
Recorded(v, x) ==
  [v EXCEPT !.ring[v.head] = x, !.head = (@ + 1) % Window, !.filled = Min({Window, @ + 1})]
Added(v, n, buy) == IF buy THEN [v EXCEPT !.buy = @ + n] ELSE [v EXCEPT !.sell = @ + n]
CompleteBucket(v) == [Recorded(v, Abs(v.buy - v.sell)) EXCEPT !.buy = 0, !.sell = 0]
Opened(v, n, buy) ==
  LET take == Min({n, BucketVolume - v.buy - v.sell})
      w == Added(v, take, buy)
  IN IF w.buy + w.sell = BucketVolume THEN CompleteBucket(w) ELSE w
WholeBuckets(v, full) ==
  FoldLeft(LAMBDA w, i : Recorded(w, BucketVolume), v, [i \in 1..Min({full, Window}) |-> i])
VpinOnTradeUnsplit(v, n, buy) ==
  LET w == Added(v, n, buy)
  IN IF w.buy + w.sell >= BucketVolume
     THEN [Recorded(w, Min({BucketVolume, Abs(w.buy - w.sell)})) EXCEPT !.buy = 0, !.sell = 0] ELSE w
VpinOnTrade(v, n, buy) ==
  LET rest == n - Min({n, BucketVolume - v.buy - v.sell})
      full == rest \div BucketVolume
  IN Added(WholeBuckets(Opened(v, n, buy), full), rest - full * BucketVolume, buy)
VpinSum == FoldLeft(LAMBDA x, i : x + vpin.ring[i - 1], 0, [i \in 1..vpin.filled |-> i])

OnQuote(q) ==
  /\ sides' = [sides EXCEPT !.bid = q.bid, !.ask = q.ask]
  /\ flow' = FlowOnQuote(q)
  /\ quotes' = Append(quotes, [q |-> q, at |-> now])
  /\ UNCHANGED <<vpin, tape>>
TradePrint(p, n) ==
  /\ sides' = Classified(p)
  /\ flow' = FlowOnTrade(IsBuyAggressor(p), n)
  /\ vpin' = VpinOnTrade(vpin, n, IsBuyAggressor(p))
  /\ tape' = Append(tape, [p |-> p, n |-> n, buy |-> IsBuyAggressor(p), at |-> now])
  /\ UNCHANGED quotes

Trading ==
  /\ \/ \E q \in Quotes : OnQuote(q) /\ UNCHANGED now
     \/ \E p \in Prices, n \in Sizes : TradePrint(p, n) /\ UNCHANGED now
     \/ now < MaxTime /\ now' = now + 1 /\ UNCHANGED prints
  /\ UNCHANGED <<volumes, hours, levels, pairs>>

(* However the prints were cut, VPIN is the mean imbalance of the last     *)
(* windows of BucketVolume units of the tape.                              *)
Units == FlattenSeq([i \in DOMAIN tape |-> [j \in 1..tape[i].n |-> IF tape[i].buy THEN 1 ELSE -1]])
BucketOf(k) == Abs(FoldLeft(LAMBDA x, y : x + y, 0,
                 SubSeq(Units, (k - 1) * BucketVolume + 1, k * BucketVolume)))
VpinIsVolumeTime ==
  LET full == Len(Units) \div BucketVolume
      last == Max({0, full - Window})
  IN /\ vpin.filled = Min({Window, full})
     /\ VpinSum = MapThenSumSet(BucketOf, (last + 1)..full)

(* Trade imbalance is the decayed signed volume over the decayed volume,   *)
(* and order-flow imbalance the decayed sum of what each quote added at    *)
(* the two inside prices, as long as the quotes were never interrupted.    *)
Contribution(q, p) ==
  (IF q.bid >= p.bid THEN q.bidSize ELSE 0) - (IF q.bid <= p.bid THEN p.bidSize ELSE 0)
  - (IF q.ask <= p.ask THEN q.askSize ELSE 0) + (IF q.ask >= p.ask THEN p.askSize ELSE 0)
FlowIsTheTape ==
  /\ flow.total = Total([i \in DOMAIN tape |-> Decayed(Whole(tape[i].n), flow.traded - tape[i].at)])
  /\ flow.signed = Total([i \in DOMAIN tape |->
       Decayed(Whole(IF tape[i].buy THEN tape[i].n ELSE -tape[i].n), flow.traded - tape[i].at)])
  /\ (\A i \in DOMAIN quotes : Dealable(quotes[i].q)) =>
       Ofi(now) = Total([i \in 1..(Len(quotes) - 1) |->
         Decayed(Whole(Contribution(quotes[i + 1].q, quotes[i].q)), now - quotes[i + 1].at)])
  /\ \A x \in {TradeImbalance, QueueImbalance} : AtMost(Whole(-1), x) /\ AtMost(x, Whole(1))

(* With no quote at all, a print is on the side the price moved to last.   *)
Moved == {i \in 2..Len(tape) : tape[i].p # tape[i - 1].p}
SidesFollowThePrice ==
  quotes = <<>> =>
    sides.last = IF Moved = {} THEN Unknown
                 ELSE Lean(tape[Max(Moved)].p - tape[Max(Moved) - 1].p)

-----------------------------------------------------------------------------
(* queue_position_estimator.py: queue is what a feed with orders would     *)
(* show, [ahead, behind]; clean as long as nobody behind has cancelled.    *)
NewPlace == [ahead |-> Whole(0), joined |-> 0, level |-> 0, own |-> 0, active |-> FALSE]
Join(level, own) ==
  /\ ~place.active
  /\ place' = [ahead |-> Whole(level), joined |-> level, level |-> level + own, own |-> own, active |-> TRUE]
  /\ queue' = [ahead |-> level, behind |-> 0, clean |-> TRUE]

PlaceOnTrade(n) ==
  [place EXCEPT !.ahead = MostOf(Whole(0), Minus(@, Whole(n))),
                !.level = Max({place.own, @ - n})]
Removed(n) == place.level - place.own - Max({0, n - place.own})
FractionAheadOfAll == Over(place.ahead, place.level)
FractionAhead ==
  IF place.level > place.own THEN Over(place.ahead, place.level - place.own) ELSE Whole(0)
PlaceOnResize(n) ==
  [place EXCEPT !.level = Max({place.own, n}),
     !.ahead = IF Removed(n) > 0 THEN MostOf(Whole(0), Minus(@, Times(FractionAhead, Removed(n)))) ELSE @]
QueueProgress(p) ==
  IF p.joined <= 0 THEN Whole(1)
  ELSE MostOf(Whole(0), Minus(Whole(1), Over(p.ahead, p.joined)))

Shown(q) == q.ahead + place.own + q.behind
Resized(q) == queue' = q /\ place' = PlaceOnResize(Shown(q))
Queueing ==
  \/ \E level \in 0..3, own \in 1..2 : Join(level, own)
  \/ /\ place.active
     /\ \/ \E n \in 1..queue.ahead : queue' = [queue EXCEPT !.ahead = @ - n] /\ place' = PlaceOnTrade(n)
        \/ \E n \in 1..queue.ahead : Resized([queue EXCEPT !.ahead = @ - n, !.clean = @ /\ queue.behind = 0])
        \/ \E n \in 1..queue.behind : Resized([queue EXCEPT !.behind = @ - n, !.clean = FALSE])
        \/ \E n \in 1..2 : Resized([queue EXCEPT !.behind = @ + n])
        \/ place' = [place EXCEPT !.active = FALSE] /\ UNCHANGED queue

(* hidden_liquidity_detector.py at one level: iceberg is the order there,  *)
(* whose display reaches the detector after the print that moved it.       *)
NewSeen == [displayed |-> 0, ewma |-> Whole(0), obs |-> 0]
RefillRamping(ratio) == Ewma(seen.ewma, ratio, 2)
Refill(ratio) == IF seen.obs = 0 THEN ratio ELSE RefillRamping(ratio)
OnExecution(n) ==
  IF seen.displayed > 0 /\ n > seen.displayed
  THEN [seen EXCEPT !.ewma = Refill(Frac(n, seen.displayed)), !.obs = @ + 1] ELSE seen
HiddenMultiplier == IF seen.obs = 0 THEN Whole(1) ELSE MostOf(Whole(1), seen.ewma)
EstimatedTrueDepth == Times(HiddenMultiplier, seen.displayed)
IsIceberg == seen.obs > 0 /\ Less(Whole(1), seen.ewma)

AfterPrint(i, n) ==
  [i EXCEPT !.tip = IF n < i.tip THEN @ - n ELSE Min({Tip, i.tip + i.hidden - n}),
            !.hidden = IF n < i.tip THEN @ ELSE i.tip + @ - n - Min({Tip, i.tip + @ - n}),
            !.ratios = IF seen.displayed > 0 /\ n > seen.displayed
                       THEN @ \cup {Frac(n, seen.displayed)} ELSE @]
Lurking ==
  \/ seen' = [seen EXCEPT !.displayed = iceberg.tip] /\ UNCHANGED iceberg
  \/ \E n \in 1..(iceberg.tip + iceberg.hidden) : seen' = OnExecution(n) /\ iceberg' = AfterPrint(iceberg, n)
  \/ /\ iceberg.tip = 0 /\ seen' = [seen EXCEPT !.displayed = 0]
     /\ \E r \in Reserves : iceberg' = [iceberg EXCEPT !.tip = Tip, !.hidden = r, !.ever = @ \/ r > 0]

Resting ==
  /\ \/ Queueing /\ UNCHANGED <<seen, iceberg>>
     \/ Lurking /\ UNCHANGED <<place, queue>>
  /\ UNCHANGED <<now, volumes, hours, prints, pairs>>

(* The estimate never exceeds what is shown besides the order, never grows *)
(* (PlaceNeverWorsens), and is the truth as long as cancels leave no doubt *)
(* who left; and a level is called an iceberg only if size hid there, with *)
(* a multiple among those its prints showed.                               *)
PlaceIsRight ==
  place.active =>
    /\ AtMost(Whole(0), place.ahead) /\ AtMost(place.ahead, Whole(place.level - place.own))
    /\ place.level = Shown(queue)
    /\ queue.clean => place.ahead = Whole(queue.ahead)
IcebergsHide ==
  /\ IsIceberg => iceberg.ever
  /\ IF iceberg.ratios = {} THEN HiddenMultiplier = Whole(1)
     ELSE Within(HiddenMultiplier, iceberg.ratios)
  /\ AtMost(Whole(seen.displayed), EstimatedTrueDepth)
(* A place in a queue never worsens while the order rests.                 *)
PlaceNeverWorsens ==
  [][place.active /\ place'.active =>
       AtMost(place'.ahead, place.ahead) /\ AtMost(QueueProgress(place), QueueProgress(place'))]_levels

-----------------------------------------------------------------------------
(* ewma_covariance.py for two symbols, lead_lag_estimator.py and           *)
(* kyles_lambda.py, on one pair of returns per interval.                   *)
IsGap(r) == \E i \in DOMAIN r : r[i] = NaN
CovEntries == {<<1, 1>>, <<2, 1>>, <<2, 2>>}
NewCov == [tri |-> [p \in CovEntries |-> Whole(0)], samples |-> 0]
Updated(old, prod, seed) == IF seed THEN Whole(prod) ELSE Ewma(old, Whole(prod), 2)
OnReturnsClean(r) ==
  [tri |-> [p \in CovEntries |-> IF NaN \in {r[p[1]], r[p[2]]} THEN cov.tri[p]
                            ELSE Updated(cov.tri[p], r[p[1]] * r[p[2]], cov.samples = 0)],
   samples |-> cov.samples + 1]
OnReturns(r) ==
  IF IsGap(r) THEN cov
  ELSE [tri |-> [p \in CovEntries |-> Updated(cov.tri[p], r[p[1]] * r[p[2]], cov.samples = 0)],
        samples |-> cov.samples + 1]
Covariance(i, j) == cov.tri[<<Max({i, j}), Min({i, j})>>]
PortfolioVariance(w) ==
  Total(<<Times(Covariance(1, 1), w[1] * w[1]), Times(Covariance(2, 1), 2 * w[1] * w[2]),
          Times(Covariance(2, 2), w[2] * w[2])>>)
MarginalContribution(w, i) ==
  IF PortfolioVariance(w)[1] <= 0 THEN Whole(0)
  ELSE Quotient(Times(Plus(Times(Covariance(i, 1), w[1]), Times(Covariance(i, 2), w[2])), w[i]),
                PortfolioVariance(w))
MinVarianceHedgeRatio(target, hedge) ==
  IF Covariance(hedge, hedge)[1] > 0 THEN Quotient(Covariance(target, hedge), Covariance(hedge, hedge))
  ELSE Whole(0)

Lags == 0..MaxLag
NoMoments == [lead |-> Whole(0), follow |-> Whole(0), vl |-> Whole(0), vf |-> Whole(0), cv |-> Whole(0)]
NewLag == [ring |-> [i \in Lags |-> 0], head |-> 0, fill |-> 0, samples |-> 0,
           moments |-> [k \in Lags |-> NoMoments]]
(* The slot of the leader's return k samples ago.                          *)
IndexOff(head, k) == IF head - k <= 0 THEN (head - k + MaxLag) % (MaxLag + 1) ELSE head - k
Index(head, k) == IF head - k < 0 THEN head - k + MaxLag + 1 ELSE head - k
Nudged(m, lead, follow) ==
  LET ml == Ewma(m.lead, Whole(lead), 2)
      mf == Ewma(m.follow, Whole(follow), 2)
      dl == Minus(Whole(lead), ml)
      df == Minus(Whole(follow), mf)
  IN [lead |-> ml, follow |-> mf, vl |-> Ewma(m.vl, Product(dl, dl), 2),
      vf |-> Ewma(m.vf, Product(df, df), 2), cv |-> Ewma(m.cv, Product(dl, df), 2)]
OnSample(r) ==
  IF IsGap(r) THEN lag
  ELSE LET head == (lag.head + 1) % (MaxLag + 1)
           fill == Min({MaxLag + 1, lag.fill + 1})
           ring == [lag.ring EXCEPT ![head] = r[1]]
       IN [ring |-> ring, head |-> head, fill |-> fill, samples |-> lag.samples + 1,
           moments |-> [k \in Lags |-> IF k < fill THEN Nudged(lag.moments[k], ring[Index(head, k)], r[2])
                                       ELSE lag.moments[k]]]
(* The correlation squared, with the sign of the covariance apart.         *)
SquaredCorrelation(k) ==
  LET m == lag.moments[k]
      d == Product(m.vl, m.vf)
  IN IF d[1] > 0 THEN Quotient(Product(m.cv, m.cv), d) ELSE Whole(0)
Measured == 1..Min({lag.samples - 1, MaxLag})
BestLag ==
  LET good == {k \in Measured : SquaredCorrelation(k)[1] > 0}
  IN IF good = {} THEN 0
     ELSE Min({k \in good : \A j \in good : AtMost(SquaredCorrelation(j), SquaredCorrelation(k))})
ExpectedFollowerReturn ==
  IF BestLag = 0 \/ lag.moments[BestLag].vl[1] <= 0 THEN Whole(0)
  ELSE Times(Quotient(lag.moments[BestLag].cv, lag.moments[BestLag].vl),
             lag.ring[Index(lag.head, BestLag - 1)])

(* The pair read as a mid change and a signed volume.                      *)
NewKyle == [qq |-> Whole(0), qp |-> Whole(0), samples |-> 0]
KyleOnSample(move, volume) ==
  IF NaN \in {move, volume} \/ volume = 0 THEN kyle
  ELSE [qq |-> Updated(kyle.qq, volume * volume, kyle.samples = 0),
        qp |-> Updated(kyle.qp, volume * move, kyle.samples = 0), samples |-> kyle.samples + 1]
Lambda == IF kyle.qq[1] > 0 THEN Quotient(kyle.qp, kyle.qq) ELSE Whole(0)
PriceImpact(n) == MostOf(Whole(0), Times(Lambda, Abs(n)))

Sampling ==
  /\ \E r \in Returns :
       /\ cov' = OnReturns(r) /\ lag' = OnSample(r) /\ kyle' = KyleOnSample(r[1], r[2])
       /\ samples' = Append(samples, r)
  /\ UNCHANGED <<now, volumes, hours, prints, levels>>

Valid == SelectSeq(samples, LAMBDA r : ~IsGap(r))
(* No portfolio has a negative variance, the contributions to it add up to *)
(* one, and the hedge ratio leaves no more variance than there was: no bad *)
(* print may break the matrix.                                             *)
RiskIsARisk ==
  /\ \A w \in Weights :
       /\ AtMost(Whole(0), PortfolioVariance(w))
       /\ PortfolioVariance(w)[1] > 0 =>
            Plus(MarginalContribution(w, 1), MarginalContribution(w, 2)) = Whole(1)
  /\ AtMost(Product(Covariance(1, 2), Covariance(1, 2)), Product(Covariance(1, 1), Covariance(2, 2)))
(* The moments at a lag are those of the leader's returns so many valid    *)
(* samples before the follower's, and no correlation exceeds one.          *)
LagsAreLagged ==
  \A k \in Lags :
    /\ lag.moments[k] = FoldLeft(LAMBDA m, i : Nudged(m, Valid[i][1], Valid[i + k][2]), NoMoments,
                                 [i \in 1..Max({0, Len(Valid) - k}) |-> i])
    /\ AtMost(SquaredCorrelation(k), Whole(1))
(* The learned impact per unit lies among those of the windows that had    *)
(* flow, and no trade is paid to take place.                               *)
Flowing == SelectSeq(samples, LAMBDA r : ~IsGap(r) /\ r[2] # 0)
ImpactIsLearned ==
  /\ Flowing # <<>> => Within(Lambda, {Quotient(Whole(Flowing[i][1]), Whole(Flowing[i][2])) : i \in DOMAIN Flowing})
  /\ \A n \in {-2, 2} : AtMost(Whole(0), PriceImpact(n))

-----------------------------------------------------------------------------
Init ==
  /\ now = 0 /\ events = 0
  /\ curve = NewProfiles /\ saved = NotSaved /\ learned = [t \in DayTypes |-> <<>>]
  /\ season = [k \in Kinds |-> NewSeason] /\ shock = NewShock
  /\ means = [k \in Kinds |-> [b \in Buckets |-> {}]]
  /\ sides = NewSides /\ flow = NewFlow /\ vpin = NewVpin /\ tape = <<>> /\ quotes = <<>>
  /\ place = NewPlace /\ queue = [ahead |-> 0, behind |-> 0, clean |-> TRUE]
  /\ seen = NewSeen /\ iceberg = [tip |-> 0, hidden |-> 0, ever |-> FALSE, ratios |-> {}]
  /\ cov = NewCov /\ lag = NewLag /\ kyle = NewKyle /\ samples = <<>>

Counted == events < MaxEvents /\ events' = events + 1
=============================================================================
