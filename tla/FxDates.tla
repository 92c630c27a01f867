-------------------------------- MODULE FxDates --------------------------------
(***************************************************************************)
(* Settlement dates and the forward curve that lives on them: the calendar *)
(* walks of fx/business_calendar.py, the tenors of fx/currency_pair.py,    *)
(* the curve of fx/swap_points_curve.py and the deals that are struck and  *)
(* marked on it (fx/fx_swap.py, fx/ndf.py).  A date is a number of days    *)
(* from a Monday; rates and points are whole, interpolated points exact    *)
(* fractions.  Notionals are one; discounting the marks is left out.       *)
(***************************************************************************)
EXTENDS Integers, Sequences, FiniteSets, SequencesExt, Fractions

CONSTANTS
  Starts,     (* the first day of each month, in order                     *)
  Pairs,      (* [base, quote: the holidays of each center, lag, fixing]   *)
  Tenors,     (* [unit: "ON", "TN", "SN", "D", "W" or "M", n]              *)
  Quoted,     (* [tenor, points]: what may be quoted                       *)
  Dealt,      (* the tenors dealt at                                       *)
  SpotRate, MaxQuotes, MaxDeals,   (* the rate, and bounds                 *)
  FirstDay, LastDay                (* bound: the days traded               *)

VARIABLES
  pair, today,
  quotes,     (* SwapPointsCurveBuilder: [tenor, date, points], as added   *)
  curve,      (* the current SwapPointsCurve, or NoCurve                   *)
  deals       (* what was struck, each with the curve it was struck on     *)

vars == <<pair, today, quotes, curve, deals>>

NoCurve == [spot |-> 0, rate |-> 0, days |-> <<>>, points |-> <<>>, tenors |-> <<>>]
Raises == <<0, 0>>      \* what a call that raises returns

-----------------------------------------------------------------------------
(* BusinessCalendar.                                                       *)

IsBusinessDay(holidays, d) == d % 7 < 5 /\ d \notin holidays
Month(d) == CHOOSE m \in DOMAIN Starts :
              Starts[m] <= d /\ (m < Len(Starts) => d < Starts[m + 1])

NextDay(holidays, d) ==
  CHOOSE x \in (d + 1)..(d + 14) :
    IsBusinessDay(holidays, x) /\ \A y \in (d + 1)..(x - 1) : ~IsBusinessDay(holidays, y)
PreviousDay(holidays, d) ==
  CHOOSE x \in (d - 14)..(d - 1) :
    IsBusinessDay(holidays, x) /\ \A y \in (x + 1)..(d - 1) : ~IsBusinessDay(holidays, y)

AddDays(holidays, d, n) == FoldLeftDomain(LAMBDA x, i : NextDay(holidays, x), d, [i \in 1..n |-> i])
SubtractDays(holidays, d, n) ==
  FoldLeftDomain(LAMBDA x, i : PreviousDay(holidays, x), d, [i \in 1..n |-> i])

Following(holidays, d) == IF IsBusinessDay(holidays, d) THEN d ELSE NextDay(holidays, d)
Preceding(holidays, d) == IF IsBusinessDay(holidays, d) THEN d ELSE PreviousDay(holidays, d)
ModifiedFollowing(holidays, d) ==
  LET next == Following(holidays, d)
  IN  IF Month(next) = Month(d) THEN next ELSE PreviousDay(holidays, d)

-----------------------------------------------------------------------------
(* CurrencyPair.                                                           *)

Joint(p) == p.base \union p.quote
SpotDate(p, trade) == AddDays(Joint(p), trade, p.lag)
TradeDateForSpotByDays(p, spot) == spot - p.lag
TradeDateForSpot(p, spot) == SubtractDays(Joint(p), spot, p.lag)

EndOfMonth(d) == Starts[Month(d) + 1] - 1
PlusMonths(d, n) ==
  LET first == Starts[Month(d) + n]
      last == EndOfMonth(first)
  IN  IF first + (d - Starts[Month(d)]) > last THEN last ELSE first + (d - Starts[Month(d)])
LastGoodDay(p, d) == Preceding(Joint(p), EndOfMonth(d))

MonthTenorRolled(p, spot, n) == Following(Joint(p), PlusMonths(spot, n))
MonthTenor(p, spot, n) ==
  LET target == PlusMonths(spot, n)
  IN  IF spot = LastGoodDay(p, spot) THEN LastGoodDay(p, target)
      ELSE ModifiedFollowing(Joint(p), target)

TenorDate(p, trade, tenor) ==
  LET spot == SpotDate(p, trade)
      joint == Joint(p)
  IN  CASE tenor.unit = "ON" -> AddDays(joint, trade, 1)
        [] tenor.unit = "TN" -> AddDays(joint, trade, 2)
        [] tenor.unit = "SN" -> AddDays(joint, spot, 1)
        [] tenor.unit = "D" -> Following(joint, spot + tenor.n)
        [] tenor.unit = "W" -> Following(joint, spot + 7 * tenor.n)
        [] tenor.unit = "M" -> MonthTenor(p, spot, tenor.n)

-----------------------------------------------------------------------------
(* SwapPointsCurve.                                                        *)

ForwardPoints(c, date) ==
  LET d == date - c.spot
      n == Len(c.days)
      on(lo, hi) ==     \* the line through two pillars, the first anchored at spot
        LET d0 == IF lo = 0 THEN 0 ELSE c.days[lo]
            p0 == IF lo = 0 THEN 0 ELSE c.points[lo]
        IN  Plus(Whole(p0), Frac((d - d0) * (c.points[hi] - p0), c.days[hi] - d0))
      after == {k \in 1..n : d <= c.days[k]}
      hi == CHOOSE k \in after : \A j \in after : k <= j
  IN  CASE d < 0 -> Raises
        [] d = 0 -> Whole(0)
        [] d > 0 /\ after = {} -> on(n - 1, n)
        [] d > 0 /\ after # {} -> on(hi - 1, hi)

Outright(c, date) ==
  IF date < c.spot THEN Raises ELSE Plus(Whole(c.rate), ForwardPoints(c, date))
DateOf(c, tenor) == TenorDate(pair, TradeDateForSpot(pair, c.spot), tenor)

(* Deals: the legs of a swap, and an NDF by its fixing and settlement.     *)
LegPnl(c, date, rate, sign) ==
  IF date < c.spot THEN Whole(0)
  ELSE Times(Minus(IF date = c.spot THEN Whole(c.rate) ELSE Outright(c, date), rate), sign)
SwapMark(c, s) == Plus(LegPnl(c, s.near, s.nearRate, 1), LegPnl(c, s.far, s.farRate, -1))
SettlementAmount(n, fix) == Quotient(Minus(fix, n.contract), fix)
NdfMark(c, n) ==
  SettlementAmount(n, Outright(c, IF n.fixing > c.spot THEN n.fixing ELSE c.spot))

-----------------------------------------------------------------------------
(* SwapPointsCurveBuilder.add: a tenor that settles at or before spot is   *)
(* refused.                                                                *)
AddPillar(tenor, points) ==
  LET date == TenorDate(pair, today, tenor)
  IN  /\ curve = NoCurve /\ Len(quotes) < MaxQuotes
      /\ date > SpotDate(pair, today)
      /\ quotes' = Append(quotes, [tenor |-> tenor, date |-> date, points |-> points])
      /\ UNCHANGED <<pair, today, curve, deals>>

(* build: pillars by date; two on one date are refused.                    *)
Build ==
  LET byDate == SortSeq(quotes, LAMBDA x, y : x.date < y.date)
      spot == SpotDate(pair, today)
  IN  /\ quotes # <<>> /\ curve = NoCurve
      /\ \A i, j \in DOMAIN quotes : i # j => quotes[i].date # quotes[j].date
      /\ curve' = [spot |-> spot, rate |-> SpotRate,
                   days |-> [i \in DOMAIN byDate |-> byDate[i].date - spot],
                   points |-> [i \in DOMAIN byDate |-> byDate[i].points],
                   tenors |-> [i \in DOMAIN byDate |-> byDate[i].tenor]]
      /\ UNCHANGED <<pair, today, quotes, deals>>

(* FxSwap.at_market, the near leg at spot or at a tenor of its own.        *)
StrikeSwap(nearTenor, tenor) ==
  LET near == IF nearTenor.unit = "SPOT" THEN curve.spot ELSE DateOf(curve, nearTenor)
      far == DateOf(curve, tenor)
  IN  /\ curve # NoCurve /\ Cardinality(deals) < MaxDeals
      /\ curve.spot <= near /\ near < far
      /\ deals' = deals \union
           {[kind |-> "swap", near |-> near, far |-> far, nearRate |-> Outright(curve, near),
             farRate |-> Outright(curve, far), on |-> curve]}
      /\ UNCHANGED <<pair, today, quotes, curve>>

(* Ndf.of_tenor: the fixing is walked back on the quote calendar.          *)
FixingDate(p, settlement) == SubtractDays(p.quote, settlement, p.fixing)
StrikeNdf(tenor) ==
  LET settlement == TenorDate(pair, today, tenor)
      ndf == [kind |-> "ndf", settlement |-> settlement,
              fixing |-> FixingDate(pair, settlement), contract |-> Whole(SpotRate)]
  IN  /\ curve # NoCurve /\ Cardinality(deals) < MaxDeals
      /\ deals' = deals \union {[on |-> curve] @@ ndf}
      /\ UNCHANGED <<pair, today, quotes, curve>>

(* The next day begins with an empty builder; a new curve replaces the old *)
(* one, on which the deals were struck.                                    *)
Tomorrow ==
  /\ curve # NoCurve /\ today < LastDay
  /\ today' = today + 1
  /\ quotes' = <<>> /\ curve' = NoCurve
  /\ UNCHANGED <<pair, deals>>

Init ==
  /\ pair \in Pairs /\ today \in FirstDay..LastDay
  /\ quotes = <<>> /\ curve = NoCurve /\ deals = {}

Next ==
  \/ \E q \in Quoted : AddPillar(q.tenor, q.points)
  \/ Build
  \/ \E near \in Dealt \union {[unit |-> "SPOT", n |-> 0]}, far \in Dealt : StrikeSwap(near, far)
  \/ \E t \in Dealt : StrikeNdf(t)
  \/ Tomorrow

Spec == Init /\ [][Next]_vars

-----------------------------------------------------------------------------
(* What the conventions promise of the dates.                              *)

Good(p, d) == IsBusinessDay(p.base, d) /\ IsBusinessDay(p.quote, d)
LocalDays(p, from, to) == {d \in from..(to - 1) : IsBusinessDay(p.quote, d)}

(* currency_pair.py:7-17, ndf.py:9-15: whatever the two centers' holidays, *)
(* cash moves on days both are open; a month tenor settles in the month it *)
(* names, at its last good day if spot is at the last of its own; an NDF   *)
(* fixes before it settles, on a local business day, the whole lag of them *)
(* before.  A lag of no days keeps the day of the trade, open or not.      *)
ValueDatesAreGood ==
  LET spot == SpotDate(pair, today)
  IN  \A t \in Tenors :
        LET date == TenorDate(pair, today, t)
        IN  /\ Good(pair, date)
            /\ pair.lag > 0 => Good(pair, spot)
            /\ t.unit = "M" => Month(date) = Month(spot) + t.n
            /\ (t.unit = "M" /\ Good(pair, spot)
                  /\ \A d \in (spot + 1)..EndOfMonth(spot) : ~Good(pair, d)) =>
                 \A d \in (date + 1)..EndOfMonth(date) : ~Good(pair, d)
            /\ LET fixing == FixingDate(pair, date)
               IN  /\ IsBusinessDay(pair.quote, fixing)
                   /\ Cardinality(LocalDays(pair, fixing, date)) = pair.fixing

(* swap_points_curve.py: in whatever order the tenors were quoted, the     *)
(* curve gives each its points back, also when the date is found again     *)
(* from the curve's own spot; and a deal is worth nothing on the curve it  *)
(* was struck on, and can be marked on every curve after that.             *)
QuotesComeBack ==
  curve # NoCurve =>
    /\ \A i \in DOMAIN quotes :
         Outright(curve, DateOf(curve, quotes[i].tenor)) = Whole(SpotRate + quotes[i].points)
    /\ \A s \in {d \in deals : d.kind = "swap"} :
         SwapMark(s.on, s) = Whole(0) /\ SwapMark(curve, s)[2] > 0
    /\ \A n \in {d \in deals : d.kind = "ndf"} : NdfMark(curve, n)[2] > 0
=============================================================================
