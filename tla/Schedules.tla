------------------------------- MODULE Schedules -------------------------------
(***************************************************************************)
(* The decisions taken once for a whole order: the slices of               *)
(* execution/vwap_scheduler.py, twap_scheduler.py,                         *)
(* implementation_shortfall_scheduler.py and wmr_fixing_scheduler.py, and  *)
(* the greedy sweep of execution/hft_sor.py.                               *)
(*                                                                         *)
(* A schedule's weights are whole numbers; the shortfall trajectory is any *)
(* weights, or NaN where its sinh overflows.  A call that raises returns   *)
(* Raised.                                                                 *)
(***************************************************************************)
EXTENDS Fractions, Integers, Sequences, SequencesExt, FiniteSetsExt

CONSTANTS
  Weights,      (* volume profiles, jittered weights or trajectories       *)
  Quantities, Durations, MaxDuration,
  HftVenues,
  QuoteSets,    (* what the router sees: venue -> [px, sz]                 *)
  FeeSets,      (* venue -> taker fee in ticks                             *)
  Limits

ASSUME SchedulesAssumption ==
  /\ Weights \subseteq Seq(Int) /\ Quantities \subseteq Int /\ Durations \subseteq Int
  /\ MaxDuration \in Nat
  /\ IsFiniteSet(HftVenues) /\ HftVenues \subseteq Int /\ Limits \subseteq Int
  /\ QuoteSets \subseteq [HftVenues -> [px : Int, sz : Nat]] /\ FeeSets \subseteq [HftVenues -> Int]

VARIABLE call      (* the call under way, see Calls                        *)

Raised == <<>>
NaN == 1000000                 \* stands for it; no weight is so large

-----------------------------------------------------------------------------
(* allocate_proportionally: floors, then one more to the largest           *)
(* fractional parts, the earliest of equals first.                         *)
FloorOf(total, w, i) == (total * w[i]) \div SeqSum(w)
Fraction(total, w, i) == (total * w[i]) % SeqSum(w)     \* in 1 / SeqSum(w)
BeforeByPlace(total, w, j, i) == j < i
Before(total, w, j, i) ==
  \/ Fraction(total, w, j) > Fraction(total, w, i)
  \/ Fraction(total, w, j) = Fraction(total, w, i) /\ j < i
Rank(total, w, i) == Cardinality({j \in DOMAIN w : Before(total, w, j, i)})

AllocateProportionally(total, w) ==
  IF SeqSum(w) = 0 THEN [i \in DOMAIN w |-> IF i = 1 THEN total ELSE 0]
  ELSE LET floors == [i \in DOMAIN w |-> FloorOf(total, w, i)]
           left == total - SeqSum(floors)
       IN  [i \in DOMAIN w |->
              floors[i] + (IF Rank(total, w, i) < left THEN 1 ELSE 0)]

Negative(w) == \E i \in DOMAIN w : w[i] < 0

ToSlices(total, duration, w) ==
  IF w = <<>> \/ total <= 0 \/ duration < 0 \/ duration > MaxDuration \div Len(w) \/ Negative(w)
  THEN Raised
  ELSE [i \in DOMAIN w |->
          [offset |-> (duration * (i - 1)) \div Len(w),
           quantity |-> AllocateProportionally(total, w)[i]]]

Vwap(total, duration, profile) == ToSlices(total, duration, profile)
Twap(total, duration, n) == ToSlices(total, duration, [i \in 1..n |-> 1])
Shortfall(total, duration, trades) ==
  IF \E i \in DOMAIN trades : trades[i] = NaN THEN Raised ELSE ToSlices(total, duration, trades)
WmrEager(total, duration, n) == Twap(total, duration, n)
Wmr(total, duration, n) ==
  IF total <= 0 \/ duration <= 0 \/ n < 1 \/ n > total \/ duration > MaxDuration \div n
  THEN Raised ELSE Twap(total, duration, n)

-----------------------------------------------------------------------------
(* HftSor.route: the cheapest venue all in that is not swept yet, until    *)
(* the order is routed or no venue is left.  A side with no size is shown  *)
(* as no quote.                                                            *)
AllInWithoutFee(c, v) == c.quotes[v].px
AllIn(c, v) == IF c.buy THEN c.quotes[v].px + c.fees[v] ELSE c.quotes[v].px - c.fees[v]
Shown(c, v) ==
  /\ c.quotes[v].sz > 0
  /\ IF c.buy THEN c.quotes[v].px <= c.limit ELSE c.quotes[v].px >= c.limit
Cheaper(c, v, w) == IF c.buy THEN AllIn(c, v) < AllIn(c, w) ELSE AllIn(c, v) > AllIn(c, w)

BestVenue(c, from) == CHOOSE v \in from :
  \A w \in from : ~Cheaper(c, w, v) /\ (v # w /\ ~Cheaper(c, v, w) => v < w)

\* One turn of the loop; s is what is routed and what remains.
SweepOne(c, s) ==
  LET from == {v \in HftVenues : Shown(c, v) /\ s.out[v] = 0}
      best == BestVenue(c, from)
      take == Min({s.left, c.quotes[best].sz})
  IN  IF s.left <= 0 \/ from = {} THEN s
      ELSE [out |-> [s.out EXCEPT ![best] = take], left |-> s.left - take]

HftRoute(c) ==
  LET sweep[n \in 0..Cardinality(HftVenues)] ==
        IF n = 0 THEN [out |-> [v \in HftVenues |-> 0], left |-> c.quantity]
        ELSE SweepOne(c, sweep[n - 1])
  IN  sweep[Cardinality(HftVenues)].out

-----------------------------------------------------------------------------
(* One call after another, any of them.                                    *)
ScheduleCalls ==
  {[kind |-> k, quantity |-> q, duration |-> d, weights |-> w] :
     k \in {"vwap", "twap", "wmr"}, q \in Quantities, d \in Durations, w \in Weights}
  \cup
  {[kind |-> "is", quantity |-> q, duration |-> d, weights |-> w] :
     q \in Quantities, d \in Durations, w \in Weights \cup {<<NaN, NaN>>}}
RouteCalls ==
  {[kind |-> "route", buy |-> b, quantity |-> q, limit |-> l, quotes |-> x, fees |-> f] :
     b \in BOOLEAN, q \in Quantities, l \in Limits, x \in QuoteSets, f \in FeeSets}

Slices(c) ==
  CASE c.kind = "vwap" -> Vwap(c.quantity, c.duration, c.weights)
    [] c.kind = "twap" -> Twap(c.quantity, c.duration, Len(c.weights))
    [] c.kind = "wmr" -> Wmr(c.quantity, c.duration, Len(c.weights))
    [] OTHER -> Shortfall(c.quantity, c.duration, c.weights)

Idle == [kind |-> "idle"]
CallInit == call = Idle
Ask == call = Idle /\ call' \in ScheduleCalls \cup RouteCalls
CallNext == Ask
CallSpec == CallInit /\ [][CallNext]_call

-----------------------------------------------------------------------------
(* A schedule is the parent, in order, inside its window, and no slice is  *)
(* a whole share off its proportional part; in a fixing window every child *)
(* trades something.                                                       *)
SlicesAreTheParent ==
  call.kind \in {"vwap", "twap", "is", "wmr"} /\ Slices(call) # Raised =>
    LET s == Slices(call)
        w == IF call.kind \in {"twap", "wmr"} THEN [i \in DOMAIN s |-> 1] ELSE call.weights
    IN  /\ SeqSum([i \in DOMAIN s |-> s[i].quantity]) = call.quantity
        /\ \A i \in DOMAIN s :
             /\ s[i].quantity >= 0 /\ s[i].offset \in 0..call.duration
             /\ call.duration > 0 => s[i].offset < call.duration
             /\ i > 1 => s[i].offset >= s[i - 1].offset
             /\ SeqSum(w) > 0 =>
                  LET off == s[i].quantity * SeqSum(w) - call.quantity * w[i]
                  IN  off < SeqSum(w) /\ -off < SeqSum(w)
             /\ call.kind = "wmr" => s[i].quantity > 0

(* The sweep routes as much as is shown inside the limit, and no other     *)
(* split of that quantity is cheaper once fees are paid.                   *)
Routed(split) == MapThenSumSet(LAMBDA v : split[v], HftVenues)
Paid(c, v) == c.quotes[v].px + (IF c.buy THEN 1 ELSE -1) * c.fees[v]
Bill(c, split) == Routed([v \in HftVenues |-> split[v] * Paid(c, v)])
Splits(c) ==
  {split \in [HftVenues -> 0..c.quantity] :
     \A v \in HftVenues : split[v] <= (IF Shown(c, v) THEN c.quotes[v].sz ELSE 0)}

SweepIsCheapest ==
  call.kind = "route" /\ call.quantity >= 0 =>
    LET out == HftRoute(call)
    IN  /\ out \in Splits(call)
        /\ \A split \in Splits(call) :
             /\ Routed(split) <= call.quantity => Routed(split) <= Routed(out)
             /\ Routed(split) = Routed(out) =>
                  IF call.buy THEN Bill(call, out) <= Bill(call, split)
                  ELSE Bill(call, out) >= Bill(call, split)

(* An order is split over time as its schedule says, and over venues where *)
(* it is cheapest.                                                         *)
SplitsAreRight == SlicesAreTheParent /\ SweepIsCheapest
=============================================================================
