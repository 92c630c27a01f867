------------------------------ MODULE AdaptiveSor ------------------------------
(***************************************************************************)
(* The router of execution/adaptive_sor.py on the scorecard of             *)
(* execution/venue_scorecard.py: children come back filled or missed,      *)
(* mids mature the markouts of the fills, probes learn hidden size, and    *)
(* the next parent is split by what was learnt.                            *)
(*                                                                         *)
(* Rates, latencies, sizes and markouts are kept in 1 / CardUnit, exact    *)
(* for MaxEvents halvings; penalties are per Base of price.                *)
(***************************************************************************)
EXTENDS MarkoutRing, Sequences, SequencesExt, FiniteSetsExt

CONSTANTS
  Lit, Dark,       (* the venues; Rated is their union                     *)
  Unregistered,    (* lit venues the router has no scorecard id for        *)
  Prior,           (* fill_rate_prior, in 1 / CardUnit                     *)
  MinFillRate,     (* min_fill_rate, in 1 / CardUnit                       *)
  MissPenalty, UrgencyCost, Base,
  DefaultProbe, DarkShare,   (* probe shares; cap = quantity / DarkShare   *)
  Parents,                   (* quantities routed                          *)
  Mids, Latencies, Quotes,   (* quotes: venue -> [bid, ask, size, fee]     *)
  MaxEvents, SorTime         (* bounds                                     *)

ASSUME SorAssumption ==
  /\ Rated = Lit \cup Dark /\ Unregistered \subseteq Lit
  /\ Prior \in 1..CardUnit
  /\ Latencies \subseteq Nat /\ Mids \subseteq Nat /\ SorTime \in Nat /\ Parents \subseteq Nat
  /\ {MissPenalty, UrgencyCost, Base, DefaultProbe} \subseteq Nat /\ DarkShare \in Nat \ {0}
  /\ Quotes \subseteq [Lit -> [bid : Int, ask : Int, size : Int, fee : Int]]

VARIABLES
  card,   (* venue -> [sent, filled, rate, latency, probes, hidden]        *)
  markouts,
  clock,
  plan    (* the last decision: [side, quantity, quotes, lit, probes]      *)

sorVars == <<card, markouts, clock, plan>>

NoPlan == [side |-> 0]
Lesser(a, b) == IF a < b THEN a ELSE b
HalfUp(n, d) == (2 * n + d) \div (2 * d)
Events == MapThenSumSet(LAMBDA v : card[v].sent + card[v].probes, Rated)

-----------------------------------------------------------------------------
(* The scorecard.                                                          *)

NeverTried == [sent |-> 0, filled |-> 0, rate |-> 0, latency |-> 0, probes |-> 0, hidden |-> 0]

(* _seed_on_first_event: success must never score below "never tried".     *)
Unseeded(c, response) == c
Seeded(c, response) ==
  IF c.sent = 0 THEN [c EXCEPT !.rate = Prior, !.latency = response * CardUnit] ELSE c

Returned(c, response, fill) ==
  LET s == Seeded(c, response)
  IN  [s EXCEPT !.sent = @ + 1, !.filled = @ + fill,
                !.rate = Blend(@, fill * CardUnit), !.latency = Blend(@, response * CardUnit)]

OnFill(v, response, side, mid) ==
  /\ card' = [card EXCEPT ![v] = Returned(@, response, 1)]
  /\ markouts' = IF mid = 0 THEN markouts ELSE Arm(markouts, v, side, mid, clock)   \* 0 : not finite
  /\ plan' = NoPlan /\ UNCHANGED clock

OnMiss(v, response) ==
  /\ card' = [card EXCEPT ![v] = Returned(@, response, 0)]
  /\ plan' = NoPlan /\ UNCHANGED <<markouts, clock>>

Probed(c, shares) ==
  [c EXCEPT !.probes = @ + 1,
            !.hidden = IF c.probes = 0 THEN shares * CardUnit ELSE Blend(@, shares * CardUnit)]

OnDarkProbe(v, shares) ==
  /\ card' = [card EXCEPT ![v] = Probed(@, shares)]
  /\ plan' = NoPlan /\ UNCHANGED <<markouts, clock>>

OnMidUpdate(mid) ==
  /\ clock < SorTime /\ clock' = clock + 1
  /\ markouts' = IF markouts.pending = 0 \/ mid = 0 THEN markouts ELSE OnMid(markouts, mid, clock')
  /\ plan' = NoPlan /\ UNCHANGED card

(* write_state and read_state, as version 2 or from a version 1 file,      *)
(* which has no markouts.                                                  *)
Restart(version) ==
  /\ markouts' = IF version = 2 THEN Restored(markouts)
             ELSE [Restored(markouts) EXCEPT !.count = NewRing(Rated).count, !.ewma = NewRing(Rated).ewma,
                                         !.matured = 0, !.judged = {}]
  /\ plan' = NoPlan /\ UNCHANGED <<card, clock>>

FillRate(v) ==
  IF v \in Unregistered \/ card[v].sent = 0 THEN Prior ELSE card[v].rate
Latency(v) == IF v \in Unregistered THEN 0 ELSE card[v].latency
Markout(v) == IF v \in Unregistered THEN 0 ELSE markouts.ewma[v]

-----------------------------------------------------------------------------
(* The router.                                                             *)

Price(q, side) == IF side > 0 THEN q.ask ELSE q.bid

Eligible(side, quotes) ==
  {v \in Lit : /\ quotes[v].size > 0 /\ Price(quotes[v], side) > 0
               /\ v \in Unregistered \/ FillRate(v) >= MinFillRate}

(* Expected price, in 1 / (Base * Base * CardUnit): all-in, worse by what a    *)
(* miss, the wait and a reversal after the fill are expected to cost.      *)
Expected(v, side, quotes) ==
  LET px == Price(quotes[v], side)
      learnt == (CardUnit - FillRate(v)) * MissPenalty + Latency(v) * UrgencyCost
      adverse == Max({0, -Markout(v)})
  IN  (Base + side * quotes[v].fee) * (px * (Base * CardUnit + side * learnt) + side * adverse * Base)

RankedLowFirst(side, quotes) ==
  CHOOSE r \in SetToSeqs(Eligible(side, quotes)) :
    \A i, j \in DOMAIN r : i < j => Expected(r[i], side, quotes) <= Expected(r[j], side, quotes)
Ranked(side, quotes) ==
  CHOOSE r \in SetToSeqs(Eligible(side, quotes)) :
    \A i, j \in DOMAIN r :
      i < j => side * Expected(r[i], side, quotes) <= side * Expected(r[j], side, quotes)

\* The legs so far and what is left, once v has been given its leg.
LegTo(s, v, size) ==
  IF s.left <= 0 THEN s
  ELSE [legs |-> [s.legs EXCEPT ![v] = Lesser(s.left, size)], left |-> s.left - Lesser(s.left, size)]

Swept(side, quantity, quotes) ==
  LET r == Ranked(side, quotes)
      swept[n \in 0..Len(r)] ==
        IF n = 0 THEN [legs |-> [v \in Lit |-> 0], left |-> quantity]
        ELSE LegTo(swept[n - 1], r[n], quotes[r[n]].size)
  IN  swept[Len(r)].legs

ProbeSize(v, quantity) ==
  LET learnt == IF v \in Unregistered THEN 0 ELSE card[v].hidden
  IN  Lesser(IF learnt > 0 THEN HalfUp(learnt, CardUnit) ELSE DefaultProbe, HalfUp(quantity, DarkShare))

Decision(side, quantity, quotes) ==
  [side |-> side, quantity |-> quantity, quotes |-> quotes,
   lit |-> Swept(side, quantity, quotes),
   probes |-> [v \in Dark |-> ProbeSize(v, quantity)]]

Route(side, quantity, quotes) ==
  /\ plan' = Decision(side, quantity, quotes)
  /\ UNCHANGED <<card, markouts, clock>>

SorInit ==
  /\ card = [v \in Rated |-> NeverTried]
  /\ markouts = NewRing(Rated) /\ clock = 0 /\ plan = NoPlan

SorNext ==
  \/ Events < MaxEvents /\
       (\/ \E v \in Lit \ Unregistered, r \in Latencies :
             \/ OnMiss(v, r)
             \/ \E side \in {-1, 1}, mid \in Mids : OnFill(v, r, side, mid)
        \/ \E v \in Dark, shares \in {0, 3} : OnDarkProbe(v, shares))
  \/ \E mid \in Mids : OnMidUpdate(mid)
  \/ markouts.armed > 0 /\ \E version \in {1, 2} : Restart(version)
  \/ plan = NoPlan /\ \E side \in {-1, 1}, quantity \in Parents, quotes \in Quotes : Route(side, quantity, quotes)

SorSpec == SorInit /\ [][SorNext]_sorVars

-----------------------------------------------------------------------------
(* Every fill that is armed is judged once at most and counted when it is; *)
(* a burst costs only the oldest of more than a ring of fills; and a venue *)
(* that never missed scores no worse than one never tried, whatever is     *)
(* forgotten over a restart.                                               *)
ScorecardsAreFair ==
  /\ Accounted(markouts)
  /\ \A v \in Rated : card[v].filled = card[v].sent => FillRate(v) >= Prior

(* The greedy sweep is the cheapest split: no other way to place the same  *)
(* shares on the eligible venues' displayed sizes is expected to cost less *)
(* (to bring more, when selling), and no share is left while one has size. *)
Total(legs, venues) == MapThenSumSet(LAMBDA v : legs[v], venues)

RoutesCheapest ==
  plan # NoPlan =>
    LET able == Eligible(plan.side, plan.quotes)
        worth(legs) ==
          Total([v \in able |-> legs[v] * (plan.side * Expected(v, plan.side, plan.quotes))], able)
        splits == {legs \in [able -> 0..plan.quantity] :
                     \A v \in able : legs[v] <= plan.quotes[v].size}
    IN  /\ Total(plan.lit, able) =
             Lesser(plan.quantity, Total([v \in able |-> plan.quotes[v].size], able))
        /\ \A v \in Lit \ able : plan.lit[v] = 0
        /\ \A legs \in splits :
             Total(legs, able) = Total(plan.lit, able) => worth(plan.lit) <= worth(legs)
        /\ \A v \in Dark : plan.probes[v] <= HalfUp(plan.quantity, DarkShare)

(* A router that is right about its venues, and about where to go.         *)
RoutingIsRight == ScorecardsAreFair /\ RoutesCheapest
=============================================================================
