------------------------------ MODULE FxLiquidity ------------------------------
(***************************************************************************)
(* The tiered book of fx/fx_tier_book.py, the LP scorecard of              *)
(* fx/lp_scorecard.py and the router of fx/lp_router.py over both.         *)
(*                                                                         *)
(* An LP's ladder arrives as calls: one tier(...) for each of its tiers,   *)
(* then tier_count(...); a reader may come between any two.  The reject    *)
(* rate and the markout are kept in 1 / CardUnit; the hold time is left    *)
(* out (hold_urgency_bps_per_ms = 0, the default).                         *)
(***************************************************************************)
EXTENDS MarkoutRing, Sequences, SequencesExt, FiniteSetsExt

CONSTANTS
  MaxTiers,
  Ladders,        (* what an LP may send: sequences of [px, sz]            *)
  MaxRejectRate,  (* in 1 / CardUnit                                       *)
  Mids, Clips,    (* mids, and the sizes a reader asks for                 *)
  MaxEvents, MaxTime   (* bounds: calls of every kind, and clock           *)

Sides == {"bid", "ask"}

VARIABLES
  tier,      (* lp -> side -> 1..MaxTiers -> [px, sz]                      *)
  count,     (* lp -> side -> active tiers                                 *)
  sending,   (* [lp, side, ladder, next]: the update under way, next = 0   *)
             (* when there is none                                         *)
  sent,      (* history: lp -> side -> the ladder last sent whole          *)
  events, ring, rate, now

vars == <<tier, count, sending, sent, events, ring, rate, now>>
book == <<tier, count, sending, sent>>

Lesser(a, b) == IF a < b THEN a ELSE b
Quiet == sending.next = 0
Call == events < MaxEvents /\ events' = events + 1

-----------------------------------------------------------------------------
(* The feed.                                                               *)

StartUpdate(lp, side, ladder) ==
  /\ Quiet /\ Call
  /\ sending' = [lp |-> lp, side |-> side, ladder |-> ladder, next |-> 1]
  /\ UNCHANGED <<tier, count, sent, ring, rate, now>>

Tier ==
  /\ sending.next \in 1..Len(sending.ladder)
  /\ tier' = [tier EXCEPT ![sending.lp][sending.side][sending.next] = sending.ladder[sending.next]]
  /\ sending' = [sending EXCEPT !.next = @ + 1]
  /\ UNCHANGED <<count, sent, events, ring, rate, now>>

TierCount ==
  /\ sending.next = Len(sending.ladder) + 1
  /\ count' = [count EXCEPT ![sending.lp][sending.side] = Len(sending.ladder)]
  /\ sent' = [sent EXCEPT ![sending.lp][sending.side] = sending.ladder]
  /\ sending' = [sending EXCEPT !.next = 0]
  /\ UNCHANGED <<tier, events, ring, rate, now>>

Clear(lp) ==
  /\ Quiet /\ Call
  /\ count' = [count EXCEPT ![lp] = [s \in Sides |-> 0]]
  /\ sent' = [sent EXCEPT ![lp] = [s \in Sides |-> <<>>]]
  /\ UNCHANGED <<tier, sending, ring, rate, now>>

-----------------------------------------------------------------------------
(* Queries, of a side's ladders.                                           *)

Better(side, p, q) == IF side = "ask" THEN p < q ELSE p > q
Dealable(t) == t.px > 0 /\ t.sz > 0

(* _frontier: the first dealable tier from one on, 0 when exhausted.       *)
Frontier(lp, side, from) ==
  LET able == {k \in from..count[lp][side] : Dealable(tier[lp][side][k])}
  IN  IF able = {} THEN 0 ELSE Min(able)

(* _sweep: always the best of the LPs' frontier tiers.                     *)
Bests(side, at) ==
  LET live == {lp \in Rated : at[lp] # 0}
      px(lp) == tier[lp][side][at[lp]].px
  IN  {lp \in live : \A o \in live : ~Better(side, px(o), px(lp))}

Swept(side, size) ==
  LET start == [at |-> [lp \in Rated |-> Frontier(lp, side, 1)], left |-> size, paid |-> 0]
      step[n \in 0..(MaxTiers * Cardinality(Rated))] ==
        IF n = 0 THEN start
        ELSE LET s == step[n - 1]
                 lp == CHOOSE l \in Bests(side, s.at) : TRUE
                 t == tier[lp][side][s.at[lp]]
                 take == Lesser(s.left, t.sz)
             IN  IF s.left = 0 \/ Bests(side, s.at) = {} THEN s
                 ELSE [left |-> s.left - take, paid |-> s.paid + take * t.px,
                       at |-> IF take < t.sz THEN s.at
                              ELSE [s.at EXCEPT ![lp] = Frontier(lp, side, s.at[lp] + 1)]]
  IN  step[MaxTiers * Cardinality(Rated)]

NaN == 0                          \* no price
Sweep(side, size) == IF Swept(side, size).left > 0 THEN NaN ELSE Swept(side, size).paid

FullAmountPrice(lp, side, size) ==
  LET able == {k \in 1..count[lp][side] : tier[lp][side][k].sz >= size /\ tier[lp][side][k].px > 0}
  IN  IF able = {} THEN NaN ELSE tier[lp][side][Min(able)].px

BestFullAmount(side, size) ==
  LET quoted == {FullAmountPrice(lp, side, size) : lp \in Rated} \ {NaN}
  IN  IF quoted = {} THEN NaN ELSE IF side = "ask" THEN Min(quoted) ELSE Max(quoted)

BestPrice(side) ==
  LET at == [lp \in Rated |-> Frontier(lp, side, 1)]
  IN  IF Bests(side, at) = {} THEN NaN
      ELSE LET lp == CHOOSE l \in Bests(side, at) : TRUE IN tier[lp][side][at[lp]].px

-----------------------------------------------------------------------------
(* The scorecard and the router.                                           *)

OnFill(lp) ==
  /\ Call
  /\ rate' = [rate EXCEPT ![lp] = Blend(@, 0)]
  /\ UNCHANGED <<book, ring, now>>

OnReject(lp, side, mid) ==
  /\ Call
  /\ rate' = [rate EXCEPT ![lp] = Blend(@, CardUnit)]
  /\ ring' = IF mid = 0 THEN ring ELSE Arm(ring, lp, side, mid, now)
  /\ UNCHANGED <<book, now>>

OnMidUpdate(mid) ==
  /\ Call /\ now < MaxTime /\ now' = now + 1
  /\ ring' = IF ring.pending = 0 \/ mid = 0 THEN ring ELSE OnMid(ring, mid, now')
  /\ UNCHANGED <<book, rate>>

(* A session that starts from the saved card: rejects still pending are    *)
(* forgotten, and a card of the first version says of a markout only       *)
(* whether it is nonzero.  The book starts empty.                          *)
OfVersion(r, version) ==
  IF version = 1 THEN [r EXCEPT !.count = [lp \in Rated |-> IF r.ewma[lp] # 0 THEN 1 ELSE 0]]
  ELSE r
Restart(version) ==
  /\ Quiet /\ Call
  /\ ring' = OfVersion(Restored(ring), version)
  /\ tier' = [lp \in Rated |-> [s \in Sides |-> [k \in 1..MaxTiers |-> [px |-> 0, sz |-> 0]]]]
  /\ count' = [lp \in Rated |-> [s \in Sides |-> 0]]
  /\ sent' = [lp \in Rated |-> [s \in Sides |-> <<>>]]
  /\ UNCHANGED <<sending, rate, now>>

(* Expected price of a clip, in 1 / (CardUnit * CardUnit): rejects are   *)
(* charged what the market did after them.                                 *)
ExpectedUncharged(lp, side, size) == FullAmountPrice(lp, side, size) * CardUnit * CardUnit
Expected(lp, side, size) ==
  FullAmountPrice(lp, side, size) * CardUnit * CardUnit
  + (IF side = "ask" THEN 1 ELSE -1) * rate[lp] * Max({0, ring.ewma[lp]})

Routable(side, size) ==
  {lp \in Rated : rate[lp] <= MaxRejectRate /\ FullAmountPrice(lp, side, size) # NaN}
Chosen(side, size) ==
  {lp \in Routable(side, size) :
     \A o \in Routable(side, size) : ~Better(side, Expected(o, side, size), Expected(lp, side, size))}

Init ==
  /\ tier = [lp \in Rated |-> [s \in Sides |-> [k \in 1..MaxTiers |-> [px |-> 0, sz |-> 0]]]]
  /\ count = [lp \in Rated |-> [s \in Sides |-> 0]]
  /\ sent = [lp \in Rated |-> [s \in Sides |-> <<>>]]
  /\ sending = [lp |-> "", side |-> "ask", ladder |-> <<>>, next |-> 0]
  /\ events = 0
  /\ ring = NewRing(Rated) /\ rate = [lp \in Rated |-> 0] /\ now = 0

Next ==
  \/ \E lp \in Rated, side \in Sides : \E ladder \in Ladders[side] : StartUpdate(lp, side, ladder)
  \/ Tier \/ TierCount
  \/ \E lp \in Rated : Clear(lp) \/ OnFill(lp)
  \/ \E lp \in Rated, side \in {-1, 1}, mid \in Mids : OnReject(lp, side, mid)
  \/ \E mid \in Mids : OnMidUpdate(mid)
  \/ \E version \in {1, 2} : Restart(version)

Spec == Init /\ [][Next]_vars

-----------------------------------------------------------------------------
(* The tiers an LP last sent whole.                                        *)
SentTiers(side) ==
  {<<lp, k>> \in Rated \X (1..MaxTiers) :
     k <= Len(sent[lp][side]) /\ Dealable(sent[lp][side][k])}

(* Between updates a clip is dealt as well as the ladders sent allow: the  *)
(* sweep costs what the cheapest split over all their tiers costs, is      *)
(* refused only when they are too shallow, and never costs more than one   *)
(* LP filling the whole clip; and of two LPs that quote the same, one that *)
(* never rejected is not passed over for one whose rejects cost money.     *)
ClipIsDealtBest ==
  Quiet =>
    \A side \in Sides, size \in Clips :
      LET tiers == SentTiers(side)
          size_(x) == sent[x[1]][side][x[2]].sz
          splits == {q \in [tiers -> 0..size] :
                       /\ MapThenSumSet(LAMBDA x : q[x], tiers) = size
                       /\ \A x \in tiers : q[x] <= size_(x)}
          costs == {MapThenSumSet(LAMBDA x : q[x] * sent[x[1]][side][x[2]].px, tiers) : q \in splits}
          full == BestFullAmount(side, size)
      IN  /\ IF splits = {} THEN Sweep(side, size) = NaN
             ELSE Sweep(side, size) = (IF side = "ask" THEN Min(costs) ELSE Max(costs))
          /\ full # NaN => ~Better(side, full * size, Sweep(side, size))
          /\ \A good, bad \in Rated :
               /\ FullAmountPrice(good, side, size) = FullAmountPrice(bad, side, size)
               /\ rate[good] = 0 /\ rate[bad] > 0 /\ ring.ewma[bad] > 0
               => bad \notin Chosen(side, size)

(* Every reject that arms a markout is judged once at most.                *)
RejectsAreJudgedOnce == Accounted(ring)

(* What fx_tier_book.py:47-48 says: a partly written ladder is never       *)
(* visible to a query.                                                     *)
LadderIsWhole ==
  \A lp \in Rated, side \in Sides, size \in Clips :
    \E ladder \in {sent[lp][side]} \cup
                  (IF sending.lp = lp /\ sending.side = side THEN {sending.ladder} ELSE {}) :
      LET able == {k \in DOMAIN ladder : ladder[k].sz >= size /\ ladder[k].px > 0}
      IN  FullAmountPrice(lp, side, size) = (IF able = {} THEN NaN ELSE ladder[Min(able)].px)
=============================================================================
