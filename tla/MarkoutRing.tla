------------------------------ MODULE MarkoutRing ------------------------------
(***************************************************************************)
(* Pending markouts, as execution/venue_scorecard.py keeps them after      *)
(* fills and fx/lp_scorecard.py after rejects: a ring of slots per venue,  *)
(* scored by the first mid that comes a horizon later, and an average that *)
(* starts at its first score.                                              *)
(*                                                                         *)
(* The weight of the averages is 1/2, and a card is kept in units of       *)
(* 1 / CardUnit so that a few halvings stay whole.  lost and judged are    *)
(* history: what became of each event armed.                               *)
(***************************************************************************)
EXTENDS Integers, FiniteSets

CONSTANTS
  Rated,        (* the venues or providers a card is kept of               *)
  PendingRing,  (* PENDING_RING                                            *)
  Horizon,      (* markout_horizon_nanos                                   *)
  CardUnit      (* a power of two                                          *)

(* The constructors of both cards require these of venues and horizon.     *)
ASSUME MarkoutAssumption ==
  /\ IsFiniteSet(Rated)
  /\ PendingRing \in Nat \ {0} /\ Horizon \in Nat \ {0} /\ CardUnit \in Nat \ {0}

Blend(old, x) == old + (x - old) \div 2

Empty == [side |-> 0, mid |-> 0, at |-> 0, id |-> 0]

NewRing(rated) ==
  [slot |-> [v \in rated |-> [k \in 0..(PendingRing - 1) |-> Empty]],
   cursor |-> [v \in rated |-> 0], pending |-> 0,
   count |-> [v \in rated |-> 0], ewma |-> [v \in rated |-> 0], matured |-> 0,
   armed |-> 0, lost |-> {}, judged |-> {}]

Arm(r, v, side, mid, now) ==
  LET k == r.cursor[v]
      old == r.slot[v][k]
  IN  [r EXCEPT
        !.pending = IF old.side = 0 THEN @ + 1 ELSE @,
        !.slot[v][k] = [side |-> side, mid |-> mid, at |-> now, id |-> r.armed + 1],
        !.cursor[v] = (k + 1) % PendingRing,
        !.armed = @ + 1,
        !.lost = IF old.side = 0 THEN @
                 ELSE @ \cup {[id |-> old.id, venue |-> v, younger |->
                   Cardinality({j \in 0..(PendingRing - 1) : r.slot[v][j].side # 0 /\ r.slot[v][j].id > old.id})]}]

Due(r, v, k, now) == r.slot[v][k].side # 0 /\ now - r.slot[v][k].at >= Horizon

(* The slots of a venue that are due, in slot order: the order the average *)
(* takes them in.                                                          *)
Scored(r, v, mid, now) ==
  LET score[k \in 0..PendingRing] ==
        IF k = 0 THEN [count |-> r.count[v], ewma |-> r.ewma[v]]
        ELSE LET s == r.slot[v][k - 1]
                 move == s.side * (mid - s.mid) * CardUnit
             IN  IF ~Due(r, v, k - 1, now) THEN score[k - 1]
                 ELSE [count |-> score[k - 1].count + 1,
                       ewma |-> IF score[k - 1].count = 0 THEN move
                                ELSE Blend(score[k - 1].ewma, move)]
  IN  score[PendingRing]

Kept(s) == s
Cleared(s) == Empty
OnMid(r, mid, now) ==
  LET due == {x \in Rated \X (0..(PendingRing - 1)) : Due(r, x[1], x[2], now)}
  IN  [r EXCEPT
        !.slot = [v \in Rated |-> [k \in 0..(PendingRing - 1) |->
                    IF <<v, k>> \in due THEN Cleared(r.slot[v][k]) ELSE r.slot[v][k]]],
        !.pending = @ - Cardinality(due),
        !.count = [v \in Rated |-> Scored(r, v, mid, now).count],
        !.ewma = [v \in Rated |-> Scored(r, v, mid, now).ewma],
        !.matured = @ + Cardinality(due),
        !.judged = @ \cup {r.slot[x[1]][x[2]].id : x \in due}]

(* read_state: the intraday ring starts empty again.                       *)
Restored(r) ==
  [r EXCEPT !.slot = NewRing(Rated).slot, !.cursor = NewRing(Rated).cursor, !.pending = 0]

-----------------------------------------------------------------------------
PendingIds(r) ==
  {r.slot[v][k].id : v \in Rated, k \in 0..(PendingRing - 1)} \ {0}

Accounted(r) ==
  LET lostIds == {l.id : l \in r.lost}
  IN  /\ r.pending = Cardinality(PendingIds(r))
      /\ r.matured = Cardinality(r.judged)
      /\ PendingIds(r) \cap (r.judged \cup lostIds) = {}
      /\ r.judged \cap lostIds = {}
      /\ \A l \in r.lost : l.younger = PendingRing - 1
=============================================================================
