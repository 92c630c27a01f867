------------------------------- MODULE DarkPool -------------------------------
(***************************************************************************)
(* The midpoint cross of execution/dark_pool_simulator.py: hidden resting  *)
(* orders, a minimum execution quantity on each, and no cross while the    *)
(* lit market is locked or crossed.                                        *)
(***************************************************************************)
EXTENDS Integers, Sequences, SequencesExt, Fractions

CONSTANTS
  LitPrices,       (* of the lit market, 0 where a side is missing         *)
  OrderSizes, MinimumSizes,    (* what submit is called with               *)
  MaxPoolOrders    (* bound: orders submitted                              *)

VARIABLES
  resting,   (* side -> queue of [id, qty, min]                            *)
  mid,       (* twice the midpoint, 0 when there is none                   *)
  nextId,
  fills      (* what the last submit returned: [contra, qty]               *)

poolVars == <<resting, mid, nextId, fills>>

(* submit raises on a size that is not positive and a minimum below 0.     *)
SubmitAccepts == OrderSizes \subseteq Nat \ {0} /\ MinimumSizes \subseteq Nat

ASSUME PoolAssumption == SubmitAccepts /\ LitPrices \subseteq Nat /\ MaxPoolOrders \in Nat

Sides == {"BUY", "SELL"}
Contra(side) == IF side = "BUY" THEN "SELL" ELSE "BUY"
Total(s) == SeqSum([k \in DOMAIN s |-> s[k].qty])

OnQuote(bid, ask) ==
  /\ mid' = IF bid > 0 /\ ask > 0 /\ bid < ask THEN bid + ask ELSE 0
  /\ UNCHANGED <<resting, nextId, fills>>

(* A resting order is passed over when the slice it would get is below its *)
(* own minimum.                                                            *)
Slice(asked, r) ==
  LET n == IF asked < r.qty THEN asked ELSE r.qty
  IN  IF n < r.min THEN 0 ELSE n

CrossWith(w, r) ==
  LET n == Slice(w.asked, r)
  IN  [asked |-> w.asked - n,
       done  |-> IF n = 0 THEN w.done ELSE Append(w.done, [contra |-> r.id, qty |-> n]),
       left  |-> IF n = r.qty THEN w.left ELSE Append(w.left, [r EXCEPT !.qty = @ - n])]

(* Time priority: what is still asked, the fills and what stays in the     *)
(* queue after each of its orders.                                         *)
Walk(queue, qty) ==
  LET walk[k \in 0..Len(queue)] ==
        IF k = 0 THEN [asked |-> qty, done |-> <<>>, left |-> <<>>]
        ELSE CrossWith(walk[k - 1], queue[k])
  IN  walk
Crossing(queue, qty) == Walk(queue, qty)[Len(queue)]

(* What would execute, learnt by a dry run of the cross itself.            *)
CrossableStatic(queue, qty) ==
  Total(SelectSeq(queue, LAMBDA r : (IF qty < r.qty THEN qty ELSE r.qty) >= r.min))
Crossable(queue, qty) == qty - Crossing(queue, qty).asked

Submit(side, qty, min) ==
  LET queue == resting[Contra(side)]
      cross == IF mid # 0 /\ Crossable(queue, qty) >= min THEN Crossing(queue, qty)
               ELSE [asked |-> qty, done |-> <<>>, left |-> queue]
  IN  /\ nextId <= MaxPoolOrders /\ nextId' = nextId + 1
      /\ fills' = cross.done
      /\ resting' = [s \in Sides |->
           IF s # side THEN cross.left
           ELSE IF cross.asked = 0 THEN resting[s]
           ELSE Append(resting[s], [id |-> nextId, qty |-> cross.asked, min |-> min])]
      /\ UNCHANGED mid

PoolInit ==
  /\ resting = [s \in Sides |-> <<>>]
  /\ mid = 0 /\ nextId = 1 /\ fills = <<>>

PoolNext ==
  \/ \E bid, ask \in LitPrices : OnQuote(bid, ask)
  \/ \E side \in Sides, qty \in OrderSizes, min \in MinimumSizes : Submit(side, qty, min)

PoolSpec == PoolInit /\ [][PoolNext]_poolVars

-----------------------------------------------------------------------------
(* The order that rests under an id.                                       *)
OrderOf(id) ==
  CHOOSE r \in ToSet(resting["BUY"]) \cup ToSet(resting["SELL"]) : r.id = id

(* A minimum is a minimum, for both: the incoming order trades its minimum *)
(* in all or nothing, no resting order gives less than its own at once,    *)
(* nothing trades without a midpoint, and no share is lost or made.        *)
MinimumsAreHonoured ==
  [][\A side \in Sides, qty \in OrderSizes, min \in MinimumSizes :
       Submit(side, qty, min) =>
         /\ fills' # <<>> => Total(fills') >= min /\ mid # 0
         /\ \A k \in DOMAIN fills' : fills'[k].qty >= OrderOf(fills'[k].contra).min
         /\ Total(fills') <= qty
         /\ Total(resting'["BUY"]) + Total(resting'["SELL"]) =
              Total(resting["BUY"]) + Total(resting["SELL"]) + qty - 2 * Total(fills')]_poolVars
=============================================================================
