------------------------------ MODULE BasketExec ------------------------------
(***************************************************************************)
(* A basket of parents, each worked by execution/benchmark_executor.py     *)
(* toward its benchmark, under the overlays of                             *)
(* execution/portfolio_executor.py: the leg-balance band and the interval  *)
(* budget.                                                                 *)
(*                                                                         *)
(* The caller is modelled with it: at each step of the horizon it asks for *)
(* the dues, cancels what is left of the old ones, and works the new ones, *)
(* which the market fills in any slices.  Prices are whole; alpha, cost    *)
(* and volatility are 0 or 1 (cost in units of 1 / SPREAD_SENSITIVITY),    *)
(* for which the urgency is a whole number of quarters.  The risk weights  *)
(* are the diagonal ones; the covariance model is left out.                *)
(***************************************************************************)
EXTENDS Integers, Sequences, FiniteSetsExt, Fractions

CONSTANTS
  Child,      (* a handle's [buy, qty, benchmark, rate] : rate = 1 / this  *)
  Horizon,    (* steps of the schedule                                     *)
  States,     (* MarketState: [mid, alpha, cost, vol, depth, curve]        *)
  MaxNet,     (* max_net_notional                                          *)
  MaxBudget,  (* max_interval_notional                                     *)
  MaxVolume   (* bound: shares others print                                *)

VARIABLES
  step,       (* elapsed schedule, 0..Horizon                              *)
  executed, volume,   (* per child                                         *)
  lastMid,    (* last known price per child, 0 = none yet                  *)
  net,        (* _buy_filled_notional - _sell_filled_notional              *)
  due         (* what the market still works of the last dues              *)

basketVars == <<step, executed, volume, lastMid, net, due>>

Handles == 1..Len(Child)
NaN == -1                        \* an input that is not a number
Unlimited == -2                  \* math.inf
DepthShare == 2                  \* max_depth_fraction = 1 / DepthShare

Capped(a, cap) == IF a < cap THEN a ELSE cap
HalfUp(n, d) == (2 * n + d) \div (2 * d)          \* floor(n / d + 0.5)
CeilDiv(n, d) == (n + d - 1) \div d

-------------------------------------------------------------------------------
(* BenchmarkExecutor.                                                      *)

Benchmarks == {"TWAP", "VWAP", "ARRIVAL_PRICE", "IMPLEMENTATION_SHORTFALL",
               "CLOSING_PRICE", "OPENING_PRICE", "PARTICIPATION"}

(* What the constructors let through; a market state may hold any inputs.  *)
Executors == [buy : BOOLEAN, qty : Nat \ {0}, benchmark : Benchmarks, rate : Nat \ {0}]
MarketStates ==
  [mid : Int, alpha : Int, cost : Nat, vol : Int, depth : Nat \cup {Unlimited}, curve : Int]
Config == MaxNet \in Nat \ {0} /\ MaxBudget \in Nat \ {0}

ASSUME BasketAssumption ==
  /\ Child \in Seq(Executors) /\ States \subseteq MarketStates /\ Config
  /\ Horizon \in Nat \ {0} /\ MaxVolume \in Nat

(* Shares that should be done by step t: floor(curve * parent + 0.5).      *)
TargetShares(c, t, m) ==
  LET q == c.qty
      H == Horizon
      v == IF m.curve = NaN THEN t ELSE m.curve
  IN  CASE c.benchmark = "TWAP" -> HalfUp(q * t, H)
        [] c.benchmark = "VWAP" -> HalfUp(q * v, H)
        [] c.benchmark \in {"ARRIVAL_PRICE", "IMPLEMENTATION_SHORTFALL"}
             -> HalfUp(q * (H * H - (H - t) * (H - t)), H * H)
        [] c.benchmark = "CLOSING_PRICE" -> HalfUp(q * t * t, H * H)
        [] c.benchmark = "OPENING_PRICE"      \* q * sqrt(t / H), half up
             -> Max({n \in 0..q : n = 0 \/ (2 * n - 1) * (2 * n - 1) * H <= 4 * q * q * t})

Racing == {"ARRIVAL_PRICE", "IMPLEMENTATION_SHORTFALL"}

(* The pace in quarters, between 1/4 and 4.                                *)
Urgency(c, m) ==
  LET alpha == IF m.alpha = NaN THEN 0 ELSE IF c.buy THEN m.alpha ELSE -m.alpha
      fast  == IF m.vol > 0 /\ c.benchmark \in Racing THEN 1 + m.vol ELSE 1
      slow  == IF m.vol > 0 /\ c.benchmark \notin Racing THEN 1 + m.vol ELSE 1
  IN  Max({1, Capped(16, (4 * (1 + alpha) * fast) \div ((1 + m.cost) * slow))})

PaceOfAll(c, m) == Urgency(c, m)
Pace(c, m) ==
  IF c.benchmark = "PARTICIPATION" THEN Capped(Urgency(c, m), 4) ELSE Urgency(c, m)

Behind(h, t, m) ==
  LET c == Child[h]
  IN  (IF c.benchmark = "PARTICIPATION" THEN volume[h] \div c.rate ELSE TargetShares(c, t, m))
      - executed[h]

DueQuantity(h, t, m) ==
  LET remaining == Child[h].qty - executed[h]
      shaped == CeilDiv(Behind(h, t, m) * Pace(Child[h], m), 4)
      cap == IF m.depth = Unlimited THEN remaining
             ELSE Capped(remaining, m.depth \div DepthShare)
  IN  IF remaining <= 0 \/ Behind(h, t, m) <= 0 THEN 0 ELSE Max({0, Capped(shaped, cap)})

-----------------------------------------------------------------------------
(* PortfolioExecutor, on dues d and last prices p.                         *)

Notional(d, p, hs) == SeqSum([h \in Handles |-> IF h \in hs THEN d[h] * p[h] ELSE 0])
Buys == {h \in Handles : Child[h].buy}
Sells == Handles \ Buys

(* Cut one side to a notional; what has no price passes through.           *)
ScaleSide(d, p, side, allowed) ==
  LET total == Notional(d, p, side)
  IN  [h \in Handles |-> IF h \in side /\ p[h] > 0 /\ allowed < total
                         THEN (d[h] * allowed) \div total ELSE d[h]]

LegBand(d, p) ==
  LET buy  == Notional(d, p, Buys)
      sell == Notional(d, p, Sells)
      projected == net + buy - sell
  IN  IF projected > MaxNet /\ buy > 0 THEN ScaleSide(d, p, Buys, Max({0, MaxNet - net + sell}))
      ELSE IF projected < -MaxNet /\ sell > 0
           THEN ScaleSide(d, p, Sells, Max({0, MaxNet + net + buy}))
      ELSE d

(* The budget goes out weighted by risk; a symbol is only ever cut.        *)
RiskFactor(m) == 1 + (IF m.vol > 0 THEN m.vol ELSE 0)
Capacity(d, p, m) ==
  LET weight == SeqSum([h \in Handles |-> RiskFactor(m[h]) * (d[h] * p[h])])
      share(h) == MaxBudget * RiskFactor(m[h])
  IN  IF Notional(d, p, Handles) <= MaxBudget THEN d
      ELSE [h \in Handles |-> IF d[h] * p[h] > 0 /\ weight > share(h)
                              THEN (d[h] * share(h)) \div weight ELSE d[h]]

OverlaysOnce(d, p, m) == Capacity(LegBand(d, p), p, m)
Overlays(d, p, m) ==
  LET cut == Capacity(LegBand(d, p), p, m)
  IN  IF Notional(LegBand(d, p), p, Handles) > MaxBudget THEN LegBand(cut, p) ELSE cut

DecideBasket(m) ==
  /\ step < Horizon
  /\ step' = step + 1
  /\ lastMid' = [h \in Handles |-> IF m[h].mid > 0 THEN m[h].mid ELSE lastMid[h]]
  /\ due' = Overlays([h \in Handles |-> DueQuantity(h, step + 1, m[h])], lastMid', m)
  /\ UNCHANGED <<executed, volume, net>>

OnFill(h, qty) ==
  /\ executed' = [executed EXCEPT ![h] = @ + qty]
  /\ due' = [due EXCEPT ![h] = @ - qty]
  /\ net' = net + (IF Child[h].buy THEN qty ELSE -qty) * lastMid[h]
  /\ UNCHANGED <<step, volume, lastMid>>

OnMarketVolume(h, qty) ==
  /\ volume[h] + qty <= MaxVolume
  /\ volume' = [volume EXCEPT ![h] = @ + qty]
  /\ UNCHANGED <<step, executed, lastMid, net, due>>

BasketInit ==
  /\ step = 0 /\ net = 0
  /\ executed = [h \in Handles |-> 0] /\ volume = executed
  /\ lastMid = executed /\ due = executed

BasketNext ==
  \/ \E m \in [Handles -> States] : DecideBasket(m)
  \/ \E h \in Handles : \E qty \in 1..due[h] : OnFill(h, qty)
  \/ \E h \in {g \in Handles : Child[g].benchmark = "PARTICIPATION"} : OnMarketVolume(h, 2)

BasketSpec == BasketInit /\ [][BasketNext]_basketVars

-----------------------------------------------------------------------------
(* Magnitude of the net when every due fills.                              *)
Size(x) == IF x < 0 THEN -x ELSE x
Projected == net + Notional(due, lastMid, Buys) - Notional(due, lastMid, Sells)

(* The second overlay does not undo the first: what an interval sends      *)
(* leaves the legs inside the band, or no further out than they were, and  *)
(* inside the budget, wherever flooring each child's share lands.          *)
OverlaysHold ==
  [][step' # step =>
       /\ Size(Projected') <= Max({MaxNet, Size(net)})
       /\ Notional(due', lastMid', Handles) <= MaxBudget]_basketVars

(* The participation rate is a hard promise: whatever alpha says, a child  *)
(* never trades more than its share of what others traded.                 *)
ParticipationIsKept ==
  \A h \in Handles :
    Child[h].benchmark = "PARTICIPATION" => (executed[h] + due[h]) * Child[h].rate <= volume[h]

(* What the basket promises at every step.                                 *)
BasketPromises == ParticipationIsKept /\ [][ParticipationIsKept']_basketVars /\ OverlaysHold

(* The band is kept to a share: a side is cut in whole shares, so one of   *)
(* each of its names has to fit between the two ends of the band.          *)
Ones == [h \in Handles |-> 1]
Mids == {0} \cup {m.mid : m \in {n \in States : n.mid > 0}}
LotsAreSmall(p) ==
  Notional(Ones, p, Buys) <= 2 * MaxNet /\ Notional(Ones, p, Sells) <= 2 * MaxNet
LotsFit == \A p \in [Handles -> Mids] : LotsAreSmall(p)
=============================================================================
