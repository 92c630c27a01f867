------------------------------ MODULE ChildOrders ------------------------------
(***************************************************************************)
(* Four algos that turn a parent into children: the iceberg of             *)
(* execution/iceberg_order.py, the participation tracker of                *)
(* execution/pov_tracker.py, the seeker of                                 *)
(* execution/liquidity_seeking_algo.py and the roll of                     *)
(* execution/futures_roll_algo.py.                                         *)
(*                                                                         *)
(* The caller is modelled with them: it replaces its working child by what *)
(* is due, and the market fills a child in any slices.  A day of the roll  *)
(* and an interval of the seeker is a tick of elapsed.  Rates are per      *)
(* cent.                                                                   *)
(***************************************************************************)
EXTENDS Integers, Sequences

CONSTANTS
  Qty,                  (* the parent, position_contracts included         *)
  Displays,             (* an iceberg tranche before the cap: jitter       *)
  Participation, MinSlice, MaxSlice,               (* PovTracker           *)
  DepthFraction, ForceFrom,                        (* Config of the seeker *)
  Moments,              (* what the seeker may see, see Cheap              *)
  Curve,                (* cumulative_migration, one entry for each day    *)
  MaxPrinted            (* bound: other people's volume                    *)

VARIABLES
  algo,       (* which of the four works the parent                        *)
  done,       (* _executed, _rolled, total - _remaining                    *)
  slice,      (* what the market still works: _visible of an iceberg       *)
  printed,    (* _market_volume                                            *)
  elapsed,    (* intervals or days gone by                                 *)
  moment      (* the MarketState of this interval                          *)

childVars == <<algo, done, slice, printed, elapsed, moment>>

Days == Len(Curve)
Remaining == Qty - done
LesserOf(a, b) == IF a < b THEN a ELSE b
GreaterOf(a, b) == IF a > b THEN a ELSE b
Ceil(n, d) == (n + d - 1) \div d
Unknown == -1
Inf == 100 * Qty

(* What the constructors let through; a moment may hold any inputs.        *)
IcebergConfig == Qty \in Nat \ {0} /\ Displays \in (SUBSET Nat) \ {{}}
PovConfig ==
  Participation \in 1..100 /\ MinSlice \in Nat /\ MaxSlice \in Nat /\ MaxSlice >= GreaterOf(1, MinSlice)
SeekConfig == DepthFraction \in 1..100 /\ ForceFrom \in 0..(Days - 1)
RollConfig ==
  /\ Curve \in Seq(0..100) /\ Curve # <<>> /\ Curve[Days] = 100
  /\ \A i, j \in 1..Days : i <= j => Curve[i] <= Curve[j]
MarketMoments == [spread : Int, forecast : Int, vol : Int, impact : Int, depth : Nat]

ASSUME ChildAssumption ==
  /\ IcebergConfig /\ PovConfig /\ SeekConfig /\ RollConfig
  /\ Moments \subseteq MarketMoments /\ MaxPrinted \in Nat

-----------------------------------------------------------------------------
(* Iceberg.  The jittered tranche is any of Displays.                      *)
Tranches(left) == {LesserOf(GreaterOf(1, d), left) : d \in Displays}

IcebergFill(qty) ==
  /\ done' = done + qty
  /\ IF slice = qty /\ Remaining > qty
     THEN slice' \in Tranches(Remaining - qty)
     ELSE slice' = slice - qty

-----------------------------------------------------------------------------
(* POV.  The target follows the volume, past the parent: the last children *)
(* would otherwise be under min_slice for ever.                            *)
VolumeTargetOfParent == LesserOf(Qty, (Participation * printed) \div 100)
VolumeTarget == (Participation * printed) \div 100
BehindVolume == VolumeTarget - done

PovDue ==
  IF Remaining <= 0 \/ BehindVolume < GreaterOf(1, MinSlice) THEN 0
  ELSE LesserOf(LesserOf(BehindVolume, MaxSlice), Remaining)

-----------------------------------------------------------------------------
(* Seeker.  An Unknown compares false, so it shuts the gate it appears in.*)
Known(x) == x # Unknown
Cheap(m) ==
  /\ Known(m.spread) /\ m.forecast > 0 /\ m.spread <= m.forecast
  /\ Known(m.vol) /\ m.vol <= 0
  /\ Known(m.impact) /\ m.impact <= 0

Burst(m) == IF m.depth = Inf THEN Remaining ELSE (DepthFraction * m.depth) \div 100

(* The completion floor, from ForceFrom on; schedule_fraction is clamped.  *)
Floor ==
  IF elapsed <= ForceFrom THEN 0
  ELSE IF elapsed >= Days THEN Remaining
  ELSE Ceil(Remaining * (elapsed - ForceFrom), Days - ForceFrom)

SeekDue ==
  LesserOf(Remaining, GreaterOf(IF Cheap(moment) THEN Burst(moment) ELSE 0, Floor))

-----------------------------------------------------------------------------
(* Roll.  elapsed counts from 0, and the last day stays the last.          *)
Today == LesserOf(elapsed + 1, Days)
RollTarget == (2 * Qty * Curve[Today] + 100) \div 200      \* rounds half up
RollDue == GreaterOf(0, RollTarget - done)

-----------------------------------------------------------------------------
Due == CASE algo = "pov" -> PovDue
         [] algo = "seek" -> SeekDue
         [] algo = "roll" -> RollDue
         [] OTHER -> slice

(* The caller replaces its child; PollPiles is one that forgets to.        *)
PollPiles == /\ Due > 0 /\ slice' = slice + Due
             /\ UNCHANGED <<algo, done, printed, elapsed, moment>>
Poll ==
  /\ slice' = Due
  /\ UNCHANGED <<algo, done, printed, elapsed, moment>>

Fill(qty) ==
  /\ IF algo = "iceberg" THEN IcebergFill(qty)
     ELSE done' = done + qty /\ slice' = slice - qty
  /\ UNCHANGED <<algo, printed, elapsed, moment>>

(* A print that is not ours.                                               *)
OthersTrade ==
  /\ algo = "pov" /\ printed < MaxPrinted
  /\ printed' = printed + 1
  /\ UNCHANGED <<algo, done, slice, elapsed, moment>>

Elapse ==
  /\ algo \in {"seek", "roll"} /\ elapsed < Days
  /\ elapsed' = elapsed + 1
  /\ moment' \in (IF algo = "seek" THEN Moments ELSE {moment})
  /\ UNCHANGED <<algo, done, slice, printed>>

ChildInit ==
  /\ algo \in {"iceberg", "pov", "seek", "roll"}
  /\ done = 0
  /\ slice \in (IF algo = "iceberg" THEN Tranches(Qty) ELSE {0})
  /\ printed = 0 /\ elapsed = 0
  /\ moment = [spread |-> Unknown, forecast |-> Unknown, vol |-> 0, impact |-> 0, depth |-> 0]

SomeFill == \E qty \in 1..slice : Fill(qty)
ChildNext == Poll \/ SomeFill \/ OthersTrade \/ Elapse

ChildSpec == ChildInit /\ [][ChildNext]_childVars

(* The caller polls on its timer, others trade, time passes, and a child   *)
(* that is worked again and again fills some day.                          *)
Fairness ==
  WF_childVars(Poll) /\ WF_childVars(OthersTrade) /\ WF_childVars(Elapse) /\ SF_childVars(SomeFill)

-----------------------------------------------------------------------------
(* A parent is always finished: no minimum, cap, gate or rounding leaves a *)
(* remainder that is never due.                                            *)
FinishesTheParent == <>(done = Qty)

(* Whatever fills of what is worked, the algo is not ahead of what it      *)
(* follows: the volume of others, the migration curve, the parent.  An     *)
(* iceberg shows something as long as something is left.                   *)
NeverAhead ==
  /\ done + slice <= Qty
  /\ algo = "pov" => 100 * (done + slice) <= Participation * printed
  /\ algo = "roll" => done + slice <= RollTarget
  /\ algo = "iceberg" /\ Remaining > 0 => slice > 0
=============================================================================
