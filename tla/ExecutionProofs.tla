-------------------------- MODULE ExecutionProofs --------------------------
(***************************************************************************)
(* Proofs about ChildOrders, BasketExec and DarkPool, for every parent,    *)
(* rate, curve, basket, band, budget, queue and minimum.                   *)
(***************************************************************************)
EXTENDS BasketExec, ChildOrders, DarkPool, CommonLemmas

-----------------------------------------------------------------------------
(* The child orders.                                                       *)

ChildTypeOK ==
  /\ algo \in {"iceberg", "pov", "seek", "roll"}
  /\ done \in Nat /\ slice \in Nat /\ printed \in Nat
  /\ elapsed \in 0..Days /\ moment \in MarketMoments

\* NeverAhead is inductive as it stands: it counts what is worked as filled.
ChildInv == ChildTypeOK /\ NeverAhead

LEMMA ChildConstants ==
  /\ Qty \in Nat \ {0} /\ Participation \in Nat /\ MinSlice \in Nat /\ MaxSlice \in Nat
  /\ DepthFraction \in Nat /\ Days \in Nat \ {0} /\ ForceFrom \in Nat /\ ForceFrom < Days
  /\ Curve \in Seq(0..100) /\ \A i, j \in 1..Days : i <= j => Curve[i] <= Curve[j]
  /\ Displays \subseteq Nat /\ Displays # {}
BY ChildAssumption DEF IcebergConfig, PovConfig, SeekConfig, RollConfig, Days, GreaterOf

\* A tranche is something, and no more than is left.
LEMMA TrancheFits ==
  ASSUME NEW left \in Nat \ {0}, NEW t \in Tranches(left)
  PROVE  t \in 1..left
<1>1. PICK d \in Displays : t = LesserOf(GreaterOf(1, d), left)
  BY DEF Tranches
<1>2. d \in Nat
  BY ChildConstants
<1> QED BY <1>1, <1>2 DEF LesserOf, GreaterOf

\* What POV calls due is behind the volume, in the slice bounds and the parent.
LEMMA PovDueFits ==
  ASSUME ChildInv, algo = "pov"
  PROVE  PovDue \in Nat /\ done + PovDue <= Qty /\ 100 * (done + PovDue) <= Participation * printed
<1>1. PICK v \in Nat : v = Participation * printed
  BY ChildConstants DEF ChildInv, ChildTypeOK
<1>2. PICK target \in Int : target = v \div 100 /\ 100 * target <= v
  BY IntegerQuotient
<1>3. /\ done \in Nat /\ slice \in Nat /\ done + slice <= Qty /\ 100 * (done + slice) <= v
      /\ Qty \in Nat /\ MinSlice \in Nat /\ MaxSlice \in Nat
  BY <1>1, ChildConstants DEF ChildInv, ChildTypeOK, NeverAhead
<1>4. PovDue = IF Qty - done <= 0 \/ target - done < GreaterOf(1, MinSlice) THEN 0
               ELSE LesserOf(LesserOf(target - done, MaxSlice), Qty - done)
  BY <1>1, <1>2 DEF PovDue, Remaining, BehindVolume, VolumeTarget
<1>5. /\ PovDue \in Nat /\ done + PovDue <= Qty
      /\ PovDue = 0 \/ done + PovDue <= target
  BY <1>2, <1>3, <1>4 DEF LesserOf, GreaterOf
<1>6. 100 * (done + PovDue) <= v
  BY <1>2, <1>3, <1>5
<1> QED BY <1>1, <1>5, <1>6

\* The completion floor asks for something of what is left, or for all of it.
LEMMA SeekDueFits ==
  ASSUME ChildInv
  PROVE  SeekDue \in Nat /\ done + SeekDue <= Qty
<1>1. /\ done \in Nat /\ slice \in Nat /\ done + slice <= Qty /\ Qty \in Nat
      /\ elapsed \in 0..Days /\ Days \in Nat /\ ForceFrom \in Nat /\ DepthFraction \in Nat
      /\ moment.depth \in Nat
  BY ChildConstants DEF ChildInv, ChildTypeOK, NeverAhead, MarketMoments
<1>2. PICK left \in Nat : left = Qty - done
  BY <1>1
<1>3. Floor \in Int /\ Floor >= 0
  <2>1. CASE elapsed <= ForceFrom \/ elapsed >= Days
    BY <1>1, <1>2, <2>1 DEF Floor, Remaining
  <2>2. CASE ~(elapsed <= ForceFrom \/ elapsed >= Days)
    <3>1. PICK d \in Nat \ {0} : d = Days - ForceFrom
      BY <1>1, <2>2
    <3>2. PICK e \in Nat : e = elapsed - ForceFrom
      BY <1>1, <2>2
    <3>3. PICK n \in Nat : n = left * e + d - 1
      <4>1. left * e \in Nat
        BY ProductOfNaturals
      <4> QED BY <4>1, <3>1
    <3>4. n \div d \in Nat
      BY <3>1
    <3>5. Floor = n \div d
      BY <1>2, <2>2, <3>1, <3>2, <3>3 DEF Floor, Ceil, Remaining
    <3> QED BY <3>4, <3>5
  <2> QED BY <2>1, <2>2
<1>4. PICK burst \in Int : burst = IF Cheap(moment) THEN Burst(moment) ELSE 0
  <2>1. (DepthFraction * moment.depth) \div 100 \in Int
    <3>1. PICK n \in Nat : n = DepthFraction * moment.depth
      BY <1>1, ProductOfNaturals
    <3> QED BY <3>1
  <2>2. Burst(moment) \in Int
    BY <1>2, <2>1 DEF Burst, Remaining
  <2> QED BY <2>2
<1>5. SeekDue = LesserOf(left, GreaterOf(burst, Floor))
  BY <1>2, <1>4 DEF SeekDue, Remaining
<1> QED BY <1>1, <1>2, <1>3, <1>4, <1>5 DEF LesserOf, GreaterOf

\* The target of a day: half up, so no more than the position, and never
\* less on a later day.
RollTargetOn(day) == (2 * Qty * Curve[day] + 100) \div 200

LEMMA CurveOnADay == ASSUME NEW day \in 1..Days PROVE Curve[day] \in 0..100
<1>1. Curve \in Seq(0..100) /\ day \in 1..Len(Curve)
  BY ChildConstants DEF Days
<1> QED BY <1>1, ElementOfSeq

LEMMA RollTargets ==
  ASSUME NEW i \in 1..Days, NEW j \in 1..Days, i <= j
  PROVE  /\ RollTargetOn(i) \in Int /\ RollTargetOn(i) <= RollTargetOn(j)
         /\ RollTargetOn(j) <= Qty
<1>1. PICK c \in 0..100 : c = Curve[i]
  BY CurveOnADay
<1>2. PICK d \in 0..100 : d = Curve[j] /\ c <= d
  <2>1. Curve[j] \in 0..100 /\ Curve[i] <= Curve[j]
    BY CurveOnADay, ChildConstants
  <2> QED BY <1>1, <2>1
<1>3. PICK q \in Nat : q = Qty
  BY ChildConstants
<1>4. q * c \in Nat /\ q * d \in Nat /\ q * c <= q * d /\ q * d <= q * 100
  BY <1>2, ProductOfNaturals, ProductsAreOrdered
<1>5. PICK m \in Nat : m = 2 * q * c + 100
  BY <1>4
<1>6. PICK n \in Nat : n = 2 * q * d + 100 /\ m <= n /\ n <= 200 * q + 100
  BY <1>4, <1>5
<1>7. PICK a \in Int : a = m \div 200 /\ 200 * a <= m
  BY IntegerQuotient
<1>8. PICK b \in Int : b = n \div 200 /\ 200 * b <= n /\ n < 200 * b + 200
  BY IntegerQuotient
<1>9. a <= b /\ b <= q
  BY <1>6, <1>7, <1>8
<1> QED BY <1>1, <1>2, <1>3, <1>5, <1>6, <1>7, <1>8, <1>9 DEF RollTargetOn

LEMMA TodayIsADay ==
  ASSUME ChildTypeOK
  PROVE  Today \in 1..Days /\ RollTarget = RollTargetOn(Today)
BY ChildConstants DEF ChildTypeOK, Today, LesserOf, RollTarget, RollTargetOn

\* What the roll calls due catches up with the curve, and goes no further.
LEMMA RollDueFits ==
  ASSUME ChildInv, algo = "roll"
  PROVE  RollDue \in Nat /\ done + RollDue <= RollTarget /\ done + RollDue <= Qty
<1>1. PICK target \in Int : target = RollTarget /\ target <= Qty
  <2>1. Today \in 1..Days /\ RollTarget = RollTargetOn(Today)
    BY TodayIsADay DEF ChildInv
  <2>2. RollTargetOn(Today) \in Int /\ RollTargetOn(Today) <= Qty
    BY <2>1, RollTargets
  <2> QED BY <2>1, <2>2
<1>2. done \in Nat /\ slice \in Nat /\ done + slice <= target /\ Qty \in Nat
  BY <1>1, ChildConstants DEF ChildInv, ChildTypeOK, NeverAhead
<1>3. RollDue = GreaterOf(0, target - done)
  BY <1>1 DEF RollDue
<1> QED BY <1>1, <1>2, <1>3 DEF GreaterOf

-----------------------------------------------------------------------------
(* The steps.                                                              *)

LEMMA ChildStart == ChildInit => ChildInv
<1> SUFFICES ASSUME ChildInit PROVE ChildInv
  OBVIOUS
<1>1. moment \in MarketMoments /\ printed = 0 /\ elapsed = 0 /\ done = 0
  BY DEF ChildInit, MarketMoments, Unknown
<1>2. slice \in 0..Qty /\ (algo = "iceberg" => slice > 0) /\ (algo # "iceberg" => slice = 0)
  BY ChildConstants, TrancheFits DEF ChildInit
<1>3. ChildTypeOK
  BY <1>1, <1>2, ChildConstants DEF ChildTypeOK, ChildInit
<1>4. RollTarget >= 0
  <2>1. PICK c \in 0..100 : c = Curve[Today]
    BY <1>3, TodayIsADay, CurveOnADay
  <2>2. PICK q \in Nat : q = Qty
    BY ChildConstants
  <2>3. q * c \in Nat
    BY ProductOfNaturals
  <2>4. PICK n \in Nat : n = 2 * q * c + 100
    BY <2>3
  <2>5. n \div 200 >= 0
    OBVIOUS
  <2> QED BY <2>1, <2>2, <2>4, <2>5 DEF RollTarget
<1>5. Participation * printed = 0
  BY <1>1, ChildConstants
<1>6. NeverAhead
  BY <1>1, <1>2, <1>4, <1>5, ChildConstants DEF NeverAhead, Remaining
<1> QED BY <1>3, <1>6 DEF ChildInv

LEMMA PollKeeps == ChildInv /\ Poll => ChildInv'
<1> SUFFICES ASSUME ChildInv, Poll PROVE ChildInv'
  OBVIOUS
<1>1. UNCHANGED <<algo, done, printed, elapsed, moment>> /\ slice' = Due
  BY DEF Poll
<1>2. algo \in {"iceberg", "pov", "seek", "roll"}
  BY DEF ChildInv, ChildTypeOK
<1>3. RollTarget' = RollTarget /\ Remaining' = Remaining
  BY <1>1 DEF RollTarget, Today, Remaining
<1>4. /\ Due \in Nat /\ done + Due <= Qty
      /\ algo = "pov" => 100 * (done + Due) <= Participation * printed
      /\ algo = "roll" => done + Due <= RollTarget
      /\ algo = "iceberg" /\ Remaining > 0 => Due > 0
  <2>1. CASE algo = "pov"
    BY <2>1, PovDueFits DEF Due
  <2>2. CASE algo = "seek"
    BY <2>2, SeekDueFits DEF Due
  <2>3. CASE algo = "roll"
    BY <2>3, RollDueFits DEF Due
  <2>4. CASE algo = "iceberg"
    BY <2>4 DEF Due, ChildInv, ChildTypeOK, NeverAhead
  <2> QED BY <1>2, <2>1, <2>2, <2>3, <2>4
<1>5. ChildTypeOK'
  BY <1>1, <1>4 DEF ChildInv, ChildTypeOK
<1>6. NeverAhead'
  BY <1>1, <1>3, <1>4 DEF NeverAhead
<1> QED BY <1>5, <1>6 DEF ChildInv

LEMMA FillKeeps ==
  ASSUME ChildInv, NEW qty \in 1..slice, Fill(qty)
  PROVE  ChildInv'
<1>1. UNCHANGED <<algo, printed, elapsed, moment>>
  BY DEF Fill
<1>2. /\ done \in Nat /\ slice \in Nat /\ Qty \in Nat /\ done + slice <= Qty /\ qty \in Nat
      /\ algo \in {"iceberg", "pov", "seek", "roll"}
  BY ChildConstants DEF ChildInv, ChildTypeOK, NeverAhead
<1>3. RollTarget' = RollTarget
  BY <1>1 DEF RollTarget, Today
<1>4. CASE algo = "iceberg"
  <2>1. done' = done + qty
    BY <1>4 DEF Fill, IcebergFill
  <2>2. CASE slice = qty /\ Qty - done > qty
    <3>1. PICK left \in Nat \ {0} : left = Qty - done - qty
      BY <1>2, <2>2
    <3>2. slice' \in Tranches(left)
      BY <1>4, <2>2, <3>1 DEF Fill, IcebergFill, Remaining
    <3>3. slice' \in 1..left
      BY <3>2, TrancheFits
    <3>4. PICK next \in Nat \ {0} : next = slice' /\ next <= left
      BY <3>3
    <3>5. PICK d \in Nat : d = done' /\ d + next <= Qty
      <4>1. PICK x \in Nat, y \in Nat, z \in Nat : x = done /\ y = qty /\ z = Qty
        BY <1>2
      <4>2. left = z - x - y
        BY <3>1, <4>1
      <4>3. next <= left
        BY <3>4
      <4>4. x + y \in Nat /\ (x + y) + next <= z
        BY <4>2, <4>3
      <4> QED BY <2>1, <4>1, <4>4
    <3> QED BY <1>1, <1>4, <3>4, <3>5 DEF ChildInv, ChildTypeOK, NeverAhead
  <2>3. CASE ~(slice = qty /\ Qty - done > qty)
    <3>1. slice' = slice - qty
      BY <1>4, <2>3 DEF Fill, IcebergFill, Remaining
    <3>2. done' + slice' <= Qty /\ slice' \in Nat /\ done' \in Nat /\ (Qty - done' > 0 => slice' > 0)
      BY <1>2, <2>1, <2>3, <3>1
    <3> QED BY <1>1, <1>4, <3>2 DEF ChildInv, ChildTypeOK, NeverAhead, Remaining
  <2> QED BY <2>2, <2>3
<1>5. CASE algo # "iceberg"
  <2>1. done' = done + qty /\ slice' = slice - qty
    BY <1>5 DEF Fill
  <2>2. done' + slice' = done + slice /\ done' \in Nat /\ slice' \in Nat
    BY <1>2, <2>1
  <2> QED BY <1>1, <1>3, <1>5, <2>2 DEF ChildInv, ChildTypeOK, NeverAhead
<1> QED BY <1>4, <1>5

LEMMA PrintKeeps == ChildInv /\ OthersTrade => ChildInv'
<1> SUFFICES ASSUME ChildInv, OthersTrade PROVE ChildInv'
  OBVIOUS
<1>1. UNCHANGED <<algo, done, slice, elapsed, moment>> /\ printed' = printed + 1 /\ algo = "pov"
  BY DEF OthersTrade
<1>2. PICK v \in Nat : v = printed
  BY DEF ChildInv, ChildTypeOK
<1>3. PICK rate \in Nat : rate = Participation
  BY ChildConstants
<1>4. rate * (v + 1) = rate * v + rate /\ rate * v \in Nat
  OBVIOUS
<1>5. done \in Nat /\ slice \in Nat /\ 100 * (done + slice) <= rate * v
  BY <1>1, <1>2, <1>3 DEF ChildInv, ChildTypeOK, NeverAhead
<1>6. 100 * (done + slice) <= rate * (v + 1)
  BY <1>4, <1>5
<1>7. RollTarget' = RollTarget /\ Remaining' = Remaining
  BY <1>1 DEF RollTarget, Today, Remaining
<1> QED BY <1>1, <1>2, <1>3, <1>6, <1>7 DEF ChildInv, ChildTypeOK, NeverAhead

LEMMA ElapseKeeps == ChildInv /\ Elapse => ChildInv'
<1> SUFFICES ASSUME ChildInv, Elapse PROVE ChildInv'
  OBVIOUS
<1>1. UNCHANGED <<algo, done, slice, printed>> /\ elapsed' = elapsed + 1 /\ elapsed < Days
  BY DEF Elapse
<1>2. moment' \in MarketMoments
  BY ChildAssumption DEF Elapse, ChildInv, ChildTypeOK
<1>3. ChildTypeOK'
  BY <1>1, <1>2, ChildConstants DEF ChildInv, ChildTypeOK
<1>4. RollTarget \in Int /\ RollTarget' \in Int /\ RollTarget <= RollTarget'
  <2>1. Today \in 1..Days /\ RollTarget = RollTargetOn(Today)
    BY TodayIsADay DEF ChildInv
  <2>2. PICK later \in 1..Days : later = Today' /\ RollTarget' = RollTargetOn(later) /\ Today <= later
    <3>1. Today' = LesserOf(elapsed' + 1, Days) /\ Today' \in 1..Days
      <4>1. elapsed' \in 0..Days
        BY <1>3 DEF ChildTypeOK
      <4>2. Today' = LesserOf(elapsed' + 1, Days)
        BY DEF Today, LesserOf
      <4>3. PICK n \in Nat \ {0} : n = Days
        BY ChildConstants
      <4>4. PICK e \in 0..n : e = elapsed'
        BY <4>1, <4>3
      <4>5. LesserOf(e + 1, n) \in 1..n
        BY DEF LesserOf
      <4> QED BY <4>2, <4>3, <4>4, <4>5
    <3>2. Today <= Today'
      BY <1>1, <3>1, ChildConstants DEF Today, LesserOf, ChildInv, ChildTypeOK
    <3>3. RollTarget' = RollTargetOn(Today')
      BY DEF RollTarget, RollTargetOn
    <3> QED BY <3>1, <3>2, <3>3
  <2> QED BY <2>1, <2>2, RollTargets
<1>5. NeverAhead'
  <2>1. done \in Nat /\ slice \in Nat
    BY DEF ChildInv, ChildTypeOK
  <2> QED BY <1>1, <1>4, <2>1 DEF ChildInv, NeverAhead, Remaining
<1> QED BY <1>3, <1>5 DEF ChildInv

(* NeverAhead of execution/iceberg_order.py, pov_tracker.py,               *)
(* liquidity_seeking_algo.py and futures_roll_algo.py: whatever fills of   *)
(* what is worked, in any slices and between any calls.                    *)
THEOREM ChildrenNeverRunAhead == ChildSpec => []NeverAhead
<1>1. ChildInv /\ [ChildNext]_childVars => ChildInv'
  <2> SUFFICES ASSUME ChildInv, [ChildNext]_childVars PROVE ChildInv'
    OBVIOUS
  <2>1. CASE Poll
    BY <2>1, PollKeeps
  <2>2. CASE SomeFill
    BY <2>2, FillKeeps DEF SomeFill
  <2>3. CASE OthersTrade
    BY <2>3, PrintKeeps
  <2>4. CASE Elapse
    BY <2>4, ElapseKeeps
  <2>5. CASE UNCHANGED childVars
    BY <2>5 DEF childVars, ChildInv, ChildTypeOK, NeverAhead, Remaining, RollTarget, Today
  <2> QED BY <2>1, <2>2, <2>3, <2>4, <2>5 DEF ChildNext
<1>2. ChildInv => NeverAhead
  BY DEF ChildInv
<1> QED BY <1>1, <1>2, ChildStart, PTL DEF ChildSpec

-----------------------------------------------------------------------------
(* The basket: notionals are sums, so they compare as their terms do.      *)

Quantities == [Handles -> Nat]

LEMMA BasketConstants ==
  /\ Len(Child) \in Nat /\ Handles = 1..Len(Child) /\ Child \in Seq(Executors)
  /\ \A h \in Handles : Child[h] \in Executors
  /\ MaxNet \in Nat \ {0} /\ MaxBudget \in Nat \ {0} /\ Horizon \in Nat \ {0}
  /\ Buys \subseteq Handles /\ Sells \subseteq Handles /\ Buys \cap Sells = {}
<1>1. Child \in Seq(Executors) /\ Handles = 1..Len(Child) /\ Len(Child) \in Nat
  BY BasketAssumption DEF Handles
<1>2. \A h \in Handles : Child[h] \in Executors
  BY <1>1, ElementOfSeq
<1>3. Buys \subseteq Handles /\ Sells \subseteq Handles /\ Buys \cap Sells = {}
  BY DEF Buys, Sells
<1> QED BY <1>1, <1>2, <1>3, BasketAssumption DEF Config

\* The terms of a notional.
AreAmounts(s, d, p, hs) ==
  /\ Len(s) = Len(Child) /\ Notional(d, p, hs) = SeqSum(s)
  /\ \A h \in Handles : s[h] = IF h \in hs THEN d[h] * p[h] ELSE 0

LEMMA AmountsAre ==
  ASSUME NEW d \in Quantities, NEW p \in Quantities, NEW hs
  PROVE  \E s \in Seq(Nat) : AreAmounts(s, d, p, hs)
<1> DEFINE s == [h \in Handles |-> IF h \in hs THEN d[h] * p[h] ELSE 0]
<1>1. Handles = 1..Len(Child) /\ Len(Child) \in Nat
  BY BasketConstants
<1>2. ASSUME NEW h \in Handles PROVE s[h] \in Nat
  <2>1. d[h] \in Nat /\ p[h] \in Nat
    BY DEF Quantities
  <2>2. d[h] * p[h] \in Nat
    BY <2>1, ProductOfNaturals
  <2> QED BY <2>2
<1>3. Notional(d, p, hs) = SeqSum(s)
  BY DEF Notional
<1>4. \A h \in Handles : s[h] = IF h \in hs THEN d[h] * p[h] ELSE 0
  OBVIOUS
<1>5. s = [h \in Handles |-> s[h]]
  OBVIOUS
<1> HIDE DEF s
<1>6. s \in Seq(Nat) /\ Len(s) = Len(Child)
  BY <1>1, <1>2, <1>5
<1> QED BY <1>3, <1>4, <1>6 DEF AreAmounts

LEMMA NotionalIsNat ==
  ASSUME NEW d \in Quantities, NEW p \in Quantities, NEW hs
  PROVE  Notional(d, p, hs) \in Nat
BY AmountsAre, SumOfNaturals DEF AreAmounts

\* A notional is known by the quantities it is of.
LEMMA SameNotional ==
  ASSUME NEW d, NEW e, NEW p, NEW hs, \A h \in Handles : h \in hs => d[h] = e[h]
  PROVE  Notional(d, p, hs) = Notional(e, p, hs)
BY DEF Notional

\* One child's share of a notional.
LEMMA AnAmount ==
  ASSUME NEW d \in Quantities, NEW p \in Quantities, NEW h \in Handles
  PROVE  \E x \in Nat, q \in Nat : x = d[h] /\ q = p[h] /\ d[h] * p[h] = x * q /\ x * q \in Nat
<1>1. PICK x \in Nat, q \in Nat : x = d[h] /\ q = p[h]
  BY DEF Quantities
<1>2. x * q \in Nat
  BY ProductOfNaturals
<1> QED BY <1>1, <1>2

LEMMA CutsCostLess ==
  ASSUME NEW d \in Quantities, NEW e \in Quantities, NEW p \in Quantities, NEW hs,
         \A h \in Handles : e[h] <= d[h]
  PROVE  Notional(e, p, hs) <= Notional(d, p, hs)
<1>2. PICK s \in Seq(Nat) : AreAmounts(s, d, p, hs)
  BY AmountsAre
<1>3. PICK t \in Seq(Nat) : AreAmounts(t, e, p, hs)
  BY AmountsAre
<1>4. ASSUME NEW i \in 1..Len(t) PROVE t[i] <= s[i]
  <2>1. i \in Handles
    BY <1>3, BasketConstants DEF AreAmounts
  <2>2. PICK x \in Nat, y \in Nat, q \in Nat : x = d[i] /\ y = e[i] /\ q = p[i]
    BY <2>1 DEF Quantities
  <2>3. y <= x
    BY <2>1, <2>2
  <2>4. q * y <= q * x /\ q * y = y * q /\ q * x = x * q /\ q * x \in Nat /\ q * y \in Nat
    BY <2>3, ProductsAreOrdered, ProductOfNaturals
  <2>5. PICK a \in Nat, b \in Nat : a = y * q /\ b = x * q /\ a <= b
    BY <2>4
  <2>6. CASE i \in hs
    <3>1. t[i] = a /\ s[i] = b
      BY <1>2, <1>3, <2>1, <2>2, <2>5, <2>6 DEF AreAmounts
    <3> QED BY <3>1, <2>5
  <2>7. CASE i \notin hs
    <3>1. t[i] = 0 /\ s[i] = 0
      BY <1>2, <1>3, <2>1, <2>7 DEF AreAmounts
    <3> QED BY <3>1
  <2> QED BY <2>6, <2>7
<1>5. s \in Seq(Int) /\ t \in Seq(Int) /\ Len(s) = Len(t)
  BY <1>2, <1>3 DEF AreAmounts
<1>6. SeqSum(t) <= SeqSum(s)
  BY <1>4, <1>5, SumsAreOrdered
<1> QED BY <1>2, <1>3, <1>6 DEF AreAmounts

LEMMA NotionalsCompare ==
  ASSUME NEW d \in Quantities, NEW e \in Quantities, NEW u \in Quantities,
         NEW p \in Quantities, NEW hs, NEW a \in Int, NEW b \in Int, NEW c \in Int,
         \A h \in Handles : h \in hs => a * (d[h] * p[h]) <= b * (e[h] * p[h]) + c * (u[h] * p[h])
  PROVE  a * Notional(d, p, hs) <= b * Notional(e, p, hs) + c * Notional(u, p, hs)
<1>2. PICK s \in Seq(Nat) : AreAmounts(s, d, p, hs)
  BY AmountsAre
<1>3. PICK t \in Seq(Nat) : AreAmounts(t, e, p, hs)
  BY AmountsAre
<1>4. PICK w \in Seq(Nat) : AreAmounts(w, u, p, hs)
  BY AmountsAre
<1>5. ASSUME NEW i \in 1..Len(s) PROVE a * s[i] <= b * t[i] + c * w[i]
  <2>1. i \in Handles
    BY <1>2, BasketConstants DEF AreAmounts
  <2>2. CASE i \in hs
    <3>1. s[i] = d[i] * p[i] /\ t[i] = e[i] * p[i] /\ w[i] = u[i] * p[i]
      BY <1>2, <1>3, <1>4, <2>1, <2>2 DEF AreAmounts
    <3> QED BY <2>1, <2>2, <3>1, Zenon
  <2>3. CASE i \notin hs
    <3>1. s[i] = 0 /\ t[i] = 0 /\ w[i] = 0
      BY <1>2, <1>3, <1>4, <2>1, <2>3 DEF AreAmounts
    <3> QED BY <3>1
  <2> QED BY <2>2, <2>3
<1>6. s \in Seq(Int) /\ t \in Seq(Int) /\ w \in Seq(Int) /\ Len(t) = Len(s) /\ Len(w) = Len(s)
  BY <1>2, <1>3, <1>4 DEF AreAmounts
<1>7. a * SeqSum(s) <= b * SeqSum(t) + c * SeqSum(w)
  BY <1>5, <1>6, SumsCompare
<1> QED BY <1>2, <1>3, <1>4, <1>7, Zenon DEF AreAmounts

\* A share of an amount, rounded down: what it is worth at a price.
LEMMA FlooredShare ==
  ASSUME NEW n \in Nat, NEW amount \in Nat, NEW total \in Nat \ {0}, NEW price \in Nat,
         NEW q \in Nat, q = (n * amount) \div total
  PROVE  /\ total * (q * price) <= amount * (n * price)
         /\ amount * (n * price) <= total * (q * price) + total * (1 * price)
         /\ amount <= total => q <= n
<1>1. PICK x \in Nat : x = n * amount
  BY ProductOfNaturals
<1>2. PICK y \in Nat : y = total * q
  BY ProductOfNaturals
<1>3. y <= x /\ x <= y + total
  <2>1. q = x \div total
    BY <1>1
  <2>2. total * (x \div total) <= x /\ x < total * (x \div total) + total
    BY IntegerQuotient
  <2>3. total * q <= x /\ x < total * q + total
    BY <2>1, <2>2
  <2> QED BY <1>2, <2>3
<1>4. price * y <= price * x /\ price * x <= price * (y + total)
  BY <1>3, ProductsAreOrdered
<1>5. price * y = total * (q * price) /\ price * x = amount * (n * price)
  BY <1>1, <1>2
<1>6. price * (y + total) = total * (q * price) + total * (1 * price)
  BY <1>2
<1>7. ASSUME amount <= total PROVE q <= n
  <2>1. n * amount <= n * total
    BY <1>7, ProductsAreOrdered
  <2>2. PICK z \in Nat : z = n * total
    BY ProductOfNaturals
  <2>3. x < total * (n + 1)
    <3>1. total * (n + 1) = z + total
      BY <2>2
    <3>2. x <= z
      BY <1>1, <2>1, <2>2
    <3> QED BY <3>1, <3>2
  <2>4. x \div total <= n
    BY <2>3, QuotientBelow
  <2> QED BY <1>1, <2>4
<1> QED BY <1>4, <1>5, <1>6, <1>7

(* ScaleSide: what a cut side costs is what is allowed, but for the share  *)
(* each child loses to rounding.                                           *)
LEMMA CutSide ==
  ASSUME NEW d \in Quantities, NEW p \in Quantities, NEW side, side \subseteq Handles,
         NEW allowed \in Nat, allowed < Notional(d, p, side)
  PROVE  /\ ScaleSide(d, p, side, allowed) \in Quantities
         /\ \A h \in Handles : ScaleSide(d, p, side, allowed)[h] <= d[h]
         /\ \A h \in Handles \ side : ScaleSide(d, p, side, allowed)[h] = d[h]
         /\ Notional(ScaleSide(d, p, side, allowed), p, side) <= allowed
         /\ allowed <= Notional(ScaleSide(d, p, side, allowed), p, side) + Notional(Ones, p, side)
<1>1. PICK T \in Nat \ {0} : T = Notional(d, p, side) /\ allowed < T
  BY NotionalIsNat
<1>2. PICK x : x = ScaleSide(d, p, side, allowed)
  OBVIOUS
<1>3. x = [h \in Handles |-> IF h \in side /\ p[h] > 0 THEN (d[h] * allowed) \div T ELSE d[h]]
  BY <1>1, <1>2 DEF ScaleSide
<1>4. ASSUME NEW h \in Handles
      PROVE  /\ x[h] \in Nat /\ x[h] <= d[h] /\ (h \notin side => x[h] = d[h])
             /\ h \in side => /\ T * (x[h] * p[h]) <= allowed * (d[h] * p[h]) + 0 * (d[h] * p[h])
                             /\ allowed * (d[h] * p[h]) <= T * (x[h] * p[h]) + T * (Ones[h] * p[h])
  <2>1. PICK n \in Nat, price \in Nat : n = d[h] /\ price = p[h]
    BY DEF Quantities
  <2>2. CASE h \in side /\ p[h] > 0
    <3>1. x[h] = (n * allowed) \div T
      BY <1>3, <2>1, <2>2
    <3>2. PICK y \in Nat : y = n * allowed
      BY ProductOfNaturals
    <3>3. PICK q \in Nat : q = y \div T
      BY NaturalQuotient
    <3>4. q = (n * allowed) \div T
      BY <3>2, <3>3
    <3>5. /\ T * (q * price) <= allowed * (n * price)
          /\ allowed * (n * price) <= T * (q * price) + T * (1 * price)
          /\ allowed <= T => q <= n
      BY <3>4, <1>1, FlooredShare, Zenon
    <3>6. allowed * (n * price) \in Int /\ 0 * (n * price) = 0
      OBVIOUS
    <3>7. T * (q * price) <= allowed * (n * price) + 0 * (n * price)
      BY <3>5, <3>6
    <3>8. x[h] = q /\ Ones[h] = 1
      BY <3>1, <3>4 DEF Ones
    <3>9. q <= n
      BY <3>5, <1>1
    <3> QED BY <2>1, <2>2, <3>5, <3>7, <3>8, <3>9
  <2>3. CASE ~(h \in side /\ p[h] > 0)
    <3>1. x[h] = n
      BY <1>3, <2>1, <2>3
    <3>2. h \in side => price = 0
      BY <2>1, <2>3
    <3>3. ASSUME price = 0
          PROVE  /\ T * (n * price) <= allowed * (n * price) + 0 * (n * price)
                 /\ allowed * (n * price) <= T * (n * price) + T * (1 * price)
      BY <3>3
    <3>4. Ones[h] = 1
      BY DEF Ones
    <3> QED BY <2>1, <3>1, <3>2, <3>3, <3>4
  <2> QED BY <2>2, <2>3
<1>5. x \in Quantities /\ Ones \in Quantities
  BY <1>3, <1>4 DEF Quantities, Ones
<1>6. PICK zero \in Int : zero = 0
  OBVIOUS
<1>7. T * Notional(x, p, side) <= allowed * Notional(d, p, side) + zero * Notional(d, p, side)
  BY <1>4, <1>5, <1>6, NotionalsCompare
<1>8. allowed * Notional(d, p, side) <= T * Notional(x, p, side) + T * Notional(Ones, p, side)
  BY <1>4, <1>5, NotionalsCompare
<1>9. PICK m \in Nat, r \in Nat : m = Notional(x, p, side) /\ r = Notional(Ones, p, side)
  BY <1>5, NotionalIsNat
<1>10. T * m <= allowed * T + zero * T /\ allowed * T <= T * m + T * r
  BY <1>1, <1>7, <1>8, <1>9
<1>11. m <= allowed
  <2>1. SUFFICES ASSUME m >= allowed + 1 PROVE FALSE
    OBVIOUS
  <2>2. T * (allowed + 1) <= T * m
    BY <2>1, ProductsAreOrdered
  <2>3. T * (allowed + 1) = allowed * T + T /\ zero * T = 0
    BY <1>6
  <2> QED BY <1>10, <2>2, <2>3
<1>12. allowed <= m + r
  <2>1. SUFFICES ASSUME allowed >= (m + r) + 1 PROVE FALSE
    OBVIOUS
  <2>2. T * ((m + r) + 1) <= T * allowed
    BY <2>1, ProductsAreOrdered
  <2>3. T * ((m + r) + 1) = (T * m + T * r) + T /\ T * allowed = allowed * T
    OBVIOUS
  <2> QED BY <1>10, <2>2, <2>3
<1> QED BY <1>2, <1>4, <1>5, <1>9, <1>11, <1>12

-----------------------------------------------------------------------------
(* The overlays.                                                           *)

Bounded(x) == Size(x) <= Max({MaxNet, Size(net)})
WithinBand(d, p) == Bounded(net + Notional(d, p, Buys) - Notional(d, p, Sells))

\* Ways to be within the band, or no further out.
LEMMA AreBounded ==
  ASSUME NEW x \in Int, net \in Int,
         \/ -MaxNet <= x /\ x <= MaxNet
         \/ 0 <= x /\ x <= net
         \/ net <= x /\ x <= 0
  PROVE  Bounded(x)
<1>1. PICK M \in Int : M = MaxNet
  BY BasketConstants
<1>2. PICK n \in Int : n = net
  OBVIOUS
<1>3. PICK a \in Int, b \in Int : a = Size(x) /\ b = Size(n)
  BY DEF Size
<1>4. \/ -M <= x /\ x <= M
      \/ 0 <= x /\ x <= n
      \/ n <= x /\ x <= 0
  BY <1>1, <1>2
<1>5. a <= M \/ a <= b
  BY <1>3, <1>4 DEF Size
<1>6. Max({M, b}) >= M /\ Max({M, b}) >= b /\ Max({M, b}) \in {M, b}
  BY MaxOfTwo
<1>7. a <= Max({M, b})
  BY <1>5, <1>6
<1> QED BY <1>1, <1>2, <1>3, <1>7 DEF Bounded

LEMMA LegBandHolds ==
  ASSUME NEW d \in Quantities, NEW p \in Quantities, net \in Int
  PROVE  /\ LegBand(d, p) \in Quantities
         /\ \A h \in Handles : LegBand(d, p)[h] <= d[h]
         /\ LotsAreSmall(p) => WithinBand(LegBand(d, p), p)
<1>1. PICK B \in Nat, S \in Nat : B = Notional(d, p, Buys) /\ S = Notional(d, p, Sells)
  BY NotionalIsNat
<1>2. PICK M \in Nat \ {0} : M = MaxNet
  BY BasketConstants
<1>3. PICK n \in Int : n = net
  OBVIOUS
<1>4. PICK y : y = LegBand(d, p)
  OBVIOUS
<1>5. PICK ob, os : ob = Notional(Ones, p, Buys) /\ os = Notional(Ones, p, Sells)
  OBVIOUS
<1>6. ob \in Nat /\ os \in Nat
  <2>1. Ones \in Quantities
    BY DEF Ones, Quantities
  <2> QED BY <1>5, <2>1, NotionalIsNat
<1>7. y = IF n + B - S > M /\ B > 0 THEN ScaleSide(d, p, Buys, Max({0, M - n + S}))
          ELSE IF n + B - S < -M /\ S > 0 THEN ScaleSide(d, p, Sells, Max({0, M + n + B}))
          ELSE d
  BY <1>1, <1>2, <1>3, <1>4 DEF LegBand
<1>8. \A h \in Handles : d[h] \in Nat
  BY DEF Quantities
<1>9. CASE n + B - S > M /\ B > 0
  <2>1. PICK a \in Nat : a = Max({0, M - n + S}) /\ (a = 0 \/ a = M - n + S) /\ a >= M - n + S
    <3>1. PICK z \in Int, zero \in Int : z = M - n + S /\ zero = 0
      OBVIOUS
    <3>2. Max({zero, z}) \in {zero, z} /\ Max({zero, z}) >= zero /\ Max({zero, z}) >= z
      BY MaxOfTwo
    <3> QED BY <3>1, <3>2
  <2>2. a < B
    BY <2>1, <1>9
  <2>3. y = ScaleSide(d, p, Buys, a)
    BY <1>7, <1>9, <2>1
  <2>4. a < Notional(d, p, Buys) /\ Buys \subseteq Handles
    BY <1>1, <2>2, BasketConstants
  <2>5. /\ y \in Quantities /\ \A h \in Handles : y[h] <= d[h]
        /\ \A h \in Handles \ Buys : y[h] = d[h]
        /\ Notional(y, p, Buys) <= a
        /\ a <= Notional(y, p, Buys) + Notional(Ones, p, Buys)
    BY <2>3, <2>4, CutSide
  <2>6. Notional(y, p, Sells) = Notional(d, p, Sells)
    <3>1. \A h \in Handles : h \in Sells => y[h] = d[h]
      BY <2>5 DEF Sells
    <3> QED BY <3>1, SameNotional
  <2>7. PICK b \in Nat : b = Notional(y, p, Buys) /\ b <= a /\ a <= b + ob
    BY <2>5, <1>5, NotionalIsNat
  <2>8. ASSUME ob <= 2 * M PROVE Bounded(n + b - S)
    <3>1. CASE a = 0 /\ a # M - n + S
      <4>1. b = 0 /\ M - n + S < 0
        BY <2>1, <2>7, <3>1
      <4>2. 0 <= n + b - S /\ n + b - S <= n
        BY <4>1
      <4> QED BY <4>2, <1>3, AreBounded
    <3>2. CASE a = M - n + S
      <4>1. n + b - S <= M
        BY <2>7, <3>2
      <4>2. -M <= n + b - S
        BY <2>7, <2>8, <3>2, <1>6
      <4> QED BY <4>1, <4>2, <1>2, <1>3, AreBounded
    <3> QED BY <2>1, <3>1, <3>2
  <2>9. LotsAreSmall(p) => WithinBand(y, p)
    BY <2>6, <2>7, <2>8, <1>1, <1>2, <1>3, <1>5 DEF LotsAreSmall, WithinBand
  <2> QED BY <1>4, <2>5, <2>9
<1>10. CASE ~(n + B - S > M /\ B > 0) /\ n + B - S < -M /\ S > 0
  <2>1. PICK a \in Nat : a = Max({0, M + n + B}) /\ (a = 0 \/ a = M + n + B) /\ a >= M + n + B
    <3>1. PICK z \in Int, zero \in Int : z = M + n + B /\ zero = 0
      OBVIOUS
    <3>2. Max({zero, z}) \in {zero, z} /\ Max({zero, z}) >= zero /\ Max({zero, z}) >= z
      BY MaxOfTwo
    <3> QED BY <3>1, <3>2
  <2>2. a < S
    BY <2>1, <1>10
  <2>3. y = ScaleSide(d, p, Sells, a)
    BY <1>7, <1>10, <2>1
  <2>4. a < Notional(d, p, Sells) /\ Sells \subseteq Handles
    BY <1>1, <2>2, BasketConstants
  <2>5. /\ y \in Quantities /\ \A h \in Handles : y[h] <= d[h]
        /\ \A h \in Handles \ Sells : y[h] = d[h]
        /\ Notional(y, p, Sells) <= a
        /\ a <= Notional(y, p, Sells) + Notional(Ones, p, Sells)
    BY <2>3, <2>4, CutSide
  <2>6. Notional(y, p, Buys) = Notional(d, p, Buys)
    <3>1. \A h \in Handles : h \in Buys => y[h] = d[h]
      BY <2>5 DEF Sells
    <3> QED BY <3>1, SameNotional
  <2>7. PICK s \in Nat : s = Notional(y, p, Sells) /\ s <= a /\ a <= s + os
    BY <2>5, <1>5, NotionalIsNat
  <2>8. ASSUME os <= 2 * M PROVE Bounded(n + B - s)
    <3>1. CASE a = 0 /\ a # M + n + B
      <4>1. s = 0 /\ M + n + B < 0
        BY <2>1, <2>7, <3>1
      <4>2. n <= n + B - s /\ n + B - s <= 0
        BY <4>1
      <4> QED BY <4>2, <1>3, AreBounded
    <3>2. CASE a = M + n + B
      <4>1. -M <= n + B - s
        BY <2>7, <3>2
      <4>2. n + B - s <= M
        BY <2>7, <2>8, <3>2, <1>6
      <4> QED BY <4>1, <4>2, <1>2, <1>3, AreBounded
    <3> QED BY <2>1, <3>1, <3>2
  <2>9. LotsAreSmall(p) => WithinBand(y, p)
    BY <2>6, <2>7, <2>8, <1>1, <1>2, <1>3, <1>5 DEF LotsAreSmall, WithinBand
  <2> QED BY <1>4, <2>5, <2>9
<1>11. CASE ~(n + B - S > M /\ B > 0) /\ ~(n + B - S < -M /\ S > 0)
  <2>1. y = d
    BY <1>7, <1>11
  <2>2. Bounded(n + B - S)
    <3>1. CASE -M <= n + B - S /\ n + B - S <= M
      BY <3>1, <1>2, <1>3, AreBounded
    <3>2. CASE n + B - S > M
      <4>1. 0 <= n + B - S /\ n + B - S <= n
        BY <3>2, <1>11
      <4> QED BY <4>1, <1>3, AreBounded
    <3>3. CASE n + B - S < -M
      <4>1. n <= n + B - S /\ n + B - S <= 0
        BY <3>3, <1>11
      <4> QED BY <4>1, <1>3, AreBounded
    <3> QED BY <3>1, <3>2, <3>3
  <2>3. WithinBand(y, p)
    BY <2>1, <2>2, <1>1, <1>3 DEF WithinBand
  <2>4. \A h \in Handles : y[h] <= d[h]
    BY <2>1, <1>8
  <2> QED BY <1>4, <2>1, <2>3, <2>4
<1> QED BY <1>9, <1>10, <1>11

\* A factor is at least one.
LEMMA RiskFactorIs ==
  ASSUME NEW m \in MarketStates
  PROVE  RiskFactor(m) \in Nat \ {0}
BY DEF RiskFactor, MarketStates

\* The amounts weighted by their risk.
AreWeighted(w, d, p, m) ==
  /\ Len(w) = Len(Child)
  /\ SeqSum(w) = SeqSum([h \in Handles |-> RiskFactor(m[h]) * (d[h] * p[h])])
  /\ \A h \in Handles : w[h] = RiskFactor(m[h]) * (d[h] * p[h])

LEMMA WeightsAre ==
  ASSUME NEW d \in Quantities, NEW p \in Quantities, NEW m \in [Handles -> MarketStates]
  PROVE  \E w \in Seq(Nat) : AreWeighted(w, d, p, m)
<1> DEFINE w == [h \in Handles |-> RiskFactor(m[h]) * (d[h] * p[h])]
<1>1. Handles = 1..Len(Child) /\ Len(Child) \in Nat
  BY BasketConstants
<1>2. ASSUME NEW h \in Handles PROVE w[h] \in Nat
  <2>1. PICK x \in Nat : x = d[h] * p[h]
    BY AnAmount
  <2>2. PICK r \in Nat : r = RiskFactor(m[h])
    BY RiskFactorIs
  <2>3. r * x \in Nat
    BY ProductOfNaturals
  <2> QED BY <2>1, <2>2, <2>3
<1>3. \A h \in Handles : w[h] = RiskFactor(m[h]) * (d[h] * p[h])
  OBVIOUS
<1>4. w = [h \in Handles |-> w[h]]
  OBVIOUS
<1>5. SeqSum(w) = SeqSum([h \in Handles |-> RiskFactor(m[h]) * (d[h] * p[h])])
  OBVIOUS
<1> HIDE DEF w
<1>6. w \in Seq(Nat) /\ Len(w) = Len(Child)
  BY <1>1, <1>2, <1>4
<1> QED BY <1>3, <1>5, <1>6 DEF AreWeighted

(* Capacity: whatever the weights, the interval's notional is within the   *)
(* budget and no child is raised.                                          *)
LEMMA CapacityHolds ==
  ASSUME NEW d \in Quantities, NEW p \in Quantities, NEW m \in [Handles -> MarketStates]
  PROVE  /\ Capacity(d, p, m) \in Quantities
         /\ \A h \in Handles : Capacity(d, p, m)[h] <= d[h]
         /\ Notional(Capacity(d, p, m), p, Handles) <= MaxBudget
         /\ Notional(d, p, Handles) <= MaxBudget => Capacity(d, p, m) = d
<1>1. PICK M \in Nat \ {0} : M = MaxBudget
  BY BasketConstants
<1>2. PICK N \in Nat : N = Notional(d, p, Handles)
  BY NotionalIsNat
<1>3. \A h \in Handles : d[h] \in Nat
  BY DEF Quantities
<1>4. CASE N <= M
  <2>1. Capacity(d, p, m) = d
    BY <1>1, <1>2, <1>4 DEF Capacity
  <2>2. Notional(d, p, Handles) <= MaxBudget
    BY <1>1, <1>2, <1>4
  <2>3. \A h \in Handles : d[h] <= d[h]
    BY <1>3
  <2> QED BY <2>1, <2>2, <2>3
<1>5. CASE M < N
  <2>1. PICK w \in Seq(Nat) : AreWeighted(w, d, p, m)
    BY WeightsAre
  <2>2. PICK s \in Seq(Nat) : AreAmounts(s, d, p, Handles)
    BY AmountsAre
  <2>3. PICK W \in Nat : W = SeqSum(w)
    BY SumOfNaturals
  <2>4. N <= W
    <3>1. ASSUME NEW i \in 1..Len(s) PROVE s[i] <= w[i]
      <4>1. i \in Handles
        BY <2>2, BasketConstants DEF AreAmounts
      <4>2. PICK x \in Nat : x = d[i] * p[i]
        BY <4>1, AnAmount
      <4>3. PICK r \in Nat \ {0} : r = RiskFactor(m[i])
        BY <4>1, RiskFactorIs
      <4>4. s[i] = x /\ w[i] = r * x
        BY <2>1, <2>2, <4>1, <4>2, <4>3 DEF AreAmounts, AreWeighted
      <4>5. x * 1 <= x * r
        BY ProductsAreOrdered
      <4>6. x * 1 = x /\ x * r = r * x
        OBVIOUS
      <4>7. x <= r * x
        BY <4>5, <4>6
      <4> QED BY <4>4, <4>7
    <3>2. s \in Seq(Int) /\ w \in Seq(Int) /\ Len(w) = Len(s)
      BY <2>1, <2>2 DEF AreAmounts, AreWeighted
    <3>3. SeqSum(s) <= SeqSum(w)
      BY <3>1, <3>2, SumsAreOrdered
    <3>4. N = SeqSum(s)
      BY <1>2, <2>2 DEF AreAmounts
    <3> QED BY <3>3, <3>4, <2>3
  <2>5. PICK c : c = Capacity(d, p, m)
    OBVIOUS
  <2>6. c = [h \in Handles |-> IF d[h] * p[h] > 0 /\ W > M * RiskFactor(m[h])
                              THEN (d[h] * (M * RiskFactor(m[h]))) \div W ELSE d[h]]
    <3>1. W = SeqSum([h \in Handles |-> RiskFactor(m[h]) * (d[h] * p[h])])
      BY <2>1, <2>3 DEF AreWeighted
    <3>2. ~(Notional(d, p, Handles) <= MaxBudget)
      BY <1>1, <1>2, <1>5
    <3> QED BY <1>1, <2>5, <3>1, <3>2, Zenon DEF Capacity
  <2>7. ASSUME NEW h \in Handles
        PROVE  /\ c[h] \in Nat /\ c[h] <= d[h]
               /\ W * (c[h] * p[h]) <= M * w[h]
    <3>1. PICK n \in Nat, price \in Nat : n = d[h] /\ price = p[h]
      BY DEF Quantities
    <3>2. PICK r \in Nat \ {0} : r = RiskFactor(m[h])
      BY RiskFactorIs
    <3>3. PICK share \in Nat : share = M * r
      BY ProductOfNaturals
    <3>4. PICK x \in Nat : x = n * price
      BY ProductOfNaturals
    <3>5. w[h] = r * x
      BY <2>1, <3>1, <3>2, <3>4 DEF AreWeighted
    <3>6. share * x = M * (r * x)
      BY <3>3
    <3>7. c[h] = IF x > 0 /\ W > share THEN (n * share) \div W ELSE n
      BY <2>6, <3>1, <3>2, <3>3, <3>4
    <3>8. CASE x > 0 /\ W > share
      <4>1. W \in Nat \ {0}
        BY <3>8
      <4>2. PICK y \in Nat : y = n * share
        BY ProductOfNaturals
      <4>3. PICK q \in Nat : q = y \div W
        BY <4>1, NaturalQuotient
      <4>4. q = (n * share) \div W
        BY <4>2, <4>3
      <4>5. /\ W * (q * price) <= share * (n * price)
            /\ share <= W => q <= n
        BY <4>1, <4>4, FlooredShare, Zenon
      <4>6. q <= n
        BY <4>5, <3>8
      <4>7. W * (q * price) <= M * (r * x)
        BY <4>5, <3>4, <3>6
      <4>8. c[h] = q
        BY <3>7, <3>8, <4>4
      <4> QED BY <3>1, <3>5, <4>6, <4>7, <4>8
    <3>9. CASE ~(x > 0 /\ W > share)
      <4>1. c[h] = n
        BY <3>7, <3>9
      <4>2. W * x <= share * x
        <5>1. CASE x = 0
          BY <5>1
        <5>2. CASE W <= share
          <6>1. x * W <= x * share
            BY <5>2, ProductsAreOrdered
          <6>2. x * W = W * x /\ x * share = share * x
            OBVIOUS
          <6> QED BY <6>1, <6>2
        <5> QED BY <3>9, <5>1, <5>2
      <4>3. W * (n * price) <= M * (r * x)
        BY <4>2, <3>4, <3>6
      <4> QED BY <3>1, <3>5, <4>1, <4>3
    <3> QED BY <3>8, <3>9
  <2>8. c \in Quantities
    BY <2>6, <2>7 DEF Quantities
  <2>9. PICK C \in Nat : C = Notional(c, p, Handles)
    BY <2>8, NotionalIsNat
  <2>10. W * C <= M * W
    <3>1. PICK t \in Seq(Nat) : AreAmounts(t, c, p, Handles)
      BY <2>8, AmountsAre
    <3>2. PICK zero \in Int : zero = 0
      OBVIOUS
    <3>3. ASSUME NEW i \in 1..Len(t) PROVE W * t[i] <= M * w[i] + zero * w[i]
      <4>1. i \in Handles
        BY <3>1, BasketConstants DEF AreAmounts
      <4>2. t[i] = c[i] * p[i]
        BY <3>1, <4>1 DEF AreAmounts
      <4>3. W * t[i] <= M * w[i]
        BY <2>7, <4>1, <4>2
      <4>4. PICK x \in Nat, y \in Nat : x = t[i] /\ y = w[i]
        BY <4>1, <2>1, BasketConstants, SMTT(30) DEF AreWeighted
      <4>5. zero * y = 0 /\ M * y \in Int
        BY <3>2
      <4>6. W * x <= M * y
        BY <4>3, <4>4
      <4>7. W * x <= M * y + zero * y
        BY <4>5, <4>6
      <4> QED BY <4>4, <4>7
    <3>4. t \in Seq(Int) /\ w \in Seq(Int) /\ Len(w) = Len(t)
      BY <2>1, <3>1 DEF AreAmounts, AreWeighted
    <3>5. W * SeqSum(t) <= M * SeqSum(w) + zero * SeqSum(w)
      <4>1. /\ W \in Int /\ M \in Int /\ zero \in Int
            /\ \A i \in 1..Len(t) : W * t[i] <= M * w[i] + zero * w[i]
        BY <3>3
      <4> QED BY <3>4, <4>1, SumsCompare, Zenon
    <3>6. C = SeqSum(t)
      BY <2>9, <3>1 DEF AreAmounts
    <3>7. W * C <= M * W + zero * W
      BY <3>5, <3>6, <2>3
    <3>8. zero * W = 0 /\ M * W \in Int
      BY <3>2
    <3> QED BY <3>7, <3>8
  <2>11. C <= M
    <3>1. SUFFICES ASSUME C >= M + 1 PROVE FALSE
      OBVIOUS
    <3>2. W * (M + 1) <= W * C
      BY <3>1, ProductsAreOrdered
    <3>3. W * (M + 1) = M * W + W
      OBVIOUS
    <3> QED BY <2>4, <2>10, <3>2, <3>3, <1>5
  <2>12. Notional(c, p, Handles) <= MaxBudget /\ ~(Notional(d, p, Handles) <= MaxBudget)
    BY <1>1, <1>2, <1>5, <2>9, <2>11
  <2> QED BY <2>5, <2>7, <2>8, <2>12
<1> QED BY <1>4, <1>5

(* Both overlays, the second applied again where the budget bound.         *)
LEMMA OverlaysKeep ==
  ASSUME NEW d \in Quantities, NEW p \in Quantities, NEW m \in [Handles -> MarketStates],
         net \in Int
  PROVE  /\ Overlays(d, p, m) \in Quantities
         /\ \A h \in Handles : Overlays(d, p, m)[h] <= d[h]
         /\ Notional(Overlays(d, p, m), p, Handles) <= MaxBudget
         /\ LotsAreSmall(p) => WithinBand(Overlays(d, p, m), p)
<1>1. PICK x \in Quantities : x = LegBand(d, p)
  BY LegBandHolds
<1>2. /\ \A h \in Handles : x[h] <= d[h]
      /\ LotsAreSmall(p) => WithinBand(x, p)
  BY <1>1, LegBandHolds
<1>3. PICK c \in Quantities : c = Capacity(x, p, m)
  BY CapacityHolds
<1>4. /\ \A h \in Handles : c[h] <= x[h]
      /\ Notional(c, p, Handles) <= MaxBudget
      /\ Notional(x, p, Handles) <= MaxBudget => c = x
  BY <1>3, CapacityHolds
<1>5. Overlays(d, p, m) = IF Notional(x, p, Handles) > MaxBudget THEN LegBand(c, p) ELSE c
  BY <1>1, <1>3 DEF Overlays
<1>6. PICK N \in Nat, M \in Nat : N = Notional(x, p, Handles) /\ M = MaxBudget
  BY NotionalIsNat, BasketConstants
<1>7. \A h \in Handles : d[h] \in Nat /\ x[h] \in Nat /\ c[h] \in Nat
  BY DEF Quantities
<1>8. CASE N > M
  <2>1. PICK y \in Quantities : y = LegBand(c, p)
    BY LegBandHolds
  <2>2. /\ \A h \in Handles : y[h] <= c[h]
        /\ LotsAreSmall(p) => WithinBand(y, p)
    BY <2>1, LegBandHolds
  <2>3. Notional(y, p, Handles) <= Notional(c, p, Handles)
    BY <2>2, CutsCostLess
  <2>4. PICK C \in Nat, Y \in Nat : C = Notional(c, p, Handles) /\ Y = Notional(y, p, Handles)
    BY NotionalIsNat
  <2>5. Notional(y, p, Handles) <= MaxBudget
    BY <1>4, <1>6, <2>3, <2>4
  <2>6. ASSUME NEW h \in Handles PROVE y[h] <= d[h]
    <3>1. PICK i \in Nat, j \in Nat, k \in Nat, l \in Nat :
            i = y[h] /\ j = c[h] /\ k = x[h] /\ l = d[h]
      BY DEF Quantities
    <3> QED BY <1>2, <1>4, <2>2, <3>1
  <2>7. Overlays(d, p, m) = y
    BY <1>5, <1>6, <1>8, <2>1
  <2> QED BY <2>2, <2>5, <2>6, <2>7
<1>9. CASE N <= M
  <2>1. Overlays(d, p, m) = x /\ c = x
    BY <1>4, <1>5, <1>6, <1>9
  <2> QED BY <1>2, <1>4, <2>1
<1> QED BY <1>6, <1>8, <1>9

-----------------------------------------------------------------------------
(* What a child is due.                                                    *)

LEMMA HalfUpIsInt ==
  ASSUME NEW n \in Int, NEW d \in Nat \ {0}
  PROVE  HalfUp(n, d) \in Int
<1>1. PICK a \in Int, e \in Nat \ {0} : a = 2 * n + d /\ e = 2 * d
  OBVIOUS
<1>2. a \div e \in Int
  BY IntegerQuotient
<1> QED BY <1>1, <1>2 DEF HalfUp

\* A set of naturals up to q has a greatest.
LEMMA GreatestElement ==
  ASSUME NEW q \in Nat, NEW X \in SUBSET (0..q), X # {}
  PROVE  Max(X) \in X
<1> DEFINE Down == {k \in 0..q : q - k \in X}
<1>1. Down \subseteq Nat /\ Down # {}
  <2>1. PICK x \in X : TRUE
    OBVIOUS
  <2>2. x \in 0..q /\ q - x \in 0..q /\ q - (q - x) = x
    BY <2>1
  <2>3. q - x \in Down
    BY <2>1, <2>2
  <2>4. \A k \in Down : k \in Nat
    OBVIOUS
  <2> HIDE DEF Down
  <2> QED BY <2>3, <2>4
<1>2. PICK k \in Down : \A l \in Down : k <= l
  <2> HIDE DEF Down
  <2> QED BY <1>1, LeastElement
<1>3. q - k \in X
  BY <1>2
<1>4. ASSUME NEW y \in X PROVE q - k >= y
  <2>1. y \in 0..q /\ q - y \in 0..q /\ q - (q - y) = y
    OBVIOUS
  <2>2. q - y \in Down
    BY <2>1
  <2>3. k <= q - y
    BY <1>2, <2>2
  <2> QED BY <1>2, <2>1, <2>3
<1>5. \E x \in X : \A y \in X : x >= y
  BY <1>3, <1>4
<1> QED BY <1>5, Zenon DEF Max

LEMMA TargetIsInt ==
  ASSUME NEW c \in Executors, c.benchmark # "PARTICIPATION", NEW t \in Nat, NEW m \in MarketStates
  PROVE  TargetShares(c, t, m) \in Int
<1>1. PICK q \in Nat, H \in Nat \ {0}, u \in Int, b \in Benchmarks :
        q = c.qty /\ H = Horizon /\ u = m.curve /\ b = c.benchmark
  BY BasketConstants DEF Executors, MarketStates
<1>2. PICK HH \in Nat \ {0} : HH = H * H
  OBVIOUS
<1>3. PICK v \in Int : v = IF u = NaN THEN t ELSE u
  OBVIOUS
<1>4. PICK a1 \in Int, a2 \in Int, a3 \in Int, a4 \in Int :
        a1 = q * t /\ a2 = q * v /\ a3 = q * (HH - (H - t) * (H - t)) /\ a4 = q * t * t
  OBVIOUS
<1>5. HalfUp(a1, H) \in Int /\ HalfUp(a2, H) \in Int /\ HalfUp(a3, HH) \in Int /\ HalfUp(a4, HH) \in Int
  BY HalfUpIsInt
<1>6. PICK X : X = {n \in 0..q : n = 0 \/ (2 * n - 1) * (2 * n - 1) * H <= 4 * q * q * t}
  OBVIOUS
<1>7. X \in SUBSET (0..q) /\ 0 \in X
  BY <1>6
<1>8. Max(X) \in X
  BY <1>7, GreatestElement
<1>9. Max(X) \in Int
  <2>1. X \subseteq 0..q /\ 0..q \subseteq Int
    BY <1>7
  <2> QED BY <1>8, <2>1, Zenon
<1>10. TargetShares(c, t, m) =
         CASE b = "TWAP" -> HalfUp(a1, H)
           [] b = "VWAP" -> HalfUp(a2, H)
           [] b \in {"ARRIVAL_PRICE", "IMPLEMENTATION_SHORTFALL"} -> HalfUp(a3, HH)
           [] b = "CLOSING_PRICE" -> HalfUp(a4, HH)
           [] b = "OPENING_PRICE" -> Max(X)
  BY <1>1, <1>2, <1>3, <1>4, <1>6 DEF TargetShares
<1>11. b \in {"TWAP", "VWAP", "ARRIVAL_PRICE", "IMPLEMENTATION_SHORTFALL", "CLOSING_PRICE",
               "OPENING_PRICE"}
  BY <1>1 DEF Benchmarks
<1> HIDE DEF HalfUp
<1> QED BY <1>5, <1>9, <1>10, <1>11

LEMMA PaceIs ==
  ASSUME NEW c \in Executors, NEW m \in MarketStates
  PROVE  /\ Pace(c, m) \in 1..16
         /\ c.benchmark = "PARTICIPATION" => Pace(c, m) \in 1..4
<1>1. PICK alpha \in Int :
        alpha = IF m.alpha = NaN THEN 0 ELSE IF c.buy THEN m.alpha ELSE -m.alpha
  BY DEF MarketStates, Executors
<1>2. PICK fast \in Nat \ {0} :
        fast = IF m.vol > 0 /\ c.benchmark \in Racing THEN 1 + m.vol ELSE 1
  BY DEF MarketStates
<1>3. PICK slow \in Nat \ {0} :
        slow = IF m.vol > 0 /\ c.benchmark \notin Racing THEN 1 + m.vol ELSE 1
  BY DEF MarketStates
<1>4. PICK k \in Nat \ {0} : k = 1 + m.cost
  BY DEF MarketStates
<1>5. PICK n \in Int, e \in Nat \ {0} : n = 4 * (1 + alpha) * fast /\ e = k * slow
  OBVIOUS
<1>6. PICK x \in Int : x = n \div e
  BY IntegerQuotient
<1>7. PICK y \in Int : y = Capped(16, x) /\ y <= 16
  BY DEF Capped
<1>8. Urgency(c, m) = Max({1, y})
  BY <1>1, <1>2, <1>3, <1>4, <1>5, <1>6, <1>7 DEF Urgency
<1>9. PICK one \in Int : one = 1
  OBVIOUS
<1>10. Max({one, y}) \in {one, y} /\ Max({one, y}) >= one
  BY MaxOfTwo
<1>11. PICK u \in 1..16 : u = Urgency(c, m)
  BY <1>7, <1>8, <1>9, <1>10
<1>12. Capped(u, 4) \in 1..4
  BY DEF Capped
<1> QED BY <1>11, <1>12 DEF Pace

LEMMA BehindIsInt ==
  ASSUME NEW h \in Handles, NEW t \in Nat, NEW m \in MarketStates,
         executed \in Quantities, volume \in Quantities
  PROVE  Behind(h, t, m) \in Int
<1>1. PICK e \in Nat, v \in Nat : e = executed[h] /\ v = volume[h]
  BY DEF Quantities
<1>2. PICK c \in Executors : c = Child[h]
  BY BasketConstants
<1>3. PICK r \in Nat \ {0} : r = c.rate
  BY DEF Executors
<1>4. v \div r \in Int
  BY IntegerQuotient
<1>5. CASE c.benchmark = "PARTICIPATION"
  <2>1. Behind(h, t, m) = (v \div r) - e
    BY <1>1, <1>2, <1>3, <1>5 DEF Behind
  <2> QED BY <1>4, <2>1
<1>6. CASE c.benchmark # "PARTICIPATION"
  <2>1. PICK x \in Int : x = TargetShares(c, t, m)
    BY <1>6, TargetIsInt
  <2>2. Behind(h, t, m) = x - e
    BY <1>1, <1>2, <1>6, <2>1 DEF Behind
  <2> QED BY <2>2
<1> QED BY <1>5, <1>6

\* A quarter of b times a pace of at most four quarters is at most b.
LEMMA PacedShare ==
  ASSUME NEW b \in Nat, NEW pace \in 1..4
  PROVE  CeilDiv(b * pace, 4) <= b
<1>1. PICK x \in Int : x = b * pace /\ x <= b * 4
  BY ProductsAreOrdered
<1>2. PICK a \in Int, four \in Nat \ {0} : a = x + 3 /\ four = 4
  OBVIOUS
<1>3. a < four * (b + 1)
  BY <1>1, <1>2
<1>4. a \div four <= b
  BY <1>3, QuotientBelow
<1> QED BY <1>1, <1>2, <1>4 DEF CeilDiv

(* A due is a number of shares; for a participation child, no more than    *)
(* its share of the volume still leaves it.                                *)
LEMMA DueIs ==
  ASSUME NEW h \in Handles, NEW t \in Nat, NEW m \in MarketStates,
         executed \in Quantities, volume \in Quantities
  PROVE  /\ DueQuantity(h, t, m) \in Nat
         /\ Child[h].benchmark = "PARTICIPATION" =>
              \/ DueQuantity(h, t, m) = 0
              \/ executed[h] + DueQuantity(h, t, m) <= volume[h] \div Child[h].rate
<1>1. PICK e \in Nat, v \in Nat : e = executed[h] /\ v = volume[h]
  BY DEF Quantities
<1>2. PICK c \in Executors : c = Child[h]
  BY BasketConstants
<1>3. PICK b \in Int : b = Behind(h, t, m)
  BY BehindIsInt
<1>4. PICK pace \in 1..16 : pace = Pace(c, m) /\ (c.benchmark = "PARTICIPATION" => pace \in 1..4)
  BY PaceIs
<1>5. PICK shaped \in Int : shaped = CeilDiv(b * pace, 4)
  BY DEF CeilDiv
<1>6. PICK remaining \in Int : remaining = c.qty - e
  BY DEF Executors
<1>7. PICK cap \in Int : cap = IF m.depth = Unlimited THEN remaining
                               ELSE Capped(remaining, m.depth \div DepthShare)
  BY DEF MarketStates, Unlimited, Capped, DepthShare
<1>8. PICK x \in Int : x = Capped(shaped, cap) /\ x <= shaped
  BY DEF Capped
<1>9. PICK zero \in Int : zero = 0
  OBVIOUS
<1>10. Max({zero, x}) \in {zero, x} /\ Max({zero, x}) >= zero
  BY MaxOfTwo
<1>11. PICK y \in Nat : y = Max({0, x}) /\ (y = 0 \/ y <= shaped)
  BY <1>8, <1>9, <1>10
<1>12. DueQuantity(h, t, m) = IF remaining <= 0 \/ b <= 0 THEN 0 ELSE y
  BY <1>1, <1>2, <1>3, <1>4, <1>5, <1>6, <1>7, <1>8, <1>11 DEF DueQuantity
<1>13. PICK z \in Nat : z = DueQuantity(h, t, m) /\ (z = 0 \/ (b > 0 /\ z <= shaped))
  BY <1>11, <1>12
<1>14. ASSUME c.benchmark = "PARTICIPATION", z # 0 PROVE e + z <= v \div c.rate
  <2>1. b \in Nat /\ pace \in 1..4
    BY <1>4, <1>13, <1>14
  <2>2. shaped <= b
    BY <1>5, <2>1, PacedShare
  <2>3. PICK r \in Nat \ {0} : r = c.rate
    BY DEF Executors
  <2>4. PICK w \in Int : w = v \div r
    BY IntegerQuotient
  <2>5. b = w - e
    BY <1>1, <1>2, <1>3, <1>14, <2>3, <2>4 DEF Behind
  <2>6. e + z <= w
    BY <1>13, <1>14, <2>2, <2>5
  <2> QED BY <2>3, <2>4, <2>6
<1> QED BY <1>1, <1>2, <1>13, <1>14

-----------------------------------------------------------------------------
(* The basket keeps its promises.                                          *)

BasketInv ==
  /\ executed \in Quantities /\ volume \in Quantities /\ due \in Quantities
  /\ lastMid \in [Handles -> Mids] /\ net \in Int /\ step \in Nat
  /\ ParticipationIsKept

LEMMA MidsAre == Mids \subseteq Nat /\ 0 \in Mids /\ [Handles -> Mids] \subseteq Quantities
<1>1. ASSUME NEW x \in Mids PROVE x \in Nat
  BY BasketAssumption DEF Mids, MarketStates
<1> QED BY <1>1 DEF Mids, Quantities

LEMMA BasketStart == BasketInit => BasketInv
<1> SUFFICES ASSUME BasketInit PROVE BasketInv
  OBVIOUS
<1>1. executed \in Quantities /\ volume \in Quantities /\ due \in Quantities
  BY DEF BasketInit, Quantities
<1>2. lastMid \in [Handles -> Mids] /\ net \in Int /\ step \in Nat
  BY MidsAre DEF BasketInit
<1>3. ParticipationIsKept
  <2>1. ASSUME NEW h \in Handles PROVE (executed[h] + due[h]) * Child[h].rate <= volume[h]
    <3>1. executed[h] = 0 /\ due[h] = 0 /\ volume[h] = 0
      BY DEF BasketInit
    <3>2. PICK r \in Nat : r = Child[h].rate
      BY BasketConstants DEF Executors
    <3>3. (0 + 0) * r <= 0
      OBVIOUS
    <3> QED BY <3>1, <3>2, <3>3
  <2> QED BY <2>1 DEF ParticipationIsKept
<1> QED BY <1>1, <1>2, <1>3 DEF BasketInv

\* z more shares keep a participation child to its rate.
MayBeDue(h, z) ==
  Child[h].benchmark = "PARTICIPATION" =>
    z = 0 \/ executed[h] + z <= volume[h] \div Child[h].rate

\* What a decision does to the dues.
LEMMA DecisionIs ==
  ASSUME BasketInv, NEW m \in [Handles -> States], DecideBasket(m)
  PROVE  /\ due' \in Quantities /\ lastMid' \in [Handles -> Mids] /\ step' \in Nat
         /\ executed' = executed /\ volume' = volume /\ net' = net
         /\ \A h \in Handles :
              \E z \in Nat : due'[h] <= z /\ MayBeDue(h, z)
         /\ Notional(due', lastMid', Handles) <= MaxBudget
         /\ LotsAreSmall(lastMid') => WithinBand(due', lastMid')
<1> DEFINE d == [h \in Handles |-> DueQuantity(h, step + 1, m[h])]
<1>1. /\ step' = step + 1 /\ executed' = executed /\ volume' = volume /\ net' = net
      /\ lastMid' = [h \in Handles |-> IF m[h].mid > 0 THEN m[h].mid ELSE lastMid[h]]
      /\ due' = Overlays(d, lastMid', m)
  BY DEF DecideBasket
<1>2. /\ executed \in Quantities /\ volume \in Quantities /\ net \in Int
      /\ lastMid \in [Handles -> Mids] /\ step \in Nat
  BY DEF BasketInv
<1>3. m \in [Handles -> MarketStates]
  BY BasketAssumption
<1>4. step' \in Nat /\ step + 1 \in Nat
  BY <1>1, <1>2
<1>5. ASSUME NEW h \in Handles
      PROVE  /\ d[h] \in Nat
             /\ Child[h].benchmark = "PARTICIPATION" =>
                  d[h] = 0 \/ executed[h] + d[h] <= volume[h] \div Child[h].rate
  <2>1. m[h] \in MarketStates
    BY <1>3
  <2>2. PICK z : z = DueQuantity(h, step + 1, m[h])
    OBVIOUS
  <2>3. /\ z \in Nat
        /\ Child[h].benchmark = "PARTICIPATION" =>
             z = 0 \/ executed[h] + z <= volume[h] \div Child[h].rate
    BY <1>2, <1>4, <2>1, <2>2, DueIs
  <2>4. d[h] = z
    BY <2>2
  <2> QED BY <2>3, <2>4
<1>6. d \in Quantities
  BY <1>5 DEF Quantities
<1>7. lastMid' \in [Handles -> Mids]
  <2>1. ASSUME NEW h \in Handles, m[h].mid > 0 PROVE m[h].mid \in Mids
    BY <2>1 DEF Mids
  <2>2. \A h \in Handles : (IF m[h].mid > 0 THEN m[h].mid ELSE lastMid[h]) \in Mids
    BY <1>2, <2>1
  <2> QED BY <1>1, <2>2
<1> HIDE DEF d
<1>8. PICK p \in Quantities : p = lastMid'
  BY <1>7, MidsAre
<1>9. PICK o \in Quantities : o = Overlays(d, p, m)
  BY <1>2, <1>3, <1>6, OverlaysKeep
<1>10. /\ \A h \in Handles : o[h] <= d[h]
       /\ Notional(o, p, Handles) <= MaxBudget
       /\ LotsAreSmall(p) => WithinBand(o, p)
  BY <1>2, <1>3, <1>6, <1>9, OverlaysKeep
<1>11. due' = o
  BY <1>1, <1>8, <1>9
<1>12. ASSUME NEW h \in Handles
       PROVE  \E z \in Nat : due'[h] <= z /\ MayBeDue(h, z)
  BY <1>5, <1>10, <1>11 DEF MayBeDue
<1> QED BY <1>1, <1>4, <1>7, <1>8, <1>10, <1>11, <1>12

LEMMA BasketStep == BasketInv /\ [BasketNext]_basketVars => BasketInv'
<1> SUFFICES ASSUME BasketInv, [BasketNext]_basketVars PROVE BasketInv'
  OBVIOUS
<1>1. /\ executed \in Quantities /\ volume \in Quantities /\ due \in Quantities
      /\ lastMid \in [Handles -> Mids] /\ net \in Int /\ step \in Nat
      /\ \A h \in Handles : Child[h].benchmark = "PARTICIPATION" =>
           (executed[h] + due[h]) * Child[h].rate <= volume[h]
  BY DEF BasketInv, ParticipationIsKept
<1>2. ASSUME NEW h \in Handles
      PROVE  \E e \in Nat, v \in Nat, a \in Nat, r \in Nat \ {0} :
               e = executed[h] /\ v = volume[h] /\ a = due[h] /\ r = Child[h].rate
  <2>1. executed[h] \in Nat /\ volume[h] \in Nat /\ due[h] \in Nat
    BY <1>1 DEF Quantities
  <2>2. Child[h].rate \in Nat \ {0}
    BY BasketConstants DEF Executors
  <2> QED BY <2>1, <2>2
<1>3. ASSUME NEW m \in [Handles -> States], DecideBasket(m) PROVE BasketInv'
  <2>1. /\ due' \in Quantities /\ lastMid' \in [Handles -> Mids] /\ step' \in Nat
        /\ executed' = executed /\ volume' = volume /\ net' = net
        /\ \A h \in Handles :
             \E z \in Nat : due'[h] <= z /\ MayBeDue(h, z)
    BY <1>3, DecisionIs
  <2>2. ASSUME NEW h \in Handles, Child[h].benchmark = "PARTICIPATION"
        PROVE  (executed'[h] + due'[h]) * Child[h].rate <= volume'[h]
    <3>1. PICK e \in Nat, v \in Nat, a \in Nat, r \in Nat \ {0} :
            e = executed[h] /\ v = volume[h] /\ a = due[h] /\ r = Child[h].rate
      BY <1>2
    <3>2. PICK z \in Nat : due'[h] <= z /\ (z = 0 \/ e + z <= v \div r)
      <4>1. PICK z \in Nat :
              due'[h] <= z /\ MayBeDue(h, z)
        BY <2>1
      <4>2. z = 0 \/ executed[h] + z <= volume[h] \div Child[h].rate
        BY <2>2, <4>1 DEF MayBeDue
      <4>3. z = 0 \/ e + z <= v \div r
        BY <3>1, <4>2, Zenon
      <4> QED BY <4>1, <4>3
    <3>3. PICK y \in Nat : y = due'[h] /\ y <= z
      BY <2>1, <3>2 DEF Quantities
    <3>4. r * (e + y) <= v
      <4>1. CASE z = 0
        <5>1. e + y <= e + a
          BY <3>3, <4>1
        <5>2. r * (e + y) <= r * (e + a)
          BY <5>1, ProductsAreOrdered
        <5>3. (e + a) * r <= v
          BY <1>1, <2>2, <3>1
        <5>4. PICK k \in Nat : k = e + a
          OBVIOUS
        <5>5. r * k = k * r
          OBVIOUS
        <5> QED BY <5>2, <5>3, <5>4, <5>5
      <4>2. CASE e + z <= v \div r
        <5>1. PICK w \in Int : w = v \div r /\ r * w <= v
          BY IntegerQuotient
        <5>2. e + y <= w /\ w \in Nat
          BY <3>3, <4>2, <5>1
        <5>3. r * (e + y) <= r * w
          BY <5>2, ProductsAreOrdered
        <5>4. PICK i \in Int, j \in Int : i = r * (e + y) /\ j = r * w
          OBVIOUS
        <5> QED BY <5>1, <5>3, <5>4
      <4> QED BY <3>2, <4>1, <4>2
    <3>5. r * (e + y) = (e + y) * r
      OBVIOUS
    <3>6. (e + y) * r <= v
      BY <3>4, <3>5
    <3> QED BY <2>1, <3>1, <3>3, <3>6
  <2>3. ParticipationIsKept'
    BY <2>2 DEF ParticipationIsKept
  <2> QED BY <1>1, <2>1, <2>3 DEF BasketInv
<1>4. ASSUME NEW g \in Handles, NEW qty \in 1..due[g], OnFill(g, qty) PROVE BasketInv'
  <2>1. /\ executed' = [executed EXCEPT ![g] = @ + qty]
        /\ due' = [due EXCEPT ![g] = @ - qty]
        /\ net' = net + (IF Child[g].buy THEN qty ELSE -qty) * lastMid[g]
        /\ step' = step /\ volume' = volume /\ lastMid' = lastMid
    BY <1>4 DEF OnFill
  <2>2. PICK e \in Nat, v \in Nat, a \in Nat, r \in Nat \ {0} :
          e = executed[g] /\ v = volume[g] /\ a = due[g] /\ r = Child[g].rate
    BY <1>2
  <2>3. qty \in Nat /\ qty <= a
    BY <2>2
  <2>4. executed' \in Quantities /\ due' \in Quantities
    <3>1. e + qty \in Nat /\ a - qty \in Nat
      BY <2>3
    <3>2. /\ executed' = [executed EXCEPT ![g] = e + qty]
          /\ due' = [due EXCEPT ![g] = a - qty]
      BY <2>1, <2>2
    <3> QED BY <1>1, <3>1, <3>2 DEF Quantities
  <2>5. net' \in Int
    <3>1. PICK n \in Int : n = net
      BY <1>1
    <3>2. PICK p \in Nat : p = lastMid[g]
      BY <1>1, MidsAre
    <3>3. PICK s \in Int : s = IF Child[g].buy THEN qty ELSE -qty
      BY <2>3
    <3>4. n + s * p \in Int
      OBVIOUS
    <3> QED BY <2>1, <3>1, <3>2, <3>3, <3>4
  <2>6. ASSUME NEW h \in Handles
        PROVE  executed'[h] + due'[h] = executed[h] + due[h]
    <3>1. CASE h = g
      <4>1. executed'[h] = e + qty /\ due'[h] = a - qty
        BY <1>1, <2>1, <2>2, <3>1 DEF Quantities
      <4>2. (e + qty) + (a - qty) = e + a
        BY <2>3
      <4> QED BY <2>2, <3>1, <4>1, <4>2
    <3>2. CASE h # g
      BY <1>1, <2>1, <3>2 DEF Quantities
    <3> QED BY <3>1, <3>2
  <2>7. ParticipationIsKept'
    <3>1. ASSUME NEW h \in Handles, Child[h].benchmark = "PARTICIPATION"
          PROVE  (executed'[h] + due'[h]) * Child[h].rate <= volume'[h]
      BY <1>1, <2>1, <2>6, <3>1
    <3> QED BY <3>1 DEF ParticipationIsKept
  <2> QED BY <1>1, <2>1, <2>4, <2>5, <2>7 DEF BasketInv
<1>5. ASSUME NEW g \in Handles, OnMarketVolume(g, 2) PROVE BasketInv'
  <2>1. /\ volume' = [volume EXCEPT ![g] = @ + 2]
        /\ executed' = executed /\ due' = due /\ step' = step
        /\ lastMid' = lastMid /\ net' = net
    BY <1>5 DEF OnMarketVolume
  <2>2. ASSUME NEW h \in Handles
        PROVE  volume'[h] \in Nat /\ volume'[h] >= volume[h]
    <3>1. volume[h] \in Nat
      BY <1>2
    <3>2. volume'[h] = volume[h] \/ volume'[h] = volume[h] + 2
      BY <1>1, <2>1 DEF Quantities
    <3> QED BY <3>1, <3>2
  <2>3. volume' \in Quantities
    BY <1>1, <2>1, <2>2 DEF Quantities
  <2>4. ParticipationIsKept'
    <3>1. ASSUME NEW h \in Handles, Child[h].benchmark = "PARTICIPATION"
          PROVE  (executed'[h] + due'[h]) * Child[h].rate <= volume'[h]
      <4>1. PICK e \in Nat, v \in Nat, a \in Nat, r \in Nat \ {0} :
              e = executed[h] /\ v = volume[h] /\ a = due[h] /\ r = Child[h].rate
        BY <1>2
      <4>2. PICK w \in Nat : w = volume'[h] /\ w >= v
        BY <2>2, <4>1
      <4>3. (e + a) * r <= v
        BY <1>1, <3>1, <4>1
      <4>4. PICK k \in Nat : k = (e + a) * r
        <5>1. e + a \in Nat
          OBVIOUS
        <5> QED BY <5>1, ProductOfNaturals
      <4>5. (e + a) * r <= w
        BY <4>2, <4>3, <4>4
      <4> QED BY <2>1, <4>1, <4>2, <4>5
    <3> QED BY <3>1 DEF ParticipationIsKept
  <2> QED BY <1>1, <2>1, <2>3, <2>4 DEF BasketInv
<1>6. CASE UNCHANGED basketVars
  BY <1>6 DEF BasketInv, ParticipationIsKept, basketVars
<1> QED BY <1>3, <1>4, <1>5, <1>6 DEF BasketNext

(* Whatever the market does, a participation child stays within its rate.  *)
THEOREM ParticipationHolds == BasketSpec => []ParticipationIsKept
<1>1. BasketInv => ParticipationIsKept
  BY DEF BasketInv
<1> QED BY <1>1, BasketStart, BasketStep, PTL DEF BasketSpec

(* The basket keeps its promises: where one share of each name on a side   *)
(* fits between the ends of the band, what an interval sends keeps to the  *)
(* band, or goes no further out, and to the budget.                        *)
THEOREM BasketKeepsItsPromises ==
  ASSUME LotsFit
  PROVE  BasketSpec => BasketPromises
<1> DEFINE Kept ==
      step' # step =>
        /\ Size(Projected') <= Max({MaxNet, Size(net)})
        /\ Notional(due', lastMid', Handles) <= MaxBudget
<1>1. BasketInv /\ [BasketNext]_basketVars => [Kept]_basketVars
  <2>1. SUFFICES ASSUME BasketInv, [BasketNext]_basketVars, step' # step PROVE Kept
    BY DEF basketVars
  <2>2. PICK m \in [Handles -> States] : DecideBasket(m)
    BY <2>1 DEF BasketNext, OnFill, OnMarketVolume, basketVars
  <2>3. /\ lastMid' \in [Handles -> Mids] /\ net' = net
        /\ Notional(due', lastMid', Handles) <= MaxBudget
        /\ LotsAreSmall(lastMid') => WithinBand(due', lastMid')
    BY <2>1, <2>2, DecisionIs
  <2>4. WithinBand(due', lastMid')
    BY <2>3 DEF LotsFit
  <2>5. Projected' = net + Notional(due', lastMid', Buys) - Notional(due', lastMid', Sells)
    BY <2>3 DEF Projected, Notional
  <2>6. Size(Projected') <= Max({MaxNet, Size(net)})
    BY <2>4, <2>5, Zenon DEF WithinBand, Bounded
  <2> QED BY <2>3, <2>6
<1>2. BasketInv => ParticipationIsKept
  BY DEF BasketInv
<1>3. BasketInv' => ParticipationIsKept'
  BY DEF BasketInv
<1> HIDE DEF Kept
<1>4. BasketSpec => [][Kept]_basketVars /\ ParticipationIsKept /\ [][ParticipationIsKept']_basketVars
  BY <1>1, <1>2, BasketStart, BasketStep, PTL DEF BasketSpec
<1> QED BY <1>4 DEF BasketPromises, OverlaysHold, Kept

-----------------------------------------------------------------------------
(* The dark pool.                                                          *)

HiddenOrders == [id : Nat, qty : Nat \ {0}, min : Nat]
HiddenFills == [contra : Nat, qty : Nat \ {0}]
Walks == [asked : Nat, done : Seq(HiddenFills), left : Seq(HiddenOrders)]

InOrder(s) == \A i, j \in 1..Len(s) : i < j => s[i].id < s[j].id

\* The quantities of a sequence, and their sum, as it grows.
LEMMA TotalsAre ==
  ASSUME NEW S, \A x \in S : x.qty \in Int, NEW s \in Seq(S), NEW x \in S
  PROVE  /\ Total(s) \in Int /\ Total(Append(s, x)) = Total(s) + x.qty
         /\ [k \in DOMAIN s |-> s[k].qty] \in Seq(Int)
         /\ Len([k \in DOMAIN s |-> s[k].qty]) = Len(s)
<1> DEFINE q == [k \in DOMAIN s |-> s[k].qty]
           t == Append(s, x)
           r == [k \in DOMAIN t |-> t[k].qty]
<1>1. \A k \in 1..Len(s) : s[k] \in S
  BY ElementOfSeq
<1>2. DOMAIN s = 1..Len(s) /\ Len(s) \in Nat
  OBVIOUS
<1>3. \A k \in 1..Len(s) : q[k] = s[k].qty /\ q[k] \in Int
  BY <1>1, <1>2
<1>4. q = [k \in 1..Len(s) |-> q[k]]
  BY <1>2
<1>5. t \in Seq(S) /\ Len(t) = Len(s) + 1 /\ DOMAIN t = 1..(Len(s) + 1)
  BY <1>2
<1>6. \A k \in 1..(Len(s) + 1) : r[k] = IF k = Len(s) + 1 THEN x.qty ELSE s[k].qty
  BY <1>2, <1>5
<1>7. r = [k \in 1..(Len(s) + 1) |-> r[k]]
  BY <1>5
<1>8. Total(s) = SeqSum(q) /\ Total(t) = SeqSum(r)
  BY DEF Total
<1> HIDE DEF q, r, t
<1>9. q \in Seq(Int) /\ Len(q) = Len(s)
  BY <1>2, <1>3, <1>4
<1>10. PICK y \in Int : y = x.qty
  OBVIOUS
<1>11. Append(q, y) = r
  <2>0. PICK p \in Seq(Int) : p = Append(q, y) /\ Len(p) = Len(s) + 1
    <3>1. Append(q, y) \in Seq(Int)
      BY <1>9
    <3>2. Len(Append(q, y)) = Len(q) + 1
      BY <1>9
    <3> QED BY <1>9, <3>1, <3>2
  <2>1. \A k \in 1..(Len(s) + 1) : p[k] = IF k = Len(s) + 1 THEN y ELSE q[k]
    BY <1>2, <1>9, <2>0
  <2>2. p = [k \in 1..(Len(s) + 1) |-> p[k]]
    <3>1. p = [k \in 1..Len(p) |-> p[k]]
      OBVIOUS
    <3> QED BY <2>0, <3>1
  <2>3. \A k \in 1..(Len(s) + 1) : p[k] = r[k]
    <3>1. ASSUME NEW k \in 1..(Len(s) + 1), k # Len(s) + 1 PROVE q[k] = s[k].qty
      BY <1>2, <1>3, <3>1
    <3> QED BY <1>6, <1>10, <2>1, <3>1
  <2> QED BY <1>7, <2>0, <2>2, <2>3
<1>12. SeqSum(r) = SeqSum(q) + y
  BY <1>9, <1>11, SeqSumOfAppend
<1>13. SeqSum(q) \in Int
  BY <1>9, SeqSumIsInt
<1> QED BY <1>8, <1>9, <1>10, <1>12, <1>13 DEF q, t

LEMMA TotalOfNothing == Total(<<>>) = 0
<1>1. [k \in DOMAIN <<>> |-> <<>>[k].qty] = <<>>
  OBVIOUS
<1> QED BY <1>1, SeqSumOfNothing DEF Total

LEMMA SliceIs ==
  ASSUME NEW asked \in Nat, NEW r \in HiddenOrders
  PROVE  /\ Slice(asked, r) \in Nat /\ Slice(asked, r) <= asked /\ Slice(asked, r) <= r.qty
         /\ Slice(asked, r) = 0 \/ Slice(asked, r) >= r.min
<1>1. PICK q \in Nat \ {0}, m \in Nat : q = r.qty /\ m = r.min
  BY DEF HiddenOrders
<1> QED BY <1>1 DEF Slice

LEMMA CrossWithKeeps ==
  ASSUME NEW w \in Walks, NEW r \in HiddenOrders
  PROVE  CrossWith(w, r) \in Walks
<1>1. PICK q \in Nat \ {0}, id \in Nat : q = r.qty /\ id = r.id
  BY DEF HiddenOrders
<1>2. PICK a \in Nat, done_ \in Seq(HiddenFills), left_ \in Seq(HiddenOrders) :
        a = w.asked /\ done_ = w.done /\ left_ = w.left
  BY DEF Walks
<1>3. PICK n \in Nat : n = Slice(a, r) /\ n <= a /\ n <= q
  BY <1>1, SliceIs
<1> DEFINE d == IF n = 0 THEN done_ ELSE Append(done_, [contra |-> id, qty |-> n])
           l == IF n = q THEN left_ ELSE Append(left_, [r EXCEPT !.qty = q - n])
<1>4. CrossWith(w, r) = [asked |-> a - n, done |-> d, left |-> l]
  BY <1>1, <1>2, <1>3 DEF CrossWith
<1>5. d \in Seq(HiddenFills)
  <2>1. n # 0 => [contra |-> id, qty |-> n] \in HiddenFills
    BY DEF HiddenFills
  <2> QED BY <2>1
<1>6. l \in Seq(HiddenOrders)
  <2>1. n # q => q - n \in Nat \ {0}
    BY <1>3
  <2>2. \A z \in Nat \ {0} : [r EXCEPT !.qty = z] \in HiddenOrders
    BY DEF HiddenOrders
  <2> QED BY <2>1, <2>2
<1>7. a - n \in Nat
  BY <1>3
<1> HIDE DEF d, l
<1> QED BY <1>4, <1>5, <1>6, <1>7 DEF Walks

(* What a walk has done with the first k orders of a queue: every share is *)
(* where it was or on the other side, every fill is worth its order's      *)
(* minimum, and what is left keeps its order.                              *)
Walked(w, queue, k, total, qty) ==
  /\ w \in Walks
  /\ Total(w.done) + w.asked = qty
  /\ Total(w.left) + Total(w.done) = total
  /\ \A j \in 1..Len(w.done) : \E i \in 1..k :
       w.done[j].contra = queue[i].id /\ w.done[j].qty >= queue[i].min
  /\ \A j \in 1..Len(w.left) : \E i \in 1..k : w.left[j].id = queue[i].id
  /\ InOrder(w.left)

LEMMA WalkGoesOn ==
  ASSUME NEW queue \in Seq(HiddenOrders), InOrder(queue), NEW k \in 1..Len(queue),
         NEW total \in Int, NEW qty \in Nat, NEW w, Walked(w, queue, k - 1, total, qty)
  PROVE  Walked(CrossWith(w, queue[k]), queue, k, total + queue[k].qty, qty)
<1>1. PICK r \in HiddenOrders : r = queue[k]
  BY ElementOfSeq
<1>2. PICK q \in Nat \ {0}, m \in Nat, id \in Nat : q = r.qty /\ m = r.min /\ id = r.id
  BY DEF HiddenOrders
<1>3. PICK a \in Nat, done_ \in Seq(HiddenFills), left_ \in Seq(HiddenOrders) :
        a = w.asked /\ done_ = w.done /\ left_ = w.left
  BY DEF Walked, Walks
<1>4. PICK n \in Nat : n = Slice(a, r) /\ n <= a /\ n <= q /\ (n = 0 \/ n >= m)
  BY <1>2, SliceIs
<1>5. PICK v : v = CrossWith(w, r)
  OBVIOUS
<1> DEFINE d == IF n = 0 THEN done_ ELSE Append(done_, [contra |-> id, qty |-> n])
           l == IF n = q THEN left_ ELSE Append(left_, [r EXCEPT !.qty = q - n])
<1>6. v = [asked |-> a - n, done |-> d, left |-> l]
  BY <1>2, <1>3, <1>4, <1>5 DEF CrossWith
<1>7. PICK td \in Int, tl \in Int : td = Total(done_) /\ tl = Total(left_)
  <2>1. \A x \in HiddenFills : x.qty \in Int
    BY DEF HiddenFills
  <2>2. \A x \in HiddenOrders : x.qty \in Int
    BY DEF HiddenOrders
  <2>3. [contra |-> 0, qty |-> 1] \in HiddenFills
    BY DEF HiddenFills
  <2>4. Total(done_) \in Int
    BY <2>1, <2>3, TotalsAre
  <2>5. Total(left_) \in Int
    BY <2>2, TotalsAre
  <2> QED BY <2>4, <2>5
<1>8. /\ td + a = qty /\ tl + td = total
      /\ \A j \in 1..Len(done_) : \E i \in 1..(k - 1) :
           done_[j].contra = queue[i].id /\ done_[j].qty >= queue[i].min
      /\ \A j \in 1..Len(left_) : \E i \in 1..(k - 1) : left_[j].id = queue[i].id
      /\ InOrder(left_)
  BY <1>3, <1>7 DEF Walked
<1>10. /\ d \in Seq(HiddenFills) /\ Total(d) = td + n
       /\ \A j \in 1..Len(d) : \E i \in 1..k : d[j].contra = queue[i].id /\ d[j].qty >= queue[i].min
  <2>1. CASE n = 0
    <3>1. d = done_
      BY <2>1
    <3>2. ASSUME NEW j \in 1..Len(done_)
          PROVE  \E i \in 1..k : done_[j].contra = queue[i].id /\ done_[j].qty >= queue[i].min
      <4>1. PICK i \in 1..(k - 1) : done_[j].contra = queue[i].id /\ done_[j].qty >= queue[i].min
        BY <1>8
      <4>2. i \in 1..k
        OBVIOUS
      <4> QED BY <4>1, <4>2
    <3>3. td = td + n
      BY <2>1
    <3> QED BY <1>7, <3>1, <3>2, <3>3
  <2>2. CASE n # 0
    <3>1. PICK x \in HiddenFills : x = [contra |-> id, qty |-> n] /\ x.contra = id /\ x.qty = n
      <4>1. n \in Nat \ {0}
        BY <2>2
      <4>2. [contra |-> id, qty |-> n] \in HiddenFills
        BY <4>1 DEF HiddenFills
      <4> QED BY <4>2
    <3>2. d = Append(done_, x)
      BY <2>2, <3>1
    <3>3. \A y \in HiddenFills : y.qty \in Int
      BY DEF HiddenFills
    <3>4. Total(d) = td + n
      BY <1>7, <3>1, <3>2, <3>3, TotalsAre
    <3>5. d \in Seq(HiddenFills) /\ Len(d) = Len(done_) + 1
      BY <3>2
    <3>6. ASSUME NEW j \in 1..Len(d)
          PROVE  \E i \in 1..k : d[j].contra = queue[i].id /\ d[j].qty >= queue[i].min
      <4>1. CASE j = Len(done_) + 1
        <5>1. d[j] = x
          BY <3>2, <4>1
        <5>2. d[j].contra = id /\ d[j].qty >= m
          BY <1>4, <2>2, <3>1, <5>1
        <5>3. queue[k].id = id /\ queue[k].min = m /\ k \in 1..k
          BY <1>1, <1>2
        <5> QED BY <5>2, <5>3
      <4>2. CASE j # Len(done_) + 1
        <5>1. j \in 1..Len(done_) /\ d[j] = done_[j]
          BY <3>2, <3>5, <4>2
        <5>2. PICK i \in 1..(k - 1) : done_[j].contra = queue[i].id /\ done_[j].qty >= queue[i].min
          BY <1>8, <5>1
        <5>3. i \in 1..k
          OBVIOUS
        <5> QED BY <5>1, <5>2, <5>3
      <4> QED BY <4>1, <4>2
    <3> QED BY <3>4, <3>5, <3>6
  <2> QED BY <2>1, <2>2
<1>11. /\ l \in Seq(HiddenOrders) /\ Total(l) = tl + (q - n) /\ InOrder(l)
       /\ \A j \in 1..Len(l) : \E i \in 1..k : l[j].id = queue[i].id
  <2>1. CASE n = q
    <3>1. l = left_
      BY <2>1
    <3>2. ASSUME NEW j \in 1..Len(left_) PROVE \E i \in 1..k : left_[j].id = queue[i].id
      <4>1. PICK i \in 1..(k - 1) : left_[j].id = queue[i].id
        BY <1>8
      <4>2. i \in 1..k
        OBVIOUS
      <4> QED BY <4>1, <4>2
    <3>3. tl = tl + (q - n)
      BY <2>1
    <3> QED BY <1>7, <1>8, <3>1, <3>2, <3>3
  <2>2. CASE n # q
    <3>1. PICK x \in HiddenOrders : x = [r EXCEPT !.qty = q - n] /\ x.id = id /\ x.qty = q - n
      <4>1. PICK z \in Nat \ {0} : z = q - n
        BY <1>4, <2>2
      <4>2. [r EXCEPT !.qty = z] \in HiddenOrders
        BY DEF HiddenOrders
      <4>3. [r EXCEPT !.qty = z].id = id /\ [r EXCEPT !.qty = z].qty = z
        BY <1>2 DEF HiddenOrders
      <4> QED BY <4>1, <4>2, <4>3
    <3>2. l = Append(left_, x)
      BY <2>2, <3>1
    <3>3. \A y \in HiddenOrders : y.qty \in Int
      BY DEF HiddenOrders
    <3>4. Total(l) = tl + (q - n)
      <4>1. Total(Append(left_, x)) = Total(left_) + x.qty
        BY <3>3, TotalsAre
      <4> QED BY <1>7, <3>1, <3>2, <4>1
    <3>5. l \in Seq(HiddenOrders) /\ Len(l) = Len(left_) + 1 /\ Len(left_) \in Nat
      BY <3>1, <3>2
    <3>6. l[Len(left_) + 1] = x /\ \A j \in 1..Len(left_) : l[j] = left_[j]
      BY <3>2, <3>5
    <3>7. ASSUME NEW j \in 1..Len(l) PROVE \E i \in 1..k : l[j].id = queue[i].id
      <4>1. CASE j = Len(left_) + 1
        <5>1. l[j].id = id
          BY <3>1, <3>6, <4>1
        <5>2. queue[k].id = id /\ k \in 1..k
          BY <1>1, <1>2
        <5> QED BY <5>1, <5>2
      <4>2. CASE j # Len(left_) + 1
        <5>1. j \in 1..Len(left_)
          <6>1. PICK z \in Nat : z = Len(left_)
            OBVIOUS
          <6>2. j \in Int /\ 1 <= j /\ j <= z + 1 /\ j # z + 1
            BY <3>5, <4>2, <6>1
          <6> QED BY <6>1, <6>2
        <5>2. l[j] = left_[j]
          BY <3>6, <5>1
        <5>3. j \in 1..Len(left_) /\ l[j] = left_[j]
          BY <5>1, <5>2
        <5>4. PICK i \in 1..(k - 1) : left_[j].id = queue[i].id
          BY <1>8, <5>3
        <5>5. i \in 1..k
          OBVIOUS
        <5> QED BY <5>3, <5>4, <5>5
      <4> QED BY <4>1, <4>2
    <3>8. ASSUME NEW i \in 1..Len(l), NEW j \in 1..Len(l), i < j PROVE l[i].id < l[j].id
      <4>1. i \in 1..Len(left_) /\ l[i] = left_[i]
        BY <3>5, <3>6, <3>8
      <4>2. CASE j = Len(left_) + 1
        <5>1. PICK h \in 1..(k - 1) : left_[i].id = queue[h].id
          BY <1>8, <4>1
        <5>2. h \in 1..Len(queue) /\ h < k
          OBVIOUS
        <5>3. queue[h].id < queue[k].id
          BY <5>2 DEF InOrder
        <5> QED BY <1>1, <1>2, <3>1, <3>6, <4>1, <4>2, <5>1, <5>3
      <4>3. CASE j # Len(left_) + 1
        <5>1. j \in 1..Len(left_)
          <6>1. PICK z \in Nat : z = Len(left_)
            OBVIOUS
          <6>2. j \in Int /\ 1 <= j /\ j <= z + 1 /\ j # z + 1
            BY <3>5, <4>3, <6>1
          <6> QED BY <6>1, <6>2
        <5>2. l[j] = left_[j]
          BY <3>6, <5>1
        <5>3. j \in 1..Len(left_) /\ l[j] = left_[j]
          BY <5>1, <5>2
        <5> QED BY <1>8, <3>8, <4>1, <5>3 DEF InOrder
      <4> QED BY <4>2, <4>3
    <3>9. InOrder(l)
      BY <3>8 DEF InOrder
    <3> QED BY <3>4, <3>5, <3>7, <3>9
  <2> QED BY <2>1, <2>2
<1> HIDE DEF d, l
<1>12. v.asked = a - n /\ v.done = d /\ v.left = l /\ a - n \in Nat
  BY <1>4, <1>6
<1>13. v \in Walks
  BY <1>6, <1>10, <1>11, <1>12 DEF Walks
<1>14. Total(v.done) + v.asked = qty
  BY <1>8, <1>10, <1>12
<1>15. Total(v.left) + Total(v.done) = total + q
  <2>1. Total(v.left) = tl + (q - n) /\ Total(v.done) = td + n
    BY <1>10, <1>11, <1>12
  <2>2. (tl + (q - n)) + (td + n) = (tl + td) + q
    OBVIOUS
  <2> QED BY <1>8, <2>1, <2>2
<1>16. queue[k].qty = q
  BY <1>1, <1>2
<1> QED BY <1>1, <1>5, <1>10, <1>11, <1>12, <1>13, <1>14, <1>15, <1>16 DEF Walked

\* The cross has walked the whole queue.
LEMMA CrossingIs ==
  ASSUME NEW queue \in Seq(HiddenOrders), InOrder(queue), NEW qty \in Nat
  PROVE  Walked(Crossing(queue, qty), queue, Len(queue), Total(queue), qty)
<1> DEFINE N == Len(queue)
           start == [asked |-> qty, done |-> <<>>, left |-> <<>>]
           Step(f) == [k \in 0..N |-> IF k = 0 THEN start ELSE CrossWith(f[k - 1], queue[k])]
           chosen == CHOOSE f : f = Step(f)
           taken == [k \in 1..N |-> [w \in Walks |-> CrossWith(w, queue[k])]]
           q == [k \in DOMAIN queue |-> queue[k].qty]
<1>1. N \in Nat
  OBVIOUS
<1>2. start \in Walks
  BY DEF Walks
<1>3. \A k \in 1..N : queue[k] \in HiddenOrders
  BY ElementOfSeq
<1>4. taken \in [1..N -> [Walks -> Walks]]
  <2>1. \A k \in 1..N : \A w \in Walks : CrossWith(w, queue[k]) \in Walks
    BY <1>3, CrossWithKeeps
  <2> QED BY <2>1
<1>5. PICK f : f \in [0..N -> Walks] /\ f[0] = start /\ \A k \in 1..N : f[k] = taken[k][f[k - 1]]
  <2>1. PICK f : IsIteration(f, Walks, start, N, taken)
    <3> HIDE DEF N, taken, start
    <3> QED BY <1>1, <1>2, <1>4, Iterates
  <2> HIDE DEF N, taken, start
  <2> QED BY <2>1 DEF IsIteration
<1>6. ASSUME NEW k \in 1..N PROVE k - 1 \in 0..N /\ f[k] = CrossWith(f[k - 1], queue[k])
  <2>1. k - 1 \in 0..N
    BY <1>1
  <2>2. PICK w \in Walks : w = f[k - 1]
    BY <1>5, <2>1
  <2>3. taken[k][w] = CrossWith(w, queue[k])
    OBVIOUS
  <2> QED BY <1>5, <2>1, <2>2, <2>3
<1>7. f = Step(f)
  <2> HIDE DEF start
  <2> QED BY <1>1, <1>5, <1>6
<1>8. chosen = Step(chosen)
  BY <1>7
<1>9. Crossing(queue, qty) = chosen[N]
  BY DEF Crossing, Walk
<1> HIDE DEF chosen, taken
<1>10. chosen[0] = start
  <2>1. 0 \in 0..N
    BY <1>1
  <2> HIDE DEF start
  <2> QED BY <1>8, <2>1
<1>11. ASSUME NEW k \in 1..N PROVE k - 1 \in 0..N /\ chosen[k] = CrossWith(chosen[k - 1], queue[k])
  <2>1. k \in 0..N /\ k # 0 /\ k - 1 \in 0..N
    BY <1>1
  <2> HIDE DEF start
  <2> QED BY <1>8, <2>1
<1>12. q \in Seq(Int) /\ Len(q) = N /\ \A k \in 1..N : q[k] = queue[k].qty
  <2>1. [id |-> 0, qty |-> 1, min |-> 0] \in HiddenOrders
    BY DEF HiddenOrders
  <2>2. \A x \in HiddenOrders : x.qty \in Int
    BY DEF HiddenOrders
  <2>3. q \in Seq(Int) /\ Len(q) = N
    BY <2>1, <2>2, TotalsAre
  <2> QED BY <2>3
<1>13. Total(queue) = SeqSum(q)
  BY DEF Total
<1> HIDE DEF q
<1>14. PICK sums : /\ sums \in [0..N -> Int] /\ sums[0] = 0 /\ sums[N] = Total(queue)
                   /\ \A k \in 1..N : sums[k] = sums[k - 1] + q[k]
  <2>1. PICK sums : PartialSums(q, N, sums)
    BY <1>12, PartialSumsExist
  <2>2. SeqSum(q) = sums[N]
    BY <1>12, <2>1, SeqSumIsTheLast
  <2> QED BY <1>13, <2>1, <2>2 DEF PartialSums
<1> DEFINE Bad == {k \in 0..N : ~ Walked(chosen[k], queue, k, sums[k], qty)}
<1>15. Bad = {}
  <2> SUFFICES ASSUME Bad # {} PROVE FALSE
    OBVIOUS
  <2>1. Bad \subseteq Nat
    BY <1>1
  <2> HIDE DEF Bad
  <2>2. PICK m \in Bad : \A k \in Bad : m <= k
    BY <2>1, LeastElement
  <2> USE DEF Bad
  <2>3. m # 0
    <3>1. Walked(start, queue, 0, 0, qty)
      <4>1. Total(<<>>) = 0
        BY TotalOfNothing
      <4> QED BY <1>2, <4>1 DEF Walked, InOrder
    <3> HIDE DEF start
    <3>2. Walked(chosen[0], queue, 0, sums[0], qty)
      BY <1>10, <1>14, <3>1
    <3> QED BY <3>2
  <2>4. m \in 1..N /\ m - 1 \in 0..N
    BY <1>1, <2>3
  <2>5. m - 1 \notin Bad
    <3> HIDE DEF Bad
    <3>1. m \in Nat
      BY <2>4
    <3> QED BY <2>2, <3>1
  <2>6. PICK total \in Int, w \in {chosen[m - 1]} :
               total = sums[m - 1] /\ Walked(w, queue, m - 1, total, qty)
    <3>1. Walked(chosen[m - 1], queue, m - 1, sums[m - 1], qty)
      BY <2>4, <2>5
    <3>2. sums[m - 1] \in Int
      BY <1>14, <2>4
    <3> QED BY <3>1, <3>2
  <2>7. Walked(CrossWith(w, queue[m]), queue, m, total + queue[m].qty, qty)
    BY <2>4, <2>6, WalkGoesOn
  <2>8. chosen[m] = CrossWith(w, queue[m]) /\ sums[m] = total + queue[m].qty
    BY <1>11, <1>12, <1>14, <2>4, <2>6
  <2>9. Walked(chosen[m], queue, m, sums[m], qty)
    BY <2>7, <2>8
  <2> QED BY <2>2, <2>9
<1>16. Walked(chosen[N], queue, N, sums[N], qty)
  BY <1>1, <1>15
<1> QED BY <1>9, <1>14, <1>16
(* The orders of a side wait in the order they came, under ids that were   *)
(* given out once.                                                         *)
PoolInv ==
  /\ resting \in [Sides -> Seq(HiddenOrders)] /\ mid \in Nat /\ nextId \in Nat
  /\ \A s \in Sides : InOrder(resting[s]) /\ \A j \in 1..Len(resting[s]) : resting[s][j].id < nextId
  /\ \A i \in 1..Len(resting["BUY"]), j \in 1..Len(resting["SELL"]) :
       resting["BUY"][i].id # resting["SELL"][j].id

LEMMA PoolStart == PoolInit => PoolInv
<1>1. SUFFICES ASSUME PoolInit PROVE PoolInv
  OBVIOUS
<1>2. "BUY" \in Sides /\ "SELL" \in Sides
  BY DEF Sides
<1>3. \A s \in Sides : resting[s] = <<>>
  BY <1>1 DEF PoolInit
<1>4. <<>> \in Seq(HiddenOrders) /\ 1..Len(<<>>) = {}
  OBVIOUS
<1>5. resting \in [Sides -> Seq(HiddenOrders)] /\ mid \in Nat /\ nextId \in Nat
  BY <1>1, <1>4 DEF PoolInit
<1> QED BY <1>2, <1>3, <1>4, <1>5 DEF PoolInv, InOrder

LEMMA OrderOfIs ==
  ASSUME PoolInv, NEW s \in Sides, NEW i \in 1..Len(resting[s])
  PROVE  OrderOf(resting[s][i].id) = resting[s][i]
<1> DEFINE All == ToSet(resting["BUY"]) \cup ToSet(resting["SELL"])
<1>1. "BUY" \in Sides /\ "SELL" \in Sides /\ \A t \in Sides : t = "BUY" \/ t = "SELL"
  BY DEF Sides
<1>2. PICK b \in Seq(HiddenOrders), a \in Seq(HiddenOrders) : b = resting["BUY"] /\ a = resting["SELL"]
  BY <1>1 DEF PoolInv
<1>3. /\ InOrder(b) /\ InOrder(a)
      /\ \A m \in 1..Len(b), n \in 1..Len(a) : b[m].id # a[n].id
  BY <1>1, <1>2 DEF PoolInv
<1>4. /\ \A m \in 1..Len(b) : b[m].id \in Nat
      /\ \A m \in 1..Len(a) : a[m].id \in Nat
  <2>1. \A x \in HiddenOrders : x.id \in Nat
    BY DEF HiddenOrders
  <2> QED BY <2>1, ElementOfSeq
<1>5. All = {b[m] : m \in 1..Len(b)} \cup {a[m] : m \in 1..Len(a)}
  BY <1>2 DEF ToSet
<1>6. PICK x \in All : x = resting[s][i]
  BY <1>1, <1>2, <1>5
<1>7. ASSUME NEW y \in All, y.id = x.id PROVE y = x
  <2>1. ASSUME NEW t \in Seq(HiddenOrders), InOrder(t), \A m \in 1..Len(t) : t[m].id \in Nat,
               NEW m \in 1..Len(t), NEW n \in 1..Len(t), t[m].id = t[n].id
        PROVE  m = n
    <3>1. ~ (m < n) /\ ~ (n < m)
      BY <2>1 DEF InOrder
    <3> QED BY <3>1
  <2>2. CASE (\E m \in 1..Len(b) : x = b[m]) /\ (\E m \in 1..Len(b) : y = b[m])
    BY <1>3, <1>4, <1>7, <2>1, <2>2
  <2>3. CASE (\E m \in 1..Len(a) : x = a[m]) /\ (\E m \in 1..Len(a) : y = a[m])
    BY <1>3, <1>4, <1>7, <2>1, <2>3
  <2>4. CASE (\E m \in 1..Len(b) : x = b[m]) /\ (\E m \in 1..Len(a) : y = a[m])
    BY <1>3, <1>7, <2>4
  <2>5. CASE (\E m \in 1..Len(a) : x = a[m]) /\ (\E m \in 1..Len(b) : y = b[m])
    BY <1>3, <1>7, <2>5
  <2> QED BY <1>5, <2>2, <2>3, <2>4, <2>5
<1> HIDE DEF All
<1>8. OrderOf(x.id) = CHOOSE y \in All : y.id = x.id
  BY DEF OrderOf, All
<1>9. OrderOf(x.id) = x
  BY <1>7, <1>8
<1> QED BY <1>6, <1>9

\* What a submission does, as a walk of the other side.
Submitted(w, side, qty, min) ==
  /\ Walked(w, resting[Contra(side)], Len(resting[Contra(side)]), Total(resting[Contra(side)]), qty)
  /\ w.done # <<>> => Total(w.done) >= min /\ mid # 0
  /\ fills' = w.done /\ mid' = mid /\ nextId' = nextId + 1
  /\ resting' = [s \in Sides |->
       IF s # side THEN w.left
       ELSE IF w.asked = 0 THEN resting[s]
       ELSE Append(resting[s], [id |-> nextId, qty |-> w.asked, min |-> min])]

LEMMA SubmissionIs ==
  ASSUME PoolInv, NEW side \in Sides, NEW qty \in OrderSizes, NEW min \in MinimumSizes,
         Submit(side, qty, min)
  PROVE  \E w : Submitted(w, side, qty, min)
<1>1. qty \in Nat /\ min \in Nat /\ Contra(side) \in Sides
  BY PoolAssumption DEF SubmitAccepts, Contra, Sides
<1>2. PICK queue \in Seq(HiddenOrders) : queue = resting[Contra(side)] /\ InOrder(queue)
  BY <1>1 DEF PoolInv
<1>3. PICK n \in Nat : n = Len(queue)
  OBVIOUS
<1>4. Total(queue) \in Int
  <2>1. [id |-> 0, qty |-> 1, min |-> 0] \in HiddenOrders
    BY DEF HiddenOrders
  <2>2. \A x \in HiddenOrders : x.qty \in Int
    BY DEF HiddenOrders
  <2> QED BY <2>1, <2>2, TotalsAre
<1>5. CASE mid # 0 /\ Crossable(queue, qty) >= min
  <2>1. PICK w : w = Crossing(queue, qty) /\ Walked(w, queue, Len(queue), Total(queue), qty)
    BY <1>1, <1>2, CrossingIs
  <2>2. PICK a \in Nat : a = w.asked
    BY <2>1 DEF Walked, Walks
  <2>3. Total(w.done) + a = qty
    BY <2>1, <2>2 DEF Walked
  <2>4. Total(w.done) \in Int
    <3>1. [contra |-> 0, qty |-> 1] \in HiddenFills
      BY DEF HiddenFills
    <3>2. \A x \in HiddenFills : x.qty \in Int
      BY DEF HiddenFills
    <3>3. w.done \in Seq(HiddenFills)
      BY <2>1 DEF Walked, Walks
    <3> QED BY <3>1, <3>2, <3>3, TotalsAre
  <2>5. Total(w.done) >= min
    <3>1. qty - a >= min
      BY <1>5, <2>1, <2>2 DEF Crossable
    <3> QED BY <1>1, <2>3, <2>4, <3>1
  <2>6. /\ fills' = w.done /\ mid' = mid /\ nextId' = nextId + 1
        /\ resting' = [s \in Sides |->
             IF s # side THEN w.left
             ELSE IF w.asked = 0 THEN resting[s]
             ELSE Append(resting[s], [id |-> nextId, qty |-> w.asked, min |-> min])]
    BY <1>2, <1>5, <2>1 DEF Submit
  <2> QED BY <1>2, <1>5, <2>1, <2>5, <2>6 DEF Submitted
<1>6. CASE ~ (mid # 0 /\ Crossable(queue, qty) >= min)
  <2>1. PICK w : w = [asked |-> qty, done |-> <<>>, left |-> queue]
    OBVIOUS
  <2>2. w.asked = qty /\ w.done = <<>> /\ w.left = queue
    BY <2>1
  <2>3. w \in Walks
    BY <1>1, <2>1 DEF Walks
  <2>4. Walked(w, queue, Len(queue), Total(queue), qty)
    <3>1. Total(w.done) = 0 /\ Total(w.left) = Total(queue)
      BY <2>2, TotalOfNothing
    <3> QED BY <1>1, <1>2, <1>4, <2>2, <2>3, <3>1 DEF Walked
  <2>5. /\ fills' = w.done /\ mid' = mid /\ nextId' = nextId + 1
        /\ resting' = [s \in Sides |->
             IF s # side THEN w.left
             ELSE IF w.asked = 0 THEN resting[s]
             ELSE Append(resting[s], [id |-> nextId, qty |-> w.asked, min |-> min])]
    BY <1>2, <1>6, <2>1 DEF Submit
  <2> QED BY <1>2, <2>2, <2>4, <2>5 DEF Submitted
<1> QED BY <1>5, <1>6
\* The identifiers after a walk of the queue are the ones before.
LEMMA SidesStayApart ==
  ASSUME PoolInv, NEW side \in Sides, NEW qty \in OrderSizes, NEW min \in MinimumSizes,
         NEW w, Submitted(w, side, qty, min)
  PROVE  PoolInv'
<1>1. qty \in Nat /\ min \in Nat
  BY PoolAssumption DEF SubmitAccepts
<1>2. PICK other \in Sides : other = Contra(side) /\ other # side /\ \A s \in Sides : s = side \/ s = other
  BY DEF Contra, Sides
<1>3. PICK queue \in Seq(HiddenOrders), own \in Seq(HiddenOrders), id \in Nat :
        queue = resting[other] /\ own = resting[side] /\ id = nextId
  BY <1>2 DEF PoolInv
<1>4. /\ InOrder(own) /\ \A j \in 1..Len(own) : own[j].id < id
      /\ \A j \in 1..Len(queue) : queue[j].id < id
      /\ \A i \in 1..Len(queue), j \in 1..Len(own) : queue[i].id # own[j].id
  BY <1>2, <1>3, SMTT(30) DEF PoolInv, Sides
<1>5. PICK a \in Nat, l \in Seq(HiddenOrders) : a = w.asked /\ l = w.left
  BY DEF Submitted, Walked, Walks
<1>6. InOrder(l) /\ \A j \in 1..Len(l) : \E i \in 1..Len(queue) : l[j].id = queue[i].id
  BY <1>2, <1>3, <1>5 DEF Submitted, Walked
<1>7. PICK o : o = IF a = 0 THEN own ELSE Append(own, [id |-> id, qty |-> a, min |-> min])
  OBVIOUS
<1>8. /\ o \in Seq(HiddenOrders) /\ InOrder(o)
      /\ \A j \in 1..Len(o) : o[j].id = id \/ \E i \in 1..Len(own) : o[j].id = own[i].id
  <2>1. CASE a = 0
    BY <1>4, <1>7, <2>1
  <2>2. CASE a # 0
    <3>1. PICK x \in HiddenOrders : x = [id |-> id, qty |-> a, min |-> min] /\ x.id = id
      <4>1. a \in Nat \ {0}
        BY <2>2
      <4>2. [id |-> id, qty |-> a, min |-> min] \in HiddenOrders
        BY <1>1, <4>1 DEF HiddenOrders
      <4> QED BY <4>2
    <3>2. o = Append(own, x)
      BY <1>7, <2>2, <3>1
    <3>3. PICK n \in Nat : n = Len(own)
      OBVIOUS
    <3>4. o \in Seq(HiddenOrders) /\ Len(o) = n + 1 /\ o[n + 1] = x /\ \A j \in 1..n : o[j] = own[j]
      BY <3>2, <3>3
    <3>5. InOrder(o)
      <4>1. ASSUME NEW i \in 1..(n + 1), NEW j \in 1..(n + 1), i < j PROVE o[i].id < o[j].id
        <5>1. i \in 1..n /\ o[i] = own[i] /\ own[i].id < id
          BY <1>4, <3>3, <3>4, <4>1
        <5>2. CASE j = n + 1
          BY <3>1, <3>4, <5>1, <5>2
        <5>3. CASE j # n + 1
          <6>1. j \in 1..n /\ o[j] = own[j]
            BY <3>4, <5>3
          <6> QED BY <1>4, <3>3, <4>1, <5>1, <6>1 DEF InOrder
        <5> QED BY <5>2, <5>3
      <4> QED BY <3>4, <4>1 DEF InOrder
    <3>6. ASSUME NEW j \in 1..(n + 1) PROVE o[j].id = id \/ \E i \in 1..Len(own) : o[j].id = own[i].id
      <4>1. j = n + 1 \/ j \in 1..n
        OBVIOUS
      <4> QED BY <3>1, <3>3, <3>4, <4>1
    <3> QED BY <3>4, <3>5, <3>6
  <2> QED BY <2>1, <2>2
<1>9. /\ resting' = [s \in Sides |-> IF s # side THEN l ELSE o]
      /\ mid' = mid /\ nextId' = id + 1
  BY <1>3, <1>5, <1>7 DEF Submitted
<1>10. resting' \in [Sides -> Seq(HiddenOrders)] /\ resting'[side] = o /\ resting'[other] = l
  BY <1>2, <1>8, <1>9
<1>11. \A j \in 1..Len(l) : l[j].id \in Nat /\ l[j].id < id
  <2>1. \A x \in HiddenOrders : x.id \in Nat
    BY DEF HiddenOrders
  <2>2. \A j \in 1..Len(l) : l[j] \in HiddenOrders
    BY ElementOfSeq
  <2> QED BY <1>4, <1>6, <2>1, <2>2
<1>12. \A j \in 1..Len(own) : own[j].id \in Nat
  <2>1. \A x \in HiddenOrders : x.id \in Nat
    BY DEF HiddenOrders
  <2> QED BY <2>1, ElementOfSeq
<1>13. \A j \in 1..Len(l) : l[j].id < id + 1
  BY <1>11
<1>14. ASSUME NEW j \in 1..Len(o) PROVE o[j].id < id + 1
  <2>1. CASE o[j].id = id
    BY <2>1
  <2>2. ASSUME NEW i \in 1..Len(own), o[j].id = own[i].id PROVE o[j].id < id + 1
    <3>1. PICK z \in Nat : z = own[i].id /\ z < id
      BY <1>4, <1>12
    <3> QED BY <2>2, <3>1
  <2> QED BY <1>8, <2>1, <2>2
<1>15. ASSUME NEW i \in 1..Len(l), NEW j \in 1..Len(o) PROVE l[i].id # o[j].id
  <2>1. PICK m \in 1..Len(queue) : l[i].id = queue[m].id
    BY <1>6
  <2>2. CASE o[j].id = id
    <3>1. PICK z \in Nat : z = l[i].id /\ z < id
      BY <1>11
    <3> QED BY <2>2, <3>1
  <2>3. ASSUME NEW n \in 1..Len(own), o[j].id = own[n].id PROVE l[i].id # o[j].id
    BY <1>4, <2>1, <2>3
  <2> QED BY <1>8, <2>2, <2>3
<1>16. \A s \in Sides : InOrder(resting'[s]) /\ \A j \in 1..Len(resting'[s]) : resting'[s][j].id < nextId'
  <2>1. ASSUME NEW s \in Sides
        PROVE  InOrder(resting'[s]) /\ \A j \in 1..Len(resting'[s]) : resting'[s][j].id < nextId'
    <3>1. s = side \/ s = other
      BY <1>2
    <3> QED BY <1>6, <1>8, <1>9, <1>10, <1>13, <1>14, <3>1
  <2> QED BY <2>1
<1>17. \A i \in 1..Len(resting'["BUY"]), j \in 1..Len(resting'["SELL"]) :
         resting'["BUY"][i].id # resting'["SELL"][j].id
  <2>1. (side = "BUY" /\ other = "SELL") \/ (side = "SELL" /\ other = "BUY")
    BY <1>2 DEF Sides
  <2> QED BY <1>10, <1>15, <2>1
<1>18. mid' \in Nat /\ nextId' \in Nat
  BY <1>9 DEF PoolInv
<1> QED BY <1>10, <1>16, <1>17, <1>18 DEF PoolInv

LEMMA PoolStep == PoolInv /\ [PoolNext]_poolVars => PoolInv'
<1>1. SUFFICES ASSUME PoolInv, [PoolNext]_poolVars PROVE PoolInv'
  OBVIOUS
<1>2. ASSUME NEW bid \in LitPrices, NEW ask \in LitPrices, OnQuote(bid, ask) PROVE PoolInv'
  <2>1. bid \in Nat /\ ask \in Nat
    BY PoolAssumption
  <2>2. mid' \in Nat /\ resting' = resting /\ nextId' = nextId
    BY <1>2, <2>1 DEF OnQuote
  <2> QED BY <1>1, <2>2 DEF PoolInv
<1>3. ASSUME NEW side \in Sides, NEW qty \in OrderSizes, NEW min \in MinimumSizes,
             Submit(side, qty, min)
      PROVE  PoolInv'
  BY <1>1, <1>3, SubmissionIs, SidesStayApart
<1>4. CASE UNCHANGED poolVars
  BY <1>1, <1>4 DEF PoolInv, poolVars
<1> QED BY <1>1, <1>2, <1>3, <1>4 DEF PoolNext

(* A minimum is a minimum, for the incoming order and for the resting one, *)
(* and the cross neither loses nor makes a share.                          *)
THEOREM MinimumsHold == PoolSpec => MinimumsAreHonoured
<1> DEFINE Honest(side, qty, min) ==
      /\ fills' # <<>> => Total(fills') >= min /\ mid # 0
      /\ \A k \in DOMAIN fills' : fills'[k].qty >= OrderOf(fills'[k].contra).min
      /\ Total(fills') <= qty
      /\ Total(resting'["BUY"]) + Total(resting'["SELL"]) =
           Total(resting["BUY"]) + Total(resting["SELL"]) + qty - 2 * Total(fills')
    Kept == \A side \in Sides, qty \in OrderSizes, min \in MinimumSizes :
              Submit(side, qty, min) => Honest(side, qty, min)
<1>1. ASSUME PoolInv, NEW side \in Sides, NEW qty \in OrderSizes, NEW min \in MinimumSizes,
             Submit(side, qty, min)
      PROVE  Honest(side, qty, min)
  <2>1. PICK w : Submitted(w, side, qty, min)
    BY <1>1, SubmissionIs
  <2>2. PICK other \in Sides : other = Contra(side) /\ other # side
    BY DEF Contra, Sides
  <2>3. PICK queue \in Seq(HiddenOrders), own \in Seq(HiddenOrders), id \in Nat :
          queue = resting[other] /\ own = resting[side] /\ id = nextId
    BY <1>1, <2>2 DEF PoolInv
  <2>4. PICK a \in Nat, l \in Seq(HiddenOrders), f \in Seq(HiddenFills) :
          a = w.asked /\ l = w.left /\ f = w.done /\ f = fills'
    BY <2>1 DEF Submitted, Walked, Walks
  <2>5. qty \in Nat /\ min \in Nat
    BY PoolAssumption DEF SubmitAccepts
  <2>6. /\ \A x \in HiddenFills : x.qty \in Int
        /\ \A x \in HiddenOrders : x.qty \in Int
        /\ [contra |-> 0, qty |-> 1] \in HiddenFills
        /\ [id |-> 0, qty |-> 1, min |-> 0] \in HiddenOrders
    BY DEF HiddenFills, HiddenOrders
  <2>7. PICK tf \in Int, tl \in Int, tq \in Int, to \in Int :
          tf = Total(f) /\ tl = Total(l) /\ tq = Total(queue) /\ to = Total(own)
    <3>1. Total(f) \in Int
      BY <2>6, TotalsAre
    <3>2. \A s \in Seq(HiddenOrders) : Total(s) \in Int
      BY <2>6, TotalsAre
    <3> QED BY <3>1, <3>2
  <2>8. tf + a = qty /\ tl + tf = tq
    BY <2>1, <2>2, <2>3, <2>4, <2>7 DEF Submitted, Walked
  <2>9. f # <<>> => tf >= min /\ mid # 0
    BY <2>1, <2>4, <2>7 DEF Submitted
  <2>10. ASSUME NEW k \in DOMAIN f PROVE f[k].qty >= OrderOf(f[k].contra).min
    <3>1. PICK i \in 1..Len(queue) : f[k].contra = queue[i].id /\ f[k].qty >= queue[i].min
      <4>1. k \in 1..Len(f)
        OBVIOUS
      <4>2. \A j \in 1..Len(w.done) : \E i \in 1..Len(queue) :
              w.done[j].contra = queue[i].id /\ w.done[j].qty >= queue[i].min
        BY <2>1, <2>2, <2>3 DEF Submitted, Walked
      <4> QED BY <2>4, <4>1, <4>2
    <3>2. OrderOf(queue[i].id) = queue[i]
      BY <1>1, <2>3, OrderOfIs
    <3> QED BY <3>1, <3>2
  <2>11. Total(resting'[other]) = tl /\ Total(resting'[side]) = to + a
    <3>1. resting'[other] = l
      BY <2>1, <2>2, <2>4 DEF Submitted
    <3>2. resting'[side] = IF a = 0 THEN own ELSE Append(own, [id |-> id, qty |-> a, min |-> min])
      BY <2>1, <2>3, <2>4 DEF Submitted
    <3>3. Total(resting'[side]) = to + a
      <4>1. CASE a = 0
        BY <2>7, <3>2, <4>1
      <4>2. CASE a # 0
        <5>1. PICK x \in HiddenOrders : x = [id |-> id, qty |-> a, min |-> min] /\ x.qty = a
          <6>1. a \in Nat \ {0}
            BY <4>2
          <6>2. [id |-> id, qty |-> a, min |-> min] \in HiddenOrders
            BY <2>5, <6>1 DEF HiddenOrders
          <6> QED BY <6>2
        <5>2. Total(Append(own, x)) = Total(own) + x.qty
          BY <2>6, TotalsAre
        <5> QED BY <2>7, <3>2, <4>2, <5>1, <5>2
      <4> QED BY <4>1, <4>2
    <3> QED BY <2>7, <3>1, <3>3
  <2>12. PICK tb \in Int, ts \in Int : tb = Total(resting'["BUY"]) /\ ts = Total(resting'["SELL"])
                                       /\ tb + ts = tl + (to + a)
    BY <2>2, <2>11 DEF Sides
  <2>13. Total(resting["BUY"]) + Total(resting["SELL"]) = tq + to
    BY <2>2, <2>3, <2>7 DEF Sides
  <2>14. tb + ts = tq + to + qty - 2 * tf
    <3>1. PICK n \in Int : n = qty
      BY <2>5
    <3>2. tb + ts = tl + (to + a) /\ tf + a = n /\ tl + tf = tq
      BY <2>8, <2>12, <3>1
    <3>3. tb + ts = tq + to + n - 2 * tf
      BY <3>2
    <3> QED BY <3>1, <3>3
  <2>15. tf <= qty
    BY <2>5, <2>8
  <2> QED BY <2>4, <2>7, <2>9, <2>10, <2>12, <2>13, <2>14, <2>15
<1>2. PoolInv => Kept
  BY <1>1
<1> HIDE DEF Kept
<1>3. PoolSpec => [][Kept]_poolVars
  BY <1>2, PoolStart, PoolStep, PTL DEF PoolSpec
<1> QED BY <1>3 DEF MinimumsAreHonoured, Kept
=============================================================================
