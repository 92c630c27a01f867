---------------------------- MODULE VenueProofs ----------------------------
(***************************************************************************)
(* Proofs about OrderThrottle, for every rate, burst and slack, about Nbbo, *)
(* for every number of venues, prices and sizes, about AdaptiveSor, for    *)
(* every ring, horizon, prior and quote, and about Schedules, for every    *)
(* profile, size, duration, quote and fee.                                 *)
(*                                                                         *)
(* The rate limit alone is not inductive: a full bucket lets a burst pass  *)
(* later.  The invariant adds the tokens still in the bucket to the        *)
(* permits granted in the window, and says of a promised permit that the   *)
(* bucket holds it by the promised time.                                   *)
(*                                                                         *)
(* Nor is the inside being consolidated: a quote that takes the fast path  *)
(* is not scanned.  NbboInv says of each cached side that it is what the   *)
(* scan of the venues' latest quotes would leave.                          *)
(*                                                                         *)
(* Nor are the accounts of the markouts: that a burst costs the oldest     *)
(* fill, and the oldest only, depends on each venue's ring being a queue.  *)
(* RingInv says that the places of a venue, from the cursor on, hold fills *)
(* in the order they came, none pending behind one that is not.            *)
(*                                                                         *)
(* That slices add up is arithmetic and counting: what the floors leave    *)
(* over is a whole number below the number of slices, the ranks of the     *)
(* fractions are a permutation, so as many slices rank below that number,  *)
(* and none of those divides exactly, or there would be fewer fractions    *)
(* than what is left over.                                                 *)
(*                                                                         *)
(* That a sweep is the cheapest split is an exchange at a price: no share  *)
(* taken costs more than that price and none left costs less, so what      *)
(* another split takes elsewhere it takes at no better price.  Both        *)
(* routers' loops are shown to leave such a split, and the adaptive one's  *)
(* plan to be the decision of the cards it was made by.                    *)
(***************************************************************************)
EXTENDS OrderThrottle, Nbbo, AdaptiveSor, Schedules, CommonLemmas

WindowBalance ==
  from # None =>
    /\ last # None
    /\ granted * (Unit - Slack) + tokens <= Burst * Unit + (last - from) * PerNano

PromiseIsFunded ==
  promised # None =>
    /\ last # None
    /\ IF promised > last THEN tokens + (promised - last) * PerNano >= Unit ELSE tokens >= Unit

ThrottleInv ==
  /\ TypeOK
  /\ from = None => last = None /\ granted = 0
  /\ WindowBalance
  /\ PromiseIsFunded
  /\ ~broken

\* The capacity of the bucket is at least a token.
LEMMA Capacity == Burst * Unit \in Nat /\ Burst * Unit >= Unit
<1>1. PICK more \in Nat : Burst = 1 + more
  <2>1. Burst - 1 \in Nat /\ Burst = 1 + (Burst - 1)
    BY OrderThrottleAssumption
  <2> QED BY <2>1
<1>2. Burst * Unit = Unit + more * Unit /\ more * Unit \in Nat
  BY <1>1, OrderThrottleAssumption
<1> QED
  BY <1>2, OrderThrottleAssumption

\* The state after a refill alone: what both calls do first.
RefillInv(t, time, start) ==
  /\ t \in 0..(Burst * Unit) /\ time \in Nat /\ start \in Nat
  /\ granted * (Unit - Slack) + t <= Burst * Unit + (time - start) * PerNano
  /\ promised # None =>
       IF promised > time THEN t + (promised - time) * PerNano >= Unit ELSE t >= Unit

\* A refill keeps the window's balance and pays what was promised.
LEMMA RefillKeeps ==
  ASSUME ThrottleInv, NEW now \in Nat
  PROVE  RefillInv(RefilledTokens(now), RefilledTime(now), IF from = None THEN now ELSE from)
<1> DEFINE start == IF from = None THEN now ELSE from
<1>1. PICK B \in Nat : B = Burst * Unit /\ B >= Unit
  BY Capacity
<1>2. PICK P \in Nat \ {0} : P = PerNano
  BY OrderThrottleAssumption
<1>3. tokens \in 0..B /\ granted \in Nat /\ promised \in Nat \cup {None}
  BY <1>1 DEF ThrottleInv, TypeOK
<1>4. PICK g \in Nat : g = granted * (Unit - Slack)
  <2>1. Unit - Slack \in Nat
    BY OrderThrottleAssumption
  <2>2. granted * (Unit - Slack) \in Nat
    BY <1>3, <2>1
  <2> QED BY <2>2
<1>5. CASE last = None
  <2>1. from = None /\ granted = 0 /\ promised = None
    BY <1>5 DEF ThrottleInv, WindowBalance, PromiseIsFunded
  <2>2. RefilledTokens(now) = tokens /\ RefilledTime(now) = now
    BY <1>5 DEF RefilledTokens, RefilledTime
  <2>3. granted * (Unit - Slack) = 0 /\ (now - now) * PerNano = 0
    BY <2>1, OrderThrottleAssumption
  <2> QED BY <1>1, <1>3, <2>1, <2>2, <2>3 DEF RefillInv
<1>6. CASE last # None
  <2>1. last \in Nat /\ from \in Nat
    BY <1>6 DEF ThrottleInv, TypeOK
  <2>2. from # None /\ g + tokens <= B + (last - from) * P
    BY <1>1, <1>2, <1>4, <1>6, <2>1 DEF ThrottleInv, WindowBalance, None
  <2>3. promised # None =>
          IF promised > last THEN tokens + (promised - last) * P >= Unit ELSE tokens >= Unit
    BY <1>2 DEF ThrottleInv, PromiseIsFunded
  <2>4. CASE now <= last
    <3>1. RefilledTokens(now) = tokens /\ RefilledTime(now) = last
      BY <1>6, <2>1, <2>4 DEF RefilledTokens, RefilledTime
    <3> QED BY <1>1, <1>2, <1>3, <1>4, <2>1, <2>2, <2>3, <3>1 DEF RefillInv
  <2>5. CASE now > last
    <3>1. PICK e \in Nat : e = (now - last) * P
      <4>1. (now - last) * P \in Nat
        BY <1>2, <2>1, <2>5
      <4> QED BY <4>1
    <3>2. PICK t \in Nat : t = tokens + e
      BY <1>3, <3>1
    <3>3. /\ RefilledTokens(now) = IF t < B THEN t ELSE B
          /\ RefilledTime(now) = now
      BY <1>1, <1>2, <1>6, <2>1, <2>5, <3>1, <3>2 DEF RefilledTokens, RefilledTime, Capped
    <3>4. (now - from) * P = (last - from) * P + e
      BY <1>2, <2>1, <3>1
    <3>5. PICK x \in 0..B : x = RefilledTokens(now) /\ x <= t /\ (x = t \/ x = B)
      BY <1>1, <3>2, <3>3
    <3>6. (last - from) * P \in Int
      BY <1>2, <2>1
    <3>7. g + x <= B + (now - from) * P
      BY <1>3, <2>2, <3>2, <3>4, <3>5, <3>6
    <3>8. promised # None =>
            IF promised > now THEN x + (promised - now) * P >= Unit ELSE x >= Unit
      <4> SUFFICES ASSUME promised # None
                   PROVE  IF promised > now THEN x + (promised - now) * P >= Unit ELSE x >= Unit
        OBVIOUS
      <4>1. promised \in Nat
        BY <1>3
      <4>2. x = B => (promised > now => (promised - now) * P >= 0)
        BY <1>2, <4>1
      <4>3. CASE x = B
        <5>1. promised > now => (promised - now) * P \in Nat
          BY <1>2, <4>1
        <5> QED BY <1>1, <4>3, <5>1, OrderThrottleAssumption
      <4>4. CASE x = t
        <5>1. CASE promised > last
          <6>1. (promised - last) * P = e + (promised - now) * P
            BY <1>2, <2>1, <3>1, <4>1
          <6>2. tokens + (promised - last) * P >= Unit
            BY <2>3, <5>1
          <6>3. (promised - now) * P \in Int /\ (promised <= now => (promised - now) * P <= 0)
            <7>1. promised <= now => \E w \in Nat : now = promised + w
              <8>1. promised <= now => now - promised \in Nat /\ now = promised + (now - promised)
                BY <4>1
              <8> QED BY <8>1
            <7>2. ASSUME NEW w \in Nat, now = promised + w
                  PROVE  (promised - now) * P = -(w * P) /\ w * P \in Nat
              BY <1>2, <4>1, <7>2
            <7> QED BY <1>2, <4>1, <7>1, <7>2
          <6> QED BY <1>3, <3>1, <3>2, <4>1, <4>4, <6>1, <6>2, <6>3, OrderThrottleAssumption
        <5>2. CASE promised <= last
          BY <1>3, <2>1, <2>3, <2>5, <3>1, <3>2, <4>1, <4>4, <5>2, OrderThrottleAssumption
        <5> QED BY <2>1, <4>1, <5>1, <5>2
      <4> QED BY <3>5, <4>3, <4>4
    <3> QED BY <1>1, <1>2, <1>4, <2>1, <2>2, <3>3, <3>5, <3>7, <3>8 DEF RefillInv
  <2> QED BY <2>1, <2>4, <2>5
<1> QED
  BY <1>5, <1>6
-----------------------------------------------------------------------------
\* The first timestamp starts the window; before it nothing was granted.
LEMMA InitEstablishes == Init => ThrottleInv
<1> SUFFICES ASSUME Init PROVE ThrottleInv
  OBVIOUS
<1>1. Burst * Unit \in Nat /\ Burst * Unit >= Unit
  BY Capacity
<1>2. TypeOK
  <2>1. broken \in BOOLEAN
    BY DEF Init
  <2> QED BY <1>1, <2>1 DEF Init, TypeOK
<1> QED
  BY <1>2 DEF Init, ThrottleInv, WindowBalance, PromiseIsFunded

\* A refill leaves the times in the type of the state.
LEMMA RefillTimes ==
  ASSUME ThrottleInv, NEW now \in Instants
  PROVE  /\ now \in Nat /\ RefilledTime(now) \in Nat /\ RefilledTime(now) # None
         /\ RefilledTime(now) >= now
         /\ (IF from = None THEN now ELSE from) \in Nat
         /\ (IF from = None THEN now ELSE from) # None
<1>1. now \in Nat
  BY OrderThrottleAssumption DEF Instants
<1>2. last \in Nat \cup {None} /\ from \in Nat \cup {None}
  BY DEF ThrottleInv, TypeOK, Instants
<1>3. RefilledTime(now) \in Nat /\ RefilledTime(now) >= now
  BY <1>1, <1>2 DEF RefilledTime, None
<1> QED BY <1>1, <1>2, <1>3 DEF None

\* A permit moves a token, less the slack, from the bucket to the window's
\* count; a denial before the promised time breaks nothing.
LEMMA TryAcquireKeeps ==
  ASSUME ThrottleInv, NEW now \in Instants, TryAcquire(now)
  PROVE  ThrottleInv'
<1> DEFINE start == IF from = None THEN now ELSE from
<1>1. PICK B \in Nat : B = Burst * Unit /\ B >= Unit
  BY Capacity
<1>2. PICK t \in 0..B : t = RefilledTokens(now)
  BY <1>1, RefillKeeps, RefillTimes DEF RefillInv
<1>3. PICK at \in Nat : at = RefilledTime(now) /\ at >= now /\ at # None
  BY RefillTimes
<1>4. now \in Nat /\ start \in Nat /\ start # None
  BY RefillTimes
<1>5. RefillInv(t, at, start)
  BY <1>2, <1>3, <1>4, RefillKeeps
<1>6. last' = at /\ from' = start
  BY <1>3 DEF TryAcquire, Watch
<1>7. granted \in Nat /\ promised \in Nat \cup {None} /\ broken = FALSE
  BY DEF ThrottleInv, TypeOK
<1>8. PICK u \in Nat : u = Unit - Slack
  <2>1. Unit - Slack \in Nat
    BY OrderThrottleAssumption
  <2> QED BY <2>1
<1>9. PICK g \in Nat : g = granted * u
  <2>1. granted * u \in Nat
    BY <1>7
  <2> QED BY <2>1
<1>10. PICK filled \in Int : filled = (at - start) * PerNano
  <2>1. (at - start) * PerNano \in Int
    BY <1>3, <1>4, OrderThrottleAssumption
  <2> QED BY <2>1
<1>11. g + t <= B + filled
  BY <1>1, <1>5, <1>8, <1>9, <1>10 DEF RefillInv
<1>12. CASE Enough(t)
  <2>1. t >= u /\ tokens' = Taken(t) /\ granted' = granted + 1 /\ promised' = None
        /\ broken' = FALSE
    BY <1>2, <1>7, <1>8, <1>12 DEF TryAcquire, Enough
  <2>2. Taken(t) \in 0..B /\ Taken(t) + u <= t
    BY <1>2, <1>8, <2>1, OrderThrottleAssumption DEF Taken
  <2>3. granted' * u = g + u
    BY <1>7, <1>9, <2>1
  <2>4. granted' * u + tokens' <= B + filled
    BY <1>2, <1>11, <2>1, <2>2, <2>3
  <2>5. TypeOK'
    <3>1. broken' \in BOOLEAN
      BY <2>1
    <3> QED BY <1>1, <1>3, <1>4, <1>6, <1>7, <2>1, <2>2, <3>1 DEF TypeOK
  <2>6. WindowBalance'
    BY <1>1, <1>3, <1>6, <1>8, <1>10, <2>4 DEF WindowBalance
  <2>7. PromiseIsFunded'
    BY <2>1 DEF PromiseIsFunded
  <2> QED BY <1>4, <1>6, <2>1, <2>5, <2>6, <2>7 DEF ThrottleInv
<1>13. CASE ~Enough(t)
  <2>1. tokens' = t /\ UNCHANGED <<granted, promised>>
        /\ broken' = (broken \/ (promised # None /\ now >= promised))
    BY <1>2, <1>13 DEF TryAcquire
  <2>2. t < Unit
    BY <1>2, <1>13, OrderThrottleAssumption DEF Enough
  <2>3. promised # None => promised > at
    BY <1>2, <1>3, <1>5, <1>7, <2>2, OrderThrottleAssumption DEF RefillInv
  <2>4. broken' = FALSE
    <3>1. ~(promised # None /\ now >= promised)
      BY <1>3, <1>4, <1>7, <2>3
    <3> QED BY <1>7, <2>1, <3>1
  <2>5. TypeOK'
    BY <1>1, <1>2, <1>3, <1>4, <1>6, <1>7, <2>1, <2>4 DEF TypeOK
  <2>6. WindowBalance'
    BY <1>1, <1>3, <1>6, <1>8, <1>9, <1>10, <1>11, <2>1 DEF WindowBalance
  <2>7. PromiseIsFunded'
    BY <1>3, <1>5, <1>6, <2>1 DEF PromiseIsFunded, RefillInv
  <2> QED BY <1>4, <1>6, <2>4, <2>5, <2>6, <2>7 DEF ThrottleInv
<1> QED
  BY <1>12, <1>13

\* The wait is long enough for a token to fill up.
LEMMA WaitFunds ==
  ASSUME NEW t \in Nat
  PROVE  /\ Wait(t) \in Nat
         /\ t + Wait(t) * PerNano >= Unit
         /\ Wait(t) = 0 => t >= Unit
<1>1. CASE t >= Unit
  BY <1>1, OrderThrottleAssumption DEF Wait
<1>2. CASE t < Unit
  <2>1. PICK P \in Nat \ {0} : P = PerNano
    BY OrderThrottleAssumption
  <2>2. PICK need \in Nat \ {0} : need = Unit - t
    <3>1. Unit - t \in Nat \ {0}
      BY <1>2, OrderThrottleAssumption
    <3> QED BY <3>1
  <2>3. PICK w : w = (need + P - 1) \div P
    OBVIOUS
  <2>4. Wait(t) = w
    BY <1>2, <2>1, <2>2, <2>3, OrderThrottleAssumption DEF Wait
  <2>5. w \in Int /\ w * P <= need + P - 1 /\ need + P - 1 < w * P + P
    <3>1. PICK n \in Nat : n = need + P - 1
      <4>1. need + P - 1 \in Nat
        BY <2>1, <2>2
      <4> QED BY <4>1
    <3>2. w = n \div P
      BY <2>3, <3>1
    <3>3. w \in Int
      BY <2>1, <3>1, <3>2
    <3>4. w * P <= n
      BY <2>1, <3>1, <3>2
    <3>5. n < w * P + P
      BY <2>1, <3>1, <3>2
    <3> QED BY <3>1, <3>3, <3>4, <3>5
  <2>6. w >= 1
    <3>1. w <= 0 => w * P <= 0
      <4>1. w <= 0 => -w \in Nat
        BY <2>5
      <4>2. ASSUME NEW v \in Nat, v = -w
            PROVE  w * P = -(v * P) /\ v * P \in Nat
        BY <2>1, <2>5, <4>2
      <4> QED BY <2>1, <2>5, <4>1, <4>2
    <3>2. w * P >= need
      BY <2>1, <2>2, <2>5
    <3> QED BY <2>2, <2>5, <3>1, <3>2
  <2>7. w * P >= need /\ w * P \in Int
    BY <2>1, <2>2, <2>5
  <2> QED BY <2>1, <2>2, <2>4, <2>5, <2>6, <2>7, OrderThrottleAssumption
<1> QED
  BY <1>1, <1>2, OrderThrottleAssumption

\* A promise made while the caller's clock is not behind is funded.
LEMMA NanosUntilAvailableKeeps ==
  ASSUME ThrottleInv, NEW now \in Instants, NanosUntilAvailable(now)
  PROVE  ThrottleInv'
<1> DEFINE start == IF from = None THEN now ELSE from
<1>1. PICK B \in Nat : B = Burst * Unit /\ B >= Unit
  BY Capacity
<1>2. PICK t \in 0..B : t = RefilledTokens(now)
  BY <1>1, RefillKeeps, RefillTimes DEF RefillInv
<1>3. PICK at \in Nat : at = RefilledTime(now) /\ at >= now /\ at # None
  BY RefillTimes
<1>4. now \in Nat /\ start \in Nat /\ start # None
  BY RefillTimes
<1>5. RefillInv(t, at, start)
  BY <1>2, <1>3, <1>4, RefillKeeps
<1>6. last' = at /\ from' = start /\ tokens' = t /\ UNCHANGED <<granted, broken>>
  BY <1>2, <1>3 DEF NanosUntilAvailable, Watch
<1>7. granted \in Nat /\ promised \in Nat \cup {None} /\ broken = FALSE
  BY DEF ThrottleInv, TypeOK
<1>8. Wait(t) \in Nat /\ t + Wait(t) * PerNano >= Unit /\ (Wait(t) = 0 => t >= Unit)
  BY <1>2, WaitFunds
<1>10. promised' = promised \/ (at = now /\ promised' = now + Wait(t))
  <2>1. last \in Nat \cup {None}
    BY DEF ThrottleInv, TypeOK
  <2>2. CASE last # None /\ now < last
    BY <2>2 DEF NanosUntilAvailable
  <2>3. CASE ~(last # None /\ now < last)
    <3>1. at = now
      BY <1>3, <1>4, <2>1, <2>3 DEF RefilledTime
    <3> QED BY <1>6, <2>3, <3>1 DEF NanosUntilAvailable
  <2> QED BY <2>2, <2>3
<1>11. TypeOK'
  <2>1. broken' \in BOOLEAN
    BY <1>6, <1>7
  <2>2. promised' \in Nat \cup {None}
    BY <1>4, <1>7, <1>8, <1>10
  <2> QED BY <1>1, <1>2, <1>3, <1>4, <1>6, <1>7, <2>1, <2>2 DEF TypeOK
<1>12. WindowBalance'
  BY <1>3, <1>5, <1>6 DEF WindowBalance, RefillInv
<1>13. PromiseIsFunded'
  <2>1. CASE promised' = promised
    BY <1>3, <1>5, <1>6, <2>1 DEF PromiseIsFunded, RefillInv
  <2>2. CASE at = now /\ promised' = now + Wait(t)
    <3>1. PICK w \in Nat : w = Wait(t)
      BY <1>8
    <3>2. promised' - at = w /\ (promised' > at <=> w > 0)
      BY <1>4, <2>2, <3>1
    <3>3. t + w * PerNano >= Unit /\ (w = 0 => t >= Unit)
      BY <1>8, <3>1
    <3> QED BY <1>3, <1>6, <3>1, <3>2, <3>3 DEF PromiseIsFunded
  <2> QED BY <1>10, <2>1, <2>2
<1> QED
  BY <1>4, <1>6, <1>7, <1>11, <1>12, <1>13 DEF ThrottleInv

\* A window may begin at any time: a bucket holds at most a burst.
LEMMA WatchFromNowKeeps ==
  ASSUME ThrottleInv, WatchFromNow
  PROVE  ThrottleInv'
<1>1. last \in Nat /\ last # None
  BY DEF ThrottleInv, TypeOK, WindowBalance, WatchFromNow
<1>2. PICK B \in Nat : B = Burst * Unit
  BY Capacity
<1>3. TypeOK'
  BY <1>1 DEF ThrottleInv, TypeOK, WatchFromNow
<1>4. WindowBalance'
  <2>1. granted' * (Unit - Slack) = 0 /\ (last' - from') * PerNano = 0
    BY <1>1, OrderThrottleAssumption DEF WatchFromNow
  <2>2. tokens' \in 0..B
    BY <1>2 DEF ThrottleInv, TypeOK, WatchFromNow
  <2> QED BY <1>1, <1>2, <2>1, <2>2 DEF WindowBalance, WatchFromNow
<1>5. PromiseIsFunded'
  BY DEF ThrottleInv, PromiseIsFunded, WatchFromNow
<1> QED
  BY <1>1, <1>3, <1>4, <1>5 DEF ThrottleInv, WatchFromNow

\* The bucket's invariant holds, however the clock moves.
THEOREM ThrottleInvHolds == Spec => []ThrottleInv
<1>1. Init => ThrottleInv
  BY InitEstablishes
<1>2. ThrottleInv /\ [Next]_vars => ThrottleInv'
  <2> SUFFICES ASSUME ThrottleInv, [Next]_vars PROVE ThrottleInv'
    OBVIOUS
  <2>1. ASSUME NEW now \in Instants, TryAcquire(now) PROVE ThrottleInv'
    BY <2>1, TryAcquireKeeps
  <2>2. ASSUME NEW now \in Instants, NanosUntilAvailable(now) PROVE ThrottleInv'
    BY <2>2, NanosUntilAvailableKeeps
  <2>3. CASE WatchFromNow
    BY <2>3, WatchFromNowKeeps
  <2>4. CASE UNCHANGED vars
    <3>1. TypeOK' /\ WindowBalance'
      BY <2>4 DEF ThrottleInv, TypeOK, WindowBalance, vars
    <3>2. PromiseIsFunded'
      BY <2>4 DEF ThrottleInv, PromiseIsFunded, vars
    <3> QED BY <2>4, <3>1, <3>2 DEF ThrottleInv, vars
  <2> QED BY <2>1, <2>2, <2>3, <2>4 DEF Next
<1> QED
  BY <1>1, <1>2, PTL DEF Spec

\* The bucket never holds more than a burst (try_acquire, _refill).
THEOREM ThrottleTypeCorrect == Spec => []TypeOK
BY ThrottleInvHolds, PTL DEF ThrottleInv

\* The venue's limit is kept in every stretch of time, for every rate and
\* burst (try_acquire).
THEOREM RateCorrect == Spec => []RateIsKept
<1>1. ThrottleInv => RateIsKept
  <2> SUFFICES ASSUME ThrottleInv, from # None PROVE RateIsKept
    BY DEF RateIsKept
  <2>1. tokens \in Nat /\ granted \in Nat /\ last \in Nat /\ from \in Nat
    BY Capacity DEF ThrottleInv, TypeOK, WindowBalance, None
  <2>2. PICK left \in Int : left = granted * (Unit - Slack)
    <3>1. granted * (Unit - Slack) \in Int
      BY <2>1, OrderThrottleAssumption
    <3> QED BY <3>1
  <2>3. PICK right \in Int : right = Burst * Unit + (last - from) * PerNano
    <3>1. Burst * Unit \in Int /\ (last - from) * PerNano \in Int
      BY <2>1, OrderThrottleAssumption
    <3> QED BY <3>1
  <2>4. left + tokens <= right
    BY <2>2, <2>3 DEF ThrottleInv, WindowBalance
  <2> QED BY <2>1, <2>2, <2>3, <2>4 DEF RateIsKept
<1> QED
  BY <1>1, ThrottleInvHolds, PTL

\* Sleeping as long as nanos_until_available says is enough.
THEOREM WaitCorrect == Spec => []WaitingIsEnough
<1>1. ThrottleInv => WaitingIsEnough
  BY DEF ThrottleInv, WaitingIsEnough
<1> QED
  BY <1>1, ThrottleInvHolds, PTL

-----------------------------------------------------------------------------
(* The consolidated inside.                                                *)

\* Sides as they occur: what is quoted is better than nothing.
Quote == [tick : Int, size : Nat]
Absents == {NoBid, NoAsk}
Offered(absent) ==
  {side \in [Venues -> Quote] :
     \A v \in Venues : side[v].tick # absent => Better(absent, side[v].tick, absent)}

\* After k venues the scan holds the best tick of those that quote, the venues
\* at it and their sizes.
Scanned(best, side, absent, k) ==
  /\ best \in [tick : Int, size : Nat, at : SUBSET (0..(k - 1))]
  /\ \A v \in 0..(k - 1) :
       /\ side[v].tick # absent =>
            best.tick # absent /\ ~Better(absent, side[v].tick, best.tick)
       /\ v \in best.at <=> side[v].tick # absent /\ side[v].tick = best.tick
  /\ IF best.tick = absent THEN best.size = 0
     ELSE /\ Better(absent, best.tick, absent) /\ best.at # {}
          /\ best.size = Totals(side, best.tick)[k]

-----------------------------------------------------------------------------
(* The two recursions.                                                     *)

Shows(side, tick, v) == IF side[v].tick = tick THEN side[v].size ELSE 0

IsScan(f, side, absent, n) ==
  f = [k \in 0..n |-> IF k = 0 THEN NoSide(absent) ELSE Scan(side, absent, k - 1, f[k - 1])]
IsTotal(f, side, tick, n) ==
  f = [k \in 0..n |-> IF k = 0 THEN 0 ELSE f[k - 1] + Shows(side, tick, k - 1)]

LEMMA ScanExists ==
  ASSUME NEW side, NEW absent
  PROVE  \A n \in Nat : \E f : IsScan(f, side, absent, n)
<1> DEFINE Without == {n \in Nat : ~\E f : IsScan(f, side, absent, n)}
<1>1. SUFFICES ASSUME Without # {} PROVE FALSE
  OBVIOUS
<1>2. PICK n \in Without : \A m \in Without : n <= m
  <2>1. Without \subseteq Nat
    OBVIOUS
  <2> HIDE DEF Without
  <2> QED BY <1>1, <2>1, LeastElement
<1>3. n # 0
  <2>1. IsScan([k \in 0..0 |-> NoSide(absent)], side, absent, 0)
    BY DEF IsScan
  <2> QED BY <1>2, <2>1
<1>4. PICK m \in Nat : n = m + 1 /\ m \notin Without
  <2>1. n - 1 \in Nat /\ n = (n - 1) + 1 /\ n - 1 \notin Without
    BY <1>2, <1>3
  <2> QED BY <2>1
<1>5. PICK f : IsScan(f, side, absent, m)
  BY <1>4
<1> DEFINE final == Scan(side, absent, m, f[m])
<1> HIDE DEF final
<1> DEFINE g == [k \in 0..n |-> IF k = n THEN final ELSE f[k]]
<1>6. IsScan(g, side, absent, n)
  <2>1. ASSUME NEW k \in 0..n
        PROVE  g[k] = IF k = 0 THEN NoSide(absent) ELSE Scan(side, absent, k - 1, g[k - 1])
    <3>1. CASE k = 0
      BY <1>3, <1>5, <3>1 DEF IsScan
    <3>2. CASE k = n
      <4>1. k - 1 = m /\ m \in 0..n /\ m # n
        BY <1>4, <3>2
      <4>2. g[m] = f[m] /\ g[k] = final
        BY <1>4, <3>2, <4>1
      <4> QED BY <1>3, <3>2, <4>1, <4>2 DEF final
    <3>3. CASE k # 0 /\ k # n
      <4>1. k \in 0..m /\ k - 1 \in 0..n /\ k - 1 # n
        BY <1>4, <3>3
      <4>2. g[k] = f[k] /\ g[k - 1] = f[k - 1]
        BY <3>3, <4>1
      <4>3. f[k] = Scan(side, absent, k - 1, f[k - 1])
        BY <1>5, <3>3, <4>1 DEF IsScan
      <4> QED BY <3>3, <4>2, <4>3
    <3> QED BY <3>1, <3>2, <3>3
  <2>2. g = [k \in 0..n |-> g[k]]
    OBVIOUS
  <2> HIDE DEF g
  <2> QED BY <2>1, <2>2 DEF IsScan
<1> QED BY <1>2, <1>6

LEMMA TotalExists ==
  ASSUME NEW side, NEW tick
  PROVE  \A n \in Nat : \E f : IsTotal(f, side, tick, n)
<1> DEFINE Without == {n \in Nat : ~\E f : IsTotal(f, side, tick, n)}
<1>1. SUFFICES ASSUME Without # {} PROVE FALSE
  OBVIOUS
<1>2. PICK n \in Without : \A m \in Without : n <= m
  <2>1. Without \subseteq Nat
    OBVIOUS
  <2> HIDE DEF Without
  <2> QED BY <1>1, <2>1, LeastElement
<1>3. n # 0
  <2>1. IsTotal([k \in 0..0 |-> 0], side, tick, 0)
    BY DEF IsTotal
  <2> QED BY <1>2, <2>1
<1>4. PICK m \in Nat : n = m + 1 /\ m \notin Without
  <2>1. n - 1 \in Nat /\ n = (n - 1) + 1 /\ n - 1 \notin Without
    BY <1>2, <1>3
  <2> QED BY <2>1
<1>5. PICK f : IsTotal(f, side, tick, m)
  BY <1>4
<1> DEFINE final == f[m] + Shows(side, tick, m)
<1> HIDE DEF final
<1> DEFINE g == [k \in 0..n |-> IF k = n THEN final ELSE f[k]]
<1>6. IsTotal(g, side, tick, n)
  <2>1. ASSUME NEW k \in 0..n
        PROVE  g[k] = IF k = 0 THEN 0 ELSE g[k - 1] + Shows(side, tick, k - 1)
    <3>1. CASE k = 0
      BY <1>3, <1>5, <3>1 DEF IsTotal
    <3>2. CASE k = n
      <4>1. k - 1 = m /\ m \in 0..n /\ m # n
        BY <1>4, <3>2
      <4>2. g[m] = f[m] /\ g[k] = final
        BY <1>4, <3>2, <4>1
      <4> QED BY <1>3, <3>2, <4>1, <4>2 DEF final
    <3>3. CASE k # 0 /\ k # n
      <4>1. k \in 0..m /\ k - 1 \in 0..n /\ k - 1 # n
        BY <1>4, <3>3
      <4>2. g[k] = f[k] /\ g[k - 1] = f[k - 1]
        BY <3>3, <4>1
      <4>3. f[k] = f[k - 1] + Shows(side, tick, k - 1)
        BY <1>5, <3>3, <4>1 DEF IsTotal
      <4> QED BY <3>3, <4>2, <4>3
    <3> QED BY <3>1, <3>2, <3>3
  <2>2. g = [k \in 0..n |-> g[k]]
    OBVIOUS
  <2> HIDE DEF g
  <2> QED BY <2>1, <2>2 DEF IsTotal
<1> QED BY <1>2, <1>6

LEMMA ScansAre ==
  ASSUME NEW side, NEW absent
  PROVE  /\ Scans(side, absent)[0] = NoSide(absent)
         /\ \A k \in 1..VenueCount :
              Scans(side, absent)[k] = Scan(side, absent, k - 1, Scans(side, absent)[k - 1])
<1> DEFINE Step(f) == [k \in 0..VenueCount |-> IF k = 0 THEN NoSide(absent) ELSE Scan(side, absent, k - 1, f[k - 1])]
           chosen == CHOOSE f : f = Step(f)
<1>1. VenueCount \in Nat
  BY NbboAssumption
<1>2. PICK f : f = Step(f)
  <2>1. PICK f : IsScan(f, side, absent, VenueCount)
    BY <1>1, ScanExists
  <2> QED BY <2>1, Zenon DEF IsScan
<1>3. chosen = Step(chosen)
  BY <1>2
<1>4. Scans(side, absent) = chosen
  BY DEF Scans
<1> HIDE DEF chosen
<1>5. chosen[0] = NoSide(absent)
  <2>1. 0 \in 0..VenueCount
    BY <1>1
  <2> QED BY <1>3, <2>1
<1>6. ASSUME NEW k \in 1..VenueCount PROVE chosen[k] = Scan(side, absent, k - 1, chosen[k - 1])
  <2>1. k \in 0..VenueCount /\ k # 0
    BY <1>1
  <2> QED BY <1>3, <2>1
<1> QED BY <1>4, <1>5, <1>6

LEMMA TotalsAre ==
  ASSUME NEW side, NEW tick
  PROVE  /\ Totals(side, tick)[0] = 0
         /\ \A k \in 1..VenueCount :
              Totals(side, tick)[k] = Totals(side, tick)[k - 1] + Shows(side, tick, k - 1)
<1> DEFINE Step(f) == [k \in 0..VenueCount |-> IF k = 0 THEN 0 ELSE f[k - 1] + Shows(side, tick, k - 1)]
           chosen == CHOOSE f : f = Step(f)
<1>1. VenueCount \in Nat
  BY NbboAssumption
<1>2. PICK f : f = Step(f)
  <2>1. PICK f : IsTotal(f, side, tick, VenueCount)
    BY <1>1, TotalExists
  <2> QED BY <2>1, Zenon DEF IsTotal
<1>3. chosen = Step(chosen)
  BY <1>2
<1>4. Totals(side, tick) = chosen
  BY DEF Totals, Shows
<1> HIDE DEF chosen
<1>5. chosen[0] = 0
  <2>1. 0 \in 0..VenueCount
    BY <1>1
  <2> QED BY <1>3, <2>1
<1>6. ASSUME NEW k \in 1..VenueCount PROVE chosen[k] = chosen[k - 1] + Shows(side, tick, k - 1)
  <2>1. k \in 0..VenueCount /\ k # 0
    BY <1>1
  <2> QED BY <1>3, <2>1
<1> QED BY <1>4, <1>5, <1>6

\* What the running totals are worth: a size, and none where nobody is.
TotalSound(side, tick, k) ==
  /\ Totals(side, tick)[k] \in Nat
  /\ (\A v \in 0..(k - 1) : side[v].tick # tick) => Totals(side, tick)[k] = 0

LEMMA TotalsSound ==
  ASSUME NEW side \in [Venues -> Quote], NEW tick
  PROVE  \A k \in 0..VenueCount : TotalSound(side, tick, k)
<1> DEFINE Bad == {k \in 0..VenueCount : ~TotalSound(side, tick, k)}
<1>1. SUFFICES ASSUME Bad # {} PROVE FALSE
  OBVIOUS
<1>2. VenueCount \in Nat
  BY NbboAssumption
<1>3. PICK n \in Bad : \A m \in Bad : n <= m
  <2>1. Bad \subseteq Nat
    BY <1>2
  <2> HIDE DEF Bad
  <2> QED BY <1>1, <2>1, LeastElement
<1>4. n # 0
  BY <1>3, TotalsAre DEF TotalSound
<1>5. PICK m \in Nat : n = m + 1 /\ m \notin Bad
  <2>1. n - 1 \in Nat /\ n = (n - 1) + 1 /\ n - 1 \notin Bad
    BY <1>2, <1>3, <1>4
  <2> QED BY <2>1
<1>6. TotalSound(side, tick, m) /\ n \in 1..VenueCount /\ n - 1 = m
  BY <1>2, <1>3, <1>4, <1>5
<1>7. Totals(side, tick)[n] = Totals(side, tick)[m] + Shows(side, tick, m)
  BY <1>6, TotalsAre
<1>8. m \in Venues /\ side[m] \in Quote
  BY <1>2, <1>6 DEF Venues
<1>9. Shows(side, tick, m) \in Nat /\ (side[m].tick # tick => Shows(side, tick, m) = 0)
  BY <1>8 DEF Shows, Quote
<1>10. Totals(side, tick)[m] \in Nat
  BY <1>6 DEF TotalSound
<1>11. ASSUME \A v \in 0..(n - 1) : side[v].tick # tick PROVE Totals(side, tick)[n] = 0
  <2>1. m \in 0..(n - 1) /\ 0..(m - 1) \subseteq 0..(n - 1)
    BY <1>5
  <2>2. Totals(side, tick)[m] = 0
    BY <1>6, <1>11, <2>1 DEF TotalSound
  <2> QED BY <1>7, <1>9, <1>11, <2>1, <2>2
<1>12. Totals(side, tick)[n] \in Nat
  BY <1>7, <1>9, <1>10
<1>13. TotalSound(side, tick, n)
  BY <1>11, <1>12 DEF TotalSound
<1> QED BY <1>3, <1>13

\* Totals are a matter of who is at the tick, and with what size.
LEMMA TotalsAlike ==
  ASSUME NEW side, NEW other, NEW tick,
         \A v \in Venues : Shows(other, tick, v) = Shows(side, tick, v)
  PROVE  \A k \in 0..VenueCount : Totals(other, tick)[k] = Totals(side, tick)[k]
<1> DEFINE Bad == {k \in 0..VenueCount : Totals(other, tick)[k] # Totals(side, tick)[k]}
<1>1. SUFFICES ASSUME Bad # {} PROVE FALSE
  OBVIOUS
<1>2. VenueCount \in Nat
  BY NbboAssumption
<1>3. PICK n \in Bad : \A m \in Bad : n <= m
  <2>1. Bad \subseteq Nat
    BY <1>2
  <2> HIDE DEF Bad
  <2> QED BY <1>1, <2>1, LeastElement
<1>4. n # 0
  BY <1>3, TotalsAre
<1>5. PICK m \in Nat : n = m + 1 /\ m \notin Bad
  <2>1. n - 1 \in Nat /\ n = (n - 1) + 1 /\ n - 1 \notin Bad
    BY <1>2, <1>3, <1>4
  <2> QED BY <2>1
<1>6. Totals(other, tick)[m] = Totals(side, tick)[m] /\ n \in 1..VenueCount /\ n - 1 = m
  BY <1>2, <1>3, <1>4, <1>5
<1>7. m \in Venues
  BY <1>2, <1>6 DEF Venues
<1>8. /\ Totals(side, tick)[n] = Totals(side, tick)[m] + Shows(side, tick, m)
      /\ Totals(other, tick)[n] = Totals(other, tick)[m] + Shows(other, tick, m)
  BY <1>6, TotalsAre
<1> QED BY <1>3, <1>6, <1>7, <1>8

-----------------------------------------------------------------------------
(* The scan.                                                               *)

\* Better is a strict order of ticks, whichever side it is.
LEMMA BetterIsAnOrder ==
  ASSUME NEW absent, NEW a \in Int, NEW b \in Int, NEW c \in Int
  PROVE  /\ ~Better(absent, a, a)
         /\ Better(absent, a, b) => ~Better(absent, b, a)
         /\ ~Better(absent, a, b) /\ ~Better(absent, b, a) => a = b
         /\ ~Better(absent, a, b) /\ Better(absent, c, b) => Better(absent, c, a)
         /\ Better(absent, a, b) /\ Better(absent, b, c) => Better(absent, a, c)
BY DEF Better

LEMMA ScanKeeps ==
  ASSUME NEW absent \in Int, NEW side \in Offered(absent),
         NEW k \in 0..(VenueCount - 1), NEW best, Scanned(best, side, absent, k)
  PROVE  Scanned(Scan(side, absent, k, best), side, absent, k + 1)
<1>1. /\ VenueCount \in Nat /\ k \in Nat /\ k \in Venues
      /\ k + 1 \in 1..VenueCount /\ (k + 1) - 1 = k
  BY NbboAssumption DEF Venues
<1>2. PICK q \in Quote : q = side[k]
  BY <1>1 DEF Offered
<1>3. q.tick \in Int /\ q.size \in Nat /\ (q.tick # absent => Better(absent, q.tick, absent))
  BY <1>1, <1>2 DEF Quote, Offered
<1>4. /\ best.tick \in Int /\ best.size \in Nat /\ best.at \subseteq 0..(k - 1)
      /\ best = [tick |-> best.tick, size |-> best.size, at |-> best.at]
  BY DEF Scanned
<1>5. ASSUME NEW v \in 0..(k - 1) PROVE v \in 0..k /\ v # k /\ side[v].tick \in Int
  <2>1. v \in Venues /\ v \in 0..k /\ v # k
    BY <1>1 DEF Venues
  <2> QED BY <2>1 DEF Offered, Quote
<1>6. ASSUME NEW v \in 0..k PROVE v = k \/ v \in 0..(k - 1)
  BY <1>1
<1>7. ASSUME NEW tick \in Int
      PROVE  /\ Totals(side, tick)[k + 1] = Totals(side, tick)[k] + Shows(side, tick, k)
             /\ TotalSound(side, tick, k)
  <2>1. side \in [Venues -> Quote] /\ k \in 0..VenueCount
    BY <1>1 DEF Offered
  <2> QED BY <1>1, <2>1, TotalsAre, TotalsSound
<1>8. CASE q.tick # absent /\ Better(absent, q.tick, best.tick)
  <2>1. PICK c : c = Scan(side, absent, k, best)
    OBVIOUS
  <2>2. c = [tick |-> q.tick, size |-> q.size, at |-> {k}]
    <3>1. q.tick # best.tick
      BY <1>3, <1>8, BetterIsAnOrder
    <3> QED BY <1>2, <1>8, <2>1, <3>1 DEF Scan
  <2>3. c \in [tick : Int, size : Nat, at : SUBSET (0..k)] /\ c.tick # absent
    BY <1>1, <1>3, <1>8, <2>2
  <2>4. ASSUME NEW v \in 0..k
        PROVE  /\ side[v].tick # absent => ~Better(absent, side[v].tick, c.tick)
               /\ v \in c.at <=> side[v].tick # absent /\ side[v].tick = c.tick
    <3>1. CASE v = k
      BY <1>2, <1>3, <1>8, <2>2, <3>1, BetterIsAnOrder
    <3>2. CASE v \in 0..(k - 1)
      <4>1. v # k /\ side[v].tick \in Int
        BY <1>5, <3>2
      <4>2. side[v].tick # absent => ~Better(absent, side[v].tick, best.tick)
        BY <3>2 DEF Scanned
      <4>3. side[v].tick # absent => Better(absent, q.tick, side[v].tick)
        BY <1>3, <1>4, <1>8, <4>1, <4>2, BetterIsAnOrder
      <4>4. side[v].tick # absent =>
              ~Better(absent, side[v].tick, q.tick) /\ side[v].tick # q.tick
        BY <1>3, <4>1, <4>3, BetterIsAnOrder
      <4> QED BY <2>2, <4>1, <4>4
    <3> QED BY <1>6, <3>1, <3>2
  <2>5. c.size = Totals(side, c.tick)[k + 1]
    <3>1. \A v \in 0..(k - 1) : side[v].tick # c.tick
      <4> TAKE v \in 0..(k - 1)
      <4>1. v \in 0..k /\ v \notin c.at
        BY <1>5, <2>2
      <4> QED BY <1>8, <2>2, <2>4, <4>1
    <3>2. Totals(side, c.tick)[k] = 0
      BY <1>3, <1>7, <2>2, <3>1 DEF TotalSound
    <3>3. Shows(side, c.tick, k) = c.size
      BY <1>2, <2>2 DEF Shows
    <3> QED BY <1>3, <1>7, <2>2, <3>2, <3>3
  <2>6. Better(absent, c.tick, absent) /\ c.at # {}
    BY <1>3, <1>8, <2>2
  <2> QED BY <1>1, <2>1, <2>3, <2>4, <2>5, <2>6 DEF Scanned
<1>9. CASE q.tick # absent /\ q.tick = best.tick
  <2>1. PICK c : c = Scan(side, absent, k, best)
    OBVIOUS
  <2>2. c.tick = best.tick /\ c.size = best.size + q.size /\ c.at = best.at \cup {k}
        /\ c = [tick |-> c.tick, size |-> c.size, at |-> c.at]
    <3>1. ~Better(absent, q.tick, best.tick)
      BY <1>3, <1>9, BetterIsAnOrder
    <3>2. c = [best EXCEPT !.size = @ + q.size, !.at = @ \cup {k}]
      BY <1>2, <1>9, <2>1, <3>1 DEF Scan
    <3> QED BY <1>4, <3>2
  <2>3. c \in [tick : Int, size : Nat, at : SUBSET (0..k)] /\ c.tick # absent
    <3>1. c.at \subseteq 0..k
      BY <1>1, <1>4, <2>2
    <3>2. c.tick \in Int /\ c.size \in Nat /\ c.tick # absent
      BY <1>3, <1>4, <1>9, <2>2
    <3> QED BY <2>2, <3>1, <3>2
  <2>4. ASSUME NEW v \in 0..k
        PROVE  /\ side[v].tick # absent => ~Better(absent, side[v].tick, c.tick)
               /\ v \in c.at <=> side[v].tick # absent /\ side[v].tick = c.tick
    <3>1. CASE v = k
      BY <1>2, <1>3, <1>9, <2>2, <3>1, BetterIsAnOrder
    <3>2. CASE v \in 0..(k - 1)
      <4>1. v # k
        BY <1>5, <3>2
      <4>2. /\ side[v].tick # absent => ~Better(absent, side[v].tick, best.tick)
            /\ v \in best.at <=> side[v].tick # absent /\ side[v].tick = best.tick
        BY <3>2 DEF Scanned
      <4> QED BY <2>2, <4>1, <4>2
    <3> QED BY <1>6, <3>1, <3>2
  <2>5. c.size = Totals(side, c.tick)[k + 1]
    <3>1. best.size = Totals(side, best.tick)[k]
      BY <1>9 DEF Scanned
    <3>2. Shows(side, best.tick, k) = q.size
      BY <1>2, <1>9 DEF Shows
    <3> QED BY <1>4, <1>7, <2>2, <3>1, <3>2
  <2>6. Better(absent, c.tick, absent) /\ c.at # {}
    BY <1>3, <1>9, <2>2
  <2> QED BY <1>1, <2>1, <2>3, <2>4, <2>5, <2>6 DEF Scanned
<1>10. CASE ~(q.tick # absent /\ Better(absent, q.tick, best.tick))
            /\ ~(q.tick # absent /\ q.tick = best.tick)
  <2>1. Scan(side, absent, k, best) = best
    BY <1>2, <1>10 DEF Scan
  <2>2. best \in [tick : Int, size : Nat, at : SUBSET (0..k)]
    <3>1. best.at \subseteq 0..k
      BY <1>1, <1>4
    <3> QED BY <1>4, <3>1
  <2>3. q.tick # absent => best.tick # absent /\ q.tick # best.tick /\ ~Better(absent, q.tick, best.tick)
    BY <1>3, <1>10
  <2>4. ASSUME NEW v \in 0..k
        PROVE  /\ side[v].tick # absent =>
                    best.tick # absent /\ ~Better(absent, side[v].tick, best.tick)
               /\ v \in best.at <=> side[v].tick # absent /\ side[v].tick = best.tick
    <3>1. CASE v = k
      <4>1. k \notin best.at
        BY <1>1, <1>4
      <4> QED BY <1>2, <2>3, <3>1, <4>1
    <3>2. CASE v \in 0..(k - 1)
      BY <3>2 DEF Scanned
    <3> QED BY <1>6, <3>1, <3>2
  <2>5. IF best.tick = absent THEN best.size = 0
        ELSE /\ Better(absent, best.tick, absent) /\ best.at # {}
             /\ best.size = Totals(side, best.tick)[k + 1]
    <3>1. CASE best.tick = absent
      BY <3>1 DEF Scanned
    <3>2. CASE best.tick # absent
      <4>1. /\ Better(absent, best.tick, absent) /\ best.at # {}
            /\ best.size = Totals(side, best.tick)[k]
        BY <3>2 DEF Scanned
      <4>2. Shows(side, best.tick, k) = 0
        BY <1>2, <2>3, <3>2 DEF Shows
      <4> QED BY <1>4, <1>7, <3>2, <4>1, <4>2
    <3> QED BY <3>1, <3>2
  <2> QED BY <1>1, <2>1, <2>2, <2>4, <2>5 DEF Scanned
<1> QED BY <1>8, <1>9, <1>10

LEMMA ScanIsRight ==
  ASSUME NEW absent \in Int, NEW side \in Offered(absent)
  PROVE  Scanned(Best(side, absent), side, absent, VenueCount)
<1> DEFINE Bad == {k \in 0..VenueCount : ~Scanned(Scans(side, absent)[k], side, absent, k)}
<1>1. SUFFICES ASSUME Bad # {} PROVE FALSE
  <2>1. VenueCount \in 0..VenueCount
    BY NbboAssumption
  <2> QED BY <2>1 DEF Best
<1>2. VenueCount \in Nat
  BY NbboAssumption
<1>3. PICK n \in Bad : \A m \in Bad : n <= m
  <2>1. Bad \subseteq Nat
    BY <1>2
  <2> HIDE DEF Bad
  <2> QED BY <1>1, <2>1, LeastElement
<1>4. n # 0
  <2>1. PICK none : none = NoSide(absent)
    OBVIOUS
  <2>2. none.tick = absent /\ none.size = 0 /\ none.at = {}
        /\ none \in [tick : Int, size : Nat, at : SUBSET (0..(0 - 1))]
    BY <2>1 DEF NoSide
  <2>3. Scanned(none, side, absent, 0)
    BY <2>2 DEF Scanned
  <2> QED BY <1>3, <2>1, <2>3, ScansAre
<1>5. PICK m \in Nat : n = m + 1 /\ m \notin Bad
  <2>1. n - 1 \in Nat /\ n = (n - 1) + 1 /\ n - 1 \notin Bad
    BY <1>2, <1>3, <1>4
  <2> QED BY <2>1
<1>6. /\ Scanned(Scans(side, absent)[m], side, absent, m)
      /\ n \in 1..VenueCount /\ n - 1 = m /\ m \in 0..(VenueCount - 1)
  BY <1>2, <1>3, <1>4, <1>5
<1>7. Scans(side, absent)[n] = Scan(side, absent, m, Scans(side, absent)[m])
  BY <1>6, ScansAre
<1>8. Scanned(Scans(side, absent)[n], side, absent, n)
  BY <1>5, <1>6, <1>7, ScanKeeps
<1> QED BY <1>3, <1>8

\* What a scan holds is the consolidated inside.
LEMMA ScannedConsolidates ==
  ASSUME NEW absent \in Int, NEW side \in Offered(absent), NEW best,
         Scanned(best, side, absent, VenueCount)
  PROVE  Consolidates(best, side, absent)
<1>1. VenueCount \in Nat /\ Venues = 0..(VenueCount - 1)
  BY NbboAssumption DEF Venues
<1> DEFINE quoting == {v \in Venues : side[v].tick # absent}
<1>2. \A v \in Venues : side[v].tick \in Int
  BY DEF Offered, Quote
<1>3. /\ best.tick \in Int /\ best.at \subseteq Venues
      /\ best = [tick |-> best.tick, size |-> best.size, at |-> best.at]
  BY <1>1 DEF Scanned
<1>4. \A v \in Venues :
        /\ side[v].tick # absent => best.tick # absent /\ ~Better(absent, side[v].tick, best.tick)
        /\ v \in best.at <=> side[v].tick # absent /\ side[v].tick = best.tick
  BY <1>1 DEF Scanned
<1>5. CASE quoting = {}
  <2>1. best.at = {}
    BY <1>3, <1>4, <1>5
  <2>2. best.tick = absent
    BY <2>1 DEF Scanned
  <2>3. best.size = 0
    BY <2>2 DEF Scanned
  <2>4. best = NoSide(absent)
    BY <1>3, <2>1, <2>2, <2>3 DEF NoSide
  <2> QED BY <1>5, <2>4 DEF Consolidates
<1>6. CASE quoting # {}
  <2>1. best.tick # absent
    BY <1>4, <1>6
  <2>2. best.at # {} /\ best.size = SizeAt(side, best.tick)
    BY <2>1 DEF Scanned, SizeAt
  <2>3. PICK w \in Venues : w \in best.at /\ side[w].tick = best.tick /\ w \in quoting
    BY <1>3, <1>4, <2>2
  <2>4. ASSUME NEW v \in Venues
        PROVE  v \in best.at <=>
                 v \in quoting /\ \A u \in quoting : ~Better(absent, side[u].tick, side[v].tick)
    <3>1. ASSUME v \in best.at, NEW u \in quoting
          PROVE  v \in quoting /\ ~Better(absent, side[u].tick, side[v].tick)
      BY <1>4, <3>1
    <3>2. ASSUME v \in quoting, \A u \in quoting : ~Better(absent, side[u].tick, side[v].tick)
          PROVE  v \in best.at
      <4>1. ~Better(absent, best.tick, side[v].tick)
        BY <2>3, <3>2
      <4>2. ~Better(absent, side[v].tick, best.tick)
        BY <1>4, <3>2
      <4>3. side[v].tick = best.tick
        BY <1>2, <1>3, <4>1, <4>2, BetterIsAnOrder
      <4> QED BY <1>4, <3>2, <4>3
    <3>3. v \in best.at => v \in quoting
      BY <1>4
    <3> QED BY <3>1, <3>2, <3>3
  <2>5. best.at = {v \in quoting : \A u \in quoting : ~Better(absent, side[u].tick, side[v].tick)}
    BY <1>3, <2>4
  <2>6. \A v \in best.at : side[v].tick = best.tick
    BY <1>3, <1>4
  <2> QED BY <1>6, <2>2, <2>5, <2>6 DEF Consolidates
<1> QED BY <1>5, <1>6

\* The fast path: a venue that is not at the inside and whose new quote is
\* behind it, or none, leaves what a scan would find as it is.
LEMMA OffInsideKeeps ==
  ASSUME NEW absent \in Int, NEW side \in Offered(absent), NEW best,
         Scanned(best, side, absent, VenueCount),
         NEW venue \in Venues, NEW q \in Quote,
         q.tick # absent => Better(absent, q.tick, absent),
         venue \notin best.at,
         q.tick # absent => Better(absent, best.tick, q.tick)
  PROVE  Scanned(best, [side EXCEPT ![venue] = q], absent, VenueCount)
<1>1. VenueCount \in Nat /\ Venues = 0..(VenueCount - 1)
  BY NbboAssumption DEF Venues
<1>2. PICK other : other = [side EXCEPT ![venue] = q]
  OBVIOUS
<1>3. \A v \in Venues : other[v] = IF v = venue THEN q ELSE side[v]
  BY <1>2 DEF Offered
<1>4. best.tick \in Int /\ q.tick \in Int
  BY DEF Scanned, Quote
<1>5. \A v \in Venues :
        /\ side[v].tick # absent => best.tick # absent /\ ~Better(absent, side[v].tick, best.tick)
        /\ v \in best.at <=> side[v].tick # absent /\ side[v].tick = best.tick
  BY <1>1 DEF Scanned
<1>6. q.tick # absent =>
        /\ best.tick # absent /\ q.tick # best.tick
        /\ ~Better(absent, q.tick, best.tick)
  <2>1. PICK b \in Int : b = best.tick
    BY <1>4
  <2>2. PICK t \in Int : t = q.tick
    BY <1>4
  <2>3. t # absent => Better(absent, t, absent) /\ Better(absent, b, t)
    BY <2>1, <2>2
  <2>4. t # absent => b # absent /\ t # b /\ ~Better(absent, t, b)
    BY <2>3 DEF Better
  <2> QED BY <2>1, <2>2, <2>4
<1>7. ASSUME NEW v \in Venues
      PROVE  /\ other[v].tick # absent =>
                  best.tick # absent /\ ~Better(absent, other[v].tick, best.tick)
             /\ v \in best.at <=> other[v].tick # absent /\ other[v].tick = best.tick
  BY <1>3, <1>5, <1>6
<1>8. best.tick # absent => Totals(other, best.tick)[VenueCount] = Totals(side, best.tick)[VenueCount]
  <2>1. SUFFICES ASSUME best.tick # absent
                 PROVE  Totals(other, best.tick)[VenueCount] = Totals(side, best.tick)[VenueCount]
    OBVIOUS
  <2>2. q.tick # best.tick /\ side[venue].tick # best.tick
    BY <1>5, <1>6, <2>1
  <2>3. \A v \in Venues : Shows(other, best.tick, v) = Shows(side, best.tick, v)
    BY <1>3, <2>2 DEF Shows
  <2>4. VenueCount \in 0..VenueCount
    BY <1>1
  <2> QED BY <2>3, <2>4, TotalsAlike
<1>9. Scanned(best, other, absent, VenueCount)
  BY <1>1, <1>7, <1>8 DEF Scanned
<1> QED BY <1>2, <1>9

-----------------------------------------------------------------------------
(* The inside is always the consolidated one.                              *)

NbboInv ==
  /\ bids \in Offered(NoBid) /\ asks \in Offered(NoAsk)
  /\ Scanned(nbb, bids, NoBid, VenueCount)
  /\ Scanned(nbo, asks, NoAsk, VenueCount)
  /\ listening \in BOOLEAN
  /\ ListenerKnowsTheInside

LEMMA AbsentsAreInts == NoBid \in Int /\ NoAsk \in Int /\ NoAsk # NoBid /\ NoAsk > 0 /\ NoBid = 0
BY NbboAssumption DEF NoBid, NoAsk

\* A side as on_venue_quote stores it.
LEMMA SideIsAQuote ==
  ASSUME NEW bid \in Prices \cup {NoBid}, NEW ask \in Prices \cup {NoAsk},
         NEW bidSize \in Nat, NEW askSize \in Nat, NEW b, NEW a,
         b = Side(bid, bidSize, NoBid), a = Side(ask, askSize, NoAsk)
  PROVE  /\ b \in Quote /\ (b.tick # NoBid => Better(NoBid, b.tick, NoBid))
         /\ a \in Quote /\ (a.tick # NoAsk => Better(NoAsk, a.tick, NoAsk))
BY NbboAssumption DEF Side, Quote, Better, Prices, NoBid, NoAsk

LEMMA InitInside == NbboInit => NbboInv
<1> SUFFICES ASSUME NbboInit PROVE NbboInv
  OBVIOUS
<1>1. VenueCount \in Nat /\ Venues = 0..(VenueCount - 1)
  BY NbboAssumption DEF Venues
<1>2. ASSUME NEW absent \in Int, NEW side, side = [v \in Venues |-> [tick |-> absent, size |-> 0]]
      PROVE  side \in Offered(absent) /\ Scanned(NoSide(absent), side, absent, VenueCount)
  <2>1. \A v \in Venues : side[v].tick = absent /\ side[v] \in Quote
    BY <1>2 DEF Quote
  <2>2. side \in Offered(absent)
    BY <1>2, <2>1 DEF Offered
  <2>3. PICK none : none = NoSide(absent)
    OBVIOUS
  <2>4. /\ none.tick = absent /\ none.size = 0 /\ none.at = {}
        /\ none \in [tick : Int, size : Nat, at : SUBSET (0..(VenueCount - 1))]
    BY <1>2, <2>3 DEF NoSide
  <2>5. Scanned(none, side, absent, VenueCount)
    BY <1>1, <2>1, <2>4 DEF Scanned
  <2> QED BY <2>2, <2>3, <2>5
<1> QED
  BY <1>2, AbsentsAreInts DEF NbboInit, NbboInv, ListenerKnowsTheInside

LEMMA QuoteKeeps ==
  ASSUME NbboInv, NEW venue \in Venues, NEW bid \in Prices \cup {NoBid},
         NEW ask \in Prices \cup {NoAsk}, NEW bidSize \in Nat, NEW askSize \in Nat,
         OnVenueQuote(venue, bid, bidSize, ask, askSize)
  PROVE  NbboInv'
<1>1. PICK b, a : b = Side(bid, bidSize, NoBid) /\ a = Side(ask, askSize, NoAsk)
  OBVIOUS
<1>2. /\ b \in Quote /\ (b.tick # NoBid => Better(NoBid, b.tick, NoBid))
      /\ a \in Quote /\ (a.tick # NoAsk => Better(NoAsk, a.tick, NoAsk))
  BY <1>1, SideIsAQuote
<1>3. bids' = [bids EXCEPT ![venue] = b] /\ asks' = [asks EXCEPT ![venue] = a]
      /\ listening' = listening
  BY <1>1 DEF OnVenueQuote
<1>4. bids' \in Offered(NoBid) /\ asks' \in Offered(NoAsk)
  BY <1>2, <1>3 DEF NbboInv, Offered
<1>5. CASE OffInside(venue, b, a)
  <2>1. nbb' = nbb /\ nbo' = nbo /\ news' = news
    BY <1>1, <1>5 DEF OnVenueQuote
  <2>2. /\ venue \notin nbb.at /\ venue \notin nbo.at
        /\ b.tick # NoBid => Better(NoBid, nbb.tick, b.tick)
        /\ a.tick # NoAsk => Better(NoAsk, nbo.tick, a.tick)
    <3>1. nbb.tick \in Int /\ nbo.tick \in Int /\ b.tick \in Int /\ a.tick \in Int
      BY <1>2 DEF NbboInv, Scanned, Quote
    <3> QED BY <1>5, <3>1, AbsentsAreInts DEF OffInside, Better
  <2>3. Scanned(nbb, bids', NoBid, VenueCount)
    BY <1>2, <1>3, <2>2, AbsentsAreInts, OffInsideKeeps DEF NbboInv
  <2>4. Scanned(nbo, asks', NoAsk, VenueCount)
    BY <1>2, <1>3, <2>2, AbsentsAreInts, OffInsideKeeps DEF NbboInv
  <2> QED BY <1>3, <1>4, <2>1, <2>3, <2>4 DEF NbboInv, ListenerKnowsTheInside
<1>6. CASE ~OffInside(venue, b, a)
  <2>1. Recompute(bids', asks')
    BY <1>1, <1>6 DEF OnVenueQuote
  <2>2. nbb' = Best(bids', NoBid) /\ nbo' = Best(asks', NoAsk)
    BY <2>1 DEF Recompute
  <2>3. Scanned(nbb', bids', NoBid, VenueCount) /\ Scanned(nbo', asks', NoAsk, VenueCount)
    BY <1>4, <2>2, AbsentsAreInts, ScanIsRight
  <2>4. /\ told' = (listening /\ ~SameNumbers(nbb', nbo'))
        /\ news' = IF ~told' THEN news
                   ELSE [bid |-> nbb'.tick, bidSize |-> nbb'.size,
                         ask |-> nbo'.tick, askSize |-> nbo'.size]
    BY <2>1 DEF Recompute
  <2>5. ListenerKnowsTheInside'
    <3>1. CASE told'
      BY <2>4, <3>1 DEF ListenerKnowsTheInside
    <3>2. CASE ~told'
      BY <1>3, <2>4, <3>2 DEF ListenerKnowsTheInside, NbboInv, SameNumbers
    <3> QED BY <3>1, <3>2
  <2> QED BY <1>3, <1>4, <2>3, <2>5 DEF NbboInv
<1> QED BY <1>5, <1>6

LEMMA StepInside == NbboInv /\ [NbboNext]_nbboVars => NbboInv'
<1> SUFFICES ASSUME NbboInv, [NbboNext]_nbboVars PROVE NbboInv'
  OBVIOUS
<1>1. ASSUME NEW v \in Venues, NEW b \in Prices \cup {NoBid}, NEW a \in Prices \cup {NoAsk},
             NEW bz \in 0..MaxSize, NEW az \in 0..MaxSize, OnVenueQuote(v, b, bz, a, az)
      PROVE  NbboInv'
  <2>1. bz \in Nat /\ az \in Nat
    BY NbboAssumption
  <2> QED BY <1>1, <2>1, QuoteKeeps
<1>2. ASSUME NEW v \in Venues, OnVenueDown(v) PROVE NbboInv'
  <2>1. OnVenueQuote(v, NoBid, 0, NoAsk, 0)
    BY <1>2 DEF OnVenueDown
  <2>2. NoBid \in Prices \cup {NoBid} /\ NoAsk \in Prices \cup {NoAsk}
    OBVIOUS
  <2> QED BY <2>1, <2>2, QuoteKeeps
<1>3. ASSUME NEW on \in BOOLEAN, Listen(on) PROVE NbboInv'
  BY <1>3 DEF Listen, NbboInv, ListenerKnowsTheInside
<1>4. CASE UNCHANGED nbboVars
  BY <1>4 DEF nbboVars, NbboInv, ListenerKnowsTheInside
<1> QED BY <1>1, <1>2, <1>3, <1>4 DEF NbboNext

\* Whichever quotes took the fast path, the cached inside is that of a full
\* scan of the venues' latest quotes, for any number of venues, ticks and sizes.
THEOREM InsideCorrect == NbboSpec => []InsideIsConsolidated
<1>1. NbboInv => InsideIsConsolidated
  BY AbsentsAreInts, ScannedConsolidates DEF NbboInv, InsideIsConsolidated
<1> QED BY <1>1, InitInside, StepInside, PTL DEF NbboSpec

LEMMA NewsOfAStep ==
  ASSUME NbboInv, [NbboNext]_nbboVars
  PROVE  [told' <=> /\ listening
                    /\ <<nbb.tick, nbb.size, nbo.tick, nbo.size>>
                         # <<nbb'.tick, nbb'.size, nbo'.tick, nbo'.size>>]_nbboVars
<1>1. ASSUME NEW v, NEW b, NEW a, NEW bz, NEW az, OnVenueQuote(v, b, bz, a, az)
      PROVE  told' <=> /\ listening
                       /\ <<nbb.tick, nbb.size, nbo.tick, nbo.size>>
                            # <<nbb'.tick, nbb'.size, nbo'.tick, nbo'.size>>
  <2>1. CASE told' = FALSE /\ nbb' = nbb /\ nbo' = nbo
    BY <2>1
  <2>2. CASE Recompute(bids', asks')
    <3>1. told' = (listening /\ ~SameNumbers(nbb', nbo'))
      BY <2>2 DEF Recompute
    <3>2. SameNumbers(nbb', nbo') <=>
            <<nbb.tick, nbb.size, nbo.tick, nbo.size>>
              = <<nbb'.tick, nbb'.size, nbo'.tick, nbo'.size>>
      BY DEF SameNumbers
    <3> QED BY <3>1, <3>2
  <2> QED BY <1>1, <2>1, <2>2 DEF OnVenueQuote
<1>2. ASSUME NEW on, Listen(on)
      PROVE  told' <=> /\ listening
                       /\ <<nbb.tick, nbb.size, nbo.tick, nbo.size>>
                            # <<nbb'.tick, nbb'.size, nbo'.tick, nbo'.size>>
  BY <1>2 DEF Listen
<1> QED BY <1>1, <1>2 DEF NbboNext, OnVenueDown

\* The listener is told of every change of the inside and of nothing else, and
\* what it was last told is the inside as it is.
THEOREM ListenerCorrect == NbboSpec => ListenerIsTold
<1>1. NbboInv => ListenerKnowsTheInside
  BY DEF NbboInv
<1>2. NbboSpec => []ListenerKnowsTheInside
  BY <1>1, InitInside, StepInside, PTL DEF NbboSpec
<1>3. NbboSpec => NewsIsAChange
  BY NewsOfAStep, InitInside, StepInside, PTL DEF NbboSpec, NewsIsAChange
<1> QED BY <1>2, <1>3 DEF ListenerIsTold

-----------------------------------------------------------------------------
(* The scorecard.                                                          *)

Places == 0..(PendingRing - 1)
Marks == [side : Int, mid : Int, at : Int, id : Nat]

(* How many fills ago, of a whole ring, place k was written when the cursor *)
(* is at c.                                                                *)
Age(c, k) == IF k >= c THEN k - c ELSE k - c + PendingRing

IdsDiffer(s) ==
  \A v, w \in Rated, j, k \in Places :
    s[v][j].side # 0 /\ s[v][j].id = s[w][k].id => v = w /\ j = k

Queued(s, c) ==
  \A v \in Rated, j, k \in Places :
    s[v][j].side # 0 /\ Age(c[v], j) < Age(c[v], k) =>
      s[v][k].side # 0 /\ s[v][j].id < s[v][k].id /\ s[v][j].at <= s[v][k].at

MarkOK(m, armed, now) ==
  (m.side # 0 <=> m.id # 0) /\ m.id <= armed /\ m.at <= now

RingOK(s, c, armed, now) ==
  /\ s \in [Rated -> [Places -> Marks]] /\ c \in [Rated -> Places]
  /\ armed \in Nat /\ now \in Nat
  /\ \A v \in Rated, k \in Places : MarkOK(s[v][k], armed, now)
  /\ IdsDiffer(s)
  /\ Queued(s, c)

IdsOf(s) == {s[v][k].id : v \in Rated, k \in Places} \ {0}

\* Writing at the cursor makes every other place one fill older.
LEMMA AgeAfterWriting ==
  ASSUME NEW c \in Places, NEW k \in Places
  PROVE  /\ (c + 1) % PendingRing \in Places
         /\ Age((c + 1) % PendingRing, k) = IF k = c THEN PendingRing - 1 ELSE Age(c, k) - 1
         /\ Age(c, k) \in Places
         /\ Age(c, k) = 0 <=> k = c
<1>1. PICK n \in Nat : n = PendingRing /\ n >= 1
  BY MarkoutAssumption
<1>2. c \in 0..(n - 1) /\ k \in 0..(n - 1)
  BY <1>1 DEF Places
<1>3. (c + 1) % n = IF c + 1 = n THEN 0 ELSE c + 1
  BY <1>1, <1>2
<1> QED BY <1>1, <1>2, <1>3 DEF Places, Age

(* s2 and c2 are s and c after mark m of venue u.                          *)
Wrote(s, c, u, m, s2, c2) ==
  /\ s2 \in [Rated -> [Places -> Marks]] /\ c2 \in [Rated -> Places]
  /\ \A v \in Rated, k \in Places :
       s2[v][k] = IF v = u /\ k = c[u] THEN m ELSE s[v][k]
  /\ \A v \in Rated : c2[v] = IF v = u THEN (c[u] + 1) % PendingRing ELSE c[v]

NewMark(m, armed, now) ==
  m \in Marks /\ m.side # 0 /\ m.id = armed + 1 /\ m.at = now

\* A ring kept in order of arrival stays so when the oldest place is written.
LEMMA RingTakesOne ==
  ASSUME NEW s, NEW c, NEW armed, NEW now, RingOK(s, c, armed, now),
         NEW u \in Rated, NEW m, NewMark(m, armed, now),
         NEW s2, NEW c2, Wrote(s, c, u, m, s2, c2)
  PROVE  RingOK(s2, c2, armed + 1, now)
<1> USE DEF NewMark, Wrote
<1>1. /\ s \in [Rated -> [Places -> Marks]] /\ c \in [Rated -> Places]
      /\ armed \in Nat /\ now \in Nat
  BY DEF RingOK
<1>2. \A v \in Rated, k \in Places : MarkOK(s[v][k], armed, now) /\ s[v][k] \in Marks /\ s2[v][k] \in Marks
  BY <1>1 DEF RingOK
<1>3. \A v \in Rated, k \in Places : s[v][k].id \in Nat /\ s[v][k].at \in Int
  BY <1>2 DEF Marks
<1>4. m.id \in Nat /\ m.at \in Int /\ m.id # 0 /\ c[u] \in Places
  BY <1>1 DEF Marks
<1>5. ASSUME NEW v \in Rated, NEW k \in Places PROVE MarkOK(s2[v][k], armed + 1, now)
  BY <1>1, <1>2, <1>3, <1>4 DEF MarkOK
<1>6. IdsDiffer(s2)
  <2>1. SUFFICES ASSUME NEW v \in Rated, NEW w \in Rated, NEW j \in Places, NEW k \in Places,
                        s2[v][j].side # 0, s2[v][j].id = s2[w][k].id
                 PROVE  v = w /\ j = k
    BY DEF IdsDiffer
  <2>2. s[v][j].id <= armed /\ s[w][k].id <= armed /\ m.id > armed
    BY <1>1, <1>2 DEF MarkOK
  <2>3. CASE v = u /\ j = c[u]
    BY <2>1, <2>2, <2>3, <1>1, <1>3
  <2>4. CASE ~(v = u /\ j = c[u])
    <3>1. s2[v][j] = s[v][j] /\ s[v][j].id # m.id
      BY <2>2, <2>4, <1>1, <1>3
    <3>2. s2[w][k] = s[w][k]
      BY <3>1, <2>1
    <3> QED BY <3>1, <3>2, <2>1 DEF RingOK, IdsDiffer
  <2> QED BY <2>3, <2>4
<1>7. Queued(s2, c2)
  <2>1. SUFFICES ASSUME NEW v \in Rated, NEW j \in Places, NEW k \in Places,
                        s2[v][j].side # 0, Age(c2[v], j) < Age(c2[v], k)
                 PROVE  s2[v][k].side # 0 /\ s2[v][j].id < s2[v][k].id /\ s2[v][j].at <= s2[v][k].at
    BY DEF Queued
  <2>2. Queued(s, c)
    BY DEF RingOK
  <2>3. CASE v # u
    <3>1. c2[v] = c[v] /\ s2[v][j] = s[v][j] /\ s2[v][k] = s[v][k]
      BY <2>3
    <3> QED BY <3>1, <2>1, <2>2 DEF Queued
  <2>4. CASE v = u
    <3>1. /\ Age(c2[u], j) = IF j = c[u] THEN PendingRing - 1 ELSE Age(c[u], j) - 1
          /\ Age(c2[u], k) = IF k = c[u] THEN PendingRing - 1 ELSE Age(c[u], k) - 1
          /\ Age(c[u], j) \in 0..(PendingRing - 1) /\ Age(c[u], k) \in 0..(PendingRing - 1)
      <4>1. c2[u] = (c[u] + 1) % PendingRing
        OBVIOUS
      <4>2. /\ Age((c[u] + 1) % PendingRing, j) = IF j = c[u] THEN PendingRing - 1 ELSE Age(c[u], j) - 1
            /\ Age((c[u] + 1) % PendingRing, k) = IF k = c[u] THEN PendingRing - 1 ELSE Age(c[u], k) - 1
            /\ Age(c[u], j) \in Places /\ Age(c[u], k) \in Places
        BY <1>4, AgeAfterWriting
      <4> QED BY <4>1, <4>2 DEF Places
    <3>2. j # c[u]
      BY <3>1, <2>1, <2>4, MarkoutAssumption
    <3>3. s2[u][j] = s[u][j]
      BY <3>2
    <3>4. CASE k = c[u]
      BY <3>3, <3>4, <2>4, <1>1, <1>2, <1>3, <1>4 DEF MarkOK
    <3>5. CASE k # c[u]
      <4>1. s2[u][k] = s[u][k] /\ Age(c[u], j) < Age(c[u], k)
        BY <3>1, <3>2, <3>5, <2>1, <2>4, MarkoutAssumption
      <4> QED BY <4>1, <3>3, <2>1, <2>2, <2>4 DEF Queued
    <3> QED BY <3>4, <3>5
  <2> QED BY <2>3, <2>4
<1> QED BY <1>1, <1>5, <1>6, <1>7 DEF RingOK

\* An id of the ring is that of a place, and not none.
LEMMA IdsAreOfPlaces ==
  \A s, i : i \in IdsOf(s) <=> i # 0 /\ \E v \in Rated, k \in Places : i = s[v][k].id
  BY DEF IdsOf

(* What the ring holds after a write, and what the write cost.             *)
WriteCost(s, c, u, armed, s2) ==
  /\ IdsOf(s2) = (IdsOf(s) \ {s[u][c[u]].id}) \cup {armed + 1}
  /\ s[u][c[u]].side # 0 =>
       /\ s[u][c[u]].id \in IdsOf(s)
       /\ {j \in Places : s[u][j].side # 0 /\ s[u][j].id > s[u][c[u]].id} = Places \ {c[u]}
  /\ s[u][c[u]].side = 0 => s[u][c[u]].id = 0

\* A write costs an empty place nothing, and a full ring its oldest id.
LEMMA WriteCosts ==
  ASSUME NEW s, NEW c, NEW armed, NEW now, RingOK(s, c, armed, now),
         NEW u \in Rated, NEW m, NewMark(m, armed, now),
         NEW s2, NEW c2, Wrote(s, c, u, m, s2, c2)
  PROVE  WriteCost(s, c, u, armed, s2)
<1> USE DEF NewMark, Wrote
<1>1. /\ s \in [Rated -> [Places -> Marks]] /\ c \in [Rated -> Places]
      /\ armed \in Nat /\ now \in Nat /\ IdsDiffer(s) /\ Queued(s, c)
  BY DEF RingOK
<1>2. \A v \in Rated, k \in Places : MarkOK(s[v][k], armed, now) /\ s[v][k] \in Marks
  BY <1>1 DEF RingOK
<1>3. \A v \in Rated, k \in Places : s[v][k].id \in Nat
  BY <1>2 DEF Marks
<1>4. c[u] \in Places
  BY <1>1
<1>5. ASSUME NEW i PROVE i \in IdsOf(s2) <=> i = armed + 1 \/ (i \in IdsOf(s) /\ i # s[u][c[u]].id)
  <2>1. CASE i \in IdsOf(s2)
    <3>1. PICK v \in Rated, k \in Places : i = s2[v][k].id /\ i # 0
      BY <2>1, IdsAreOfPlaces
    <3>2. CASE v = u /\ k = c[u]
      <4>1. s2[v][k] = m
        BY <3>2
      <4> QED BY <2>1, <3>1, <4>1
    <3>3. CASE ~(v = u /\ k = c[u])
      <4>1. i = s[v][k].id
        BY <3>1, <3>3
      <4>2. s[v][k].side # 0
        BY <1>2, <3>1, <4>1 DEF MarkOK
      <4>3. i # s[u][c[u]].id
        BY <1>1, <1>4, <3>3, <4>1, <4>2 DEF IdsDiffer
      <4> QED BY <4>1, <4>3, <3>1, IdsAreOfPlaces
    <3> QED BY <3>2, <3>3
  <2>2. CASE i = armed + 1
    <3>1. s2[u][c[u]] = m
      BY <1>4
    <3>2. armed + 1 # 0
      BY <1>1
    <3> QED BY <3>1, <3>2, <2>2, <1>4, IdsAreOfPlaces
  <2>3. CASE i \in IdsOf(s) /\ i # s[u][c[u]].id
    <3>1. PICK v \in Rated, k \in Places : i = s[v][k].id /\ i # 0
      BY <2>3, IdsAreOfPlaces
    <3>2. s2[v][k] = s[v][k]
      BY <3>1, <2>3
    <3> QED BY <3>1, <3>2, <2>3, IdsAreOfPlaces
  <2> QED BY <2>1, <2>2, <2>3
<1>6. ASSUME s[u][c[u]].side # 0
      PROVE  /\ s[u][c[u]].id \in IdsOf(s)
             /\ {j \in Places : s[u][j].side # 0 /\ s[u][j].id > s[u][c[u]].id} = Places \ {c[u]}
  <2>1. s[u][c[u]].id # 0 /\ s[u][c[u]].id \in Nat
    BY <1>2, <1>3, <1>4, <1>6 DEF MarkOK
  <2>2. s[u][c[u]].id \in IdsOf(s)
    BY <1>4, <2>1, IdsAreOfPlaces
  <2>3. ASSUME NEW j \in Places PROVE s[u][j].side # 0 /\ s[u][j].id > s[u][c[u]].id <=> j # c[u]
    <3>1. CASE j = c[u]
      BY <3>1, <2>1
    <3>2. CASE j # c[u]
      <4>1. Age(c[u], c[u]) = 0 /\ Age(c[u], j) # 0 /\ Age(c[u], j) \in Nat
        <5>1. /\ Age(c[u], c[u]) = 0 <=> c[u] = c[u]
              /\ Age(c[u], j) \in Places /\ (Age(c[u], j) = 0 <=> j = c[u])
          BY <1>4, AgeAfterWriting
        <5> QED BY <5>1, <3>2, MarkoutAssumption DEF Places
      <4>2. Age(c[u], c[u]) < Age(c[u], j)
        BY <4>1
      <4>3. s[u][j].side # 0 /\ s[u][c[u]].id < s[u][j].id
        BY <4>2, <1>1, <1>4, <1>6 DEF Queued
      <4> QED BY <4>3, <3>2, <2>1, <1>3
    <3> QED BY <3>1, <3>2
  <2> QED BY <2>2, <2>3
<1>7. s[u][c[u]].side = 0 => s[u][c[u]].id = 0
  BY <1>2, <1>4 DEF MarkOK
<1> QED BY <1>5, <1>6, <1>7 DEF WriteCost

IdsAt(s, due) == {s[x[1]][x[2]].id : x \in due}

(* s2 is s without what is due.                                            *)
Took(s, due, later, s2) ==
  /\ due \in SUBSET (Rated \X Places)
  /\ \A v \in Rated, k \in Places :
       <<v, k>> \in due <=> s[v][k].side # 0 /\ later - s[v][k].at >= Horizon
  /\ \A x \in due : s[x[1]][x[2]].side # 0
  /\ s2 \in [Rated -> [Places -> Marks]]
  /\ \A v \in Rated, k \in Places :
       s2[v][k] = IF <<v, k>> \in due THEN Empty ELSE s[v][k]

\* A mid takes from the ring the fills that are due, and leaves it in order:
\* the older of two fills of a venue is due no later.
LEMMA RingGivesUpDue ==
  ASSUME NEW s, NEW c, NEW armed, NEW now, RingOK(s, c, armed, now),
         NEW later \in Nat, later >= now,
         NEW due, NEW s2, Took(s, due, later, s2)
  PROVE  RingOK(s2, c, armed, later)
<1> USE DEF Took
<1>1. /\ s \in [Rated -> [Places -> Marks]] /\ c \in [Rated -> Places]
      /\ armed \in Nat /\ now \in Nat /\ IdsDiffer(s) /\ Queued(s, c)
  BY DEF RingOK
<1>2. \A v \in Rated, k \in Places :
        /\ MarkOK(s[v][k], armed, now) /\ s[v][k].id \in Nat /\ s[v][k].at \in Int
  BY <1>1 DEF RingOK, Marks
<1>3. Empty.side = 0 /\ Empty.id = 0 /\ Empty.at = 0
  BY DEF Empty
<1>4. ASSUME NEW v \in Rated, NEW k \in Places PROVE MarkOK(s2[v][k], armed, later)
  <2>1. MarkOK(s[v][k], armed, now) /\ s[v][k].id \in Nat /\ s[v][k].at \in Int
    BY <1>2
  <2>2. CASE <<v, k>> \in due
    <3>1. s2[v][k] = Empty
      BY <2>2
    <3>2. MarkOK(Empty, armed, later)
      BY <1>1, <1>3 DEF MarkOK
    <3> QED BY <3>1, <3>2
  <2>3. CASE <<v, k>> \notin due
    <3>1. s2[v][k] = s[v][k]
      BY <2>3
    <3>2. MarkOK(s[v][k], armed, later)
      BY <2>1, <1>1 DEF MarkOK
    <3> QED BY <3>1, <3>2
  <2> QED BY <2>2, <2>3
<1>5. ASSUME NEW v \in Rated, NEW k \in Places, s2[v][k].side # 0 PROVE s2[v][k] = s[v][k] /\ <<v, k>> \notin due
  BY <1>3, <1>5
<1>6. IdsDiffer(s2)
  <2>1. SUFFICES ASSUME NEW v \in Rated, NEW w \in Rated, NEW j \in Places, NEW k \in Places,
                        s2[v][j].side # 0, s2[v][j].id = s2[w][k].id
                 PROVE  v = w /\ j = k
    BY DEF IdsDiffer
  <2>2. s2[v][j] = s[v][j] /\ s[v][j].id # 0
    <3>1. s2[v][j] = s[v][j]
      BY <2>1, <1>5
    <3>2. MarkOK(s[v][j], armed, now)
      BY <1>2
    <3> QED BY <3>1, <3>2, <2>1 DEF MarkOK
  <2>3. s2[w][k] = s[w][k]
    BY <2>1, <2>2, <1>3
  <2> QED BY <2>1, <2>2, <2>3, <1>1 DEF IdsDiffer
<1>7. Queued(s2, c)
  <2>1. SUFFICES ASSUME NEW v \in Rated, NEW j \in Places, NEW k \in Places,
                        s2[v][j].side # 0, Age(c[v], j) < Age(c[v], k)
                 PROVE  s2[v][k].side # 0 /\ s2[v][j].id < s2[v][k].id /\ s2[v][j].at <= s2[v][k].at
    BY DEF Queued
  <2>2. s2[v][j] = s[v][j] /\ <<v, j>> \notin due
    BY <2>1, <1>5
  <2>3. s[v][k].side # 0 /\ s[v][j].id < s[v][k].id /\ s[v][j].at <= s[v][k].at
    BY <2>1, <2>2, <1>1 DEF Queued
  <2>4. ~(later - s[v][j].at >= Horizon)
    BY <2>1, <2>2
  <2>5. s[v][j].at \in Int /\ s[v][k].at \in Int /\ Horizon \in Int
    BY <1>2, MarkoutAssumption
  <2>6. <<v, k>> \notin due
    BY <2>3, <2>4, <2>5
  <2> QED BY <2>2, <2>3, <2>6
<1> QED BY <1>1, <1>4, <1>6, <1>7 DEF RingOK


\* There are as many fills due as ids that leave the ring.
LEMMA DueAreCounted ==
  ASSUME NEW s, NEW c, NEW armed, NEW now, RingOK(s, c, armed, now),
         NEW later, NEW due, NEW s2, Took(s, due, later, s2)
  PROVE  /\ IdsOf(s2) = IdsOf(s) \ IdsAt(s, due) /\ IdsAt(s, due) \subseteq IdsOf(s)
         /\ Cardinality(due) = Cardinality(IdsAt(s, due))
<1> USE DEF Took
<1>0. PICK ids : ids = IdsAt(s, due) /\ ids = {s[x[1]][x[2]].id : x \in due}
  BY DEF IdsAt
<1>1. IdsDiffer(s) /\ \A v \in Rated, k \in Places : MarkOK(s[v][k], armed, now)
  BY DEF RingOK
<1>2. ASSUME NEW x \in due PROVE x[1] \in Rated /\ x[2] \in Places /\ x = <<x[1], x[2]>>
  OBVIOUS
<1>3. ids \subseteq IdsOf(s)
  BY <1>0, <1>1, <1>2, IdsAreOfPlaces DEF MarkOK
<1>4. ASSUME NEW i PROVE i \in IdsOf(s2) <=> i \in IdsOf(s) /\ i \notin ids
  <2>1. CASE i \in IdsOf(s2)
    <3>1. PICK v \in Rated, k \in Places : i = s2[v][k].id /\ i # 0
      BY <2>1, IdsAreOfPlaces
    <3>2. <<v, k>> \notin due /\ i = s[v][k].id
      BY <3>1 DEF Empty
    <3>3. ASSUME NEW x \in due PROVE s[x[1]][x[2]].id # i
      BY <1>1, <1>2, <3>1, <3>2 DEF IdsDiffer
    <3> QED BY <2>1, <3>1, <3>2, <3>3, <1>0, IdsAreOfPlaces
  <2>2. CASE i \in IdsOf(s) /\ i \notin ids
    <3>1. PICK v \in Rated, k \in Places : i = s[v][k].id /\ i # 0
      BY <2>2, IdsAreOfPlaces
    <3>2. <<v, k>> \notin due
      <4>1. SUFFICES ASSUME <<v, k>> \in due PROVE FALSE
        OBVIOUS
      <4>2. s[<<v, k>>[1]][<<v, k>>[2]].id \in ids
        BY <4>1, <1>0
      <4> QED BY <4>2, <3>1, <2>2
    <3>3. i = s2[v][k].id
      BY <3>1, <3>2
    <3> QED BY <3>1, <3>3, <2>2, IdsAreOfPlaces
  <2> QED BY <2>1, <2>2
<1>5. Cardinality(due) = Cardinality(ids)
  <2> DEFINE f == [x \in due |-> s[x[1]][x[2]].id]
  <2>1. f \in [due -> ids] /\ \A i \in ids : \E x \in due : f[x] = i
    BY <1>0
  <2>2. ASSUME NEW x \in due, NEW y \in due, f[x] = f[y] PROVE x = y
    <3>1. s[x[1]][x[2]].id = s[y[1]][y[2]].id /\ s[x[1]][x[2]].side # 0
      BY <2>2
    <3>2. PICK v \in Rated, j \in Places, w \in Rated, k \in Places : x = <<v, j>> /\ y = <<w, k>>
      BY <1>2
    <3>3. s[v][j].id = s[w][k].id /\ s[v][j].side # 0
      BY <3>1, <3>2
    <3>4. v = w /\ j = k
      BY <3>3, <1>1 DEF IdsDiffer
    <3> QED BY <3>2, <3>4
  <2>3. IsFiniteSet(due)
    <3>1. IsFiniteSet(Rated) /\ IsFiniteSet(Places)
      BY MarkoutAssumption, FS_Interval DEF Places
    <3>2. IsFiniteSet(Rated \X Places)
      BY <3>1, FS_Product
    <3> QED BY <3>2, FS_Subset
  <2> HIDE DEF f
  <2>4. f \in Bijection(due, ids)
    BY <2>1, <2>2 DEF Bijection, Injection, Surjection, IsInjective
  <2>5. ExistsBijection(due, ids)
    BY <2>4 DEF ExistsBijection
  <2> QED BY <2>3, <2>5, FS_Bijection
<1> QED BY <1>0, <1>3, <1>4, <1>5

RingShape(r) ==
  r = [slot |-> r.slot, cursor |-> r.cursor, pending |-> r.pending, count |-> r.count,
       ewma |-> r.ewma, matured |-> r.matured, armed |-> r.armed, lost |-> r.lost,
       judged |-> r.judged]

(* The accounts of the fills armed, ids of those pending given.            *)
Accounts(ids, pending, judged, matured, lost, armed) ==
  /\ pending = Cardinality(ids) /\ matured = Cardinality(judged)
  /\ judged \subseteq 1..armed
  /\ ids \cap judged = {}
  /\ \A l \in lost : /\ l.id \in 1..armed /\ l.id \notin ids /\ l.id \notin judged
                      /\ l.younger = PendingRing - 1

RingInv(r, now) ==
  /\ RingShape(r)
  /\ RingOK(r.slot, r.cursor, r.armed, now)
  /\ Accounts(IdsOf(r.slot), r.pending, r.judged, r.matured, r.lost, r.armed)

\* The invariant is strong enough.
LEMMA RingIsAccounted == ASSUME NEW r, NEW now, RingInv(r, now) PROVE Accounted(r)
<1>1. PendingIds(r) = IdsOf(r.slot)
  BY DEF PendingIds, IdsOf, Places
<1>2. Accounts(IdsOf(r.slot), r.pending, r.judged, r.matured, r.lost, r.armed)
  BY DEF RingInv
<1> QED BY <1>1, <1>2 DEF Accounted, Accounts

(* The numbers up to one number are finitely many.                         *)
LEMMA UpToIsFinite ==
  ASSUME NEW n \in Nat
  PROVE  IsFiniteSet(1..n)
<1>1. 1 \in Int /\ n \in Int
  OBVIOUS
<1> QED BY <1>1, FS_Interval


\* The ids pending are finitely many, and none is of the future.
LEMMA IdsAreFinite ==
  ASSUME NEW s, NEW c, NEW armed, NEW now, RingOK(s, c, armed, now)
  PROVE  armed \in Nat /\ IdsOf(s) \subseteq 1..armed /\ IsFiniteSet(IdsOf(s))
<1>1. armed \in Nat /\ \A v \in Rated, k \in Places : s[v][k].id \in Nat /\ MarkOK(s[v][k], armed, now)
  BY DEF RingOK, Marks
<1>2. IdsOf(s) \subseteq 1..armed
  BY <1>1, IdsAreOfPlaces DEF MarkOK
<1>3. IsFiniteSet(1..armed)
  BY <1>1, UpToIsFinite
<1> QED BY <1>1, <1>2, <1>3, FS_Subset

(* What Arm makes of each field.                                           *)
ArmMakes(r, v, m, old, q) ==
  /\ RingShape(q)
  /\ q.slot = [r.slot EXCEPT ![v] = [r.slot[v] EXCEPT ![r.cursor[v]] = m]]
  /\ q.cursor = [r.cursor EXCEPT ![v] = (r.cursor[v] + 1) % PendingRing]
  /\ q.armed = r.armed + 1
  /\ q.pending = IF old.side = 0 THEN r.pending + 1 ELSE r.pending
  /\ q.judged = r.judged /\ q.matured = r.matured
  /\ q.lost = IF old.side = 0 THEN r.lost
              ELSE r.lost \cup {[id |-> old.id, venue |-> v, younger |->
                Cardinality({j \in Places : r.slot[v][j].side # 0 /\ r.slot[v][j].id > old.id})]}

LEMMA ArmIs ==
  ASSUME NEW r, RingShape(r), NEW v, NEW side, NEW mid, NEW now
  PROVE  ArmMakes(r, v, [side |-> side, mid |-> mid, at |-> now, id |-> r.armed + 1],
                  r.slot[v][r.cursor[v]], Arm(r, v, side, mid, now))
<1>1. PICK q, old : q = Arm(r, v, side, mid, now) /\ old = r.slot[v][r.cursor[v]]
  OBVIOUS
<1>2. /\ RingShape(q)
      /\ q.slot = [r.slot EXCEPT ![v] = [r.slot[v] EXCEPT ![r.cursor[v]] =
                     [side |-> side, mid |-> mid, at |-> now, id |-> r.armed + 1]]]
      /\ q.cursor = [r.cursor EXCEPT ![v] = (r.cursor[v] + 1) % PendingRing]
      /\ q.armed = r.armed + 1
      /\ q.pending = IF old.side = 0 THEN r.pending + 1 ELSE r.pending
      /\ q.judged = r.judged /\ q.matured = r.matured
      /\ q.lost = IF old.side = 0 THEN r.lost
                  ELSE r.lost \cup {[id |-> old.id, venue |-> v, younger |->
                    Cardinality({j \in Places : r.slot[v][j].side # 0 /\ r.slot[v][j].id > old.id})]}
  BY <1>1 DEF Arm, RingShape, Places
<1> QED BY <1>1, <1>2 DEF ArmMakes

(* What OnMid makes of each field.                                         *)
OnMidMakes(r, due, q) ==
  /\ RingShape(q)
  /\ q.slot = [v \in Rated |-> [k \in Places |->
                 IF <<v, k>> \in due THEN Empty ELSE r.slot[v][k]]]
  /\ q.cursor = r.cursor /\ q.armed = r.armed /\ q.lost = r.lost
  /\ q.pending = r.pending - Cardinality(due)
  /\ q.matured = r.matured + Cardinality(due)
  /\ q.judged = r.judged \cup IdsAt(r.slot, due)

LEMMA OnMidIs ==
  ASSUME NEW r, RingShape(r), NEW mid, NEW now
  PROVE  OnMidMakes(r, {x \in Rated \X Places : Due(r, x[1], x[2], now)}, OnMid(r, mid, now))
<1>1. PICK q, due : /\ q = OnMid(r, mid, now)
                    /\ due = {x \in Rated \X Places : Due(r, x[1], x[2], now)}
  OBVIOUS
<1>2. /\ RingShape(q)
      /\ q.slot = [v \in Rated |-> [k \in Places |->
                     IF <<v, k>> \in due THEN Empty ELSE r.slot[v][k]]]
      /\ q.cursor = r.cursor /\ q.armed = r.armed /\ q.lost = r.lost
      /\ q.pending = r.pending - Cardinality(due)
      /\ q.matured = r.matured + Cardinality(due)
      /\ q.judged = r.judged \cup {r.slot[x[1]][x[2]].id : x \in due}
  BY <1>1 DEF OnMid, RingShape, Places, Cleared
<1> QED BY <1>1, <1>2 DEF OnMidMakes, IdsAt

\* A fill that is armed is the youngest of its venue; of a full ring the
\* oldest is lost to it.
LEMMA ArmKeeps ==
  ASSUME NEW r, NEW now, RingInv(r, now), NEW u \in Rated, NEW side \in {-1, 1}, NEW mid \in Nat
  PROVE  RingInv(Arm(r, u, side, mid, now), now)
<1> DEFINE s == r.slot
           old == s[u][r.cursor[u]]
           m == [side |-> side, mid |-> mid, at |-> now, id |-> r.armed + 1]
           younger == Cardinality({j \in Places : s[u][j].side # 0 /\ s[u][j].id > old.id})
<1>1. PICK q : q = Arm(r, u, side, mid, now)
  OBVIOUS
<1>2. /\ RingShape(r) /\ RingOK(s, r.cursor, r.armed, now)
      /\ Accounts(IdsOf(s), r.pending, r.judged, r.matured, r.lost, r.armed)
  BY DEF RingInv
<1>3. /\ RingShape(q)
      /\ q.slot = [s EXCEPT ![u] = [s[u] EXCEPT ![r.cursor[u]] = m]]
      /\ q.cursor = [r.cursor EXCEPT ![u] = (r.cursor[u] + 1) % PendingRing]
      /\ q.armed = r.armed + 1
      /\ q.pending = IF old.side = 0 THEN r.pending + 1 ELSE r.pending
      /\ q.judged = r.judged /\ q.matured = r.matured
      /\ q.lost = IF old.side = 0 THEN r.lost
                  ELSE r.lost \cup {[id |-> old.id, venue |-> u, younger |-> younger]}
  <2>1. ArmMakes(r, u, m, old, q)
    BY <1>1, <1>2, ArmIs
  <2> QED BY <2>1 DEF ArmMakes
<1>4. /\ s \in [Rated -> [Places -> Marks]] /\ r.cursor \in [Rated -> Places]
      /\ r.armed \in Nat /\ now \in Nat
  BY <1>2 DEF RingOK
<1>5. m \in Marks /\ m.side # 0 /\ m.id = r.armed + 1 /\ m.at = now
  BY <1>4 DEF Marks
<1> HIDE DEF m
<1>6. \A v \in Rated, k \in Places :
        q.slot[v][k] = IF v = u /\ k = r.cursor[u] THEN m ELSE s[v][k]
  <2>1. PICK row : row = [s[u] EXCEPT ![r.cursor[u]] = m]
    OBVIOUS
  <2>2. \A k \in Places : row[k] = IF k = r.cursor[u] THEN m ELSE s[u][k]
    BY <2>1, <1>4
  <2>3. q.slot = [s EXCEPT ![u] = row]
    BY <2>1, <1>3
  <2>4. \A v \in Rated : q.slot[v] = IF v = u THEN row ELSE s[v]
    BY <2>3, <1>4
  <2> QED BY <2>2, <2>4
<1>7. q.slot \in [Rated -> [Places -> Marks]]
  <2>1. PICK row : row = [s[u] EXCEPT ![r.cursor[u]] = m]
    OBVIOUS
  <2>2. s[u] \in [Places -> Marks]
    BY <1>4
  <2>3. row \in [Places -> Marks]
    BY <2>1, <2>2, <1>5
  <2>4. q.slot = [s EXCEPT ![u] = row]
    BY <2>1, <1>3
  <2> QED BY <2>3, <2>4, <1>4
<1>8. r.cursor[u] \in Places /\ (r.cursor[u] + 1) % PendingRing \in Places
  <2>1. PICK place \in Places : place = r.cursor[u]
    BY <1>4
  <2>2. (place + 1) % PendingRing \in Places
    BY AgeAfterWriting
  <2> QED BY <2>1, <2>2
<1>9. /\ q.cursor \in [Rated -> Places]
      /\ \A v \in Rated : q.cursor[v] = IF v = u THEN (r.cursor[u] + 1) % PendingRing ELSE r.cursor[v]
  BY <1>3, <1>4, <1>8
<1>10. RingOK(q.slot, q.cursor, r.armed + 1, now)
  <2>1. Wrote(s, r.cursor, u, m, q.slot, q.cursor) /\ NewMark(m, r.armed, now)
    BY <1>5, <1>6, <1>7, <1>9 DEF Wrote, NewMark
  <2> QED BY <2>1, <1>2, RingTakesOne
<1>11. /\ IdsOf(q.slot) = (IdsOf(s) \ {old.id}) \cup {r.armed + 1}
       /\ old.side # 0 =>
            /\ old.id \in IdsOf(s)
            /\ {j \in Places : s[u][j].side # 0 /\ s[u][j].id > old.id} = Places \ {r.cursor[u]}
       /\ old.side = 0 => old.id = 0
  <2>1. Wrote(s, r.cursor, u, m, q.slot, q.cursor) /\ NewMark(m, r.armed, now)
    BY <1>5, <1>6, <1>7, <1>9 DEF Wrote, NewMark
  <2>2. WriteCost(s, r.cursor, u, r.armed, q.slot)
    BY <2>1, <1>2, WriteCosts
  <2> QED BY <2>2 DEF WriteCost
<1>12. IdsOf(s) \subseteq 1..r.armed /\ IsFiniteSet(IdsOf(s)) /\ Cardinality(IdsOf(s)) \in Nat
  BY <1>2, IdsAreFinite, FS_CardinalityType
<1>13. Accounts(IdsOf(q.slot), q.pending, q.judged, q.matured, q.lost, q.armed)
  <2> DEFINE ids == IdsOf(s)
             judged == r.judged
  <2>1. /\ r.pending = Cardinality(ids) /\ r.matured = Cardinality(judged)
        /\ judged \subseteq 1..r.armed /\ ids \cap judged = {}
        /\ \A l \in r.lost : /\ l.id \in 1..r.armed /\ l.id \notin ids /\ l.id \notin judged
                              /\ l.younger = PendingRing - 1
    BY <1>2 DEF Accounts
  <2>2. r.armed + 1 \notin 1..r.armed /\ r.armed + 1 \in 1..(r.armed + 1) /\ 1..r.armed \subseteq 1..(r.armed + 1)
    BY <1>4
  <2>3. CASE old.side = 0
    <3>1. IdsOf(q.slot) = ids \cup {r.armed + 1}
      BY <2>3, <1>11, <1>12
    <3>2. Cardinality(IdsOf(q.slot)) = Cardinality(ids) + 1
      BY <3>1, <1>12, <2>2, FS_AddElement
    <3> QED BY <3>1, <3>2, <2>1, <2>2, <2>3, <1>3 DEF Accounts
  <2>4. CASE old.side # 0
    <3>1. IdsOf(q.slot) = (ids \ {old.id}) \cup {r.armed + 1} /\ old.id \in ids
      BY <2>4, <1>11
    <3>2. IsFiniteSet(ids \ {old.id}) /\ Cardinality(ids \ {old.id}) = Cardinality(ids) - 1
      BY <3>1, <1>12, FS_RemoveElement
    <3>3. Cardinality(IdsOf(q.slot)) = Cardinality(ids)
      <4>1. r.armed + 1 \notin ids \ {old.id}
        BY <2>2, <1>12
      <4>2. Cardinality((ids \ {old.id}) \cup {r.armed + 1}) = Cardinality(ids \ {old.id}) + 1
        BY <4>1, <3>2, FS_AddElement
      <4>3. PICK count \in Int : count = Cardinality(ids)
        BY <1>12
      <4>4. Cardinality(IdsOf(q.slot)) = count - 1 + 1
        BY <4>2, <4>3, <3>1, <3>2
      <4> QED BY <4>3, <4>4
    <3>4. younger = PendingRing - 1
      <4>1. IsFiniteSet(Places) /\ Cardinality(Places) = PendingRing
        BY MarkoutAssumption, FS_Interval DEF Places
      <4>2. Cardinality(Places \ {r.cursor[u]}) = PendingRing - 1
        BY <4>1, <1>8, FS_RemoveElement
      <4> QED BY <4>2, <1>11, <2>4
    <3> HIDE DEF younger
    <3>5. PICK l : l = [id |-> old.id, venue |-> u, younger |-> younger]
      OBVIOUS
    <3>6. l.id = old.id /\ l.younger = PendingRing - 1 /\ q.lost = r.lost \cup {l}
      BY <3>4, <3>5, <1>3, <2>4
    <3>7. old.id \in 1..r.armed /\ old.id \notin judged /\ old.id \notin IdsOf(q.slot)
      BY <3>1, <2>1, <2>2, <1>12
    <3> HIDE DEF old
    <3>8. \A x \in q.lost : /\ x.id \in 1..(r.armed + 1) /\ x.id \notin IdsOf(q.slot) /\ x.id \notin judged
                            /\ x.younger = PendingRing - 1
      BY <3>1, <3>6, <3>7, <2>1, <2>2
    <3>9. IdsOf(q.slot) \cap judged = {} /\ judged \subseteq 1..(r.armed + 1)
      BY <3>1, <2>1, <2>2
    <3> QED BY <3>3, <3>8, <3>9, <2>1, <2>4, <1>3 DEF Accounts
  <2> QED BY <2>3, <2>4
<1> QED BY <1>1, <1>3, <1>10, <1>13 DEF RingInv


\* A mid judges what is due and nothing else.
LEMMA OnMidKeeps ==
  ASSUME NEW r, NEW now, RingInv(r, now), NEW mid, NEW later \in Nat, later >= now
  PROVE  RingInv(OnMid(r, mid, later), later)
<1> DEFINE s == r.slot
           judged == r.judged
<1>1. PICK q : q = OnMid(r, mid, later)
  OBVIOUS
<1>2. PICK due : due = {x \in Rated \X Places : Due(r, x[1], x[2], later)}
  OBVIOUS
<1>3. PICK ids : ids = IdsAt(s, due)
  OBVIOUS
<1>4. /\ RingShape(r) /\ RingOK(s, r.cursor, r.armed, now)
      /\ Accounts(IdsOf(s), r.pending, judged, r.matured, r.lost, r.armed)
  BY DEF RingInv
<1>5. /\ RingShape(q)
      /\ q.slot = [v \in Rated |-> [k \in Places |-> IF <<v, k>> \in due THEN Empty ELSE s[v][k]]]
      /\ q.cursor = r.cursor /\ q.armed = r.armed /\ q.lost = r.lost
      /\ q.pending = r.pending - Cardinality(due)
      /\ q.matured = r.matured + Cardinality(due)
      /\ q.judged = judged \cup ids
  <2>1. OnMidMakes(r, due, q)
    BY <1>1, <1>2, <1>4, OnMidIs
  <2> QED BY <2>1, <1>3 DEF OnMidMakes
<1>6. s \in [Rated -> [Places -> Marks]] /\ r.armed \in Nat
  BY <1>4 DEF RingOK
<1>7. Empty \in Marks
  BY DEF Empty, Marks
<1>8. /\ q.slot \in [Rated -> [Places -> Marks]]
      /\ \A v \in Rated, k \in Places : q.slot[v][k] = IF <<v, k>> \in due THEN Empty ELSE s[v][k]
  BY <1>5, <1>6, <1>7
<1>9. /\ due \in SUBSET (Rated \X Places)
      /\ \A v \in Rated, k \in Places : <<v, k>> \in due <=> s[v][k].side # 0 /\ later - s[v][k].at >= Horizon
      /\ \A x \in due : s[x[1]][x[2]].side # 0
  BY <1>2 DEF Due
<1>10. RingOK(q.slot, q.cursor, q.armed, later)
  <2>1. Took(s, due, later, q.slot)
    BY <1>8, <1>9 DEF Took
  <2>2. RingOK(q.slot, r.cursor, r.armed, later)
    BY <2>1, <1>4, RingGivesUpDue
  <2> QED BY <2>2, <1>5
<1>11. /\ IdsOf(q.slot) = IdsOf(s) \ ids /\ ids \subseteq IdsOf(s)
       /\ Cardinality(due) = Cardinality(ids)
  <2>1. Took(s, due, later, q.slot)
    BY <1>8, <1>9 DEF Took
  <2> QED BY <2>1, <1>3, <1>4, DueAreCounted
<1>12. /\ IdsOf(s) \subseteq 1..r.armed /\ IsFiniteSet(IdsOf(s))
       /\ IsFiniteSet(ids) /\ Cardinality(ids) \in Nat /\ Cardinality(IdsOf(s)) \in Nat
  BY <1>4, <1>11, IdsAreFinite, FS_CardinalityType, FS_Subset
<1>13. /\ r.pending = Cardinality(IdsOf(s)) /\ r.matured = Cardinality(judged)
       /\ judged \subseteq 1..r.armed /\ IdsOf(s) \cap judged = {}
       /\ \A l \in r.lost : /\ l.id \in 1..r.armed /\ l.id \notin IdsOf(s) /\ l.id \notin judged
                             /\ l.younger = PendingRing - 1
  BY <1>4 DEF Accounts
<1>14. Cardinality(IdsOf(s) \ ids) = Cardinality(IdsOf(s)) - Cardinality(ids)
  <2>1. ids \cup (IdsOf(s) \ ids) = IdsOf(s) /\ ids \cap (IdsOf(s) \ ids) = {}
    BY <1>11
  <2>2. IsFiniteSet(IdsOf(s) \ ids) /\ Cardinality(IdsOf(s) \ ids) \in Nat
    BY <1>12, FS_Subset, FS_CardinalityType
  <2>3. Cardinality(IdsOf(s)) = Cardinality(ids) + Cardinality(IdsOf(s) \ ids) - Cardinality({})
    BY <2>1, <2>2, <1>12, FS_Union
  <2> QED BY <2>2, <2>3, <1>12, FS_EmptySet
<1>15. Cardinality(judged \cup ids) = Cardinality(judged) + Cardinality(ids)
  <2>1. IsFiniteSet(judged) /\ Cardinality(judged) \in Nat
    <3>1. PICK n \in Nat : n = r.armed
      BY <1>6
    <3>2. IsFiniteSet(1..n)
      BY <3>1, UpToIsFinite
    <3>3. IsFiniteSet(judged)
      <4>1. judged \subseteq 1..n
        BY <3>1, <1>13, Zenon
      <4> QED BY <3>2, <4>1, FS_Subset
    <3> QED BY <3>3, FS_CardinalityType
  <2>2. judged \cap ids = {}
    BY <1>11, <1>13
  <2>3. Cardinality(judged \cup ids) = Cardinality(judged) + Cardinality(ids) - Cardinality({})
    BY <2>1, <2>2, <1>12, FS_Union
  <2> QED BY <2>1, <2>3, <1>12, FS_EmptySet
<1>16. Accounts(IdsOf(q.slot), q.pending, q.judged, q.matured, q.lost, q.armed)
  BY <1>5, <1>11, <1>12, <1>13, <1>14, <1>15 DEF Accounts
<1> QED BY <1>1, <1>5, <1>10, <1>16 DEF RingInv


\* A ring restored holds nothing, and forgets none of what was judged.
LEMMA EmptyRing ==
  ASSUME NEW s, s = [v \in Rated |-> [k \in Places |-> Empty]],
         NEW c, c = [v \in Rated |-> 0], NEW armed \in Nat, NEW now \in Nat
  PROVE  RingOK(s, c, armed, now) /\ IdsOf(s) = {}
<1>1. Empty \in Marks /\ Empty.side = 0 /\ Empty.id = 0 /\ Empty.at = 0
  BY DEF Empty, Marks
<1>2. 0 \in Places
  BY MarkoutAssumption DEF Places
<1>3. \A v \in Rated, k \in Places : s[v][k] = Empty
  OBVIOUS
<1>4. s \in [Rated -> [Places -> Marks]] /\ c \in [Rated -> Places]
  BY <1>1, <1>2
<1>5. MarkOK(Empty, armed, now)
  BY <1>1 DEF MarkOK
<1>6. \A v \in Rated, k \in Places : MarkOK(s[v][k], armed, now) /\ s[v][k].side = 0 /\ s[v][k].id = 0
  BY <1>1, <1>3, <1>5
<1>7. IdsDiffer(s) /\ Queued(s, c)
  BY <1>6 DEF IdsDiffer, Queued
<1>8. IdsOf(s) = {}
  BY <1>6, IdsAreOfPlaces
<1> QED BY <1>4, <1>6, <1>7, <1>8 DEF RingOK

\* Nothing in a ring depends on how late it is.
LEMMA TimeMayPass ==
  ASSUME NEW r, NEW now, RingInv(r, now), NEW later \in Nat, later >= now
  PROVE  RingInv(r, later)
<1>1. RingOK(r.slot, r.cursor, r.armed, now) /\ now \in Nat
  BY DEF RingInv, RingOK
<1>2. ASSUME NEW v \in Rated, NEW k \in Places PROVE MarkOK(r.slot[v][k], r.armed, later)
  <2>1. MarkOK(r.slot[v][k], r.armed, now) /\ r.slot[v][k].at \in Int
    BY <1>1 DEF RingOK, Marks
  <2> QED BY <2>1, <1>1 DEF MarkOK
<1>3. RingOK(r.slot, r.cursor, r.armed, later)
  BY <1>1, <1>2 DEF RingOK
<1> QED BY <1>3 DEF RingInv

\* A card restored, whatever its version, has nothing pending.
LEMMA RestoredKeeps ==
  ASSUME NEW r, NEW now \in Nat, RingInv(r, now)
  PROVE  /\ RingInv(Restored(r), now)
         /\ RingInv([Restored(r) EXCEPT !.count = NewRing(Rated).count, !.ewma = NewRing(Rated).ewma,
                                        !.matured = 0, !.judged = {}], now)
<1>1. PICK q, o : /\ q = Restored(r)
                  /\ o = [q EXCEPT !.count = NewRing(Rated).count, !.ewma = NewRing(Rated).ewma,
                                   !.matured = 0, !.judged = {}]
  OBVIOUS
<1>2. /\ RingShape(r) /\ r.armed \in Nat
      /\ Accounts(IdsOf(r.slot), r.pending, r.judged, r.matured, r.lost, r.armed)
  BY DEF RingInv, RingOK
<1>3. PICK s, c : s = [v \in Rated |-> [k \in Places |-> Empty]] /\ c = [v \in Rated |-> 0]
  OBVIOUS
<1>4. NewRing(Rated).slot = s /\ NewRing(Rated).cursor = c
  BY <1>3 DEF NewRing, Places
<1>5. /\ RingShape(q) /\ q.slot = s /\ q.cursor = c /\ q.pending = 0 /\ q.armed = r.armed
      /\ q.lost = r.lost /\ q.judged = r.judged /\ q.matured = r.matured
  BY <1>1, <1>2, <1>4 DEF Restored, RingShape
<1>6. /\ RingShape(o) /\ o.slot = s /\ o.cursor = c /\ o.pending = 0 /\ o.armed = r.armed
      /\ o.lost = r.lost /\ o.judged = {} /\ o.matured = 0
  BY <1>1, <1>5 DEF RingShape
<1>7. RingOK(s, c, r.armed, now) /\ IdsOf(s) = {}
  BY <1>2, <1>3, EmptyRing
<1>8. Cardinality({}) = 0
  BY FS_EmptySet
<1>9. /\ Accounts({}, 0, r.judged, r.matured, r.lost, r.armed)
      /\ Accounts({}, 0, {}, 0, r.lost, r.armed)
  BY <1>2, <1>8 DEF Accounts
<1>10. RingInv(q, now)
  BY <1>5, <1>7, <1>9 DEF RingInv
<1>11. RingInv(o, now)
  BY <1>6, <1>7, <1>8, <1>9 DEF RingInv
<1> QED BY <1>1, <1>10, <1>11

Cards == [sent : Nat, filled : Nat, rate : Int, latency : Int, probes : Nat, hidden : Int]

(* A venue that never missed has a rate between the prior and one.         *)
CardOK(c) ==
  /\ c \in Cards /\ c.filled <= c.sent
  /\ c.filled = c.sent /\ c.sent # 0 => Prior <= c.rate /\ c.rate <= CardUnit

\* A blend of two integers lies between them.
LEMMA BlendIsBetween ==
  ASSUME NEW old \in Int, NEW x \in Int
  PROVE  /\ Blend(old, x) \in Int
         /\ old <= x => old <= Blend(old, x) /\ Blend(old, x) <= x
<1>1. PICK d \in Int : d = x - old
  OBVIOUS
<1>2. d \div 2 \in Int /\ (d >= 0 => 0 <= d \div 2 /\ d \div 2 <= d)
  OBVIOUS
<1>3. Blend(old, x) = old + d \div 2
  BY <1>1 DEF Blend
<1> QED BY <1>1, <1>2, <1>3

\* An answer keeps a card: success never scores below never tried.
LEMMA ReturnedKeeps ==
  ASSUME NEW c, CardOK(c), NEW response \in Nat, NEW fill \in {0, 1}
  PROVE  CardOK(Returned(c, response, fill))
<1>1. c \in Cards /\ CardUnit \in Nat /\ Prior \in Nat /\ Prior <= CardUnit
  BY MarkoutAssumption, SorAssumption DEF CardOK
<1>2. PICK slow \in Nat : slow = response * CardUnit
  BY <1>1, ProductOfNaturals
<1>3. PICK score \in Nat : score = fill * CardUnit /\ (fill = 1 => score = CardUnit)
  <2>1. 0 * CardUnit = 0 /\ 1 * CardUnit = CardUnit
    BY <1>1
  <2> QED BY <2>1, <1>1
<1>4. PICK s : s = Seeded(c, response)
  OBVIOUS
<1>5. /\ s \in Cards /\ s.sent = c.sent /\ s.filled = c.filled
      /\ c.sent = 0 => s.rate = Prior
      /\ c.sent # 0 => s.rate = c.rate
  <2>1. CASE c.sent = 0
    <3>1. PICK prior \in Int, first \in Int : prior = Prior /\ first = slow
      BY <1>1
    <3>2. s = [c EXCEPT !.rate = prior, !.latency = first]
      BY <3>1, <2>1, <1>2, <1>4 DEF Seeded
    <3>3. s \in Cards /\ s.sent = c.sent /\ s.filled = c.filled /\ s.rate = prior
      BY <3>2, <1>1 DEF Cards
    <3> QED BY <3>1, <3>3, <2>1
  <2>2. CASE c.sent # 0
    BY <2>2, <1>1, <1>4 DEF Seeded
  <2> QED BY <2>1, <2>2
<1>6. s.rate \in Int /\ s.latency \in Int /\ s.sent \in Nat /\ s.filled \in Nat
  BY <1>5 DEF Cards
<1>7. PICK was \in Int, wait \in Int : was = s.rate /\ wait = s.latency
  BY <1>6
<1>8. PICK rate \in Int, latency \in Int :
        /\ rate = Blend(was, score) /\ latency = Blend(wait, slow)
        /\ was <= score => was <= rate /\ rate <= score
  <2>1. /\ Blend(was, score) \in Int
        /\ was <= score => was <= Blend(was, score) /\ Blend(was, score) <= score
    BY BlendIsBetween
  <2>2. Blend(wait, slow) \in Int
    BY BlendIsBetween
  <2> QED BY <2>1, <2>2
<1>9. PICK q : q = Returned(c, response, fill)
  OBVIOUS
<1>10. q = [s EXCEPT !.sent = @ + 1, !.filled = @ + fill, !.rate = rate, !.latency = latency]
  BY <1>2, <1>3, <1>4, <1>7, <1>8, <1>9 DEF Returned
<1>11. /\ q \in Cards /\ q.sent = c.sent + 1 /\ q.filled = c.filled + fill /\ q.rate = rate
  <2>1. PICK sent \in Nat, filled \in Nat : sent = s.sent + 1 /\ filled = s.filled + fill
    BY <1>6
  <2>2. q = [s EXCEPT !.sent = sent, !.filled = filled, !.rate = rate, !.latency = latency]
    BY <2>1, <1>10
  <2>3. q \in Cards /\ q.sent = sent /\ q.filled = filled /\ q.rate = rate
    BY <2>2, <1>5 DEF Cards
  <2> QED BY <2>1, <2>3, <1>5
<1>12. c.filled <= c.sent /\ (c.filled = c.sent /\ c.sent # 0 => Prior <= c.rate /\ c.rate <= CardUnit)
  BY DEF CardOK
<1>13. q.filled <= q.sent
  BY <1>5, <1>6, <1>11, <1>12
<1>14. ASSUME q.filled = q.sent PROVE Prior <= q.rate /\ q.rate <= CardUnit
  <2>1. fill = 1 /\ c.filled = c.sent
    BY <1>14, <1>5, <1>6, <1>11, <1>12
  <2>2. Prior <= s.rate /\ s.rate <= CardUnit
    BY <2>1, <1>1, <1>5, <1>12
  <2> QED BY <2>1, <2>2, <1>1, <1>3, <1>6, <1>7, <1>8, <1>11
<1> QED BY <1>9, <1>11, <1>13, <1>14 DEF CardOK

\* A probe changes neither answers nor rate.
LEMMA ProbedKeeps ==
  ASSUME NEW c, CardOK(c), NEW shares \in Nat
  PROVE  CardOK(Probed(c, shares))
<1>1. c \in Cards /\ c.hidden \in Int /\ c.probes \in Nat /\ CardUnit \in Nat
  BY MarkoutAssumption DEF CardOK, Cards
<1>2. PICK found \in Nat : found = shares * CardUnit
  BY <1>1, ProductOfNaturals
<1>3. PICK blend \in Int : blend = Blend(c.hidden, found)
  <2>1. PICK was \in Int : was = c.hidden
    BY <1>1
  <2>2. Blend(was, found) \in Int
    BY BlendIsBetween
  <2> QED BY <2>1, <2>2
<1>4. PICK q : q = Probed(c, shares)
  OBVIOUS
<1>5. q = [c EXCEPT !.probes = @ + 1, !.hidden = IF c.probes = 0 THEN found ELSE blend]
  BY <1>2, <1>3, <1>4 DEF Probed
<1>6. q \in Cards /\ q.sent = c.sent /\ q.filled = c.filled /\ q.rate = c.rate
  <2>1. PICK probes \in Nat, hidden \in Int :
          probes = c.probes + 1 /\ hidden = IF c.probes = 0 THEN found ELSE blend
    BY <1>1
  <2>2. q = [c EXCEPT !.probes = probes, !.hidden = hidden]
    BY <2>1, <1>5
  <2> QED BY <2>2, <1>1 DEF Cards
<1> QED BY <1>4, <1>6 DEF CardOK

SorInv ==
  /\ clock \in Nat
  /\ RingInv(markouts, clock)
  /\ card \in [Rated -> Cards] /\ \A v \in Rated : CardOK(card[v])

LEMMA SorStarts == SorInit => SorInv
<1> SUFFICES ASSUME SorInit PROVE SorInv
  OBVIOUS
<1>1. clock = 0 /\ markouts = NewRing(Rated) /\ card = [v \in Rated |-> NeverTried]
  BY DEF SorInit
<1>2. CardOK(NeverTried) /\ NeverTried \in Cards
  BY DEF CardOK, NeverTried, Cards
<1>3. card \in [Rated -> Cards] /\ \A v \in Rated : CardOK(card[v])
  BY <1>1, <1>2
<1>4. PICK s, c, r : /\ s = [v \in Rated |-> [k \in Places |-> Empty]] /\ c = [v \in Rated |-> 0]
                     /\ r = NewRing(Rated)
  OBVIOUS
<1>5. /\ RingShape(r) /\ r.slot = s /\ r.cursor = c /\ r.armed = 0 /\ r.pending = 0
      /\ r.lost = {} /\ r.judged = {} /\ r.matured = 0
  BY <1>4 DEF NewRing, RingShape, Places
<1>6. RingOK(s, c, 0, 0) /\ IdsOf(s) = {}
  BY <1>4, EmptyRing
<1>7. Accounts({}, 0, {}, 0, {}, 0)
  BY FS_EmptySet DEF Accounts
<1>8. RingInv(r, 0)
  BY <1>5, <1>6, <1>7 DEF RingInv
<1> QED BY <1>1, <1>3, <1>4, <1>8 DEF SorInv

LEMMA SorStays == SorInv /\ [SorNext]_sorVars => SorInv'
<1> SUFFICES ASSUME SorInv, [SorNext]_sorVars PROVE SorInv'
  OBVIOUS
<1>1. /\ clock \in Nat /\ RingInv(markouts, clock)
      /\ card \in [Rated -> Cards] /\ \A v \in Rated : CardOK(card[v])
  BY DEF SorInv
<1>2. ASSUME NEW v \in Rated, NEW c, CardOK(c), card' = [card EXCEPT ![v] = c]
      PROVE  card' \in [Rated -> Cards] /\ \A w \in Rated : CardOK(card'[w])
  BY <1>1, <1>2 DEF CardOK
<1>3. Lit \subseteq Rated /\ Dark \subseteq Rated /\ Latencies \subseteq Nat /\ Mids \subseteq Nat
  BY SorAssumption
<1>4. ASSUME NEW v \in Lit, NEW response \in Latencies, OnMiss(v, response) PROVE SorInv'
  <2>1. card' = [card EXCEPT ![v] = Returned(card[v], response, 0)] /\ markouts' = markouts /\ clock' = clock
    BY <1>4 DEF OnMiss
  <2>2. CardOK(Returned(card[v], response, 0))
    BY <1>1, <1>3, ReturnedKeeps
  <2> QED BY <2>1, <2>2, <1>1, <1>2, <1>3 DEF SorInv
<1>5. ASSUME NEW v \in Lit, NEW response \in Latencies, NEW side \in {-1, 1}, NEW mid \in Mids,
             OnFill(v, response, side, mid)
      PROVE  SorInv'
  <2>1. /\ card' = [card EXCEPT ![v] = Returned(card[v], response, 1)] /\ clock' = clock
        /\ markouts' = IF mid = 0 THEN markouts ELSE Arm(markouts, v, side, mid, clock)
    BY <1>5 DEF OnFill
  <2>2. CardOK(Returned(card[v], response, 1))
    BY <1>1, <1>3, ReturnedKeeps
  <2>3. RingInv(Arm(markouts, v, side, mid, clock), clock)
    BY <1>1, <1>3, ArmKeeps
  <2>4. RingInv(markouts', clock')
    BY <2>1, <2>3, <1>1
  <2> QED BY <2>1, <2>2, <2>4, <1>1, <1>2, <1>3 DEF SorInv
<1>6. ASSUME NEW v \in Dark, NEW shares \in {0, 3}, OnDarkProbe(v, shares) PROVE SorInv'
  <2>1. card' = [card EXCEPT ![v] = Probed(card[v], shares)] /\ markouts' = markouts /\ clock' = clock
    BY <1>6 DEF OnDarkProbe
  <2>2. CardOK(Probed(card[v], shares))
    BY <1>1, <1>3, ProbedKeeps
  <2> QED BY <2>1, <2>2, <1>1, <1>2, <1>3 DEF SorInv
<1>7. ASSUME NEW mid \in Mids, OnMidUpdate(mid) PROVE SorInv'
  <2>1. /\ clock' = clock + 1 /\ card' = card
        /\ markouts' = IF markouts.pending = 0 \/ mid = 0 THEN markouts ELSE OnMid(markouts, mid, clock')
    BY <1>7 DEF OnMidUpdate
  <2>2. clock' \in Nat /\ clock' >= clock
    BY <2>1, <1>1
  <2>3. RingInv(OnMid(markouts, mid, clock'), clock')
    BY <2>2, <1>1, OnMidKeeps
  <2>4. RingInv(markouts, clock')
    BY <2>2, <1>1, TimeMayPass
  <2>5. RingInv(markouts', clock')
    BY <2>1, <2>3, <2>4
  <2> QED BY <2>1, <2>2, <2>5, <1>1 DEF SorInv
<1>8. ASSUME NEW version \in {1, 2}, Restart(version) PROVE SorInv'
  <2>1. /\ clock' = clock /\ card' = card
        /\ markouts' = IF version = 2 THEN Restored(markouts)
                       ELSE [Restored(markouts) EXCEPT
                               !.count = NewRing(Rated).count, !.ewma = NewRing(Rated).ewma,
                               !.matured = 0, !.judged = {}]
    BY <1>8 DEF Restart
  <2>2. RingInv(markouts', clock')
    BY <2>1, <1>1, RestoredKeeps
  <2> QED BY <2>1, <2>2, <1>1 DEF SorInv
<1>9. ASSUME NEW side, NEW quantity, NEW quotes, Route(side, quantity, quotes) PROVE SorInv'
  BY <1>1, <1>9 DEF Route, SorInv
<1>10. ASSUME UNCHANGED sorVars PROVE SorInv'
  BY <1>1, <1>10 DEF SorInv, sorVars
<1> QED BY <1>4, <1>5, <1>6, <1>7, <1>8, <1>9, <1>10 DEF SorNext

\* The invariant is strong enough.
LEMMA ScorecardsFollow == SorInv => ScorecardsAreFair
<1> SUFFICES ASSUME SorInv PROVE ScorecardsAreFair
  OBVIOUS
<1>1. Accounted(markouts)
  BY RingIsAccounted DEF SorInv
<1>2. ASSUME NEW v \in Rated, card[v].filled = card[v].sent PROVE FillRate(v) >= Prior
  <2>1. CardOK(card[v]) /\ Prior \in Nat
    BY SorAssumption DEF SorInv
  <2> QED BY <2>1, <1>2 DEF CardOK, FillRate
<1> QED BY <1>1, <1>2 DEF ScorecardsAreFair

(* Every fill that arms a markout is judged once at most and lost only to  *)
(* a whole ring of younger ones, and a venue that never missed scores no   *)
(* worse than one never tried, through every restart: what VenueScorecard  *)
(* promises, for any venues, ring, horizon and prior.                      *)
THEOREM ScorecardsHold == SorSpec => []ScorecardsAreFair
<1>1. SorInit => SorInv
  BY SorStarts
<1>2. SorInv /\ [SorNext]_sorVars => SorInv'
  BY SorStays
<1>3. SorInv => ScorecardsAreFair
  BY ScorecardsFollow
<1> QED BY <1>1, <1>2, <1>3, PTL DEF SorSpec
-----------------------------------------------------------------------------
(* Slices that are the parent.                                             *)

(* What holds of elements as an equation holds of the sums.                *)
LEMMA SumsAdd ==
  ASSUME NEW s \in Seq(Int), NEW t \in Seq(Int), NEW u \in Seq(Int),
         Len(t) = Len(s), Len(u) = Len(s),
         NEW a \in Int, NEW b \in Int, NEW c \in Int,
         \A i \in 1..Len(s) : a * s[i] = b * t[i] + c * u[i]
  PROVE  a * SeqSum(s) = b * SeqSum(t) + c * SeqSum(u)
<1>1. PICK A \in Int, B \in Int, C \in Int : A = -a /\ B = -b /\ C = -c
  OBVIOUS
<1>2. ASSUME NEW i \in 1..Len(s)
      PROVE  a * s[i] <= b * t[i] + c * u[i] /\ A * s[i] <= B * t[i] + C * u[i]
  <2>1. PICK x \in Int, y \in Int, z \in Int : x = s[i] /\ y = t[i] /\ z = u[i]
    <3>1. s[i] \in Int /\ i \in 1..Len(t) /\ i \in 1..Len(u)
      OBVIOUS
    <3>2. t[i] \in Int /\ u[i] \in Int
      BY <3>1
    <3> QED BY <3>1, <3>2
  <2>2. a * x = b * y + c * z
    BY <2>1
  <2>3. A * x = -(a * x) /\ B * y = -(b * y) /\ C * z = -(c * z)
    BY <1>1
  <2>4. /\ a * x \in Int /\ b * y \in Int /\ c * z \in Int
    OBVIOUS
  <2>5. A * x <= B * y + C * z
    <3>1. PICK X \in Int, Y \in Int, Z \in Int : X = a * x /\ Y = b * y /\ Z = c * z
      BY <2>4
    <3>2. A * x = -X /\ B * y = -Y /\ C * z = -Z
      BY <2>3, <3>1
    <3>3. X = Y + Z
      BY <2>2, <3>1
    <3> QED BY <3>2, <3>3
  <2> QED BY <2>1, <2>2, <2>4, <2>5
<1>3. /\ a * SeqSum(s) <= b * SeqSum(t) + c * SeqSum(u)
      /\ A * SeqSum(s) <= B * SeqSum(t) + C * SeqSum(u)
  BY <1>2, SumsCompare
<1>4. PICK x \in Int, y \in Int, z \in Int : x = SeqSum(s) /\ y = SeqSum(t) /\ z = SeqSum(u)
  BY SeqSumIsInt
<1>5. a * x <= b * y + c * z /\ A * x <= B * y + C * z
  BY <1>3, <1>4
<1>6. /\ A * x = -(a * x) /\ B * y = -(b * y) /\ C * z = -(c * z)
      /\ a * x \in Int /\ b * y \in Int /\ c * z \in Int
  BY <1>1
<1>7. a * x = b * y + c * z
  BY <1>5, <1>6
<1> QED BY <1>4, <1>7

UpTo(I, k) == {i \in I : i <= k}

LEMMA UpToGrows ==
  ASSUME NEW I, I \subseteq Nat \ {0}
  PROVE  /\ UpTo(I, 0) = {}
         /\ \A k \in Nat \ {0} : UpTo(I, k) = UpTo(I, k - 1) \cup (I \cap {k})
         /\ \A k \in Nat : k \notin UpTo(I, k - 1)
         /\ \A N \in Nat : I \subseteq 1..N => UpTo(I, N) = I
<1>1. UpTo(I, 0) = {}
  <2>1. \A i \in I : ~(i <= 0)
    OBVIOUS
  <2> QED BY <2>1 DEF UpTo
<1>2. ASSUME NEW k \in Nat \ {0} PROVE UpTo(I, k) = UpTo(I, k - 1) \cup (I \cap {k})
  <2>1. \A i \in I : i <= k <=> (i <= k - 1 \/ i = k)
    OBVIOUS
  <2> QED BY <2>1 DEF UpTo
<1>3. \A k \in Nat : k \notin UpTo(I, k - 1)
  BY DEF UpTo
<1>4. ASSUME NEW N \in Nat, I \subseteq 1..N PROVE UpTo(I, N) = I
  <2>1. \A i \in I : i <= N
    BY <1>4
  <2> QED BY <2>1 DEF UpTo
<1> QED BY <1>1, <1>2, <1>3, <1>4

(* A sequence of ones and zeros adds up to the number of its ones.         *)
LEMMA SumOfOnes ==
  ASSUME NEW s \in Seq(Int), NEW I, I \subseteq 1..Len(s),
         \A i \in 1..Len(s) : s[i] = IF i \in I THEN 1 ELSE 0
  PROVE  SeqSum(s) = Cardinality(I)
<1> DEFINE N == Len(s)
<1>1. PICK f : PartialSums(s, N, f)
  BY PartialSumsExist
<1>2. N \in Nat /\ SeqSum(s) = f[N]
  BY <1>1, SeqSumIsTheLast
<1>0. I \subseteq Nat \ {0} /\ I \subseteq 1..N
  OBVIOUS
<1> DEFINE Bad == {k \in 0..N : ~(IsFiniteSet(UpTo(I, k)) /\ f[k] = Cardinality(UpTo(I, k)))}
<1>3. ASSUME Bad # {} PROVE FALSE
  <2>1. PICK k \in Bad : \A m \in Bad : k <= m
    <3>1. Bad \subseteq Nat
      OBVIOUS
    <3> HIDE DEF Bad
    <3> QED BY <1>3, <3>1, LeastElement
  <2>2. k # 0
    <3>1. UpTo(I, 0) = {}
      BY <1>0, UpToGrows
    <3>2. f[0] = 0
      BY <1>1 DEF PartialSums
    <3> QED BY <2>1, <3>1, <3>2, FS_EmptySet
  <2>3. k - 1 \in 0..N /\ k - 1 \notin Bad /\ k \in 1..N
    <3>1. k \in 0..N
      OBVIOUS
    <3> HIDE DEF Bad
    <3> QED BY <1>2, <2>1, <2>2, <3>1
  <2>4. IsFiniteSet(UpTo(I, k - 1)) /\ f[k - 1] = Cardinality(UpTo(I, k - 1))
    BY <2>3
  <2>5. f[k] = f[k - 1] + s[k] /\ f[k - 1] \in Int
    BY <1>1, <2>3 DEF PartialSums
  <2>6. CASE k \in I
    <3>1. UpTo(I, k) = UpTo(I, k - 1) \cup {k} /\ k \notin UpTo(I, k - 1)
      <4>1. I \cap {k} = {k} /\ k \in Nat \ {0}
        BY <1>0, <2>3, <2>6
      <4>2. UpTo(I, k) = UpTo(I, k - 1) \cup (I \cap {k}) /\ k \notin UpTo(I, k - 1)
        BY <1>0, <4>1, UpToGrows
      <4> QED BY <4>1, <4>2
    <3>2. s[k] = 1
      BY <2>3, <2>6
    <3>3. IsFiniteSet(UpTo(I, k)) /\ Cardinality(UpTo(I, k)) = Cardinality(UpTo(I, k - 1)) + 1
      BY <2>4, <3>1, FS_AddElement
    <3>4. f[k] = Cardinality(UpTo(I, k))
      BY <2>4, <2>5, <3>2, <3>3
    <3> QED BY <2>1, <3>3, <3>4
  <2>7. CASE k \notin I
    <3>1. UpTo(I, k) = UpTo(I, k - 1)
      <4>1. I \cap {k} = {} /\ k \in Nat \ {0}
        BY <1>2, <2>3, <2>7
      <4>2. UpTo(I, k) = UpTo(I, k - 1) \cup (I \cap {k}) /\ k \notin UpTo(I, k - 1)
        BY <1>0, <4>1, UpToGrows
      <4> QED BY <4>1, <4>2
    <3>2. s[k] = 0
      BY <2>3, <2>7
    <3>4. f[k] = Cardinality(UpTo(I, k))
      BY <2>4, <2>5, <3>1, <3>2
    <3> QED BY <2>1, <2>4, <3>1, <3>4
  <2> QED BY <2>6, <2>7
<1>4. f[N] = Cardinality(UpTo(I, N))
  <2>1. \A k \in 0..N : f[k] = Cardinality(UpTo(I, k))
    BY <1>3
  <2> HIDE DEF N
  <2> QED BY <1>2, <2>1
<1>5. UpTo(I, N) = I
  BY <1>0, <1>2, UpToGrows
<1> QED BY <1>2, <1>4, <1>5

-----------------------------------------------------------------------------
(* Places in an order.                                                     *)
Preds(R, n, i) == {j \in 1..n : <<j, i>> \in R}
IsStrictOrder(R, n) ==
  /\ \A i \in 1..n : <<i, i>> \notin R
  /\ \A i, j, k \in 1..n : <<i, j>> \in R /\ <<j, k>> \in R => <<i, k>> \in R
  /\ \A i, j \in 1..n : i # j => <<i, j>> \in R \/ <<j, i>> \in R

(* Of n things in a strict order, m have fewer than m before them.         *)
LEMMA FirstOfAnOrder ==
  ASSUME NEW n \in Nat, NEW R, IsStrictOrder(R, n), NEW m \in 0..n
  PROVE  Cardinality({i \in 1..n : Cardinality(Preds(R, n, i)) < m}) = m
<1> DEFINE r == [i \in 1..n |-> Cardinality(Preds(R, n, i))]
           T == {i \in 1..n : Cardinality(Preds(R, n, i)) < m}
<1>1. IsFiniteSet(1..n) /\ Cardinality(1..n) = n
  BY FS_Interval
<1>2. ASSUME NEW i \in 1..n
      PROVE  IsFiniteSet(Preds(R, n, i)) /\ Cardinality(Preds(R, n, i)) \in 0..(n - 1)
  <2>1. Preds(R, n, i) \in SUBSET ((1..n) \ {i})
    BY DEF Preds, IsStrictOrder
  <2>2. IsFiniteSet((1..n) \ {i}) /\ Cardinality((1..n) \ {i}) = n - 1
    BY <1>1, FS_RemoveElement
  <2>3. /\ IsFiniteSet(Preds(R, n, i))
        /\ Cardinality(Preds(R, n, i)) <= Cardinality((1..n) \ {i})
    BY <2>1, <2>2, FS_Subset
  <2>4. Cardinality(Preds(R, n, i)) \in Nat
    BY <2>3, FS_CardinalityType
  <2> QED BY <2>2, <2>3, <2>4
<1>3. ASSUME NEW i \in 1..n, NEW k \in 1..n, <<i, k>> \in R
      PROVE  Cardinality(Preds(R, n, i)) < Cardinality(Preds(R, n, k))
  <2>1. Preds(R, n, i) \cup {i} \in SUBSET Preds(R, n, k) /\ i \notin Preds(R, n, i)
    BY <1>3 DEF Preds, IsStrictOrder
  <2>2. Cardinality(Preds(R, n, i) \cup {i}) = Cardinality(Preds(R, n, i)) + 1
    BY <1>2, <2>1, FS_AddElement
  <2>3. Cardinality(Preds(R, n, i) \cup {i}) <= Cardinality(Preds(R, n, k))
    BY <1>2, <2>1, FS_Subset
  <2>4. Cardinality(Preds(R, n, i)) \in Int /\ Cardinality(Preds(R, n, k)) \in Int
    BY <1>2
  <2> QED BY <2>2, <2>3, <2>4
<1>4. ASSUME NEW i \in 1..n, NEW k \in 1..n, i # k PROVE r[i] # r[k]
  <2>1. <<i, k>> \in R \/ <<k, i>> \in R
    BY <1>4 DEF IsStrictOrder
  <2>2. r[i] \in Int /\ r[k] \in Int
    BY <1>2
  <2> QED BY <1>3, <2>1, <2>2
<1>5. r \in [1..n -> 0..(n - 1)]
  BY <1>2
<1>6. r \in Injection(1..n, 0..(n - 1))
  <2> HIDE DEF r
  <2> QED BY <1>4, <1>5 DEF Injection, IsInjective
<1>7. IsFiniteSet(0..(n - 1)) /\ Cardinality(0..(n - 1)) = n
  <2>1. CASE n = 0
    <3>1. 0..(n - 1) = {}
      BY <2>1
    <3> QED BY <2>1, <3>1, FS_EmptySet
  <2>2. CASE n # 0
    BY <2>2, FS_Interval
  <2> QED BY <2>1, <2>2
<1>8. \A x \in 0..(n - 1) : \E i \in 1..n : r[i] = x
  <2> HIDE DEF r
  <2>1. r \in Surjection(1..n, 0..(n - 1))
    BY <1>1, <1>6, <1>7, FS_Injection
  <2> QED BY <2>1 DEF Surjection
<1> DEFINE q == [i \in T |-> r[i]]
<1>9. q \in [T -> 0..(m - 1)]
  <2>1. ASSUME NEW i \in T PROVE r[i] \in 0..(m - 1)
    BY <1>5, <1>2
  <2> HIDE DEF r, T
  <2> QED BY <2>1
<1>10. q \in Bijection(T, 0..(m - 1))
  <2>1. \A i, k \in T : q[i] = q[k] => i = k
    BY <1>4
  <2>2. ASSUME NEW x \in 0..(m - 1) PROVE \E i \in T : q[i] = x
    <3>1. PICK i \in 1..n : r[i] = x
      BY <1>8
    <3>2. i \in T
      BY <3>1
    <3> QED BY <3>1, <3>2
  <2> HIDE DEF q, T
  <2>3. q \in Injection(T, 0..(m - 1))
    BY <1>9, <2>1 DEF Injection, IsInjective
  <2>4. q \in Surjection(T, 0..(m - 1))
    BY <1>9, <2>2 DEF Surjection
  <2> QED BY <2>3, <2>4 DEF Bijection
<1>11. T \in SUBSET (1..n)
  OBVIOUS
<1>12. IsFiniteSet(T)
  BY <1>1, <1>11, FS_Subset
<1>13. Cardinality(0..(m - 1)) = Cardinality(T)
  <2> HIDE DEF q, T
  <2>1. ExistsBijection(T, 0..(m - 1))
    BY <1>10 DEF ExistsBijection
  <2> QED BY <1>12, <2>1, FS_Bijection
<1>14. Cardinality(0..(m - 1)) = m
  <2>1. CASE m = 0
    <3>1. 0..(m - 1) = {}
      BY <2>1
    <3> QED BY <2>1, <3>1, FS_EmptySet
  <2>2. CASE m # 0
    BY <2>2, FS_Interval
  <2> QED BY <2>1, <2>2
<1> QED BY <1>13, <1>14

-----------------------------------------------------------------------------
(* The allocation.                                                         *)

LEMMA Remainder ==
  ASSUME NEW a \in Int, NEW d \in Nat \ {0}
  PROVE  /\ a % d \in Int /\ a % d >= 0 /\ a % d < d
         /\ a = d * (a \div d) + (a % d)
OBVIOUS

\* A share and what is left of it.
Shared(total, w, W, i) ==
  /\ w[i] \in Nat /\ FloorOf(total, w, i) \in Nat /\ Fraction(total, w, i) \in Nat
  /\ Fraction(total, w, i) < W
  /\ total * w[i] = W * FloorOf(total, w, i) + Fraction(total, w, i)

LEMMA SharesAndFractions ==
  ASSUME NEW total \in Nat, NEW w \in Seq(Nat), NEW W \in Nat \ {0}, W = SeqSum(w),
         NEW i \in 1..Len(w)
  PROVE  Shared(total, w, W, i)
<1>1. PICK x \in Nat : x = w[i]
  OBVIOUS
<1>2. PICK a \in Nat : a = total * x
  BY ProductOfNaturals
<1>3. FloorOf(total, w, i) = a \div W /\ Fraction(total, w, i) = a % W
  BY <1>1, <1>2 DEF FloorOf, Fraction
<1>4. a \div W \in Nat /\ a % W \in Nat /\ a % W < W /\ a = W * (a \div W) + (a % W)
  <2>1. a \in Int
    BY <1>2
  <2>2. a \div W \in Nat
    BY NaturalQuotient
  <2>3. a % W \in Int /\ a % W >= 0 /\ a % W < W /\ a = W * (a \div W) + (a % W)
    BY <2>1, Remainder
  <2> QED BY <2>2, <2>3
<1> QED BY <1>1, <1>2, <1>3, <1>4 DEF Shared

Ranks(total, w) == {p \in (1..Len(w)) \X (1..Len(w)) : Before(total, w, p[1], p[2])}

LEMMA RanksAreAnOrder ==
  ASSUME NEW total \in Nat, NEW w \in Seq(Nat), NEW W \in Nat \ {0}, W = SeqSum(w)
  PROVE  /\ IsStrictOrder(Ranks(total, w), Len(w))
         /\ \A i \in 1..Len(w) : Rank(total, w, i) = Cardinality(Preds(Ranks(total, w), Len(w), i))
<1> DEFINE f(i) == Fraction(total, w, i)
           R == Ranks(total, w)
           n == Len(w)
<1>1. \A i \in 1..n : f(i) \in Int
  BY SharesAndFractions DEF Shared
<1>2. \A i, j \in 1..n : <<i, j>> \in R <=> (f(i) > f(j) \/ (f(i) = f(j) /\ i < j))
  BY DEF Ranks, Before
<1>3. \A i \in 1..n : Rank(total, w, i) = Cardinality(Preds(R, n, i))
  <2>1. ASSUME NEW i \in 1..n
        PROVE  {j \in DOMAIN w : Before(total, w, j, i)} = Preds(R, n, i)
    <3>1. DOMAIN w = 1..n
      OBVIOUS
    <3> QED BY <1>2, <3>1 DEF Preds, Before
  <2> QED BY <2>1 DEF Rank
<1>4. n \in Nat
  OBVIOUS
<1> HIDE DEF f, R, n
<1>5. IsStrictOrder(R, n)
  <2>1. \A i \in 1..n : <<i, i>> \notin R
    BY <1>1, <1>2
  <2>2. \A i, j, k \in 1..n : <<i, j>> \in R /\ <<j, k>> \in R => <<i, k>> \in R
    BY <1>1, <1>2
  <2>3. \A i, j \in 1..n : i # j => <<i, j>> \in R \/ <<j, i>> \in R
    BY <1>1, <1>2
  <2> QED BY <2>1, <2>2, <2>3 DEF IsStrictOrder
<1> QED BY <1>3, <1>5 DEF R, n

\* What the floors leave over is the sum of the fractions, less than one each.
Leftover(total, w, W, left) ==
  /\ left = total - SeqSum([i \in DOMAIN w |-> FloorOf(total, w, i)])
  /\ left \in 0..Len(w)
  /\ W * left = SeqSum([i \in DOMAIN w |-> Fraction(total, w, i)])

LEMMA LeftoverOfFloors ==
  ASSUME NEW total \in Nat, NEW w \in Seq(Nat), NEW W \in Nat \ {0}, W = SeqSum(w)
  PROVE  \E left \in Nat : Leftover(total, w, W, left)
<1> DEFINE q == [i \in DOMAIN w |-> FloorOf(total, w, i)]
           r == [i \in DOMAIN w |-> Fraction(total, w, i)]
           one == [i \in DOMAIN w |-> 1]
           n == Len(w)
<1>1. /\ \A i \in 1..n : Shared(total, w, W, i)
      /\ DOMAIN w = 1..n /\ n \in Nat /\ w \in Seq(Int)
  BY SharesAndFractions
<1>2. /\ q \in Seq(Int) /\ Len(q) = n /\ r \in Seq(Int) /\ Len(r) = n
      /\ one \in Seq(Int) /\ Len(one) = n /\ r \in Seq(Nat)
  BY <1>1 DEF Shared
<1>3. PICK c \in Int, zero \in Int : c = 1 /\ zero = 0
  OBVIOUS
<1>4. \A i \in 1..n : total * w[i] = W * q[i] + c * r[i]
  <2>1. ASSUME NEW i \in 1..n PROVE total * w[i] = W * q[i] + c * r[i]
    <3>1. q[i] = FloorOf(total, w, i) /\ r[i] = Fraction(total, w, i)
      BY <1>1
    <3>2. Fraction(total, w, i) = c * Fraction(total, w, i)
      BY <1>1, <1>3 DEF Shared
    <3> QED BY <1>1, <3>1, <3>2 DEF Shared
  <2> QED BY <2>1
<1>5. \A i \in 1..n : c * r[i] <= W * one[i] + zero * one[i]
  <2>1. ASSUME NEW i \in 1..n PROVE c * r[i] <= W * one[i] + zero * one[i]
    <3>1. one[i] = 1 /\ r[i] = Fraction(total, w, i)
      BY <1>1
    <3>2. Fraction(total, w, i) \in Int /\ Fraction(total, w, i) <= W
      BY <1>1 DEF Shared
    <3>3. c * Fraction(total, w, i) = Fraction(total, w, i)
      BY <1>3, <3>2
    <3> QED BY <1>3, <3>1, <3>2, <3>3
  <2> QED BY <2>1
<1>6. SeqSum(one) = n
  <2>1. \A i \in 1..Len(one) : one[i] = IF i \in 1..n THEN 1 ELSE 0
    BY <1>1, <1>2
  <2>2. SeqSum(one) = Cardinality(1..n)
    <3> HIDE DEF one, n
    <3> QED BY <1>2, <2>1, SumOfOnes
  <2>3. PICK N \in Nat : N = n
    BY <1>1
  <2>4. Cardinality(1..N) = N
    BY FS_Interval
  <2> QED BY <2>2, <2>3, <2>4
<1> HIDE DEF q, r, one, n
<1>7. total * SeqSum(w) = W * SeqSum(q) + c * SeqSum(r)
  BY <1>1, <1>2, <1>4, SumsAdd DEF n
<1>8. c * SeqSum(r) <= W * SeqSum(one) + zero * SeqSum(one)
  <2>1. Len(one) = Len(r) /\ \A i \in 1..Len(r) : c * r[i] <= W * one[i] + zero * one[i]
    BY <1>2, <1>5
  <2>2. c \in Int /\ W \in Int /\ zero \in Int /\ r \in Seq(Int) /\ one \in Seq(Int)
    BY <1>2
  <2> QED BY <2>1, <2>2, SumsCompare, Zenon
<1>9. PICK Q \in Int, S \in Nat : Q = SeqSum(q) /\ S = SeqSum(r)
  BY <1>2, SeqSumIsInt, SumOfNaturals
<1>10. total * W = W * Q + S /\ S <= W * n
  BY <1>1, <1>3, <1>6, <1>7, <1>8, <1>9
<1>11. PICK left \in Int : left = total - Q
  OBVIOUS
<1>12. W * left = S
  <2>1. W * left = total * W - W * Q
    BY <1>11
  <2>2. PICK A \in Int, B \in Int : A = total * W /\ B = W * Q
    OBVIOUS
  <2> QED BY <1>10, <2>1, <2>2
<1>13. left >= 0
  <2>1. ASSUME left <= -1 PROVE FALSE
    <3>1. PICK m \in Nat : left = -1 - m
      <4>1. -1 - left \in Nat /\ left = -1 - (-1 - left)
        BY <2>1
      <4> QED BY <4>1
    <3>2. W * left = -W - W * m
      BY <3>1
    <3>3. PICK P \in Nat : P = W * m
      BY ProductOfNaturals
    <3>4. S = -W - P
      BY <1>12, <3>2, <3>3
    <3> QED BY <3>4
  <2> QED BY <2>1
<1>14. left <= n
  <2>1. ASSUME left >= n + 1 PROVE FALSE
    <3>1. W * (n + 1) <= W * left
      BY <1>1, <1>13, <2>1, ProductsAreOrdered
    <3>2. W * (n + 1) = W * n + W
      BY <1>1
    <3>3. PICK x \in Int, y \in Int : x = W * n /\ y = W * left
      BY <1>1
    <3>4. y <= x
      BY <1>10, <1>12, <3>3
    <3>5. x + W <= y
      BY <3>1, <3>2, <3>3
    <3> QED BY <3>3, <3>4, <3>5
  <2> QED BY <1>1, <2>1
<1>15. left \in Nat /\ left \in 0..Len(w)
  BY <1>1, <1>13, <1>14 DEF n
<1>16. Leftover(total, w, W, left)
  BY <1>9, <1>11, <1>12, <1>15 DEF Leftover, q, r
<1> QED BY <1>15, <1>16

\* As many have one more as there is left over.
LEMMA BonusesAreTheLeftover ==
  ASSUME NEW total \in Nat, NEW w \in Seq(Nat), NEW W \in Nat \ {0}, W = SeqSum(w),
         NEW left \in Nat, Leftover(total, w, W, left)
  PROVE  SeqSum([i \in DOMAIN w |-> IF Rank(total, w, i) < left THEN 1 ELSE 0]) = left
<1> DEFINE bonus == [i \in DOMAIN w |-> IF Rank(total, w, i) < left THEN 1 ELSE 0]
           R == Ranks(total, w)
           n == Len(w)
           I == {i \in 1..n : Cardinality(Preds(R, n, i)) < left}
<1>1. /\ IsStrictOrder(R, n) /\ n \in Nat /\ DOMAIN w = 1..n /\ left \in 0..n
      /\ \A i \in 1..n : Rank(total, w, i) = Cardinality(Preds(R, n, i))
  BY RanksAreAnOrder DEF Leftover
<1>2. Cardinality(I) = left
  <2> HIDE DEF R, n
  <2> QED BY <1>1, FirstOfAnOrder
<1>3. bonus \in Seq(Int) /\ Len(bonus) = n
  BY <1>1
<1>4. I \subseteq 1..Len(bonus) /\ \A i \in 1..Len(bonus) : bonus[i] = IF i \in I THEN 1 ELSE 0
  BY <1>1, <1>3
<1> HIDE DEF bonus, I
<1>5. SeqSum(bonus) = Cardinality(I)
  BY <1>3, <1>4, SumOfOnes
<1> QED BY <1>2, <1>5 DEF bonus

\* None that has one more divides exactly: those that do come last, and
\* there are fewer left over than do not.
LEMMA BonusesAreFractions ==
  ASSUME NEW total \in Nat, NEW w \in Seq(Nat), NEW W \in Nat \ {0}, W = SeqSum(w),
         NEW left \in Nat, Leftover(total, w, W, left),
         NEW i \in 1..Len(w), Rank(total, w, i) < left
  PROVE  Fraction(total, w, i) > 0
<1> DEFINE R == Ranks(total, w)
           n == Len(w)
           P == {j \in 1..n : Fraction(total, w, j) > 0}
           r == [j \in DOMAIN w |-> Fraction(total, w, j)]
           some == [j \in DOMAIN w |-> IF j \in P THEN 1 ELSE 0]
<1>1. /\ n \in Nat /\ DOMAIN w = 1..n /\ i \in 1..n
      /\ \A j \in 1..n : Shared(total, w, W, j)
      /\ \A j \in 1..n : Rank(total, w, j) = Cardinality(Preds(R, n, j))
  BY RanksAreAnOrder, SharesAndFractions
<1>2. \A j \in 1..n : Fraction(total, w, j) \in Nat /\ Fraction(total, w, j) < W
  BY <1>1 DEF Shared
<1>3. SUFFICES ASSUME Fraction(total, w, i) = 0 PROVE FALSE
  BY <1>1, <1>2
<1>4. P \in SUBSET Preds(R, n, i)
  <2>1. ASSUME NEW j \in P PROVE j \in Preds(R, n, i)
    <3>1. j \in 1..n /\ Fraction(total, w, j) > Fraction(total, w, i)
      BY <1>3
    <3>2. Before(total, w, j, i)
      BY <3>1 DEF Before
    <3> QED BY <1>1, <3>1, <3>2 DEF Preds, Ranks
  <2> QED BY <2>1
<1>5. IsFiniteSet(Preds(R, n, i))
  <2>1. Preds(R, n, i) \in SUBSET (1..n) /\ IsFiniteSet(1..n)
    BY <1>1, FS_Interval DEF Preds
  <2> QED BY <2>1, FS_Subset
<1>6. Cardinality(P) <= Rank(total, w, i) /\ Cardinality(P) \in Nat
  <2>1. IsFiniteSet(P) /\ Cardinality(P) <= Cardinality(Preds(R, n, i))
    BY <1>4, <1>5, FS_Subset
  <2> QED BY <1>1, <2>1, FS_CardinalityType
<1>7. /\ r \in Seq(Int) /\ Len(r) = n /\ some \in Seq(Int) /\ Len(some) = n
  BY <1>1, <1>2
<1>8. PICK c \in Int, zero \in Int : c = 1 /\ zero = 0
  OBVIOUS
<1>9. ASSUME NEW j \in 1..n PROVE c * r[j] <= W * some[j] + zero * some[j]
  <2>1. PICK x \in Nat : x = Fraction(total, w, j) /\ x < W
    BY <1>2
  <2>2. r[j] = x /\ some[j] = IF x > 0 THEN 1 ELSE 0
    BY <1>1, <2>1
  <2>3. c * x = x
    BY <1>8
  <2> QED BY <1>8, <2>1, <2>2, <2>3
<1>10. SeqSum(some) = Cardinality(P)
  <2>1. P \subseteq 1..Len(some) /\ \A j \in 1..Len(some) : some[j] = IF j \in P THEN 1 ELSE 0
    BY <1>1, <1>7
  <2> HIDE DEF some, P
  <2> QED BY <1>7, <2>1, SumOfOnes
<1>11. W * left = SeqSum(r)
  BY DEF Leftover
<1> HIDE DEF r, some, n, P
<1>12. c * SeqSum(r) <= W * SeqSum(some) + zero * SeqSum(some)
  <2>1. Len(some) = Len(r) /\ \A j \in 1..Len(r) : c * r[j] <= W * some[j] + zero * some[j]
    BY <1>7, <1>9
  <2>2. c \in Int /\ W \in Int /\ zero \in Int /\ r \in Seq(Int) /\ some \in Seq(Int)
    BY <1>7
  <2> QED BY <2>1, <2>2, SumsCompare, Zenon
<1>13. PICK p \in Nat : p = Cardinality(P) /\ p + 1 <= left
  <2>1. PICK p \in Nat : p = Cardinality(P)
    BY <1>6
  <2>2. PICK k : k = Rank(total, w, i)
    OBVIOUS
  <2>3. k \in Nat
    BY <1>1, <1>5, <2>2, FS_CardinalityType
  <2> QED BY <1>6, <2>1, <2>2, <2>3
<1>14. PICK S \in Int : S = SeqSum(r)
  BY <1>7, SeqSumIsInt
<1>15. c * S = S /\ zero * p = 0
  BY <1>8
<1>16. S <= W * p
  BY <1>10, <1>12, <1>13, <1>14, <1>15
<1>17. W * (p + 1) <= W * left
  <2>1. p + 1 \in Nat /\ p + 1 <= left
    BY <1>13
  <2> QED BY <2>1, ProductsAreOrdered
<1>18. PICK x \in Int, y \in Int : x = W * p /\ y = W * left
  OBVIOUS
<1>19. W * (p + 1) = x + W
  BY <1>18
<1>20. x + W <= y
  BY <1>17, <1>18, <1>19
<1>21. y <= x
  BY <1>11, <1>14, <1>16, <1>18
<1>22. \E z, u \in Int : z + W <= u /\ u <= z
  BY <1>18, <1>20, <1>21, Zenon
<1> QED BY <1>22

\* The parts are the whole, each less than one off its share.
IsAllocation(total, w, W, a) ==
  /\ a \in Seq(Nat) /\ Len(a) = Len(w) /\ SeqSum(a) = total
  /\ W > 0 => \A i \in 1..Len(w) :
       /\ a[i] >= FloorOf(total, w, i)
       /\ a[i] * W - total * w[i] < W
       /\ -(a[i] * W - total * w[i]) < W

LEMMA ProportionalAllocation ==
  ASSUME NEW total \in Nat, NEW w \in Seq(Nat), NEW W \in Nat \ {0}, W = SeqSum(w)
  PROVE  IsAllocation(total, w, W, AllocateProportionally(total, w))
<1> DEFINE q == [i \in DOMAIN w |-> FloorOf(total, w, i)]
           n == Len(w)
<1>1. PICK left \in Nat : Leftover(total, w, W, left)
  BY LeftoverOfFloors
<1> DEFINE bonus == [i \in DOMAIN w |-> IF Rank(total, w, i) < left THEN 1 ELSE 0]
           a == [i \in DOMAIN w |-> q[i] + (IF Rank(total, w, i) < left THEN 1 ELSE 0)]
<1>2. AllocateProportionally(total, w) = a
  <2>1. left = total - SeqSum(q)
    BY <1>1 DEF Leftover
  <2> QED BY <2>1 DEF AllocateProportionally
<1>3. n \in Nat /\ DOMAIN w = 1..n /\ \A i \in 1..n : Shared(total, w, W, i)
  BY SharesAndFractions
<1>4. /\ q \in Seq(Int) /\ Len(q) = n /\ bonus \in Seq(Int) /\ Len(bonus) = n
      /\ a \in Seq(Nat) /\ Len(a) = n /\ a \in Seq(Int)
  <2>1. \A i \in 1..n : FloorOf(total, w, i) \in Nat
    BY <1>3 DEF Shared
  <2>2. n \in Nat /\ DOMAIN w = 1..n
    BY <1>3
  <2>3. \A i \in 1..n : q[i] \in Nat /\ bonus[i] \in {0, 1} /\ a[i] = q[i] + bonus[i]
    BY <2>1, <2>2
  <2>4. DOMAIN q = 1..n /\ DOMAIN bonus = 1..n /\ DOMAIN a = 1..n
    BY <2>2
  <2> HIDE DEF n
  <2>5. q = [i \in 1..n |-> q[i]] /\ bonus = [i \in 1..n |-> bonus[i]] /\ a = [i \in 1..n |-> a[i]]
    BY <2>4
  <2> HIDE DEF q, bonus, a
  <2>6. \A i \in 1..n : a[i] \in Nat
    BY <2>3
  <2>7. q \in [1..n -> Int] /\ bonus \in [1..n -> Int] /\ a \in [1..n -> Nat] /\ a \in [1..n -> Int]
    BY <2>3, <2>5, <2>6
  <2>8. q \in Seq(Int) /\ bonus \in Seq(Int) /\ a \in Seq(Nat) /\ a \in Seq(Int)
    BY <2>2, <2>7
  <2>9. Len(q) = n /\ Len(bonus) = n /\ Len(a) = n
    BY <2>2, <2>4, <2>8
  <2> QED BY <2>8, <2>9
<1>5. SeqSum(bonus) = left
  BY <1>1, BonusesAreTheLeftover
<1>6. SeqSum(a) = total
  <2>1. PICK c \in Int : c = 1
    OBVIOUS
  <2>2. ASSUME NEW i \in 1..n PROVE c * a[i] = c * q[i] + c * bonus[i]
    <3>1. a[i] = q[i] + bonus[i] /\ q[i] \in Int /\ bonus[i] \in Int
      BY <1>3, <1>4
    <3>2. PICK x \in Int, y \in Int : x = q[i] /\ y = bonus[i] /\ a[i] = x + y
      BY <3>1
    <3> QED BY <2>1, <3>2
  <2>3. Len(q) = Len(a) /\ Len(bonus) = Len(a) /\ \A i \in 1..Len(a) : c * a[i] = c * q[i] + c * bonus[i]
    BY <1>4, <2>2
  <2> HIDE DEF a, q, bonus, n
  <2>4. c * SeqSum(a) = c * SeqSum(q) + c * SeqSum(bonus)
    <3>1. a \in Seq(Int) /\ q \in Seq(Int) /\ bonus \in Seq(Int) /\ c \in Int
      BY <1>4
    <3> QED BY <2>3, <3>1, SumsAdd
  <2>5. PICK x \in Int, y \in Int : x = SeqSum(q) /\ y = SeqSum(a)
    BY <1>4, SeqSumIsInt
  <2>6. left = total - x
    BY <1>1, <2>5 DEF Leftover, q
  <2>7. y = x + left
    BY <1>5, <2>1, <2>4, <2>5
  <2> QED BY <2>5, <2>6, <2>7
<1>7. ASSUME NEW i \in 1..n
      PROVE  /\ a[i] >= FloorOf(total, w, i)
             /\ a[i] * W - total * w[i] < W
             /\ -(a[i] * W - total * w[i]) < W
  <2>1. PICK x \in Nat, f \in Nat, r \in Nat :
          x = w[i] /\ f = FloorOf(total, w, i) /\ r = Fraction(total, w, i)
    BY <1>3 DEF Shared
  <2>2. r < W /\ total * x = W * f + r
    BY <1>3, <2>1 DEF Shared
  <2>3. PICK b \in {0, 1} : b = (IF Rank(total, w, i) < left THEN 1 ELSE 0)
    OBVIOUS
  <2>4. a[i] = f + b
    BY <1>3, <2>1, <2>3
  <2>5. b = 1 => r > 0
    BY <1>1, <2>1, <2>3, BonusesAreFractions
  <2>6. (f + b) * W = W * f + b * W
    BY <2>3
  <2>7. b * W = IF b = 1 THEN W ELSE 0
    BY <2>3
  <2>8. PICK A \in Int : A = W * f
    OBVIOUS
  <2>9. (f + b) * W - total * x = (IF b = 1 THEN W ELSE 0) - r
    <3>1. PICK B \in Int, C \in Int : B = b * W /\ C = (f + b) * W
      <4>1. b \in Int /\ f + b \in Int /\ W \in Int
        BY <2>3
      <4>2. b * W \in Int /\ (f + b) * W \in Int
        BY <4>1
      <4> QED BY <4>2
    <3>2. PICK X \in Int : X = total * x
      OBVIOUS
    <3>3. C = A + B
      BY <2>6, <2>8, <3>1
    <3>4. X = A + r
      BY <2>2, <2>8, <3>2
    <3>5. C - X = B - r
      BY <3>3, <3>4
    <3> QED BY <2>7, <3>1, <3>2, <3>5
  <2>10. PICK D \in Int : D = (f + b) * W - total * x
    BY <2>3
  <2>11. D < W /\ -D < W
    <3>1. D = (IF b = 1 THEN W ELSE 0) - r
      BY <2>9, <2>10
    <3>2. r < W
      BY <2>2
    <3> QED BY <2>3, <2>5, <3>1, <3>2
  <2>12. a[i] * W - total * w[i] = D
    BY <2>1, <2>4, <2>10
  <2>13. a[i] >= f
    BY <2>3, <2>4
  <2> HIDE DEF a
  <2> QED BY <2>1, <2>11, <2>12, <2>13
<1> HIDE DEF a
<1> QED BY <1>2, <1>3, <1>4, <1>6, <1>7 DEF IsAllocation

\* Where nothing has weight, the first part is all of it.
LEMMA WithoutWeights ==
  ASSUME NEW total \in Nat, NEW w \in Seq(Nat), w # <<>>, SeqSum(w) = 0
  PROVE  IsAllocation(total, w, SeqSum(w), AllocateProportionally(total, w))
<1> DEFINE n == Len(w)
           a == [i \in DOMAIN w |-> IF i = 1 THEN total ELSE 0]
           f == [k \in 0..n |-> IF k = 0 THEN 0 ELSE total]
<1>1. n \in Nat \ {0} /\ DOMAIN w = 1..n
  OBVIOUS
<1>2. AllocateProportionally(total, w) = a
  BY DEF AllocateProportionally
<1>3. a \in Seq(Nat) /\ a \in Seq(Int) /\ Len(a) = n
  BY <1>1
<1>4. PartialSums(a, n, f)
  <2>1. f \in [0..n -> Int] /\ f[0] = 0
    BY <1>1
  <2>2. ASSUME NEW k \in 1..n PROVE f[k] = f[k - 1] + a[k]
    BY <1>1
  <2> QED BY <2>1, <2>2 DEF PartialSums
<1>5. f[n] = total
  BY <1>1
<1> HIDE DEF a, f, n
<1>6. SeqSum(a) = total
  BY <1>3, <1>4, <1>5, SeqSumIsTheLast
<1> QED BY <1>2, <1>3, <1>6 DEF IsAllocation, n

-----------------------------------------------------------------------------
(* The slices.                                                             *)
LEMMA OffsetsInTheWindow ==
  ASSUME NEW d \in Nat, NEW n \in Nat \ {0}, NEW i \in 1..n
  PROVE  /\ (d * (i - 1)) \div n \in 0..d
         /\ d > 0 => (d * (i - 1)) \div n < d
         /\ i > 1 => (d * (i - 1)) \div n >= (d * (i - 1 - 1)) \div n
<1>1. PICK j \in Nat : j = i - 1 /\ j + 1 <= n
  <2>1. i - 1 \in Nat /\ (i - 1) + 1 <= n
    OBVIOUS
  <2> QED BY <2>1
<1>2. PICK x \in Nat : x = d * j
  BY ProductOfNaturals
<1>3. PICK o \in Nat : o = x \div n
  BY NaturalQuotient
<1>4. PICK y \in Int : y = d * n
  OBVIOUS
<1>5. x + d <= y
  <2>1. d * (j + 1) <= d * n
    BY <1>1, ProductsAreOrdered
  <2>2. d * (j + 1) = d * j + d
    BY <1>1
  <2> QED BY <1>2, <1>4, <2>1, <2>2
<1>6. n * d = y
  BY <1>4
<1>7. d > 0 => o < d
  <2>1. ASSUME d > 0 PROVE o < d
    <3>1. d - 1 \in Int /\ n * ((d - 1) + 1) = y
      BY <1>6
    <3>2. x < n * ((d - 1) + 1)
      BY <1>5, <2>1, <3>1
    <3>3. x \div n <= d - 1
      BY <3>1, <3>2, QuotientBelow
    <3> QED BY <1>3, <3>3
  <2> QED BY <2>1
<1>8. d = 0 => o = 0
  <2>1. ASSUME d = 0 PROVE o = 0
    <3>1. x < n * (0 + 1)
      BY <1>2, <2>1
    <3>2. x \div n <= 0
      BY <3>1, QuotientBelow
    <3> QED BY <1>3, <3>2
  <2> QED BY <2>1
<1>9. ASSUME i > 1 PROVE o >= (d * (j - 1)) \div n
  <2>1. PICK z \in Int : z = d * (j - 1)
    BY <1>1
  <2>2. z = x - d
    BY <1>1, <1>2, <2>1
  <2>3. x < n * o + n
    BY <1>3, IntegerQuotient
  <2>4. n * (o + 1) = n * o + n
    OBVIOUS
  <2>5. z < n * (o + 1)
    BY <2>2, <2>3, <2>4
  <2>6. z \div n <= o
    BY <2>5, QuotientBelow
  <2>7. z \div n \in Int
    BY IntegerQuotient
  <2> QED BY <2>1, <2>6, <2>7
<1>10. (d * (i - 1)) \div n = o
  BY <1>1, <1>2, <1>3
<1>11. i > 1 => o >= (d * (i - 1 - 1)) \div n
  BY <1>1, <1>9
<1>12. o \in 0..d
  BY <1>7, <1>8
<1> QED BY <1>7, <1>10, <1>11, <1>12

AreTheParent(s, total, duration, w) ==
  /\ DOMAIN s = DOMAIN w
  /\ SeqSum([i \in DOMAIN s |-> s[i].quantity]) = total
  /\ \A i \in DOMAIN s :
       /\ s[i].quantity \in Nat /\ s[i].offset \in 0..duration
       /\ duration > 0 => s[i].offset < duration
       /\ i > 1 => s[i].offset >= s[i - 1].offset
       /\ SeqSum(w) > 0 =>
            /\ s[i].quantity >= FloorOf(total, w, i)
            /\ s[i].quantity * SeqSum(w) - total * w[i] < SeqSum(w)
            /\ -(s[i].quantity * SeqSum(w) - total * w[i]) < SeqSum(w)

LEMMA ToSlicesIsTheParent ==
  ASSUME NEW total \in Int, NEW duration \in Int, NEW w \in Seq(Int),
         ToSlices(total, duration, w) # Raised
  PROVE  AreTheParent(ToSlices(total, duration, w), total, duration, w)
<1> DEFINE n == Len(w)
           a == AllocateProportionally(total, w)
           s == ToSlices(total, duration, w)
           W == SeqSum(w)
<1>1. w # <<>> /\ total > 0 /\ duration >= 0 /\ ~Negative(w)
  BY DEF ToSlices
<1>2. s = [i \in DOMAIN w |-> [offset |-> (duration * (i - 1)) \div n, quantity |-> a[i]]]
  BY DEF ToSlices
<1>3. n \in Nat \ {0} /\ DOMAIN w = 1..n /\ total \in Nat /\ duration \in Nat
  BY <1>1
<1>4. w \in Seq(Nat)
  <2>1. \A i \in 1..n : w[i] \in Nat
    BY <1>1, <1>3 DEF Negative
  <2> QED BY <1>3, <2>1
<1>5. W \in Nat
  BY <1>4, SumOfNaturals
<1>6. IsAllocation(total, w, W, a)
  <2> HIDE DEF W
  <2>1. CASE W = 0
    BY <1>1, <1>3, <1>4, <2>1, WithoutWeights DEF W
  <2>2. CASE W # 0
    BY <1>3, <1>4, <1>5, <2>2, ProportionalAllocation DEF W
  <2> QED BY <2>1, <2>2
<1> HIDE DEF s, a, W
<1>7. a \in Seq(Nat) /\ Len(a) = n /\ SeqSum(a) = total
  BY <1>6 DEF IsAllocation
<1>8. DOMAIN s = 1..n /\ \A i \in 1..n :
        s[i].quantity = a[i] /\ s[i].offset = (duration * (i - 1)) \div n
  BY <1>2, <1>3
<1>9. [i \in DOMAIN s |-> s[i].quantity] = a
  BY <1>7, <1>8
<1>10. ASSUME NEW i \in 1..n
       PROVE  /\ s[i].quantity \in Nat /\ s[i].offset \in 0..duration
              /\ duration > 0 => s[i].offset < duration
              /\ i > 1 => s[i].offset >= s[i - 1].offset
  <2>1. s[i].quantity \in Nat
    <3>1. a[i] \in Nat
      BY <1>7
    <3> QED BY <1>8, <3>1
  <2>2. i > 1 => i - 1 \in 1..n
    BY <1>3
  <2>3. /\ (duration * (i - 1)) \div n \in 0..duration
        /\ duration > 0 => (duration * (i - 1)) \div n < duration
        /\ i > 1 => (duration * (i - 1)) \div n >= (duration * (i - 1 - 1)) \div n
    BY <1>3, OffsetsInTheWindow
  <2> HIDE DEF n
  <2> QED BY <1>8, <2>1, <2>2, <2>3
<1>11. ASSUME NEW i \in 1..n, W > 0
       PROVE  /\ s[i].quantity >= FloorOf(total, w, i)
              /\ s[i].quantity * W - total * w[i] < W
              /\ -(s[i].quantity * W - total * w[i]) < W
  BY <1>6, <1>8, <1>11 DEF IsAllocation
<1> QED BY <1>3, <1>7, <1>8, <1>9, <1>10, <1>11 DEF AreTheParent, s, W

\* A fixing has no more children than shares, so none is empty.
LEMMA FixingTradesThroughout ==
  ASSUME NEW total \in Int, NEW duration \in Int, NEW n \in Nat,
         Wmr(total, duration, n) # Raised
  PROVE  \A i \in DOMAIN Wmr(total, duration, n) : Wmr(total, duration, n)[i].quantity > 0
<1> DEFINE w == [i \in 1..n |-> 1]
           s == ToSlices(total, duration, w)
<1>1. Wmr(total, duration, n) = s /\ s # Raised /\ n >= 1 /\ n <= total
  BY DEF Wmr, Twap
<1>2. w \in Seq(Int) /\ Len(w) = n /\ DOMAIN w = 1..n
  OBVIOUS
<1> HIDE DEF s, w
<1>3. AreTheParent(s, total, duration, w)
  BY <1>1, <1>2, ToSlicesIsTheParent DEF s
<1>4. SeqSum(w) = n
  <2>1. 1..n \subseteq 1..Len(w) /\ \A i \in 1..Len(w) : w[i] = IF i \in 1..n THEN 1 ELSE 0
    BY <1>2 DEF w
  <2>2. SeqSum(w) = Cardinality(1..n)
    BY <1>2, <2>1, SumOfOnes
  <2>3. Cardinality(1..n) = n
    BY <1>1, FS_Interval
  <2> QED BY <2>2, <2>3
<1>5. ASSUME NEW i \in DOMAIN s PROVE s[i].quantity > 0
  <2>1. DOMAIN s = 1..n /\ s[i].quantity \in Nat /\ s[i].quantity >= FloorOf(total, w, i)
    BY <1>1, <1>2, <1>3, <1>4 DEF AreTheParent
  <2>2. FloorOf(total, w, i) = total \div n
    <3>1. w[i] = 1
      BY <2>1 DEF w
    <3> QED BY <1>4, <3>1 DEF FloorOf
  <2>3. PICK q \in Int : q = total \div n /\ total < n * q + n
    BY <1>1, IntegerQuotient
  <2>4. q > 0
    <3>1. ASSUME q <= 0 PROVE FALSE
      <4>1. PICK m \in Nat : q = -m
        <5>1. -q \in Nat /\ q = -(-q)
          BY <3>1
        <5> QED BY <5>1
      <4>2. n * q = -(n * m) /\ n * m \in Nat
        BY <4>1, ProductOfNaturals
      <4> QED BY <1>1, <2>3, <4>2
    <3> QED BY <3>1
  <2> QED BY <2>1, <2>2, <2>3, <2>4
<1> QED BY <1>1, <1>5

-----------------------------------------------------------------------------
(* Sums over a finite set.                                                 *)

IntOn(S, f) == \A v \in S : f[v] \in Int
AddedUp(S, f) == MapThenSumSet(LAMBDA v : f[v], S)

\* p[T] is the sum of f over T, for every part of S.
SetSums(p, S, f) ==
  /\ p \in [SUBSET S -> Int] /\ p[{}] = 0
  /\ \A T \in SUBSET S : T # {} => p[T] = f[Elem(T)] + p[T \ {Elem(T)}]

LEMMA SetSumsExist ==
  ASSUME NEW S, IsFiniteSet(S), NEW f, IntOn(S, f)
  PROVE  \E p : SetSums(p, S, f)
<1> DEFINE step == [v \in S |-> [x \in Int |-> f[v] + x]]
<1>1. step \in [S -> [Int -> Int]] /\ \A v \in S : \A x \in Int : step[v][x] = f[v] + x
  BY DEF IntOn
<1> HIDE DEF step
<1>2. PICK p : Folds(p, S, Int, 0, step)
  BY <1>1, FoldsExist
<1>3. ASSUME NEW T \in SUBSET S, T # {}
      PROVE  p[T] = f[Elem(T)] + p[T \ {Elem(T)}]
  <2>1. Elem(T) \in S /\ T \ {Elem(T)} \in SUBSET S
    BY <1>3 DEF Elem
  <2>2. p[T \ {Elem(T)}] \in Int
    BY <1>2, <2>1 DEF Folds
  <2> QED BY <1>1, <1>2, <1>3, <2>1, <2>2 DEF Folds
<1> QED BY <1>2, <1>3 DEF SetSums, Folds

\* There is one such p, and what it says of all of S is the sum.
LEMMA SetSumIs ==
  ASSUME NEW S, IsFiniteSet(S), NEW f, NEW p, SetSums(p, S, f)
  PROVE  AddedUp(S, f) = p[S]
<1> DEFINE Step(g) == [T \in SUBSET S |->
                         IF T = {} THEN 0 ELSE f[CHOOSE x \in T : TRUE] + g[T \ {CHOOSE x \in T : TRUE}]]
           iter == CHOOSE g : g = Step(g)
           Bad == {k \in Nat : \E T \in SUBSET S : Cardinality(T) = k /\ iter[T] # p[T]}
<1>1. AddedUp(S, f) = iter[S]
  BY DEF AddedUp, MapThenSumSet, MapThenFoldSet
<1>2. p = Step(p)
  BY DEF SetSums, Elem
<1>3. iter = Step(iter)
  BY <1>2
<1> HIDE DEF iter
<1>4. \A T \in SUBSET S : iter[T] = IF T = {} THEN 0 ELSE f[Elem(T)] + iter[T \ {Elem(T)}]
  BY <1>3 DEF Elem
<1> HIDE DEF Step
<1>5. Counted(S)
  BY PartsAreCounted
<1>6. ASSUME Bad # {} PROVE FALSE
  <2>1. PICK k \in Bad : \A m \in Bad : k <= m
    <3>1. Bad \subseteq Nat
      OBVIOUS
    <3> HIDE DEF Bad
    <3> QED BY <1>6, <3>1, LeastElement
  <2>2. PICK T \in SUBSET S : Cardinality(T) = k /\ iter[T] # p[T]
    BY <2>1
  <2>3. T # {}
    BY <1>4, <2>2 DEF SetSums
  <2>4. T \ {Elem(T)} \in SUBSET S /\ Cardinality(T \ {Elem(T)}) = k - 1 /\ k - 1 \in Nat
    <3>1. Cardinality(T \ {Elem(T)}) \in Nat
      BY <1>5, <2>3 DEF Counted
    <3> QED BY <1>5, <2>2, <2>3, <3>1 DEF Counted
  <2>5. k - 1 \notin Bad
    BY <2>1, <2>4
  <2>6. iter[T \ {Elem(T)}] = p[T \ {Elem(T)}]
    BY <2>4, <2>5
  <2> QED BY <1>4, <2>2, <2>3, <2>6 DEF SetSums
<1>7. Cardinality(S) \in Nat /\ S \in SUBSET S
  BY FS_CardinalityType
<1> QED BY <1>1, <1>6, <1>7

\* Nothing is said of the terms that is not said of the sums.
LEMMA SetSumsCompare ==
  ASSUME NEW S, IsFiniteSet(S), NEW f, NEW g, NEW h, IntOn(S, f), IntOn(S, g), IntOn(S, h),
         NEW p, NEW q, NEW r, SetSums(p, S, f), SetSums(q, S, g), SetSums(r, S, h),
         NEW a \in Int, NEW b \in Int, NEW c \in Int,
         \A v \in S : a * f[v] <= b * g[v] + c * h[v]
  PROVE  a * p[S] <= b * q[S] + c * r[S]
<1> DEFINE Bad == {k \in Nat : \E T \in SUBSET S :
                     Cardinality(T) = k /\ ~(a * p[T] <= b * q[T] + c * r[T])}
<1>1. Counted(S)
  BY PartsAreCounted
<1>2. ASSUME Bad # {} PROVE FALSE
  <2>1. PICK k \in Bad : \A m \in Bad : k <= m
    <3>1. Bad \subseteq Nat
      OBVIOUS
    <3> HIDE DEF Bad
    <3> QED BY <1>2, <3>1, LeastElement
  <2>2. PICK T \in SUBSET S : Cardinality(T) = k /\ ~(a * p[T] <= b * q[T] + c * r[T])
    BY <2>1
  <2>3. T # {}
    <3>1. ASSUME T = {} PROVE FALSE
      <4>1. p[T] = 0 /\ q[T] = 0 /\ r[T] = 0
        BY <3>1 DEF SetSums
      <4>2. a * 0 = 0 /\ b * 0 = 0 /\ c * 0 = 0
        OBVIOUS
      <4> QED BY <2>2, <4>1, <4>2
    <3> QED BY <3>1
  <2>4. PICK v \in S, U \in SUBSET S : v = Elem(T) /\ U = T \ {Elem(T)}
    BY <1>1, <2>3 DEF Counted
  <2>5. Cardinality(U) = k - 1 /\ k - 1 \in Nat
    <3>1. Cardinality(U) \in Nat
      BY <1>1 DEF Counted
    <3> QED BY <1>1, <2>2, <2>3, <2>4, <3>1 DEF Counted
  <2>6. k - 1 \notin Bad
    BY <2>1, <2>5
  <2>7. a * p[U] <= b * q[U] + c * r[U]
    BY <2>5, <2>6
  <2>8. PICK x \in Int, y \in Int, z \in Int, x1 \in Int, y1 \in Int, z1 \in Int :
          /\ x = p[U] /\ y = q[U] /\ z = r[U]
          /\ x1 = f[v] /\ y1 = g[v] /\ z1 = h[v]
          /\ p[T] = x1 + x /\ q[T] = y1 + y /\ r[T] = z1 + z
    <3>1. p[U] \in Int /\ q[U] \in Int /\ r[U] \in Int /\ f[v] \in Int /\ g[v] \in Int /\ h[v] \in Int
      BY DEF SetSums, IntOn
    <3>2. p[T] = f[v] + p[U] /\ q[T] = g[v] + q[U] /\ r[T] = h[v] + r[U]
      BY <2>3, <2>4 DEF SetSums
    <3> QED BY <3>1, <3>2
  <2>9. a * x <= b * y + c * z /\ a * x1 <= b * y1 + c * z1
    BY <2>7, <2>8
  <2>10. /\ a * (x1 + x) = a * x1 + a * x /\ b * (y1 + y) = b * y1 + b * y
         /\ c * (z1 + z) = c * z1 + c * z
    OBVIOUS
  <2>11. a * (x1 + x) <= b * (y1 + y) + c * (z1 + z)
    BY <2>9, <2>10
  <2> QED BY <2>2, <2>8, <2>11
<1>3. Cardinality(S) \in Nat /\ S \in SUBSET S
  BY FS_CardinalityType
<1> QED BY <1>2, <1>3


\* What is said of the terms is said of the sums.
LEMMA SumsOver ==
  ASSUME NEW S, IsFiniteSet(S), NEW f, IntOn(S, f)
  PROVE  /\ AddedUp(S, f) \in Int
         /\ \E p : SetSums(p, S, f) /\ AddedUp(S, f) = p[S]
<1>1. PICK p : SetSums(p, S, f)
  BY SetSumsExist
<1>2. AddedUp(S, f) = p[S]
  BY <1>1, SetSumIs
<1>3. p[S] \in Int
  BY <1>1 DEF SetSums
<1> QED BY <1>1, <1>2, <1>3

LEMMA SumsOverCompare ==
  ASSUME NEW S, IsFiniteSet(S), NEW f, NEW g, NEW h, IntOn(S, f), IntOn(S, g), IntOn(S, h),
         NEW a \in Int, NEW b \in Int, NEW c \in Int,
         \A v \in S : a * f[v] <= b * g[v] + c * h[v]
  PROVE  a * AddedUp(S, f) <= b * AddedUp(S, g) + c * AddedUp(S, h)
<1>1. PICK p : SetSums(p, S, f) /\ AddedUp(S, f) = p[S]
  BY SumsOver
<1>2. PICK q : SetSums(q, S, g) /\ AddedUp(S, g) = q[S]
  BY SumsOver
<1>3. PICK r : SetSums(r, S, h) /\ AddedUp(S, h) = r[S]
  BY SumsOver
<1>4. a * p[S] <= b * q[S] + c * r[S]
  BY <1>1, <1>2, <1>3, SetSumsCompare
<1> QED BY <1>1, <1>2, <1>3, <1>4

LEMMA SumsOverOrdered ==
  ASSUME NEW S, IsFiniteSet(S), NEW f, NEW g, IntOn(S, f), IntOn(S, g), \A v \in S : f[v] <= g[v]
  PROVE  AddedUp(S, f) <= AddedUp(S, g)
<1>1. PICK one \in Int, zero \in Int : one = 1 /\ zero = 0
  OBVIOUS
<1>2. ASSUME NEW v \in S PROVE one * f[v] <= one * g[v] + zero * g[v]
  <2>1. PICK x \in Int, y \in Int : x = f[v] /\ y = g[v] /\ x <= y
    BY DEF IntOn
  <2>2. one * x <= one * y + zero * y
    BY <1>1, <2>1
  <2> QED BY <2>1, <2>2
<1>3. one * AddedUp(S, f) <= one * AddedUp(S, g) + zero * AddedUp(S, g)
  BY <1>2, SumsOverCompare
<1>4. PICK x \in Int, y \in Int : x = AddedUp(S, f) /\ y = AddedUp(S, g)
  BY SumsOver
<1>5. one * x <= one * y + zero * y
  BY <1>3, <1>4
<1>6. x <= y
  BY <1>1, <1>5
<1> QED BY <1>4, <1>6

LEMMA SumOverNothing ==
  ASSUME NEW S, IsFiniteSet(S), NEW f, \A v \in S : f[v] = 0
  PROVE  AddedUp(S, f) = 0
<1> DEFINE p == [T \in SUBSET S |-> 0]
<1>1. Counted(S)
  BY PartsAreCounted
<1>2. SetSums(p, S, f)
  <2>1. ASSUME NEW T \in SUBSET S, T # {} PROVE p[T] = f[Elem(T)] + p[T \ {Elem(T)}]
    <3>1. PICK v \in S : v = Elem(T) /\ T \ {v} \in SUBSET S
      BY <1>1, <2>1 DEF Counted
    <3>2. p[T] = 0 /\ f[v] = 0 /\ p[T \ {v}] = 0
      BY <3>1
    <3> QED BY <3>1, <3>2
  <2>2. p \in [SUBSET S -> Int] /\ p[{}] = 0
    OBVIOUS
  <2> HIDE DEF p
  <2> QED BY <2>1, <2>2 DEF SetSums
<1>3. p[S] = 0
  OBVIOUS
<1> HIDE DEF p
<1> QED BY <1>2, <1>3, SetSumIs

LEMMA SumOverOne ==
  ASSUME NEW S, IsFiniteSet(S), NEW w \in S, NEW k \in Int, NEW f,
         \A v \in S : f[v] = IF v = w THEN k ELSE 0
  PROVE  AddedUp(S, f) = k
<1> DEFINE p == [T \in SUBSET S |-> IF w \in T THEN k ELSE 0]
<1>1. Counted(S)
  BY PartsAreCounted
<1>2. SetSums(p, S, f)
  <2>1. ASSUME NEW T \in SUBSET S, T # {} PROVE p[T] = f[Elem(T)] + p[T \ {Elem(T)}]
    <3>1. PICK v \in T : v = Elem(T) /\ T \ {v} \in SUBSET S
      BY <1>1, <2>1 DEF Counted
    <3>2. p[T] = (IF v = w THEN k ELSE 0) + p[T \ {v}]
      BY <3>1
    <3> QED BY <3>1, <3>2
  <2>2. p \in [SUBSET S -> Int] /\ p[{}] = 0
    OBVIOUS
  <2> HIDE DEF p
  <2> QED BY <2>1, <2>2 DEF SetSums
<1>3. p[S] = k
  OBVIOUS
<1> HIDE DEF p
<1> QED BY <1>2, <1>3, SetSumIs

\* The sum of what is the sum of two.
LEMMA SumsOverAdd ==
  ASSUME NEW S, IsFiniteSet(S), NEW f, NEW g, NEW h, IntOn(S, f), IntOn(S, g), IntOn(S, h),
         \A v \in S : f[v] = g[v] + h[v]
  PROVE  AddedUp(S, f) = AddedUp(S, g) + AddedUp(S, h)
<1>1. PICK one \in Int, less \in Int : one = 1 /\ less = -1
  OBVIOUS
<1>2. ASSUME NEW v \in S
      PROVE  one * f[v] <= one * g[v] + one * h[v] /\ less * f[v] <= less * g[v] + less * h[v]
  <2>1. PICK x \in Int, y \in Int, z \in Int : x = f[v] /\ y = g[v] /\ z = h[v] /\ x = y + z
    BY DEF IntOn
  <2>2. one * x <= one * y + one * z /\ less * x <= less * y + less * z
    BY <1>1, <2>1
  <2> QED BY <2>1, <2>2
<1>3. one * AddedUp(S, f) <= one * AddedUp(S, g) + one * AddedUp(S, h)
  BY <1>2, SumsOverCompare
<1>4. less * AddedUp(S, f) <= less * AddedUp(S, g) + less * AddedUp(S, h)
  BY <1>2, SumsOverCompare
<1>5. PICK x \in Int, y \in Int, z \in Int :
        x = AddedUp(S, f) /\ y = AddedUp(S, g) /\ z = AddedUp(S, h)
  BY SumsOver
<1>6. one * x <= one * y + one * z /\ less * x <= less * y + less * z
  BY <1>3, <1>4, <1>5
<1>7. x = y + z
  BY <1>1, <1>6
<1> QED BY <1>5, <1>7

\* A term that was nothing is added.
LEMMA SumOverChange ==
  ASSUME NEW S, IsFiniteSet(S), NEW f, NEW g, IntOn(S, g), NEW w \in S, NEW k \in Int,
         g[w] = 0, f[w] = k, \A v \in S : v # w => f[v] = g[v]
  PROVE  AddedUp(S, f) = AddedUp(S, g) + k
<1> DEFINE h == [v \in S |-> IF v = w THEN k ELSE 0]
<1>1. IntOn(S, h) /\ \A v \in S : h[v] = IF v = w THEN k ELSE 0
  BY DEF IntOn
<1> HIDE DEF h
<1>2. AddedUp(S, h) = k
  BY <1>1, SumOverOne
<1>3. \A v \in S : f[v] = g[v] + h[v] /\ f[v] \in Int
  BY <1>1 DEF IntOn
<1>4. AddedUp(S, f) = AddedUp(S, g) + AddedUp(S, h)
  BY <1>1, <1>3, SumsOverAdd DEF IntOn
<1> QED BY <1>2, <1>4

\* The sum of the negated terms.
LEMMA SumsOverNegated ==
  ASSUME NEW S, IsFiniteSet(S), NEW f, NEW g, IntOn(S, f), IntOn(S, g), \A v \in S : f[v] = -g[v]
  PROVE  AddedUp(S, f) = -AddedUp(S, g)
<1> DEFINE zero == [v \in S |-> 0]
<1>1. IntOn(S, zero) /\ (\A v \in S : zero[v] = 0) /\ \A v \in S : zero[v] = f[v] + g[v]
  BY DEF IntOn
<1> HIDE DEF zero
<1>2. AddedUp(S, zero) = 0
  BY <1>1, SumOverNothing
<1>3. AddedUp(S, zero) = AddedUp(S, f) + AddedUp(S, g)
  BY <1>1, SumsOverAdd
<1>4. PICK x \in Int, y \in Int : x = AddedUp(S, f) /\ y = AddedUp(S, g)
  BY SumsOver
<1>5. x + y = 0
  BY <1>2, <1>3, <1>4
<1> QED BY <1>4, <1>5

-----------------------------------------------------------------------------
(* The greedy split.                                                       *)

\* A set with a number for every member has one whose number is least.
LEMMA FiniteLeast ==
  ASSUME NEW S, IsFiniteSet(S), S # {}, NEW f, IntOn(S, f)
  PROVE  \E v \in S : \A w \in S : f[v] <= f[w]
<1> DEFINE Least(T) == \E v \in T : \A w \in T : f[v] <= f[w]
           Bad == {k \in Nat : \E T \in SUBSET S : T # {} /\ Cardinality(T) = k /\ ~Least(T)}
<1>1. Counted(S)
  BY PartsAreCounted
<1>2. ASSUME Bad # {} PROVE FALSE
  <2>1. PICK k \in Bad : \A m \in Bad : k <= m
    <3>1. Bad \subseteq Nat
      OBVIOUS
    <3> HIDE DEF Bad
    <3> QED BY <1>2, <3>1, LeastElement
  <2>2. PICK T \in SUBSET S : T # {} /\ Cardinality(T) = k /\ ~Least(T)
    BY <2>1
  <2>3. PICK e \in S, U \in SUBSET S : e = Elem(T) /\ U = T \ {e} /\ e \in T
    BY <1>1, <2>2 DEF Counted
  <2>4. Cardinality(U) = k - 1 /\ k - 1 \in Nat
    <3>1. Cardinality(U) \in Nat
      BY <1>1 DEF Counted
    <3> QED BY <1>1, <2>2, <2>3, <3>1 DEF Counted
  <2>5. T = U \cup {e}
    BY <2>3
  <2>6. CASE U = {}
    <3>1. T = {e} /\ f[e] <= f[e]
      BY <2>5, <2>6 DEF IntOn
    <3> QED BY <2>2, <3>1
  <2>7. CASE U # {}
    <3>1. Least(U)
      <4>1. k - 1 \notin Bad
        BY <2>1, <2>4
      <4> QED BY <2>4, <2>7, <4>1
    <3>2. PICK v \in U : \A w \in U : f[v] <= f[w]
      BY <3>1
    <3>3. f[v] \in Int /\ f[e] \in Int /\ \A w \in U : f[w] \in Int
      BY <2>3 DEF IntOn
    <3>4. CASE f[v] <= f[e]
      <4>1. v \in T /\ \A w \in T : f[v] <= f[w]
        BY <2>5, <3>2, <3>4
      <4> QED BY <2>2, <4>1
    <3>5. CASE ~(f[v] <= f[e])
      <4>1. \A w \in U : f[e] <= f[w]
        BY <3>2, <3>3, <3>5
      <4>2. \A w \in T : f[e] <= f[w]
        BY <2>5, <3>3, <4>1
      <4> QED BY <2>2, <2>3, <4>2
    <3> QED BY <3>4, <3>5
  <2> QED BY <2>6, <2>7
<1>3. PICK k \in Nat : k = Cardinality(S)
  BY FS_CardinalityType
<1>4. Least(S)
  BY <1>2, <1>3
<1> QED BY <1>4

\* Shares exchanged at a price between two are not exchanged at a loss.
LEMMA NoLossAtThePrice ==
  ASSUME NEW a \in Nat, NEW b \in Nat, NEW k \in Int, NEW t \in Int,
         a < b => t <= k, b < a => k <= t
  PROVE  a * k <= b * k + t * (a - b)
<1>1. CASE a <= b
  <2>1. PICK d \in Nat : b = a + d
    <3>1. b - a \in Nat /\ b = a + (b - a)
      BY <1>1
    <3> QED BY <3>1
  <2>2. CASE d = 0
    <3>1. a - b = 0 /\ t * 0 = 0 /\ a = b
      BY <2>1, <2>2
    <3>2. a * k \in Int
      OBVIOUS
    <3> QED BY <3>1, <3>2
  <2>3. CASE d # 0
    <3>1. PICK e \in Nat : k = t + e
      <4>1. k - t \in Nat /\ k = t + (k - t)
        BY <2>1, <2>3
      <4> QED BY <4>1
    <3>2. d * e \in Nat
      BY ProductOfNaturals
    <3>3. b * k + t * (a - b) = a * k + d * e
      BY <2>1, <3>1
    <3>4. a * k \in Int
      OBVIOUS
    <3> QED BY <3>2, <3>3, <3>4
  <2> QED BY <2>2, <2>3
<1>2. CASE b < a
  <2>1. PICK d \in Nat : a = b + d
    <3>1. a - b \in Nat /\ a = b + (a - b)
      BY <1>2
    <3> QED BY <3>1
  <2>2. PICK e \in Nat : t = k + e
    <3>1. t - k \in Nat /\ t = k + (t - k)
      BY <1>2
    <3> QED BY <3>1
  <2>3. d * e \in Nat
    BY ProductOfNaturals
  <2>4. b * k + t * (a - b) = a * k + d * e
    BY <2>1, <2>2
  <2>5. a * k \in Int
    OBVIOUS
  <2> QED BY <2>3, <2>4, <2>5
<1> QED BY <1>1, <1>2

\* A split takes of each place what it has or less.  It is greedy when no
\* share is left that costs less than one taken.
Fits(S, size, split) == \A v \in S : split[v] \in Nat /\ size[v] \in Nat /\ split[v] <= size[v]
IsGreedy(S, cost, size, split) ==
  \A v \in S, w \in S : split[v] # 0 /\ split[w] < size[w] => cost[v] <= cost[w]

\* There is a price no share taken is above and no share left is below.
LEMMA GreedyHasAPrice ==
  ASSUME NEW S, IsFiniteSet(S), NEW cost, IntOn(S, cost), NEW size, NEW split,
         Fits(S, size, split), IsGreedy(S, cost, size, split)
  PROVE  \E t \in Int : \A v \in S : /\ split[v] # 0 => cost[v] <= t
                                     /\ split[v] < size[v] => t <= cost[v]
<1> DEFINE taken == {v \in S : split[v] # 0}
           down == [v \in taken |-> -cost[v]]
<1>1. CASE taken # {}
  <2>1. IsFiniteSet(taken) /\ IntOn(taken, down)
    <3>1. taken \subseteq S
      OBVIOUS
    <3>2. IsFiniteSet(taken)
      BY <3>1, FS_Subset
    <3>3. IntOn(taken, down)
      BY DEF IntOn
    <3> QED BY <3>2, <3>3
  <2>2. PICK u \in taken : \A w \in taken : down[u] <= down[w]
    <3> HIDE DEF taken, down
    <3> QED BY <1>1, <2>1, FiniteLeast
  <2>3. PICK t \in Int : t = cost[u]
    BY DEF IntOn
  <2>4. ASSUME NEW v \in S
        PROVE  (split[v] # 0 => cost[v] <= t) /\ (split[v] < size[v] => t <= cost[v])
    <3>1. PICK x \in Int : x = cost[v]
      BY DEF IntOn
    <3>2. ASSUME split[v] # 0 PROVE x <= t
      <4>1. v \in taken
        BY <3>2
      <4>2. down[u] = -t /\ down[v] = -x
        BY <2>3, <3>1, <4>1
      <4>3. -t <= -x
        BY <2>2, <4>1, <4>2
      <4> QED BY <4>3
    <3>3. ASSUME split[v] < size[v] PROVE t <= x
      <4>1. u \in S /\ split[u] # 0
        OBVIOUS
      <4> QED BY <2>3, <3>1, <3>3, <4>1 DEF IsGreedy
    <3> QED BY <3>1, <3>2, <3>3
  <2> QED BY <2>4
<1>2. CASE taken = {}
  <2>1. \A v \in S : ~(split[v] # 0)
    BY <1>2
  <2>2. CASE S = {}
    <3>1. 0 \in Int
      OBVIOUS
    <3> QED BY <2>2, <3>1
  <2>3. CASE S # {}
    <3>1. PICK u \in S : \A w \in S : cost[u] <= cost[w]
      BY <2>3, FiniteLeast
    <3>2. cost[u] \in Int
      BY DEF IntOn
    <3> QED BY <2>1, <3>1, <3>2
  <2> QED BY <2>2, <2>3
<1> QED BY <1>1, <1>2

\* No split of as much costs less than a greedy one: what it takes elsewhere
\* it takes above the price, and what it leaves it leaves below.
LEMMA GreedyIsCheapest ==
  ASSUME NEW S, IsFiniteSet(S), NEW cost, IntOn(S, cost), NEW size, NEW split, NEW other,
         Fits(S, size, split), Fits(S, size, other), IsGreedy(S, cost, size, split),
         AddedUp(S, other) = AddedUp(S, split)
  PROVE  /\ AddedUp(S, [v \in S |-> split[v] * cost[v]]) \in Int
         /\ AddedUp(S, [v \in S |-> other[v] * cost[v]]) \in Int
         /\ AddedUp(S, [v \in S |-> split[v] * cost[v]]) <= AddedUp(S, [v \in S |-> other[v] * cost[v]])
<1> DEFINE f == [v \in S |-> split[v] * cost[v]]
           g == [v \in S |-> other[v] * cost[v]]
           h == [v \in S |-> split[v] - other[v]]
<1>1. PICK t \in Int : \A v \in S : /\ split[v] # 0 => cost[v] <= t
                                    /\ split[v] < size[v] => t <= cost[v]
  BY GreedyHasAPrice
<1>2. PICK one \in Int : one = 1
  OBVIOUS
<1>3. ASSUME NEW v \in S
      PROVE  /\ f[v] \in Int /\ g[v] \in Int /\ h[v] \in Int
             /\ one * f[v] <= one * g[v] + t * h[v]
             /\ split[v] \in Int /\ other[v] \in Int /\ split[v] = h[v] + other[v]
  <2>1. PICK x \in Nat, y \in Nat, k \in Int, z \in Nat :
          x = split[v] /\ y = other[v] /\ k = cost[v] /\ z = size[v] /\ x <= z /\ y <= z
    BY DEF Fits, IntOn
  <2>2. x < y => t <= k
    BY <1>1, <2>1
  <2>3. y < x => k <= t
    BY <1>1, <2>1
  <2>4. x * k <= y * k + t * (x - y)
    BY <2>2, <2>3, NoLossAtThePrice
  <2>5. f[v] = x * k /\ g[v] = y * k /\ h[v] = x - y
    BY <2>1
  <2> QED BY <1>2, <2>1, <2>4, <2>5
<1>4. IntOn(S, f) /\ IntOn(S, g) /\ IntOn(S, h) /\ IntOn(S, split) /\ IntOn(S, other)
  <2> HIDE DEF f, g, h
  <2> QED BY <1>3 DEF IntOn
<1> HIDE DEF f, g, h
<1>5. AddedUp(S, h) = 0
  <2>1. AddedUp(S, split) = AddedUp(S, h) + AddedUp(S, other)
    BY <1>3, <1>4, SumsOverAdd
  <2>2. PICK x \in Int, y \in Int : x = AddedUp(S, h) /\ y = AddedUp(S, other)
    BY <1>4, SumsOver
  <2>3. y = x + y
    BY <2>1, <2>2
  <2> QED BY <2>2, <2>3
<1>6. one * AddedUp(S, f) <= one * AddedUp(S, g) + t * AddedUp(S, h)
  BY <1>3, <1>4, SumsOverCompare
<1>7. PICK x \in Int, y \in Int : x = AddedUp(S, f) /\ y = AddedUp(S, g)
  BY <1>4, SumsOver
<1>8. one * x <= one * y + t * 0 /\ t * 0 = 0
  BY <1>5, <1>6, <1>7
<1>9. x <= y
  BY <1>2, <1>8
<1> QED BY <1>7, <1>9 DEF f, g

\* A sequence of the elements of a set has each of them.
LEMMA SeqsOfASet ==
  ASSUME NEW S, IsFiniteSet(S), NEW r \in SetToSeqs(S)
  PROVE  /\ Cardinality(S) \in Nat /\ r \in [1..Cardinality(S) -> S]
         /\ \A i, j \in 1..Cardinality(S) : i # j => r[i] # r[j]
         /\ \A v \in S : \E i \in 1..Cardinality(S) : r[i] = v
<1>1. PICK n \in Nat : n = Cardinality(S)
  BY FS_CardinalityType
<1>2. r \in [1..n -> S] /\ \A i, j \in 1..n : i # j => r[i] # r[j]
  BY <1>1 DEF SetToSeqs
<1>3. Cardinality(1..n) = n
  <2>1. PICK a \in Int, b \in Int : a = 1 /\ b = n
    OBVIOUS
  <2>2. Cardinality(a..b) = IF a > b THEN 0 ELSE b - a + 1
    BY FS_Interval
  <2> QED BY <2>1, <2>2
<1>4. r \in Injection(1..n, S)
  BY <1>2 DEF Injection, IsInjective
<1>5. r \in Surjection(1..n, S)
  <2>1. Cardinality(1..n) = Cardinality(S)
    BY <1>1, <1>3
  <2> QED BY <1>4, <2>1, FS_Injection
<1>6. \A v \in S : \E i \in 1..n : r[i] = v
  BY <1>5 DEF Surjection
<1> QED BY <1>1, <1>2, <1>6

\* The elements of a finite set can be put in the order of their numbers.
LEMMA SortedSeqExists ==
  ASSUME NEW S, IsFiniteSet(S), NEW f, IntOn(S, f)
  PROVE  \E r \in SetToSeqs(S) : \A i, j \in DOMAIN r : i < j => f[r[i]] <= f[r[j]]
<1> DEFINE Sorted(T) == \E r \in SetToSeqs(T) : \A i, j \in DOMAIN r : i < j => f[r[i]] <= f[r[j]]
           Bad == {k \in Nat : \E T \in SUBSET S : Cardinality(T) = k /\ ~Sorted(T)}
<1>1. ASSUME Bad # {} PROVE FALSE
  <2>1. PICK k \in Bad : \A m \in Bad : k <= m
    <3>1. Bad \subseteq Nat
      OBVIOUS
    <3> HIDE DEF Bad
    <3> QED BY <1>1, <3>1, LeastElement
  <2>2. PICK T \in SUBSET S : Cardinality(T) = k /\ ~Sorted(T)
    BY <2>1
  <2>3. IsFiniteSet(T)
    BY FS_Subset
  <2>4. T # {}
    <3>1. ASSUME T = {} PROVE Sorted(T)
      <4>1. Cardinality(T) = 0
        BY <3>1, FS_EmptySet
      <4>2. [i \in 1..0 |-> 0] \in SetToSeqs(T)
        BY <4>1 DEF SetToSeqs
      <4>3. DOMAIN [i \in 1..0 |-> 0] = {}
        OBVIOUS
      <4> QED BY <4>2, <4>3
    <3> QED BY <2>2, <3>1
  <2> DEFINE down == [v \in T |-> -f[v]]
  <2>5. PICK e \in T : \A w \in T : f[w] <= f[e]
    <3>1. IntOn(T, down)
      BY DEF IntOn
    <3>2. PICK e \in T : \A w \in T : down[e] <= down[w]
      <4> HIDE DEF down
      <4> QED BY <2>3, <2>4, <3>1, FiniteLeast
    <3>3. ASSUME NEW w \in T PROVE f[w] <= f[e]
      <4>1. PICK x \in Int, y \in Int : x = f[w] /\ y = f[e]
        BY DEF IntOn
      <4>2. down[w] = -x /\ down[e] = -y
        BY <4>1
      <4>3. -y <= -x
        BY <3>2, <4>2
      <4> QED BY <4>1, <4>3
    <3> QED BY <3>3
  <2>6. PICK U \in SUBSET S : U = T \ {e}
    OBVIOUS
  <2>7. IsFiniteSet(U) /\ Cardinality(U) \in Nat /\ Cardinality(U) = k - 1
    <3>1. IsFiniteSet(U) /\ Cardinality(U) = Cardinality(T) - 1
      BY <2>3, <2>6, FS_RemoveElement
    <3> QED BY <2>2, <3>1, FS_CardinalityType
  <2>8. PICK m \in Nat : m = Cardinality(U) /\ k = m + 1
    BY <2>7
  <2>9. Sorted(U)
    <3>1. m \notin Bad
      BY <2>1, <2>8
    <3> QED BY <2>8, <3>1
  <2>10. PICK r \in SetToSeqs(U) : \A i, j \in DOMAIN r : i < j => f[r[i]] <= f[r[j]]
    BY <2>9
  <2>11. r \in [1..m -> U] /\ DOMAIN r = 1..m /\ \A i, j \in 1..m : i # j => r[i] # r[j]
    BY <2>7, <2>8, SeqsOfASet
  <2> DEFINE s == [i \in 1..k |-> IF i = k THEN e ELSE r[i]]
  <2>12. ASSUME NEW i \in 1..k, i # k PROVE i \in 1..m /\ s[i] = r[i] /\ r[i] \in T /\ r[i] # e
    <3>1. i \in 1..m
      BY <2>2, <2>8, <2>12
    <3>2. r[i] \in U
      BY <2>11, <3>1
    <3> QED BY <2>6, <2>12, <3>1, <3>2
  <2>13. s \in [1..k -> T] /\ s[k] = e
    BY <2>8, <2>12
  <2>14. ASSUME NEW i \in 1..k, NEW j \in 1..k, i # j PROVE s[i] # s[j]
    <3> HIDE DEF s
    <3>1. CASE i = k
      BY <2>12, <2>13, <2>14, <3>1
    <3>2. CASE j = k
      BY <2>12, <2>13, <2>14, <3>2
    <3>3. CASE i # k /\ j # k
      BY <2>11, <2>12, <2>14, <3>3
    <3> QED BY <3>1, <3>2, <3>3
  <2>15. ASSUME NEW i \in 1..k, NEW j \in 1..k, i < j PROVE f[s[i]] <= f[s[j]]
    <3>1. i # k
      BY <2>8, <2>15
    <3> HIDE DEF s
    <3>2. CASE j = k
      BY <2>5, <2>12, <2>13, <3>1, <3>2
    <3>3. CASE j # k
      BY <2>10, <2>11, <2>12, <2>15, <3>1, <3>3
    <3> QED BY <3>2, <3>3
  <2>16. DOMAIN s = 1..k
    OBVIOUS
  <2> HIDE DEF s
  <2>17. s \in SetToSeqs(T)
    BY <2>2, <2>13, <2>14 DEF SetToSeqs
  <2>18. Sorted(T)
    BY <2>15, <2>16, <2>17
  <2> QED BY <2>2, <2>18
<1>2. PICK n \in Nat : n = Cardinality(S)
  BY FS_CardinalityType
<1>3. Sorted(S)
  BY <1>1, <1>2
<1> QED BY <1>3

-----------------------------------------------------------------------------
(* The sweep of the fee-aware router.                                      *)
LEMMA VenuesAreFinite == IsFiniteSet(HftVenues)
BY SchedulesAssumption

LEMMA RoutedIs ==
  ASSUME NEW f, IntOn(HftVenues, f)
  PROVE  Routed(f) = AddedUp(HftVenues, f) /\ Routed(f) \in Int
<1>1. IsFiniteSet(HftVenues)
  BY SchedulesAssumption
<1>2. Routed(f) = AddedUp(HftVenues, f)
  BY DEF Routed, AddedUp
<1> QED BY <1>1, <1>2, SumsOver

RouteOK(c) ==
  /\ c.quantity \in Nat /\ c.limit \in Int /\ c.buy \in BOOLEAN
  /\ c.quotes \in [HftVenues -> [px : Int, sz : Nat]] /\ c.fees \in [HftVenues -> Int]

Size(c, v) == c.quotes[v].sz

\* What a share costs all in, the sign turned for a sale.
Cost(c, v) == IF c.buy THEN AllIn(c, v) ELSE -AllIn(c, v)

LEMMA CostIs ==
  ASSUME NEW c, RouteOK(c), NEW v \in HftVenues
  PROVE  /\ Cost(c, v) \in Int /\ Size(c, v) \in Nat /\ Paid(c, v) \in Int
         /\ Cost(c, v) = IF c.buy THEN Paid(c, v) ELSE -Paid(c, v)
         /\ Shown(c, v) => Size(c, v) > 0
<1>1. PICK px \in Int, sz \in Nat, fee \in Int : px = c.quotes[v].px /\ sz = c.quotes[v].sz /\ fee = c.fees[v]
  BY DEF RouteOK
<1>2. Size(c, v) \in Nat /\ (Shown(c, v) => Size(c, v) > 0)
  BY <1>1 DEF Size, Shown
<1>3. CASE c.buy
  <2>1. AllIn(c, v) = px + fee /\ Paid(c, v) = px + 1 * fee
    BY <1>1, <1>3 DEF AllIn, Paid
  <2> QED BY <1>2, <1>3, <2>1 DEF Cost
<1>4. CASE ~c.buy
  <2>1. AllIn(c, v) = px - fee /\ Paid(c, v) = px + (-1) * fee
    BY <1>1, <1>4 DEF AllIn, Paid
  <2> QED BY <1>2, <1>4, <2>1 DEF Cost
<1> QED BY <1>3, <1>4

LEMMA CheaperIs ==
  ASSUME NEW c, RouteOK(c), NEW v \in HftVenues, NEW w \in HftVenues
  PROVE  Cheaper(c, v, w) <=> Cost(c, v) < Cost(c, w)
<1>1. Paid(c, v) \in Int /\ Paid(c, w) \in Int
  BY CostIs
<1>2. AllIn(c, v) \in Int /\ AllIn(c, w) \in Int
  BY DEF RouteOK, AllIn
<1> QED BY <1>2 DEF Cheaper, Cost

\* Of venues to be swept one is chosen, and none of the others is cheaper.
LEMMA BestVenueIs ==
  ASSUME NEW c, RouteOK(c), NEW some \in SUBSET HftVenues, some # {}
  PROVE  /\ BestVenue(c, some) \in some
         /\ \A w \in some : Cost(c, BestVenue(c, some)) <= Cost(c, w)
<1> DEFINE First(v) == \A w \in some : ~Cheaper(c, w, v) /\ (v # w /\ ~Cheaper(c, v, w) => v < w)
           cost == [v \in some |-> Cost(c, v)]
<1>1. IsFiniteSet(some)
  BY SchedulesAssumption, FS_Subset
<1>2. \A v \in some : Cost(c, v) \in Int /\ v \in Int
  BY CostIs, SchedulesAssumption
<1>3. PICK u \in some : \A w \in some : Cost(c, u) <= Cost(c, w)
  <2>1. IntOn(some, cost)
    BY <1>2 DEF IntOn
  <2>2. PICK u \in some : \A w \in some : cost[u] <= cost[w]
    <3> HIDE DEF cost
    <3> QED BY <1>1, <2>1, FiniteLeast
  <2> QED BY <2>2
<1> DEFINE ties == {v \in some : Cost(c, v) = Cost(c, u)}
           name == [v \in ties |-> v]
<1>4. PICK v \in ties : \A w \in ties : v <= w
  <2>1. ties # {} /\ IsFiniteSet(ties) /\ IntOn(ties, name)
    <3>1. ties \subseteq some
      OBVIOUS
    <3>2. IsFiniteSet(ties)
      BY <1>1, <3>1, FS_Subset
    <3> QED BY <1>2, <3>2 DEF IntOn
  <2>2. PICK v \in ties : \A w \in ties : name[v] <= name[w]
    <3> HIDE DEF name, ties
    <3> QED BY <2>1, FiniteLeast
  <2> QED BY <2>2
<1>5. First(v)
  <2>1. ASSUME NEW w \in some PROVE ~Cheaper(c, w, v) /\ (v # w /\ ~Cheaper(c, v, w) => v < w)
    <3>1. PICK x \in Int, y \in Int : x = Cost(c, v) /\ y = Cost(c, w) /\ x <= y
      BY <1>2, <1>3
    <3>2. ~Cheaper(c, w, v)
      BY <3>1, CheaperIs
    <3>3. ASSUME v # w, ~Cheaper(c, v, w) PROVE v < w
      <4>1. x = y
        BY <3>1, <3>3, CheaperIs
      <4>2. w \in ties
        BY <3>1, <4>1
      <4>3. v <= w /\ v \in Int /\ w \in Int
        BY <1>2, <1>4, <4>2
      <4> QED BY <3>3, <4>3
    <3> QED BY <3>2, <3>3
  <2> QED BY <2>1
<1>6. BestVenue(c, some) \in some /\ First(BestVenue(c, some))
  BY <1>5 DEF BestVenue
<1>7. ASSUME NEW w \in some PROVE Cost(c, BestVenue(c, some)) <= Cost(c, w)
  <2>1. PICK b \in some : b = BestVenue(c, some)
    BY <1>6
  <2>2. ~(Cost(c, w) < Cost(c, b))
    BY <1>6, <2>1, CheaperIs
  <2>3. PICK x \in Int, y \in Int : x = Cost(c, b) /\ y = Cost(c, w)
    BY <1>2
  <2> QED BY <2>1, <2>2, <2>3
<1> QED BY <1>6, <1>7

SweepStates == [out : [HftVenues -> Nat], left : Nat]
Unswept(c, s) == {v \in HftVenues : Shown(c, v) /\ s.out[v] = 0}
SweepEnds(c, s) == s.left = 0 \/ Unswept(c, s) = {}

\* The venue best is swept of what it shows, or of what is left of the order.
Sweeps(c, s, r, best, take) ==
  /\ best \in Unswept(c, s) /\ \A w \in Unswept(c, s) : Cost(c, best) <= Cost(c, w)
  /\ take \in Nat /\ 0 < take /\ take <= s.left /\ take <= Size(c, best)
  /\ take = s.left \/ take = Size(c, best)
  /\ r = [out |-> [s.out EXCEPT ![best] = take], left |-> s.left - take]

LEMMA SweepOneIs ==
  ASSUME NEW c, RouteOK(c), NEW s \in SweepStates
  PROVE  /\ SweepOne(c, s) \in SweepStates
         /\ SweepEnds(c, s) => SweepOne(c, s) = s
         /\ ~SweepEnds(c, s) => \E best, take : Sweeps(c, s, SweepOne(c, s), best, take)
<1>1. PICK left \in Nat : left = s.left
  BY DEF SweepStates
<1>2. s.left <= 0 <=> s.left = 0
  BY <1>1
<1>3. CASE SweepEnds(c, s)
  <2>1. s.left <= 0 \/ {v \in HftVenues : Shown(c, v) /\ s.out[v] = 0} = {}
    BY <1>2, <1>3 DEF SweepEnds, Unswept
  <2>2. SweepOne(c, s) = s
    BY <2>1 DEF SweepOne
  <2> QED BY <1>3, <2>2
<1>4. CASE ~SweepEnds(c, s)
  <2> DEFINE best == BestVenue(c, Unswept(c, s))
             take == Min({s.left, c.quotes[best].sz})
             r == [out |-> [s.out EXCEPT ![best] = take], left |-> s.left - take]
  <2>1. Unswept(c, s) \in SUBSET HftVenues /\ Unswept(c, s) # {} /\ left # 0
    BY <1>1, <1>4 DEF SweepEnds, Unswept
  <2>2. best \in Unswept(c, s) /\ \A w \in Unswept(c, s) : Cost(c, best) <= Cost(c, w)
    BY <2>1, BestVenueIs
  <2>3. SweepOne(c, s) = r
    BY <1>2, <1>4 DEF SweepOne, SweepEnds, Unswept
  <2>4. best \in HftVenues /\ Shown(c, best)
    BY <2>2 DEF Unswept
  <2> HIDE DEF best
  <2>5. PICK sz \in Nat : sz = c.quotes[best].sz /\ sz = Size(c, best) /\ sz > 0
    BY <2>4, CostIs DEF Size
  <2>6. take \in {left, sz} /\ take <= left /\ take <= sz
    <3> DEFINE T == {left, sz}
    <3>1. T \subseteq Nat /\ T # {} /\ left \in T /\ sz \in T
      OBVIOUS
    <3>2. take = Min(T)
      BY <1>1, <2>5
    <3> HIDE DEF T, take
    <3>3. take \in T /\ take <= left /\ take <= sz
      BY <3>1, <3>2, MinOfNaturals
    <3> QED BY <3>3 DEF T
  <2> HIDE DEF take
  <2>7. take \in Nat /\ 0 < take /\ take <= s.left /\ take <= Size(c, best)
        /\ (take = s.left \/ take = Size(c, best))
    BY <1>1, <2>1, <2>5, <2>6
  <2>8. left - take \in Nat /\ [s.out EXCEPT ![best] = take] \in [HftVenues -> Nat]
    BY <1>1, <2>4, <2>7 DEF SweepStates
  <2>9. r \in SweepStates
    BY <1>1, <2>8 DEF SweepStates
  <2>10. Sweeps(c, s, r, best, take)
    BY <2>2, <2>7 DEF Sweeps
  <2> QED BY <1>4, <2>3, <2>9, <2>10
<1> QED BY <1>3, <1>4

\* What the loop keeps: nothing but what is shown is taken, a venue is left
\* with some only when the order is routed, and what is taken is no dearer
\* than what is not.
SweepOK(c, s) ==
  /\ s \in SweepStates
  /\ Routed(s.out) + s.left = c.quantity
  /\ \A v \in HftVenues :
       /\ s.out[v] + s.left <= c.quantity
       /\ s.out[v] # 0 => Shown(c, v) /\ s.out[v] <= Size(c, v) /\ (s.left # 0 => s.out[v] = Size(c, v))
  /\ \A v \in HftVenues, w \in HftVenues :
       s.out[v] # 0 /\ Shown(c, w) /\ s.out[w] < Size(c, w) => Cost(c, v) <= Cost(c, w)

LEMMA SweepStarts ==
  ASSUME NEW c, RouteOK(c)
  PROVE  SweepOK(c, [out |-> [v \in HftVenues |-> 0], left |-> c.quantity])
<1> DEFINE s == [out |-> [v \in HftVenues |-> 0], left |-> c.quantity]
<1>1. s \in SweepStates /\ c.quantity \in Nat
  BY DEF SweepStates, RouteOK
<1>2. Routed(s.out) = 0
  <2>1. IntOn(HftVenues, s.out) /\ \A v \in HftVenues : s.out[v] = 0
    BY DEF IntOn
  <2> HIDE DEF s
  <2> QED BY <2>1, VenuesAreFinite, RoutedIs, SumOverNothing
<1>3. Routed(s.out) + s.left = c.quantity
  BY <1>1, <1>2
<1>4. \A v \in HftVenues : s.out[v] = 0 /\ s.out[v] + s.left <= c.quantity
  BY <1>1
<1> HIDE DEF s
<1>5. SweepOK(c, s)
  BY <1>1, <1>3, <1>4 DEF SweepOK
<1> QED BY <1>5 DEF s

LEMMA SweepGoesOn ==
  ASSUME NEW c, RouteOK(c), NEW s, SweepOK(c, s), NEW r, NEW best, NEW take, Sweeps(c, s, r, best, take),
         s.left # 0
  PROVE  SweepOK(c, r)
<1>1. PICK left \in Nat, q \in Nat, out \in [HftVenues -> Nat] :
        left = s.left /\ q = c.quantity /\ out = s.out
  BY DEF SweepOK, SweepStates, RouteOK
<1>2. /\ best \in HftVenues /\ Shown(c, best) /\ out[best] = 0
      /\ take \in Nat /\ 0 < take /\ take <= left
  BY <1>1 DEF Sweeps, Unswept
<1>3. PICK new \in [HftVenues -> Nat], rest \in Nat :
        /\ new = [out EXCEPT ![best] = take] /\ rest = left - take
        /\ r.out = new /\ r.left = rest /\ r \in SweepStates
  <2>1. [out EXCEPT ![best] = take] \in [HftVenues -> Nat] /\ left - take \in Nat
    BY <1>2
  <2>2. r = [out |-> [out EXCEPT ![best] = take], left |-> left - take]
    BY <1>1 DEF Sweeps
  <2>3. r \in SweepStates
    BY <2>1, <2>2 DEF SweepStates
  <2> QED BY <2>1, <2>2, <2>3
<1>4. new[best] = take /\ \A v \in HftVenues : v # best => new[v] = out[v]
  BY <1>2, <1>3
<1>5. Routed(new) + rest = q
  <2>1. IntOn(HftVenues, out) /\ IntOn(HftVenues, new) /\ take \in Int
    BY <1>2 DEF IntOn
  <2>2. AddedUp(HftVenues, new) = AddedUp(HftVenues, out) + take
    <3>1. new[best] = take /\ out[best] = 0 /\ best \in HftVenues /\ \A v \in HftVenues : v # best => new[v] = out[v]
      BY <1>2, <1>4
    <3> QED BY <2>1, <3>1, VenuesAreFinite, SumOverChange
  <2>3. PICK x \in Int : x = Routed(out) /\ Routed(new) = x + take
    BY <2>1, <2>2, RoutedIs
  <2>4. x + left = q
    BY <1>1, <2>3 DEF SweepOK
  <2> QED BY <1>2, <1>3, <2>3, <2>4
<1>6. ASSUME NEW v \in HftVenues
      PROVE  /\ new[v] + rest <= q
             /\ new[v] # 0 => Shown(c, v) /\ new[v] <= Size(c, v) /\ (rest # 0 => new[v] = Size(c, v))
  <2>1. out[v] + left <= q
        /\ (out[v] # 0 => Shown(c, v) /\ out[v] <= Size(c, v) /\ out[v] = Size(c, v))
    BY <1>1 DEF SweepOK
  <2>2. CASE v = best
    <3>1. take <= Size(c, best) /\ (take = left \/ take = Size(c, best))
      BY <1>1 DEF Sweeps
    <3>2. new[v] + rest <= q
      BY <1>2, <1>3, <1>4, <2>1, <2>2
    <3>3. rest # 0 => take = Size(c, best)
      BY <1>3, <3>1
    <3> QED BY <1>2, <1>4, <2>2, <3>1, <3>2, <3>3
  <2>3. CASE v # best
    <3>1. new[v] = out[v]
      BY <1>4, <2>3
    <3>2. PICK x \in Nat : x = out[v]
      OBVIOUS
    <3>3. x + rest <= q
      BY <1>2, <1>3, <2>1, <3>2
    <3> QED BY <2>1, <3>1, <3>2, <3>3
  <2> QED BY <2>2, <2>3
<1>7. ASSUME NEW v \in HftVenues, NEW w \in HftVenues, new[v] # 0, Shown(c, w), new[w] < Size(c, w)
      PROVE  Cost(c, v) <= Cost(c, w)
  <2>1. Size(c, w) \in Nat /\ Size(c, w) > 0 /\ Cost(c, v) \in Int /\ Cost(c, w) \in Int
    BY <1>7, CostIs
  <2>2. out[w] < Size(c, w)
    BY <1>2, <1>4, <1>7, <2>1
  <2>3. CASE v = best /\ w = best
    BY <2>1, <2>3
  <2>4. CASE v = best /\ w # best
    <3>1. out[w] = 0
      <4>1. out[w] # 0 => out[w] = Size(c, w)
        BY <1>1 DEF SweepOK
      <4> QED BY <2>1, <2>2, <4>1
    <3>2. w \in Unswept(c, s)
      BY <1>1, <1>7, <3>1 DEF Unswept
    <3> QED BY <2>4, <3>2 DEF Sweeps
  <2>5. CASE v # best
    <3>1. out[v] # 0
      BY <1>4, <1>7, <2>5
    <3> QED BY <1>1, <1>7, <2>2, <3>1 DEF SweepOK
  <2> QED BY <2>3, <2>4, <2>5
<1> QED BY <1>1, <1>3, <1>5, <1>6, <1>7 DEF SweepOK

\* Every turn sweeps one venue more, until the sweep ends.
Emptied(s) == {v \in HftVenues : s.out[v] # 0}
GetsOn(c, s, k) == SweepEnds(c, s) \/ k <= Cardinality(Emptied(s))

LEMMA SweepGetsOn ==
  ASSUME NEW c, RouteOK(c), NEW s \in SweepStates, NEW r \in SweepStates, NEW best, NEW take,
         Sweeps(c, s, r, best, take), NEW k \in Nat, k <= Cardinality(Emptied(s))
  PROVE  k + 1 <= Cardinality(Emptied(r))
<1>1. IsFiniteSet(Emptied(s))
  <2>1. Emptied(s) \subseteq HftVenues
    BY DEF Emptied
  <2> QED BY <2>1, SchedulesAssumption, FS_Subset
<1>2. best \in HftVenues /\ best \notin Emptied(s)
  BY DEF Sweeps, Unswept, Emptied
<1>3. Emptied(r) = Emptied(s) \cup {best}
  <2>1. PICK out \in [HftVenues -> Nat] : out = s.out
    BY DEF SweepStates
  <2>2. r.out = [out EXCEPT ![best] = take] /\ take # 0
    BY <2>1 DEF Sweeps
  <2>3. r.out[best] # 0 /\ \A v \in HftVenues : v # best => r.out[v] = out[v]
    BY <1>2, <2>1, <2>2
  <2> QED BY <1>2, <2>1, <2>3 DEF Emptied
<1>4. PICK n \in Nat : n = Cardinality(Emptied(s))
  BY <1>1, FS_CardinalityType
<1>5. Cardinality(Emptied(s) \cup {best}) = n + 1
  BY <1>1, <1>2, <1>4, FS_AddElement
<1>6. k + 1 <= n + 1
  BY <1>4
<1> QED BY <1>3, <1>5, <1>6

\* A sweep that got on for as many turns as there are venues is at its end.
LEMMA SweepEndsInTime ==
  ASSUME NEW c, RouteOK(c), NEW s \in SweepStates, GetsOn(c, s, Cardinality(HftVenues))
  PROVE  SweepEnds(c, s)
<1>1. SUFFICES ASSUME Cardinality(HftVenues) <= Cardinality(Emptied(s)) PROVE SweepEnds(c, s)
  BY DEF GetsOn
<1>2. Emptied(s) \subseteq HftVenues /\ IsFiniteSet(HftVenues)
  BY SchedulesAssumption DEF Emptied
<1>3. IsFiniteSet(Emptied(s)) /\ Cardinality(Emptied(s)) <= Cardinality(HftVenues)
      /\ (Cardinality(Emptied(s)) = Cardinality(HftVenues) => Emptied(s) = HftVenues)
  BY <1>2, FS_Subset
<1>4. Cardinality(Emptied(s)) \in Nat /\ Cardinality(HftVenues) \in Nat
  BY <1>2, <1>3, FS_CardinalityType
<1>5. Emptied(s) = HftVenues
  BY <1>1, <1>3, <1>4
<1>6. Unswept(c, s) = {}
  BY <1>5 DEF Emptied, Unswept
<1> QED BY <1>6 DEF SweepEnds

(* The router's answer is what a sweep that is at its end has taken.       *)
LEMMA RouteIsSwept ==
  ASSUME NEW c, RouteOK(c)
  PROVE  \E s : SweepOK(c, s) /\ SweepEnds(c, s) /\ HftRoute(c) = s.out
<1> DEFINE N == Cardinality(HftVenues)
           first == [out |-> [v \in HftVenues |-> 0], left |-> c.quantity]
           Loop(f) == [n \in 0..N |-> IF n = 0 THEN first ELSE SweepOne(c, f[n - 1])]
           sweep == CHOOSE f : f = Loop(f)
           step == [k \in 1..N |-> [s \in SweepStates |-> SweepOne(c, s)]]
<1>1. N \in Nat /\ first \in SweepStates /\ SweepOK(c, first)
  <2>1. SweepOK(c, first)
    BY SweepStarts
  <2>2. N \in Nat
    BY SchedulesAssumption, FS_CardinalityType
  <2> QED BY <2>1, <2>2 DEF SweepOK
<1>2. step \in [1..N -> [SweepStates -> SweepStates]]
  BY SweepOneIs
<1>3. PICK f : f \in [0..N -> SweepStates] /\ f[0] = first /\ \A k \in 1..N : f[k] = step[k][f[k - 1]]
  <2>1. PICK f : IsIteration(f, SweepStates, first, N, step)
    <3> HIDE DEF N, step, first
    <3> QED BY <1>1, <1>2, Iterates
  <2> HIDE DEF N, step, first
  <2> QED BY <2>1 DEF IsIteration
<1> HIDE DEF first
<1>4. ASSUME NEW k \in 1..N PROVE k - 1 \in 0..N /\ f[k] = SweepOne(c, f[k - 1])
  <2>1. k - 1 \in 0..N
    BY <1>1
  <2>2. PICK s \in SweepStates : s = f[k - 1]
    BY <1>3, <2>1
  <2>3. step[k][s] = SweepOne(c, s)
    OBVIOUS
  <2> QED BY <1>3, <2>1, <2>2, <2>3
<1>5. f = Loop(f)
  BY <1>1, <1>3, <1>4
<1>6. sweep = Loop(sweep)
  BY <1>5
<1>7. HftRoute(c) = sweep[N].out
  BY DEF HftRoute, first
<1> HIDE DEF sweep, step
<1>8. sweep[0] = first
  <2>1. 0 \in 0..N
    BY <1>1
  <2> QED BY <1>6, <2>1
<1>9. ASSUME NEW k \in 1..N PROVE k - 1 \in 0..N /\ sweep[k] = SweepOne(c, sweep[k - 1])
  <2>1. k \in 0..N /\ k # 0 /\ k - 1 \in 0..N
    BY <1>1
  <2> QED BY <1>6, <2>1
<1> DEFINE Good(k) == SweepOK(c, sweep[k]) /\ GetsOn(c, sweep[k], k)
           Bad == {k \in 0..N : ~Good(k)}
<1>10. ASSUME Bad # {} PROVE FALSE
  <2>1. PICK k \in Bad : \A m \in Bad : k <= m
    <3>1. Bad \subseteq Nat
      BY <1>1
    <3> HIDE DEF Bad
    <3> QED BY <1>10, <3>1, LeastElement
  <2>2. k \in 0..N /\ ~Good(k)
    BY <2>1
  <2>3. k # 0
    <3>1. PICK n \in Nat : n = Cardinality(Emptied(first))
      <4>1. Emptied(first) \subseteq HftVenues
        BY DEF Emptied
      <4> QED BY <4>1, SchedulesAssumption, FS_Subset, FS_CardinalityType
    <3>2. GetsOn(c, first, 0)
      BY <3>1 DEF GetsOn
    <3>3. Good(0)
      BY <1>1, <1>8, <3>2
    <3> QED BY <2>2, <3>3
  <2>4. k \in 1..N /\ k - 1 \in 0..N /\ k - 1 \in Nat /\ k - 1 < k
    BY <1>1, <2>2, <2>3
  <2>5. PICK j \in Nat : j = k - 1
    BY <2>4
  <2>6. Good(j)
    <3>1. j \notin Bad
      <4> HIDE DEF Bad
      <4> QED BY <2>1, <2>4, <2>5
    <3> QED BY <2>4, <2>5, <3>1
  <2>7. PICK s \in SweepStates, r \in SweepStates :
          s = sweep[j] /\ r = sweep[k] /\ r = SweepOne(c, s) /\ SweepOK(c, s) /\ GetsOn(c, s, j)
    <3>1. sweep[j] \in SweepStates
      BY <2>6 DEF SweepOK
    <3>2. SweepOne(c, sweep[j]) \in SweepStates
      BY <3>1, SweepOneIs
    <3> QED BY <1>9, <2>4, <2>5, <2>6, <3>1, <3>2
  <2>8. SweepOK(c, r) /\ GetsOn(c, r, k)
    <3>1. CASE SweepEnds(c, s)
      <4>1. r = s
        BY <2>7, <3>1, SweepOneIs
      <4> QED BY <2>7, <3>1, <4>1 DEF GetsOn
    <3>2. CASE ~SweepEnds(c, s)
      <4>1. PICK best, take : Sweeps(c, s, r, best, take)
        BY <2>7, <3>2, SweepOneIs
      <4>2. s.left # 0
        BY <3>2 DEF SweepEnds
      <4>3. SweepOK(c, r)
        BY <2>7, <4>1, <4>2, SweepGoesOn
      <4>4. j <= Cardinality(Emptied(s))
        BY <2>7, <3>2 DEF GetsOn
      <4>5. j + 1 <= Cardinality(Emptied(r))
        BY <2>7, <4>1, <4>4, SweepGetsOn
      <4>6. j + 1 = k
        BY <2>4, <2>5
      <4> QED BY <4>3, <4>5, <4>6 DEF GetsOn
    <3> QED BY <3>1, <3>2
  <2> QED BY <2>2, <2>7, <2>8
<1>11. N \in 0..N
  BY <1>1
<1>12. SweepOK(c, sweep[N]) /\ GetsOn(c, sweep[N], N)
  BY <1>10, <1>11
<1>13. SweepEnds(c, sweep[N])
  <2>1. sweep[N] \in SweepStates
    BY <1>12 DEF SweepOK
  <2> QED BY <1>12, <2>1, SweepEndsInTime
<1> QED BY <1>7, <1>12, <1>13

LEMMA SplitsAre ==
  ASSUME NEW c, RouteOK(c), NEW split \in Splits(c)
  PROVE  /\ split \in [HftVenues -> Nat] /\ split \in [HftVenues -> Int]
         /\ \A v \in HftVenues :
              split[v] <= Size(c, v) /\ (~Shown(c, v) => split[v] = 0)
<1>1. split \in [HftVenues -> 0..c.quantity]
      /\ \A v \in HftVenues : split[v] <= (IF Shown(c, v) THEN c.quotes[v].sz ELSE 0)
  BY DEF Splits
<1>2. \A v \in HftVenues : split[v] \in Nat
  BY <1>1
<1>3. split \in [HftVenues -> Nat] /\ split \in [HftVenues -> Int]
  BY <1>1, <1>2
<1>4. ASSUME NEW v \in HftVenues PROVE split[v] <= Size(c, v) /\ (~Shown(c, v) => split[v] = 0)
  <2>1. PICK x \in Nat, sz \in Nat : x = split[v] /\ sz = c.quotes[v].sz /\ sz = Size(c, v)
    BY <1>2 DEF RouteOK, Size
  <2>2. x <= (IF Shown(c, v) THEN sz ELSE 0)
    BY <1>1, <2>1
  <2> QED BY <2>1, <2>2
<1> QED BY <1>3, <1>4

LEMMA SweptIsASplit ==
  ASSUME NEW c, RouteOK(c), NEW s, SweepOK(c, s)
  PROVE  s.out \in Splits(c)
<1>1. PICK out \in [HftVenues -> Nat], left \in Nat, q \in Nat :
        out = s.out /\ left = s.left /\ q = c.quantity
  BY DEF SweepOK, SweepStates, RouteOK
<1>2. ASSUME NEW v \in HftVenues
      PROVE  out[v] \in 0..q /\ out[v] <= (IF Shown(c, v) THEN c.quotes[v].sz ELSE 0)
  <2>1. PICK x \in Nat, sz \in Nat : x = out[v] /\ sz = c.quotes[v].sz /\ sz = Size(c, v)
    BY DEF RouteOK, Size
  <2>2. x + left <= q /\ (x # 0 => Shown(c, v) /\ x <= sz)
    BY <1>1, <2>1 DEF SweepOK
  <2> QED BY <2>1, <2>2
<1>3. out \in [HftVenues -> 0..q]
  BY <1>2
<1> QED BY <1>1, <1>2, <1>3 DEF Splits

\* At its end the sweep has routed all of the order, or all that is shown.
LEMMA SweepTakesAll ==
  ASSUME NEW c, RouteOK(c), NEW s, SweepOK(c, s), SweepEnds(c, s),
         NEW split \in Splits(c), Routed(split) <= c.quantity
  PROVE  Routed(split) <= Routed(s.out)
<1>1. PICK out \in [HftVenues -> Nat], left \in Nat, q \in Nat :
        out = s.out /\ left = s.left /\ q = c.quantity
  BY DEF SweepOK, SweepStates, RouteOK
<1>2. IntOn(HftVenues, out) /\ IntOn(HftVenues, split)
  BY SplitsAre DEF IntOn
<1>3. CASE left = 0
  <2>1. PICK x \in Int : x = Routed(out)
    BY <1>2, RoutedIs
  <2>2. x + left = q
    BY <1>1, <2>1 DEF SweepOK
  <2> QED BY <1>1, <1>3, <2>1, <2>2
<1>4. CASE left # 0
  <2>1. ASSUME NEW v \in HftVenues PROVE split[v] <= out[v]
    <3>1. PICK x \in Nat, y \in Nat : x = split[v] /\ y = out[v]
      BY SplitsAre
    <3>2. CASE Shown(c, v)
      <4>1. y # 0
        BY <1>1, <1>4, <3>1, <3>2 DEF SweepEnds, Unswept
      <4>2. y = Size(c, v)
        BY <1>1, <1>4, <3>1, <4>1 DEF SweepOK
      <4> QED BY <3>1, <4>2, SplitsAre
    <3>3. CASE ~Shown(c, v)
      <4>1. x = 0
        BY <3>1, <3>3, SplitsAre
      <4> QED BY <3>1, <4>1
    <3> QED BY <3>2, <3>3
  <2>2. AddedUp(HftVenues, split) <= AddedUp(HftVenues, out)
    BY <1>2, <2>1, VenuesAreFinite, SumsOverOrdered
  <2> QED BY <1>1, <1>2, <2>2, RoutedIs
<1> QED BY <1>3, <1>4

\* The sweep is greedy, so no split of as much costs less.
LEMMA SweepCostsLeast ==
  ASSUME NEW c, RouteOK(c), NEW s, SweepOK(c, s),
         NEW split \in Splits(c), Routed(split) = Routed(s.out)
  PROVE  IF c.buy THEN Bill(c, s.out) <= Bill(c, split) ELSE Bill(c, s.out) >= Bill(c, split)
<1> DEFINE cost == [v \in HftVenues |-> Cost(c, v)]
           size == [v \in HftVenues |-> IF Shown(c, v) THEN Size(c, v) ELSE 0]
<1>1. PICK out \in [HftVenues -> Nat] : out = s.out
  BY DEF SweepOK, SweepStates
<1>2. \A v \in HftVenues : /\ Cost(c, v) \in Int /\ Size(c, v) \in Nat /\ Paid(c, v) \in Int
                           /\ split[v] \in Nat /\ split[v] <= Size(c, v)
                           /\ ~Shown(c, v) => split[v] = 0
  BY CostIs, SplitsAre
<1>3. IntOn(HftVenues, cost) /\ IntOn(HftVenues, out) /\ IntOn(HftVenues, split)
  BY <1>2 DEF IntOn
<1>4. Fits(HftVenues, size, out) /\ Fits(HftVenues, size, split)
  <2>1. \A v \in HftVenues : out[v] # 0 => Shown(c, v) /\ out[v] <= Size(c, v)
    BY <1>1 DEF SweepOK
  <2> QED BY <1>2, <2>1 DEF Fits
<1>5. IsGreedy(HftVenues, cost, size, out)
  <2>1. ASSUME NEW v \in HftVenues, NEW w \in HftVenues, out[v] # 0, out[w] < size[w]
        PROVE  cost[v] <= cost[w]
    <3>1. Shown(c, w) /\ out[w] < Size(c, w)
      BY <2>1
    <3> QED BY <1>1, <2>1, <3>1 DEF SweepOK
  <2> QED BY <2>1 DEF IsGreedy
<1>6. AddedUp(HftVenues, split) = AddedUp(HftVenues, out)
  BY <1>1, <1>3, RoutedIs
<1> DEFINE f == [v \in HftVenues |-> out[v] * cost[v]]
           g == [v \in HftVenues |-> split[v] * cost[v]]
           a == [v \in HftVenues |-> out[v] * Paid(c, v)]
           b == [v \in HftVenues |-> split[v] * Paid(c, v)]
<1>7. PICK x \in Int, y \in Int : x = AddedUp(HftVenues, f) /\ y = AddedUp(HftVenues, g) /\ x <= y
  <2> HIDE DEF cost, size
  <2>1. /\ AddedUp(HftVenues, f) \in Int /\ AddedUp(HftVenues, g) \in Int
        /\ AddedUp(HftVenues, f) <= AddedUp(HftVenues, g)
    BY <1>3, <1>4, <1>5, <1>6, VenuesAreFinite, GreedyIsCheapest
  <2> HIDE DEF f, g
  <2> QED BY <2>1
<1>8. ASSUME NEW v \in HftVenues
      PROVE  /\ f[v] \in Int /\ g[v] \in Int /\ a[v] \in Int /\ b[v] \in Int
             /\ IF c.buy THEN f[v] = a[v] /\ g[v] = b[v] ELSE f[v] = -a[v] /\ g[v] = -b[v]
  <2>1. PICK m \in Nat, n \in Nat, p \in Int, k \in Int :
          /\ m = out[v] /\ n = split[v] /\ p = Paid(c, v) /\ k = cost[v]
          /\ k = IF c.buy THEN p ELSE -p
    BY <1>2, CostIs
  <2>2. f[v] = m * k /\ g[v] = n * k /\ a[v] = m * p /\ b[v] = n * p
    BY <2>1
  <2> QED BY <2>1, <2>2
<1>9. IntOn(HftVenues, f) /\ IntOn(HftVenues, g) /\ IntOn(HftVenues, a) /\ IntOn(HftVenues, b)
  <2> HIDE DEF f, g, a, b
  <2> QED BY <1>8 DEF IntOn
<1>10. Bill(c, out) = AddedUp(HftVenues, a) /\ Bill(c, split) = AddedUp(HftVenues, b)
  BY DEF Bill, Routed, AddedUp
<1> HIDE DEF f, g, a, b
<1>11. PICK m \in Int, n \in Int : m = AddedUp(HftVenues, a) /\ n = AddedUp(HftVenues, b)
  BY <1>9, VenuesAreFinite, SumsOver
<1>12. CASE c.buy
  <2>1. x <= m /\ m <= x /\ y <= n /\ n <= y
    <3>1. \A v \in HftVenues : f[v] <= a[v] /\ a[v] <= f[v] /\ g[v] <= b[v] /\ b[v] <= g[v]
      BY <1>8, <1>12
    <3> QED BY <1>7, <1>9, <1>11, <3>1, VenuesAreFinite, SumsOverOrdered
  <2> QED BY <1>1, <1>7, <1>10, <1>11, <1>12, <2>1
<1>13. CASE ~c.buy
  <2>1. x = -m /\ y = -n
    <3>1. (\A v \in HftVenues : f[v] = -a[v]) /\ \A v \in HftVenues : g[v] = -b[v]
      BY <1>8, <1>13
    <3>2. AddedUp(HftVenues, f) = -AddedUp(HftVenues, a)
      BY <1>9, <3>1, VenuesAreFinite, SumsOverNegated
    <3>3. AddedUp(HftVenues, g) = -AddedUp(HftVenues, b)
      BY <1>9, <3>1, VenuesAreFinite, SumsOverNegated
    <3> QED BY <1>7, <1>11, <3>2, <3>3
  <2> QED BY <1>1, <1>7, <1>10, <1>11, <1>13, <2>1
<1> QED BY <1>12, <1>13

LEMMA RouteIsCheapest ==
  ASSUME call.kind = "route" => RouteOK(call) \/ ~(call.quantity >= 0)
  PROVE  SweepIsCheapest
<1>1. SUFFICES ASSUME call.kind = "route", call.quantity >= 0, RouteOK(call)
               PROVE  SweepIsCheapest
  BY DEF SweepIsCheapest
<1>2. PICK s : SweepOK(call, s) /\ SweepEnds(call, s) /\ HftRoute(call) = s.out
  BY <1>1, RouteIsSwept
<1>3. s.out \in Splits(call)
  BY <1>1, <1>2, SweptIsASplit
<1>4. ASSUME NEW split \in Splits(call)
      PROVE  /\ Routed(split) <= call.quantity => Routed(split) <= Routed(s.out)
             /\ Routed(split) = Routed(s.out) =>
                  IF call.buy THEN Bill(call, s.out) <= Bill(call, split)
                  ELSE Bill(call, s.out) >= Bill(call, split)
  BY <1>1, <1>2, <1>4, SweepTakesAll, SweepCostsLeast
<1> QED BY <1>2, <1>3, <1>4 DEF SweepIsCheapest

-----------------------------------------------------------------------------
(* One call after another.                                                 *)
SliceKinds == {"vwap", "twap", "is", "wmr"}
CallInv ==
  /\ call.kind \in SliceKinds =>
       call.quantity \in Int /\ call.duration \in Int /\ call.weights \in Seq(Int)
  /\ call.kind = "route" =>
       /\ call.quantity \in Int /\ call.limit \in Int /\ call.buy \in BOOLEAN
       /\ call.quotes \in [HftVenues -> [px : Int, sz : Nat]] /\ call.fees \in [HftVenues -> Int]

\* What is asked of the schedulers is of their parameters' types.
LEMMA CallStart == CallInit => CallInv
BY DEF CallInit, Idle, CallInv, SliceKinds

LEMMA CallKeeps == ASSUME CallNext PROVE CallInv'
<1>1. SUFFICES ASSUME call' \in ScheduleCalls \cup RouteCalls PROVE CallInv'
  BY DEF CallNext, Ask
<1>2. NaN \in Int
  BY DEF NaN
<1>3. <<NaN, NaN>> \in Seq(Int)
  BY <1>2
<1>4. CASE call' \in ScheduleCalls
  <2>1. call'.quantity \in Int /\ call'.duration \in Int /\ call'.weights \in Seq(Int)
    <3>1. PICK k \in SliceKinds, q \in Quantities, d \in Durations, w \in Weights \cup {<<NaN, NaN>>} :
            call' = [kind |-> k, quantity |-> q, duration |-> d, weights |-> w]
      BY <1>4 DEF ScheduleCalls, SliceKinds
    <3>2. q \in Int /\ d \in Int /\ w \in Seq(Int)
      BY <1>3, <3>1, SchedulesAssumption
    <3> QED BY <3>1, <3>2
  <2>2. call'.kind # "route"
    BY <1>4 DEF ScheduleCalls
  <2> QED BY <2>1, <2>2 DEF CallInv
<1>5. CASE call' \in RouteCalls
  <2>1. PICK b \in BOOLEAN, q \in Quantities, l \in Limits, x \in QuoteSets, f \in FeeSets :
          call' = [kind |-> "route", buy |-> b, quantity |-> q, limit |-> l, quotes |-> x, fees |-> f]
    BY <1>5 DEF RouteCalls
  <2>2. /\ q \in Int /\ l \in Int /\ f \in [HftVenues -> Int]
        /\ x \in [HftVenues -> [px : Int, sz : Nat]]
    BY <2>1, SchedulesAssumption
  <2>3. /\ call'.kind = "route" /\ call'.quantity = q /\ call'.limit = l /\ call'.buy = b
        /\ call'.quotes = x /\ call'.fees = f
    BY <2>1
  <2>4. call'.kind \notin SliceKinds
    BY <2>3 DEF SliceKinds
  <2> QED BY <2>2, <2>3, <2>4 DEF CallInv
<1> QED BY <1>1, <1>4, <1>5

\* The weights the slices of a call are in proportion to.
WeightsOf(s) == IF call.kind \in {"twap", "wmr"} THEN [i \in DOMAIN s |-> 1] ELSE call.weights

LEMMA SlicesOfACall ==
  ASSUME CallInv, call.kind \in SliceKinds, NEW s, s = Slices(call), s # Raised
  PROVE  /\ AreTheParent(s, call.quantity, call.duration, WeightsOf(s))
         /\ call.kind = "wmr" => \A i \in DOMAIN s : s[i].quantity > 0
<1>1. PICK q \in Int, d \in Int, w \in Seq(Int) :
        q = call.quantity /\ d = call.duration /\ w = call.weights
  BY DEF CallInv
<1>2. Len(w) \in Nat
  OBVIOUS
<1> DEFINE ones == [i \in 1..Len(w) |-> 1]
<1>3. ones \in Seq(Int) /\ DOMAIN ones = 1..Len(w)
  OBVIOUS
<1>4. CASE call.kind \in {"vwap", "is"}
  <2>1. s = ToSlices(q, d, w)
    <3>1. CASE call.kind = "vwap"
      BY <1>1, <3>1 DEF Slices, Vwap
    <3>2. CASE call.kind = "is"
      BY <1>1, <3>2 DEF Slices, Shortfall
    <3> QED BY <1>4, <3>1, <3>2
  <2>2. AreTheParent(s, q, d, w)
    BY <2>1, ToSlicesIsTheParent
  <2>3. WeightsOf(s) = w /\ call.kind # "wmr"
    BY <1>1, <1>4 DEF WeightsOf
  <2> QED BY <1>1, <2>2, <2>3
<1>5. CASE call.kind \in {"twap", "wmr"}
  <2>1. s = ToSlices(q, d, ones)
    <3>1. CASE call.kind = "twap"
      BY <1>1, <3>1 DEF Slices, Twap
    <3>2. CASE call.kind = "wmr"
      BY <1>1, <3>2 DEF Slices, Wmr, Twap
    <3> QED BY <1>5, <3>1, <3>2
  <2> HIDE DEF ones
  <2>2. AreTheParent(s, q, d, ones)
    BY <1>3, <2>1, ToSlicesIsTheParent
  <2>3. WeightsOf(s) = ones
    <3>1. DOMAIN s = 1..Len(w)
      BY <1>3, <2>2 DEF AreTheParent
    <3> QED BY <1>5, <3>1 DEF WeightsOf, ones
  <2>4. ASSUME call.kind = "wmr" PROVE \A i \in DOMAIN s : s[i].quantity > 0
    <3>1. s = Wmr(q, d, Len(w))
      BY <1>1, <2>4 DEF Slices
    <3> QED BY <1>2, <3>1, FixingTradesThroughout
  <2> QED BY <1>1, <2>2, <2>3, <2>4
<1> QED BY <1>4, <1>5 DEF SliceKinds

LEMMA CallIsSliced == CallInv => SlicesAreTheParent
<1>1. SUFFICES ASSUME CallInv, call.kind \in SliceKinds, Slices(call) # Raised
      PROVE  SlicesAreTheParent
  BY DEF SlicesAreTheParent, SliceKinds
<1>2. PICK s : s = Slices(call)
  OBVIOUS
<1>3. /\ AreTheParent(s, call.quantity, call.duration, WeightsOf(s))
      /\ call.kind = "wmr" => \A i \in DOMAIN s : s[i].quantity > 0
  BY <1>1, <1>2, SlicesOfACall
<1>4. /\ SeqSum([i \in DOMAIN s |-> s[i].quantity]) = call.quantity
      /\ \A i \in DOMAIN s :
           /\ s[i].quantity >= 0 /\ s[i].offset \in 0..call.duration
           /\ call.duration > 0 => s[i].offset < call.duration
           /\ i > 1 => s[i].offset >= s[i - 1].offset
           /\ SeqSum(WeightsOf(s)) > 0 =>
                /\ s[i].quantity * SeqSum(WeightsOf(s)) - call.quantity * WeightsOf(s)[i]
                     < SeqSum(WeightsOf(s))
                /\ -(s[i].quantity * SeqSum(WeightsOf(s)) - call.quantity * WeightsOf(s)[i])
                     < SeqSum(WeightsOf(s))
           /\ call.kind = "wmr" => s[i].quantity > 0
  BY <1>3 DEF AreTheParent
<1> QED BY <1>2, <1>4 DEF SlicesAreTheParent, WeightsOf

\* The router is asked for a quantity of shares, or for less than none.
LEMMA CallIsRouted == CallInv => SweepIsCheapest
<1>1. SUFFICES ASSUME CallInv PROVE call.kind = "route" => RouteOK(call) \/ ~(call.quantity >= 0)
  BY RouteIsCheapest
<1>2. SUFFICES ASSUME call.kind = "route", call.quantity >= 0 PROVE RouteOK(call)
  OBVIOUS
<1>3. call.quantity \in Nat
  BY <1>1, <1>2 DEF CallInv
<1> QED BY <1>1, <1>2, <1>3 DEF CallInv, RouteOK

(* What the schedulers answer adds up to the parent, in order and inside   *)
(* the window, each slice less than a share off its part of the volume;    *)
(* and the fee-aware router's sweep fills all that the limit lets it, and  *)
(* no other split of as much is cheaper, whatever the quotes, the sizes    *)
(* and the fees.                                                           *)
THEOREM OrderIsSplitRight == CallSpec => []SplitsAreRight
<1>1. CallInit => CallInv
  BY CallStart
<1>2. CallInv /\ [CallNext]_call => CallInv'
  <2>1. ASSUME CallInv, UNCHANGED call PROVE CallInv'
    BY <2>1 DEF CallInv
  <2>2. ASSUME CallNext PROVE CallInv'
    BY <2>2, CallKeeps
  <2> QED BY <2>1, <2>2
<1>3. CallInv => SplitsAreRight
  BY CallIsSliced, CallIsRouted DEF SplitsAreRight
<1> QED BY <1>1, <1>2, <1>3, PTL DEF CallSpec

-----------------------------------------------------------------------------
(* The sweep of the adaptive router.                                       *)

(* What the router reckons with is whole numbers.                          *)
MarkoutsTyped(r) == r.count \in [Rated -> Int] /\ r.ewma \in [Rated -> Int]

\* What a venue's due fills score is a whole number each.
LEMMA ScoredIsTyped ==
  ASSUME NEW r, NEW now, RingInv(r, now), MarkoutsTyped(r), NEW v \in Rated, NEW mid \in Int, NEW later
  PROVE  Scored(r, v, mid, later).count \in Int /\ Scored(r, v, mid, later).ewma \in Int
<1> DEFINE States == [count : Int, ewma : Int]
           move(k) == r.slot[v][k - 1].side * (mid - r.slot[v][k - 1].mid) * CardUnit
           One(k, s) == IF ~Due(r, v, k - 1, later) THEN s
                        ELSE [count |-> s.count + 1,
                              ewma |-> IF s.count = 0 THEN move(k) ELSE Blend(s.ewma, move(k))]
           first == [count |-> r.count[v], ewma |-> r.ewma[v]]
           Loop(f) == [k \in 0..PendingRing |-> IF k = 0 THEN first ELSE One(k, f[k - 1])]
           score == CHOOSE f : f = Loop(f)
           step == [k \in 1..PendingRing |-> [s \in States |-> One(k, s)]]
<1>1. PendingRing \in Nat /\ CardUnit \in Int /\ first \in States
  BY MarkoutAssumption DEF MarkoutsTyped
<1>2. ASSUME NEW k \in 1..PendingRing, NEW s \in States PROVE One(k, s) \in States
  <2>1. k - 1 \in Places
    BY <1>1 DEF Places
  <2>2. PICK side \in Int, was \in Int : side = r.slot[v][k - 1].side /\ was = r.slot[v][k - 1].mid
    <3>1. r.slot[v][k - 1] \in Marks
      BY <2>1 DEF RingInv, RingOK
    <3> QED BY <3>1 DEF Marks
  <2>3. PICK m \in Int : m = move(k)
    <3>1. side * (mid - was) * CardUnit \in Int
      BY <1>1
    <3> QED BY <2>2, <3>1
  <2>4. PICK count \in Int, old \in Int : s.count = count /\ s.ewma = old
    OBVIOUS
  <2>5. Blend(old, m) \in Int
    BY BlendIsBetween
  <2> HIDE DEF move
  <2> QED BY <2>3, <2>4, <2>5
<1>3. step \in [1..PendingRing -> [States -> States]]
  BY <1>2
<1>4. PICK f : IsIteration(f, States, first, PendingRing, step)
  <2> HIDE DEF step, first, States
  <2> QED BY <1>1, <1>3, Iterates
<1>5. f = Loop(f)
  <2>1. f \in [0..PendingRing -> States] /\ f[0] = first
    BY <1>4 DEF IsIteration
  <2>2. ASSUME NEW k \in 0..PendingRing, k # 0 PROVE f[k] = One(k, f[k - 1])
    <3>1. k \in 1..PendingRing /\ k - 1 \in 0..PendingRing
      BY <2>2, <1>1
    <3>2. PICK s \in States : s = f[k - 1]
      BY <2>1, <3>1
    <3>3. f[k] = step[k][f[k - 1]]
      BY <1>4, <3>1 DEF IsIteration
    <3>4. step[k][s] = One(k, s)
      <4> HIDE DEF One, States
      <4> QED BY <3>1
    <3> QED BY <3>2, <3>3, <3>4
  <2> HIDE DEF One, first, step
  <2> QED BY <2>1, <2>2
<1>6. score = Loop(score)
  <2> HIDE DEF Loop
  <2> QED BY <1>5
<1>7. Scored(r, v, mid, later) = score[PendingRing]
  BY DEF Scored
<1> HIDE DEF score, step
<1> DEFINE Bad == {k \in 0..PendingRing : score[k] \notin States}
<1>8. ASSUME Bad # {} PROVE FALSE
  <2>1. PICK k \in Bad : \A m \in Bad : k <= m
    <3>1. Bad \subseteq Nat
      BY <1>1
    <3> HIDE DEF Bad
    <3> QED BY <1>8, <3>1, LeastElement
  <2>2. k \in 0..PendingRing /\ score[k] \notin States
    BY <2>1
  <2>3. k # 0
    <3>1. score[0] = first
      <4>1. 0 \in 0..PendingRing
        BY <1>1
      <4> HIDE DEF One, first
      <4> QED BY <1>6, <4>1
    <3> HIDE DEF first, States
    <3> QED BY <1>1, <2>2, <3>1
  <2>4. k \in 1..PendingRing /\ k - 1 \in 0..PendingRing /\ k - 1 < k
    BY <1>1, <2>2, <2>3
  <2>5. score[k - 1] \in States
    <3>1. k - 1 \notin Bad
      <4> HIDE DEF Bad
      <4> QED BY <2>1, <2>4
    <3> HIDE DEF States
    <3> QED BY <2>4, <3>1
  <2>6. score[k] = One(k, score[k - 1])
    <3> HIDE DEF One, first
    <3> QED BY <1>6, <2>2, <2>3
  <2> HIDE DEF One, States
  <2> QED BY <1>2, <2>2, <2>4, <2>5, <2>6
<1>9. score[PendingRing] \in States
  <2>1. PendingRing \in 0..PendingRing
    BY <1>1
  <2> HIDE DEF States
  <2> QED BY <1>8, <2>1
<1>10. PICK s \in States : s = Scored(r, v, mid, later)
  BY <1>7, <1>9
<1> QED BY <1>10

LEMMA MarkoutsStayTyped ==
  ASSUME NEW r, NEW now, RingInv(r, now), MarkoutsTyped(r), NEW later, NEW mid \in Int, NEW v, NEW side, NEW t
  PROVE  /\ MarkoutsTyped(Arm(r, v, side, mid, t)) /\ MarkoutsTyped(OnMid(r, mid, later))
         /\ MarkoutsTyped(Restored(r))
         /\ MarkoutsTyped([Restored(r) EXCEPT !.count = NewRing(Rated).count, !.ewma = NewRing(Rated).ewma,
                                              !.matured = 0, !.judged = {}])
<1>1. PICK a, m, q : a = Arm(r, v, side, mid, t) /\ m = OnMid(r, mid, later) /\ q = Restored(r)
  OBVIOUS
<1>2. RingShape(r)
  BY DEF RingInv
<1>3. a.count = r.count /\ a.ewma = r.ewma
  BY <1>1, <1>2 DEF Arm, RingShape
<1>4. RingShape(q) /\ q.count = r.count /\ q.ewma = r.ewma
  BY <1>1, <1>2 DEF Restored, RingShape
<1>5. m.count \in [Rated -> Int] /\ m.ewma \in [Rated -> Int]
  <2>1. /\ m.count = [u \in Rated |-> Scored(r, u, mid, later).count]
        /\ m.ewma = [u \in Rated |-> Scored(r, u, mid, later).ewma]
    BY <1>1, <1>2 DEF OnMid, RingShape
  <2>2. \A u \in Rated : Scored(r, u, mid, later).count \in Int /\ Scored(r, u, mid, later).ewma \in Int
    BY ScoredIsTyped
  <2> QED BY <2>1, <2>2
<1>6. PICK zero : zero = [u \in Rated |-> 0] /\ NewRing(Rated).count = zero /\ NewRing(Rated).ewma = zero
  BY DEF NewRing
<1>7. PICK o : o = [q EXCEPT !.count = zero, !.ewma = zero, !.matured = 0, !.judged = {}]
  OBVIOUS
<1>8. o.count = zero /\ o.ewma = zero
  BY <1>4, <1>7 DEF RingShape
<1>9. zero \in [Rated -> Int]
  BY <1>6
<1>10. MarkoutsTyped(o)
  BY <1>8, <1>9 DEF MarkoutsTyped
<1>11. MarkoutsTyped(a) /\ MarkoutsTyped(m) /\ MarkoutsTyped(q)
  BY <1>3, <1>4, <1>5 DEF MarkoutsTyped
<1> QED BY <1>1, <1>6, <1>7, <1>10, <1>11

LEMMA ExpectedIsTyped ==
  ASSUME SorInv, MarkoutsTyped(markouts), NEW v \in Lit, NEW side \in {-1, 1}, NEW quotes \in Quotes
  PROVE  Expected(v, side, quotes) \in Int
<1>1. /\ CardUnit \in Int /\ Prior \in Int /\ Base \in Int /\ MissPenalty \in Int /\ UrgencyCost \in Int
      /\ v \in Rated /\ quotes[v] \in [bid : Int, ask : Int, size : Int, fee : Int]
  BY MarkoutAssumption, SorAssumption
<1>2. card[v] \in Cards /\ markouts.ewma[v] \in Int
  BY <1>1 DEF SorInv, MarkoutsTyped
<1>3. PICK px \in Int, fee \in Int : px = Price(quotes[v], side) /\ fee = quotes[v].fee
  BY <1>1 DEF Price
<1>4. PICK rate \in Int, wait \in Int, turn \in Int : rate = FillRate(v) /\ wait = Latency(v) /\ turn = -Markout(v)
  <2>1. FillRate(v) \in Int /\ Latency(v) \in Int /\ Markout(v) \in Int
    BY <1>1, <1>2 DEF FillRate, Latency, Markout, Cards
  <2> QED BY <2>1
<1>5. PICK adverse \in Int : adverse = Max({0, -Markout(v)})
  <2>1. \E m \in {0, turn} : \A n \in {0, turn} : m >= n
    OBVIOUS
  <2>2. Max({0, turn}) \in {0, turn}
    BY <2>1 DEF Max
  <2>3. Max({0, -Markout(v)}) = Max({0, turn})
    BY <1>4
  <2> QED BY <2>2, <2>3
<1>6. PICK learnt \in Int : learnt = (CardUnit - FillRate(v)) * MissPenalty + Latency(v) * UrgencyCost
  <2>1. (CardUnit - rate) * MissPenalty + wait * UrgencyCost \in Int
    BY <1>1
  <2> QED BY <2>1, <1>4
<1>7. Expected(v, side, quotes) =
        (Base + side * fee) * (px * (Base * CardUnit + side * learnt) + side * adverse * Base)
  BY <1>3, <1>5, <1>6 DEF Expected
<1>8. (Base + side * fee) * (px * (Base * CardUnit + side * learnt) + side * adverse * Base) \in Int
  <2>1. PICK a \in Int, b \in Int : a = Base + side * fee /\ b = Base * CardUnit + side * learnt
    BY <1>1
  <2>2. PICK c \in Int : c = px * b + side * adverse * Base
    BY <1>1
  <2>3. a * c \in Int
    OBVIOUS
  <2> QED BY <2>1, <2>2, <2>3
<1> QED BY <1>7, <1>8

(* A decision to be made: what is known of the venues, and an order.       *)
Deciding(side, quantity, quotes) ==
  /\ SorInv /\ MarkoutsTyped(markouts)
  /\ side \in {-1, 1} /\ quantity \in Nat /\ quotes \in Quotes

RouteCost(side, quotes) == [v \in Eligible(side, quotes) |-> side * Expected(v, side, quotes)]
Displayed(quotes) == [v \in Lit |-> quotes[v].size]
IsRanked(r, side, quotes) ==
  \A i, j \in DOMAIN r :
    i < j => side * Expected(r[i], side, quotes) <= side * Expected(r[j], side, quotes)

\* Those that may trade are some of the lit venues, each with a size and a
\* cost.
LEMMA EligibleAre ==
  ASSUME NEW side, NEW quantity, NEW quotes, Deciding(side, quantity, quotes)
  PROVE  /\ Eligible(side, quotes) \subseteq Lit /\ IsFiniteSet(Eligible(side, quotes))
         /\ IsFiniteSet(Lit)
         /\ \A v \in Eligible(side, quotes) : Displayed(quotes)[v] \in Nat /\ Displayed(quotes)[v] = quotes[v].size
         /\ IntOn(Eligible(side, quotes), RouteCost(side, quotes))
         /\ IntOn(Eligible(side, quotes), Displayed(quotes))
<1>1. quotes \in [Lit -> [bid : Int, ask : Int, size : Int, fee : Int]] /\ side \in {-1, 1} /\ Lit \subseteq Rated
  BY SorAssumption DEF Deciding
<1>2. Eligible(side, quotes) \subseteq Lit
  BY DEF Eligible
<1>3. IsFiniteSet(Lit) /\ IsFiniteSet(Eligible(side, quotes))
  BY <1>1, <1>2, MarkoutAssumption, FS_Subset
<1>4. ASSUME NEW v \in Eligible(side, quotes)
      PROVE  Displayed(quotes)[v] \in Nat /\ Displayed(quotes)[v] \in Int /\ Displayed(quotes)[v] = quotes[v].size
  <2>1. quotes[v].size \in Int /\ quotes[v].size > 0 /\ v \in Lit
    BY <1>1, <1>2, <1>4 DEF Eligible
  <2> QED BY <2>1 DEF Displayed
<1>5. ASSUME NEW v \in Eligible(side, quotes) PROVE RouteCost(side, quotes)[v] \in Int
  <2>1. PICK e \in Int : e = Expected(v, side, quotes)
    BY <1>2, ExpectedIsTyped DEF Deciding
  <2>2. side * e \in Int
    BY <1>1
  <2> QED BY <2>1, <2>2 DEF RouteCost
<1> QED BY <1>2, <1>3, <1>4, <1>5 DEF IntOn

\* There is an order of venues to take them in, and it has each once.
LEMMA RankedIs ==
  ASSUME NEW side, NEW quantity, NEW quotes, Deciding(side, quantity, quotes)
  PROVE  /\ Ranked(side, quotes) \in SetToSeqs(Eligible(side, quotes))
         /\ IsRanked(Ranked(side, quotes), side, quotes)
<1> DEFINE S == Eligible(side, quotes)
           cost == RouteCost(side, quotes)
<1>1. IsFiniteSet(S) /\ IntOn(S, cost)
  BY EligibleAre
<1>2. PICK r \in SetToSeqs(S) : \A i, j \in DOMAIN r : i < j => cost[r[i]] <= cost[r[j]]
  <2> HIDE DEF S, cost
  <2> QED BY <1>1, SortedSeqExists
<1>3. IsRanked(r, side, quotes)
  <2>1. SUFFICES ASSUME NEW i \in DOMAIN r, NEW j \in DOMAIN r, i < j
        PROVE side * Expected(r[i], side, quotes) <= side * Expected(r[j], side, quotes)
    BY DEF IsRanked
  <2>2. r[i] \in S /\ r[j] \in S
    <3>1. r \in [1..Cardinality(S) -> S]
      <4> HIDE DEF S
      <4> QED BY <1>1, SeqsOfASet
    <3> HIDE DEF S
    <3> QED BY <3>1
  <2>3. cost[r[i]] <= cost[r[j]]
    BY <1>2, <2>1
  <2> QED BY <2>2, <2>3 DEF RouteCost
<1>4. \E q \in SetToSeqs(S) : IsRanked(q, side, quotes)
  BY <1>3
<1>5. Ranked(side, quotes) = CHOOSE q \in SetToSeqs(S) : IsRanked(q, side, quotes)
  BY DEF Ranked, IsRanked
<1> QED BY <1>4, <1>5

Legs == [legs : [Lit -> Nat], left : Nat]

(* The legs once the first n of the order r over S have been given theirs: *)
(* none is short of its venue's size unless nothing is left, and none      *)
(* after it has anything then.                                             *)
LegsOK(S, r, size, quantity, s, n) ==
  /\ s \in Legs /\ AddedUp(S, s.legs) + s.left = quantity
  /\ \A v \in Lit : s.legs[v] # 0 => \E i \in 1..n : v = r[i]
  /\ \A i \in 1..n : s.legs[r[i]] <= size[r[i]] /\ (s.left # 0 => s.legs[r[i]] = size[r[i]])
  /\ \A i, j \in 1..n : i < j /\ s.legs[r[j]] # 0 => s.legs[r[i]] = size[r[i]]

Ordered(S, r, n) ==
  /\ n \in Nat /\ r \in [1..n -> S]
  /\ \A i, j \in 1..n : i # j => r[i] # r[j]

\* What a leg of v takes of what is left: its size, or the rest.
LegGiven(s, v, size, q) ==
  \E x \in Nat : /\ x <= size /\ x <= s.left /\ (x # size => x = s.left)
                 /\ q.legs = [s.legs EXCEPT ![v] = x] /\ q.left = s.left - x

LEMMA LegToIs ==
  ASSUME NEW s \in Legs, NEW v \in Lit, NEW size \in Nat
  PROVE  /\ LegTo(s, v, size) \in Legs
         /\ s.left = 0 => LegTo(s, v, size) = s
         /\ s.left # 0 => LegGiven(s, v, size, LegTo(s, v, size))
<1>1. PICK left \in Nat : left = s.left
  BY DEF Legs
<1>2. PICK x \in Nat : x = Lesser(left, size) /\ x <= size /\ x <= left /\ (x # size => x = left)
  BY DEF Lesser
<1>3. left - x \in Nat
  BY <1>2
<1>4. CASE left = 0
  BY <1>1, <1>4 DEF LegTo
<1>5. CASE left # 0
  <2>1. LegTo(s, v, size) = [legs |-> [s.legs EXCEPT ![v] = x], left |-> left - x]
    BY <1>1, <1>2, <1>5 DEF LegTo
  <2>2. [s.legs EXCEPT ![v] = x] \in [Lit -> Nat]
    BY DEF Legs
  <2>3. LegTo(s, v, size) \in Legs
    BY <2>1, <2>2, <1>3 DEF Legs
  <2>4. LegGiven(s, v, size, LegTo(s, v, size))
    BY <2>1, <1>1, <1>2 DEF LegGiven
  <2> QED BY <2>3, <2>4, <1>1, <1>5
<1> QED BY <1>4, <1>5

\* The next venue is given its leg.
LEMMA NextLeg ==
  ASSUME NEW S \in SUBSET Lit, IsFiniteSet(S), NEW r, NEW N, Ordered(S, r, N),
         NEW size, \A v \in S : size[v] \in Nat,
         NEW quantity \in Nat, NEW s, NEW m \in Nat, NEW n \in 1..N, n = m + 1,
         LegsOK(S, r, size, quantity, s, m)
  PROVE  LegsOK(S, r, size, quantity, LegTo(s, r[n], size[r[n]]), n)
<1>1. PICK v \in S : v = r[n] /\ v \in Lit /\ size[v] \in Nat
  BY DEF Ordered
<1>2. PICK q : q = LegTo(s, v, size[v])
  OBVIOUS
<1>3. s \in Legs /\ q \in Legs
  BY <1>1, <1>2, LegToIs DEF LegsOK
<1>4. \A i \in 1..n : (i \in 1..m \/ i = n) /\ i \in 1..N
  BY DEF Ordered
<1>5. s.legs[v] = 0
  <2>1. ASSUME NEW i \in 1..m PROVE v # r[i]
    BY <1>1 DEF Ordered
  <2> QED BY <1>1, <2>1 DEF LegsOK
<1>6. CASE s.left = 0
  <2>1. q = s
    BY <1>1, <1>2, <1>3, <1>6, LegToIs
  <2>2. AddedUp(S, q.legs) + q.left = quantity /\ \A w \in Lit : q.legs[w] # 0 => \E i \in 1..n : w = r[i]
    BY <2>1 DEF LegsOK
  <2>3. ASSUME NEW i \in 1..n PROVE q.legs[r[i]] <= size[r[i]] /\ q.left = 0
    BY <1>1, <1>4, <1>5, <1>6, <2>1 DEF LegsOK
  <2>4. ASSUME NEW i \in 1..n, NEW j \in 1..n, i < j, q.legs[r[j]] # 0 PROVE q.legs[r[i]] = size[r[i]]
    <3>1. j \in 1..m
      BY <1>1, <1>4, <1>5, <2>1, <2>4
    <3>2. i \in 1..m
      BY <2>4, <3>1
    <3> QED BY <2>1, <2>4, <3>1, <3>2 DEF LegsOK
  <2>5. LegsOK(S, r, size, quantity, q, n)
    BY <1>3, <2>2, <2>3, <2>4 DEF LegsOK
  <2> QED BY <1>1, <1>2, <2>5
<1>7. CASE s.left # 0
  <2>1. PICK left \in Nat, full \in Nat : left = s.left /\ full = size[v] /\ left # 0
    BY <1>1, <1>3, <1>7 DEF Legs
  <2>2. PICK x \in Nat : /\ x <= full /\ x <= left /\ (x # full => x = left)
                         /\ q.legs = [s.legs EXCEPT ![v] = x] /\ q.left = left - x
    <3>1. v \in Lit /\ full \in Nat /\ s \in Legs
      BY <1>1, <1>3
    <3>2. LegGiven(s, v, full, LegTo(s, v, full))
      BY <3>1, <1>7, LegToIs
    <3>3. LegGiven(s, v, full, q)
      BY <3>2, <1>2, <2>1
    <3> QED BY <3>3, <2>1 DEF LegGiven
  <2>3. q.legs[v] = x /\ \A w \in Lit : w # v => q.legs[w] = s.legs[w]
    BY <1>1, <1>3, <2>2 DEF Legs
  <2>4. AddedUp(S, q.legs) + q.left = quantity
    <3>1. IntOn(S, s.legs) /\ x \in Int /\ \A w \in S : w # v => q.legs[w] = s.legs[w]
      BY <1>3, <2>3 DEF IntOn, Legs
    <3>2. AddedUp(S, q.legs) = AddedUp(S, s.legs) + x
      BY <1>1, <1>5, <2>3, <3>1, SumOverChange
    <3>3. PICK sum \in Int : sum = AddedUp(S, s.legs)
      BY <3>1, SumsOver
    <3>4. sum + left = quantity
      BY <2>1, <3>3 DEF LegsOK
    <3> QED BY <2>2, <3>2, <3>3, <3>4
  <2>5. ASSUME NEW w \in Lit, q.legs[w] # 0 PROVE \E i \in 1..n : w = r[i]
    <3>1. CASE w = v
      BY <1>1, <3>1
    <3>2. CASE w # v
      <4>1. \E i \in 1..m : w = r[i]
        BY <2>3, <2>5, <3>2 DEF LegsOK
      <4> QED BY <4>1
    <3> QED BY <3>1, <3>2
  <2>6. ASSUME NEW i \in 1..m PROVE q.legs[r[i]] = size[r[i]] /\ size[r[i]] \in Nat
    <3>1. r[i] \in S /\ r[i] # v
      BY <1>1 DEF Ordered
    <3>2. s.legs[r[i]] = size[r[i]]
      BY <1>7 DEF LegsOK
    <3> QED BY <2>3, <3>1, <3>2
  <2>7. ASSUME NEW i \in 1..n PROVE q.legs[r[i]] <= size[r[i]] /\ (q.left # 0 => q.legs[r[i]] = size[r[i]])
    <3>1. CASE i = n
      <4>1. q.left # 0 => x = full
        BY <2>2
      <4> QED BY <1>1, <2>1, <2>2, <2>3, <3>1, <4>1
    <3>2. CASE i \in 1..m
      BY <2>6, <3>2
    <3> QED BY <1>4, <3>1, <3>2
  <2>8. ASSUME NEW i \in 1..n, NEW j \in 1..n, i < j PROVE q.legs[r[i]] = size[r[i]]
    <3>1. i \in 1..m
      BY <2>8
    <3> QED BY <2>6, <3>1
  <2>9. LegsOK(S, r, size, quantity, q, n)
    BY <1>3, <2>4, <2>5, <2>7, <2>8 DEF LegsOK
  <2> QED BY <1>1, <1>2, <2>9
<1> QED BY <1>6, <1>7

\* What the sweep decides is what is left when every venue in the order has
\* been given its leg.
LEMMA SweptIs ==
  ASSUME NEW side, NEW quantity, NEW quotes, Deciding(side, quantity, quotes)
  PROVE  \E N, s : /\ Ordered(Eligible(side, quotes), Ranked(side, quotes), N)
                   /\ LegsOK(Eligible(side, quotes), Ranked(side, quotes), Displayed(quotes), quantity, s, N)
                   /\ Swept(side, quantity, quotes) = s.legs
<1> DEFINE S == Eligible(side, quotes)
           r == Ranked(side, quotes)
           size == Displayed(quotes)
           first == [legs |-> [v \in Lit |-> 0], left |-> quantity]
           Good(s, n) == LegsOK(S, r, size, quantity, s, n)
<1>1. /\ S \in SUBSET Lit /\ IsFiniteSet(S) /\ quantity \in Nat
      /\ \A v \in S : size[v] \in Nat /\ size[v] = quotes[v].size
  BY EligibleAre DEF Deciding
<1>2. PICK N \in Nat : N = Cardinality(S)
  BY <1>1, FS_CardinalityType
<1>3. r \in SetToSeqs(S)
  BY RankedIs
<1>4. Ordered(S, r, N)
  <2> HIDE DEF S, r
  <2> QED BY <1>1, <1>2, <1>3, SeqsOfASet DEF Ordered
<1>5. Len(r) = N /\ \A k \in 1..N : r[k] \in S
  <2>1. r \in Seq(S)
    <3> HIDE DEF S, r
    <3> QED BY <1>2, <1>4 DEF Ordered
  <2> HIDE DEF S, r
  <2> QED BY <1>2, <1>4, <2>1 DEF Ordered
<1> HIDE DEF S, r, size
<1> DEFINE One(k, s) == LegTo(s, r[k], quotes[r[k]].size)
           Loop(f) == [k \in 0..N |-> IF k = 0 THEN first ELSE One(k, f[k - 1])]
           swept == CHOOSE f : f = Loop(f)
           step == [k \in 1..N |-> [s \in Legs |-> One(k, s)]]
<1>6. Swept(side, quantity, quotes) = swept[N].legs
  BY <1>5 DEF Swept, r
<1>7. ASSUME NEW k \in 1..N PROVE size[r[k]] \in Nat /\ size[r[k]] = quotes[r[k]].size /\ r[k] \in Lit
  BY <1>1, <1>5
<1>8. ASSUME NEW k \in 1..N, NEW s \in Legs PROVE One(k, s) \in Legs
  BY <1>7, LegToIs
<1>9. first \in Legs /\ first.left = quantity /\ \A v \in Lit : first.legs[v] = 0
  BY <1>1 DEF Legs
<1>10. step \in [1..N -> [Legs -> Legs]]
  <2> HIDE DEF One
  <2> QED BY <1>8
<1>11. PICK f : IsIteration(f, Legs, first, N, step)
  <2> HIDE DEF step, first
  <2> QED BY <1>2, <1>9, <1>10, Iterates
<1>12. f = Loop(f)
  <2>1. f \in [0..N -> Legs] /\ f[0] = first
    BY <1>11 DEF IsIteration
  <2>2. ASSUME NEW k \in 0..N, k # 0 PROVE f[k] = One(k, f[k - 1])
    <3>1. k \in 1..N /\ k - 1 \in 0..N
      BY <2>2, <1>2
    <3>2. PICK s \in Legs : s = f[k - 1]
      BY <2>1, <3>1
    <3>3. f[k] = step[k][f[k - 1]]
      BY <1>11, <3>1 DEF IsIteration
    <3>4. step[k][s] = One(k, s)
      <4> HIDE DEF One
      <4> QED BY <3>1
    <3> QED BY <3>2, <3>3, <3>4
  <2> HIDE DEF One, first, step
  <2> QED BY <2>1, <2>2
<1>13. swept = Loop(swept)
  <2> HIDE DEF Loop
  <2> QED BY <1>12
<1> HIDE DEF swept, step
<1>14. Good(first, 0)
  <2>1. AddedUp(S, first.legs) = 0
    <3>1. \A v \in S : first.legs[v] = 0
      BY <1>1, <1>9
    <3> QED BY <1>1, <3>1, SumOverNothing
  <2> HIDE DEF first
  <2> QED BY <1>1, <1>9, <2>1 DEF LegsOK
<1> DEFINE Bad == {k \in 0..N : ~Good(swept[k], k)}
<1>15. ASSUME Bad # {} PROVE FALSE
  <2>1. PICK k \in Bad : \A m \in Bad : k <= m
    <3>1. Bad \subseteq Nat
      BY <1>2
    <3> HIDE DEF Bad
    <3> QED BY <1>15, <3>1, LeastElement
  <2>2. k \in 0..N /\ ~Good(swept[k], k)
    BY <2>1
  <2>3. k # 0
    <3>1. swept[0] = first
      <4>1. 0 \in 0..N
        BY <1>2
      <4> HIDE DEF One, first
      <4> QED BY <1>13, <4>1
    <3> HIDE DEF first, Good
    <3> QED BY <1>14, <2>2, <3>1
  <2>4. k \in 1..N /\ k - 1 \in 0..N /\ k - 1 < k
    BY <1>2, <2>2, <2>3
  <2>5. PICK m \in Nat : m = k - 1 /\ k = m + 1 /\ m \in 0..N
    BY <2>4
  <2>6. Good(swept[m], m)
    <3>1. m \notin Bad
      <4> HIDE DEF Bad
      <4> QED BY <2>1, <2>4, <2>5
    <3> HIDE DEF Good
    <3> QED BY <2>5, <3>1
  <2>7. swept[k] = LegTo(swept[m], r[k], size[r[k]])
    <3>1. swept[k] = One(k, swept[k - 1])
      <4> HIDE DEF One, first
      <4> QED BY <1>13, <2>2, <2>3
    <3> QED BY <1>7, <2>4, <2>5, <3>1
  <2>8. LegsOK(S, r, size, quantity, LegTo(swept[m], r[k], size[r[k]]), k)
    <3>1. \A v \in S : size[v] \in Nat
      BY <1>1
    <3> QED BY <1>1, <1>4, <2>4, <2>5, <2>6, <3>1, NextLeg
  <2> QED BY <2>2, <2>7, <2>8
<1>16. Good(swept[N], N)
  <2>1. N \in 0..N
    BY <1>2
  <2> HIDE DEF Good
  <2> QED BY <1>15, <2>1
<1> QED BY <1>4, <1>6, <1>16 DEF S, r, size

(* What RoutesCheapest asks of the legs to the lit venues.                 *)
Worth(legs, side, quotes) ==
  Total([v \in Eligible(side, quotes) |-> legs[v] * (side * Expected(v, side, quotes))], Eligible(side, quotes))
Splittings(side, quantity, quotes) ==
  {legs \in [Eligible(side, quotes) -> 0..quantity] :
     \A v \in Eligible(side, quotes) : legs[v] <= quotes[v].size}
LegsAreCheapest(legs, side, quantity, quotes) ==
  /\ Total(legs, Eligible(side, quotes)) =
       Lesser(quantity, Total([v \in Eligible(side, quotes) |-> quotes[v].size], Eligible(side, quotes)))
  /\ \A v \in Lit \ Eligible(side, quotes) : legs[v] = 0
  /\ \A other \in Splittings(side, quantity, quotes) :
       Total(other, Eligible(side, quotes)) = Total(legs, Eligible(side, quotes))
         => Worth(legs, side, quotes) <= Worth(other, side, quotes)

\* The legs of an order of venues sorted by cost are a greedy split of the
\* sizes: as many shares as there are, none at a venue that may not trade.
LEMMA LegsAreGreedy ==
  ASSUME NEW S \in SUBSET Lit, IsFiniteSet(S), NEW r \in SetToSeqs(S), NEW N, Ordered(S, r, N),
         NEW cost, IntOn(S, cost), \A i, j \in 1..N : i < j => cost[r[i]] <= cost[r[j]],
         NEW size, IntOn(S, size), \A v \in S : size[v] \in Nat,
         NEW quantity \in Nat, NEW s, LegsOK(S, r, size, quantity, s, N)
  PROVE  /\ Fits(S, size, s.legs) /\ IsGreedy(S, cost, size, s.legs)
         /\ AddedUp(S, s.legs) = Lesser(quantity, AddedUp(S, size))
         /\ \A v \in Lit \ S : s.legs[v] = 0
<1>1. s \in Legs /\ s.legs \in [Lit -> Nat] /\ s.left \in Nat
  BY DEF LegsOK, Legs
<1>2. ASSUME NEW v \in S PROVE \E i \in 1..N : r[i] = v
  <2>1. \E i \in 1..Cardinality(S) : r[i] = v
    BY SeqsOfASet
  <2>2. Cardinality(S) \in Nat /\ r \in [1..Cardinality(S) -> S]
    BY SeqsOfASet
  <2>3. 1..Cardinality(S) = 1..N
    BY <2>2 DEF Ordered
  <2> QED BY <2>1, <2>3
<1>3. Fits(S, size, s.legs)
  <2>1. ASSUME NEW v \in S PROVE s.legs[v] \in Nat /\ s.legs[v] <= size[v]
    <3>1. PICK i \in 1..N : r[i] = v
      BY <1>2
    <3> QED BY <1>1, <3>1 DEF LegsOK
  <2> QED BY <2>1 DEF Fits
<1>4. IsGreedy(S, cost, size, s.legs)
  <2>1. SUFFICES ASSUME NEW v \in S, NEW w \in S, s.legs[v] # 0, s.legs[w] < size[w]
                 PROVE  cost[v] <= cost[w]
    BY DEF IsGreedy
  <2>2. PICK i \in 1..N, j \in 1..N : r[i] = v /\ r[j] = w
    BY <1>2
  <2>3. i \in Int /\ j \in Int /\ cost[v] \in Int
    BY DEF Ordered, IntOn
  <2>4. CASE i < j
    BY <2>2, <2>4
  <2>5. CASE j < i
    <3>1. s.legs[r[j]] = size[r[j]]
      BY <2>1, <2>2, <2>5 DEF LegsOK
    <3>2. s.legs[w] = size[w] /\ size[w] \in Nat
      BY <2>2, <3>1
    <3> QED BY <2>1, <3>2
  <2>6. CASE i = j
    BY <2>2, <2>3, <2>6
  <2> QED BY <2>3, <2>4, <2>5, <2>6
<1>5. ASSUME NEW v \in Lit \ S PROVE s.legs[v] = 0
  <2>1. \A i \in 1..N : r[i] \in S
    BY DEF Ordered
  <2> QED BY <2>1 DEF LegsOK
<1>6. AddedUp(S, s.legs) = Lesser(quantity, AddedUp(S, size))
  <2>1. IntOn(S, s.legs)
    BY <1>1 DEF IntOn
  <2>2. PICK taken \in Int, all \in Int : taken = AddedUp(S, s.legs) /\ all = AddedUp(S, size)
    BY <2>1, SumsOver
  <2>3. taken <= all
    <3>1. \A v \in S : s.legs[v] <= size[v]
      BY <1>3 DEF Fits
    <3> QED BY <2>1, <2>2, <3>1, SumsOverOrdered
  <2>4. PICK left \in Nat : left = s.left /\ taken + left = quantity
    BY <1>1, <2>2 DEF LegsOK
  <2>5. CASE left = 0
    BY <2>2, <2>3, <2>4, <2>5 DEF Lesser
  <2>6. CASE left # 0
    <3>1. ASSUME NEW v \in S PROVE size[v] <= s.legs[v]
      <4>1. PICK i \in 1..N : r[i] = v
        BY <1>2
      <4>2. s.legs[v] = size[v] /\ size[v] \in Nat
        BY <2>4, <2>6, <4>1 DEF LegsOK
      <4> QED BY <4>2
    <3>2. all <= taken
      BY <2>1, <2>2, <3>1, SumsOverOrdered
    <3> QED BY <2>2, <2>3, <2>4, <2>6, <3>2 DEF Lesser
  <2> QED BY <2>4, <2>5, <2>6
<1> QED BY <1>3, <1>4, <1>5, <1>6

LEMMA SweptIsCheapest ==
  ASSUME NEW side, NEW quantity, NEW quotes, Deciding(side, quantity, quotes)
  PROVE  LegsAreCheapest(Swept(side, quantity, quotes), side, quantity, quotes)
<1> DEFINE S == Eligible(side, quotes)
           r == Ranked(side, quotes)
           cost == RouteCost(side, quotes)
           size == Displayed(quotes)
<1>1. PICK N, s : /\ Ordered(S, r, N) /\ LegsOK(S, r, size, quantity, s, N)
                  /\ Swept(side, quantity, quotes) = s.legs
  BY SweptIs
<1>2. /\ S \in SUBSET Lit /\ IsFiniteSet(S) /\ quantity \in Nat /\ IntOn(S, cost) /\ IntOn(S, size)
      /\ \A v \in S : size[v] \in Nat /\ size[v] = quotes[v].size
  <2>1. S \subseteq Lit /\ IsFiniteSet(S) /\ IntOn(S, cost) /\ IntOn(S, size)
    BY EligibleAre
  <2>2. \A v \in S : size[v] \in Nat /\ size[v] = quotes[v].size
    BY EligibleAre
  <2>3. quantity \in Nat
    BY DEF Deciding
  <2> HIDE DEF S, cost, size
  <2> QED BY <2>1, <2>2, <2>3
<1>3. r \in SetToSeqs(S) /\ IsRanked(r, side, quotes)
  BY RankedIs
<1>4. ASSUME NEW v \in S PROVE cost[v] = side * Expected(v, side, quotes)
  BY DEF RouteCost
<1>5. \A i, j \in 1..N : i < j => cost[r[i]] <= cost[r[j]]
  <2>1. ASSUME NEW i \in 1..N, NEW j \in 1..N, i < j PROVE cost[r[i]] <= cost[r[j]]
    <3>1. r[i] \in S /\ r[j] \in S /\ i \in DOMAIN r /\ j \in DOMAIN r
      <4> HIDE DEF S, r
      <4> QED BY <1>1 DEF Ordered
    <3>2. side * Expected(r[i], side, quotes) <= side * Expected(r[j], side, quotes)
      <4> HIDE DEF S, r
      <4> QED BY <1>3, <2>1, <3>1 DEF IsRanked
    <3> HIDE DEF S, r, cost
    <3> QED BY <1>4, <3>1, <3>2
  <2> HIDE DEF cost, r
  <2> QED BY <2>1
<1> HIDE DEF S, r, cost, size
<1>6. /\ Fits(S, size, s.legs) /\ IsGreedy(S, cost, size, s.legs)
      /\ AddedUp(S, s.legs) = Lesser(quantity, AddedUp(S, size))
      /\ \A v \in Lit \ S : s.legs[v] = 0
  BY <1>1, <1>2, <1>3, <1>5, LegsAreGreedy
<1>7. AddedUp(S, [v \in S |-> quotes[v].size]) = AddedUp(S, size)
  <2> DEFINE shown == [v \in S |-> quotes[v].size]
  <2>1. \A v \in S : shown[v] = size[v]
    BY <1>2
  <2>2. IntOn(S, shown)
    BY <1>2, <2>1 DEF IntOn
  <2>3. \A v \in S : shown[v] <= size[v] /\ size[v] <= shown[v]
    BY <1>2, <2>1
  <2> HIDE DEF shown
  <2>4. AddedUp(S, shown) <= AddedUp(S, size)
    BY <1>2, <2>2, <2>3, SumsOverOrdered
  <2>5. AddedUp(S, size) <= AddedUp(S, shown)
    BY <1>2, <2>2, <2>3, SumsOverOrdered
  <2>6. PICK x \in Int, y \in Int : x = AddedUp(S, shown) /\ y = AddedUp(S, size)
    BY <1>2, <2>2, SumsOver
  <2>7. x = y
    BY <2>4, <2>5, <2>6
  <2> QED BY <2>6, <2>7 DEF shown
<1>8. ASSUME NEW legs PROVE Worth(legs, side, quotes) = AddedUp(S, [v \in S |-> legs[v] * cost[v]])
  <2>1. [v \in S |-> legs[v] * cost[v]] = [v \in S |-> legs[v] * (side * Expected(v, side, quotes))]
    BY <1>4
  <2> DEFINE f == [v \in S |-> legs[v] * (side * Expected(v, side, quotes))]
  <2>2. Worth(legs, side, quotes) = Total(f, S)
    BY DEF Worth, S
  <2>3. Total(f, S) = AddedUp(S, f)
    <3> HIDE DEF f
    <3> QED BY DEF Total, AddedUp
  <2> QED BY <2>1, <2>2, <2>3
<1>9. ASSUME NEW other \in Splittings(side, quantity, quotes), AddedUp(S, other) = AddedUp(S, s.legs)
      PROVE  Worth(s.legs, side, quotes) <= Worth(other, side, quotes)
  <2>1. Fits(S, size, other)
    <3>1. other \in [S -> 0..quantity] /\ \A v \in S : other[v] <= quotes[v].size
      BY DEF Splittings, S
    <3>2. ASSUME NEW v \in S PROVE other[v] \in Nat /\ other[v] <= size[v]
      BY <1>2, <3>1
    <3> QED BY <1>2, <3>2 DEF Fits
  <2>2. AddedUp(S, [v \in S |-> s.legs[v] * cost[v]]) <= AddedUp(S, [v \in S |-> other[v] * cost[v]])
    <3>1. PICK split : split = s.legs
      OBVIOUS
    <3>2. Fits(S, size, split) /\ IsGreedy(S, cost, size, split) /\ AddedUp(S, other) = AddedUp(S, split)
      BY <1>6, <1>9, <3>1
    <3>3. AddedUp(S, [v \in S |-> split[v] * cost[v]]) <= AddedUp(S, [v \in S |-> other[v] * cost[v]])
      BY <1>2, <2>1, <3>2, GreedyIsCheapest
    <3> QED BY <3>1, <3>3
  <2> QED BY <1>8, <2>2
<1>10. Swept(side, quantity, quotes) = s.legs
  BY <1>1
<1>11. \A f : Total(f, Eligible(side, quotes)) = AddedUp(S, f)
  BY DEF Total, AddedUp, S
<1>12. LegsAreCheapest(s.legs, side, quantity, quotes)
  BY <1>6, <1>7, <1>9, <1>11 DEF LegsAreCheapest, S
<1> QED BY <1>10, <1>12

\* No dark venue is probed with more than its share of the parent.
LEMMA ProbesAreCapped ==
  ASSUME NEW side, NEW quantity, NEW quotes, Deciding(side, quantity, quotes), NEW v \in Dark
  PROVE  ProbeSize(v, quantity) <= HalfUp(quantity, DarkShare)
<1>1. /\ quantity \in Nat /\ DarkShare \in Nat \ {0} /\ DefaultProbe \in Nat
      /\ CardUnit \in Nat \ {0} /\ v \in Rated
  BY SorAssumption, MarkoutAssumption DEF Deciding
<1>2. card[v].hidden \in Int
  BY <1>1 DEF Deciding, SorInv, Cards
<1>3. PICK found \in Int : found = IF v \in Unregistered THEN 0 ELSE card[v].hidden
  BY <1>2
<1>4. ASSUME NEW n \in Int, NEW d \in Nat \ {0} PROVE HalfUp(n, d) \in Int
  <2>1. PICK a \in Int, b \in Nat \ {0} : a = 2 * n + d /\ b = 2 * d
    OBVIOUS
  <2>2. a \div b \in Int
    OBVIOUS
  <2> QED BY <2>1, <2>2 DEF HalfUp
<1>5. PICK cap \in Int, learnt \in Int : /\ cap = HalfUp(quantity, DarkShare)
                                         /\ learnt = HalfUp(found, CardUnit)
  BY <1>1, <1>4
<1>6. PICK size \in Int : size = IF found > 0 THEN learnt ELSE DefaultProbe
  BY <1>1
<1>7. ProbeSize(v, quantity) = Lesser(size, cap)
  BY <1>3, <1>5, <1>6 DEF ProbeSize
<1> QED BY <1>5, <1>7 DEF Lesser

(* The last decision is what the router decides knowing what it knows.     *)
PlanInv ==
  plan = NoPlan \/ \E side \in {-1, 1}, quantity \in Parents, quotes \in Quotes :
                     plan = Decision(side, quantity, quotes)

RoutingInv == SorInv /\ MarkoutsTyped(markouts) /\ PlanInv

LEMMA RoutingStarts == SorInit => RoutingInv
<1> SUFFICES ASSUME SorInit PROVE RoutingInv
  OBVIOUS
<1>1. PICK r : r = NewRing(Rated) /\ markouts = r
  BY DEF SorInit
<1>2. r.count = [v \in Rated |-> 0] /\ r.ewma = [v \in Rated |-> 0]
  BY <1>1 DEF NewRing
<1>3. MarkoutsTyped(markouts)
  BY <1>1, <1>2 DEF MarkoutsTyped
<1>4. SorInv /\ PlanInv
  BY SorStarts DEF SorInit, PlanInv
<1> QED BY <1>3, <1>4 DEF RoutingInv

\* A decision is made of what is known.
LEMMA DecidedByCards ==
  ASSUME NEW side, NEW quantity, NEW quotes, card' = card, markouts' = markouts
  PROVE  Decision(side, quantity, quotes)' = Decision(side, quantity, quotes)
BY DEF Decision, Swept, Ranked, Eligible, Expected, FillRate, Latency, Markout, ProbeSize

LEMMA RoutingStays == RoutingInv /\ [SorNext]_sorVars => RoutingInv'
<1> SUFFICES ASSUME RoutingInv, [SorNext]_sorVars PROVE RoutingInv'
  OBVIOUS
<1>1. SorInv /\ MarkoutsTyped(markouts) /\ PlanInv /\ SorInv'
  BY SorStays DEF RoutingInv
<1>2. RingInv(markouts, clock) /\ \A mid \in Mids : mid \in Int
  BY <1>1, SorAssumption DEF SorInv
<1>3. PICK zero \in Int : zero = 0
  OBVIOUS
<1>4. ASSUME plan' = NoPlan, MarkoutsTyped(markouts') PROVE RoutingInv'
  BY <1>1, <1>4 DEF RoutingInv, PlanInv, MarkoutsTyped
<1>5. ASSUME NEW v, NEW response, OnMiss(v, response) PROVE RoutingInv'
  <2>1. plan' = NoPlan /\ markouts' = markouts
    BY <1>5 DEF OnMiss
  <2> QED BY <1>1, <1>4, <2>1
<1>6. ASSUME NEW v, NEW response, NEW side, NEW mid \in Mids, OnFill(v, response, side, mid) PROVE RoutingInv'
  <2>1. plan' = NoPlan /\ markouts' = IF mid = 0 THEN markouts ELSE Arm(markouts, v, side, mid, clock)
    BY <1>6 DEF OnFill
  <2>2. MarkoutsTyped(Arm(markouts, v, side, mid, clock))
    BY <1>1, <1>2, <1>3, MarkoutsStayTyped
  <2>3. MarkoutsTyped(markouts')
    BY <1>1, <2>1, <2>2
  <2> QED BY <1>4, <2>1, <2>3
<1>7. ASSUME NEW v, NEW shares, OnDarkProbe(v, shares) PROVE RoutingInv'
  <2>1. plan' = NoPlan /\ markouts' = markouts
    BY <1>7 DEF OnDarkProbe
  <2> QED BY <1>1, <1>4, <2>1
<1>8. ASSUME NEW mid \in Mids, OnMidUpdate(mid) PROVE RoutingInv'
  <2>1. /\ plan' = NoPlan
        /\ markouts' = IF markouts.pending = 0 \/ mid = 0 THEN markouts ELSE OnMid(markouts, mid, clock')
    BY <1>8 DEF OnMidUpdate
  <2>2. MarkoutsTyped(OnMid(markouts, mid, clock'))
    BY <1>1, <1>2, MarkoutsStayTyped
  <2>3. MarkoutsTyped(markouts')
    BY <1>1, <2>1, <2>2
  <2> QED BY <1>4, <2>1, <2>3
<1>9. ASSUME NEW version, Restart(version) PROVE RoutingInv'
  <2>1. /\ plan' = NoPlan
        /\ markouts' = IF version = 2 THEN Restored(markouts)
                       ELSE [Restored(markouts) EXCEPT
                               !.count = NewRing(Rated).count, !.ewma = NewRing(Rated).ewma,
                               !.matured = 0, !.judged = {}]
    BY <1>9 DEF Restart
  <2>2. /\ MarkoutsTyped(Restored(markouts))
        /\ MarkoutsTyped([Restored(markouts) EXCEPT
                            !.count = NewRing(Rated).count, !.ewma = NewRing(Rated).ewma,
                            !.matured = 0, !.judged = {}])
    BY <1>1, <1>2, <1>3, MarkoutsStayTyped
  <2>3. MarkoutsTyped(markouts')
    BY <2>1, <2>2
  <2> QED BY <1>4, <2>1, <2>3
<1>10. ASSUME NEW side \in {-1, 1}, NEW quantity \in Parents, NEW quotes \in Quotes, Route(side, quantity, quotes)
       PROVE  RoutingInv'
  <2>1. plan' = Decision(side, quantity, quotes) /\ card' = card /\ markouts' = markouts
    BY <1>10 DEF Route
  <2>2. Decision(side, quantity, quotes)' = Decision(side, quantity, quotes)
    BY <2>1, DecidedByCards
  <2>3. PlanInv'
    BY <2>1, <2>2 DEF PlanInv
  <2>4. MarkoutsTyped(markouts')
    BY <1>1, <2>1
  <2> QED BY <1>1, <2>3, <2>4 DEF RoutingInv, MarkoutsTyped
<1>11. ASSUME UNCHANGED sorVars PROVE RoutingInv'
  <2>1. plan' = plan /\ card' = card /\ markouts' = markouts
    BY <1>11 DEF sorVars
  <2>2. ASSUME NEW side, NEW quantity, NEW quotes
        PROVE Decision(side, quantity, quotes)' = Decision(side, quantity, quotes)
    BY <2>1, DecidedByCards
  <2>3. PlanInv'
    BY <1>1, <2>1, <2>2 DEF PlanInv
  <2>4. MarkoutsTyped(markouts')
    BY <1>1, <2>1
  <2> QED BY <1>1, <2>3, <2>4 DEF RoutingInv, MarkoutsTyped
<1> QED BY <1>5, <1>6, <1>7, <1>8, <1>9, <1>10, <1>11 DEF SorNext

\* The invariant is strong enough.
LEMMA RoutingFollows == RoutingInv => RoutesCheapest
<1> SUFFICES ASSUME RoutingInv, plan # NoPlan PROVE RoutesCheapest
  BY DEF RoutesCheapest
<1>1. SorInv /\ MarkoutsTyped(markouts) /\ Parents \subseteq Nat
  BY SorAssumption DEF RoutingInv
<1>2. PICK side \in {-1, 1}, quantity \in Parents, quotes \in Quotes : plan = Decision(side, quantity, quotes)
  BY DEF RoutingInv, PlanInv
<1>3. Deciding(side, quantity, quotes)
  BY <1>1 DEF Deciding
<1>4. /\ plan.side = side /\ plan.quantity = quantity /\ plan.quotes = quotes
      /\ plan.lit = Swept(side, quantity, quotes) /\ plan.probes = [v \in Dark |-> ProbeSize(v, quantity)]
  BY <1>2 DEF Decision
<1>5. LegsAreCheapest(plan.lit, plan.side, plan.quantity, plan.quotes)
  BY <1>3, <1>4, SweptIsCheapest
<1>6. \A v \in Dark : plan.probes[v] <= HalfUp(plan.quantity, DarkShare)
  BY <1>3, <1>4, ProbesAreCapped
<1> QED BY <1>5, <1>6 DEF RoutesCheapest, LegsAreCheapest, Worth, Splittings

(* The adaptive router's sweep is the cheapest split of every parent, by   *)
(* all it has learnt, and its scorecard is fair, through every restart:    *)
(* what route and VenueScorecard promise, for any venues, quotes, sizes,   *)
(* penalties, ring, horizon and prior.                                     *)
THEOREM RoutingHolds == SorSpec => []RoutingIsRight
<1>1. SorInit => RoutingInv
  BY RoutingStarts
<1>2. RoutingInv /\ [SorNext]_sorVars => RoutingInv'
  BY RoutingStays
<1>3. RoutingInv => RoutingIsRight
  BY ScorecardsFollow, RoutingFollows DEF RoutingInv, RoutingIsRight
<1> QED BY <1>1, <1>2, <1>3, PTL DEF SorSpec
=============================================================================
