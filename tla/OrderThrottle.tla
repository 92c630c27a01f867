--------------------------- MODULE OrderThrottle ---------------------------
(***************************************************************************)
(* The token bucket of trading/order_throttle.py.  The caller passes the   *)
(* time, which may stand still and run backwards; the bucket never reads a *)
(* clock.                                                                  *)
(*                                                                         *)
(* Tokens are counted in grains, of which Unit make a token and PerNano    *)
(* arrive per nanosecond, so that the sums the code makes in floats are    *)
(* exact; Slack is its 1e-9 of a token, the drift a grant may forgive.     *)
(***************************************************************************)
EXTENDS Integers

CONSTANTS
  Unit,     (* grains of one token                                         *)
  PerNano,  (* _tokens_per_nano, in grains                                 *)
  Burst,    (* _burst, in tokens                                           *)
  Slack,    (* the 1e-9 of try_acquire, in grains                          *)
  MaxTime   (* bound: the latest timestamp                                 *)

ASSUME OrderThrottleAssumption ==
  /\ Unit \in Nat \ {0} /\ PerNano \in Nat \ {0} /\ Burst \in Nat \ {0}
  /\ Slack \in Nat /\ Slack < Unit
  /\ MaxTime \in Nat

Instants == 0..MaxTime
None == -1

VARIABLES
  tokens,   (* _tokens, in grains                                          *)
  last,     (* _last_nanos                                                 *)
  from,     (* history: when the window of time under watch began          *)
  granted,  (* history: permits granted in that window                     *)
  promised, (* history: when nanos_until_available said a permit would be
               there, if no permit was taken since                         *)
  broken    (* history: was one denied nevertheless                        *)

vars == <<tokens, last, from, granted, promised, broken>>

-----------------------------------------------------------------------------
Capped(t) == IF t < Burst * Unit THEN t ELSE Burst * Unit

(* _refill: the tokens and the time after it.                              *)
RefilledTokens(now) ==
  IF last # None /\ now > last THEN Capped(tokens + (now - last) * PerNano) ELSE tokens
TimeAlways(now) == now
RefilledTime(now) == IF last = None \/ now > last THEN now ELSE last

Enough(t) == t >= Unit - Slack
Taken(t) == IF t > Unit THEN t - Unit ELSE 0

(* The window under watch begins with the first timestamp.                 *)
Watch(now) == from' = IF from = None THEN now ELSE from

TryAcquire(now) ==
  /\ last' = RefilledTime(now)
  /\ Watch(now)
  /\ LET t == RefilledTokens(now) IN
     IF Enough(t)
     THEN /\ tokens' = Taken(t) /\ granted' = granted + 1
          /\ promised' = None /\ UNCHANGED broken
     ELSE /\ tokens' = t
          /\ broken' = (broken \/ (promised # None /\ now >= promised))
          /\ UNCHANGED <<granted, promised>>

WaitFloor(t) == IF t >= Unit THEN 0 ELSE (Unit - t) \div PerNano

(* What nanos_until_available returns.                                     *)
Wait(t) == IF t >= Unit THEN 0 ELSE (Unit - t + PerNano - 1) \div PerNano

(* The promise is noted when the caller's clock has not run backwards: the *)
(* wait counts from the call, and the bucket fills from the last refill.   *)
NanosUntilAvailable(now) ==
  /\ last' = RefilledTime(now)
  /\ Watch(now)
  /\ tokens' = RefilledTokens(now)
  /\ promised' = IF last # None /\ now < last THEN promised ELSE now + Wait(tokens')
  /\ UNCHANGED <<granted, broken>>

(* Any stretch of time may be watched.                                     *)
WatchFromNow ==
  /\ from # None
  /\ from' = last /\ granted' = 0
  /\ UNCHANGED <<tokens, last, promised, broken>>

Init ==
  /\ tokens = Burst * Unit /\ last = None
  /\ from = None /\ granted = 0
  /\ promised = None /\ broken = FALSE

Next ==
  \/ \E now \in Instants : TryAcquire(now)
  \/ \E now \in Instants : NanosUntilAvailable(now)
  \/ WatchFromNow

Spec == Init /\ [][Next]_vars

-----------------------------------------------------------------------------
(* Properties.                                                             *)

\* The type of the state: the bucket never holds more than a burst.
TypeOK ==
  /\ tokens \in 0..(Burst * Unit)
  /\ last \in Nat \cup {None} /\ from \in Nat \cup {None}
  /\ granted \in Nat /\ promised \in Nat \cup {None} /\ broken \in BOOLEAN

\* The venue's limit: in every stretch of time the permits granted are at most
\* a burst and what the rate allows, give or take the slack of each, also
\* when the caller's clock stands still, jumps ahead or runs backwards.
RateIsKept ==
  from # None =>
    granted * (Unit - Slack) <= Burst * Unit + (last - from) * PerNano

\* A pacing loop that sleeps as long as nanos_until_available says and takes
\* no permit meanwhile is never denied.
WaitingIsEnough == ~broken
=============================================================================
