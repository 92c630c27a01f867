------------------------------ MODULE VenuesMC ------------------------------
(* What the system knows of its venues and how it goes to them, on small   *)
(* instances: the order throttle, the consolidated inside, the adaptive   *)
(* router, the FX ladders, the schedulers and the wire formats.  They share *)
(* no state, so a behavior is of one of them: part says which.             *)
EXTENDS OrderThrottle, Nbbo, AdaptiveSor, Schedules, TLC

VARIABLES
  part,
  tier, count, sending, sent, events, rejects, rate, time,
  framed, wire, buffer, heard, corrupted, cachedDay, orders, view, wrapped,
  block, log


Q(b, a, s, f) == [bid |-> b, ask |-> a, size |-> s, fee |-> f]
MCQuotes ==
  {("x" :> Q(10, 11, 2, 0) @@ "y" :> Q(10, 11, 2, 1) @@ "z" :> Q(10, 12, 1, 0)),
   ("x" :> Q(10, 12, 1, 0) @@ "y" :> Q(11, 12, 4, -1) @@ "z" :> Q(0, 11, 2, 0))}

T(p, s) == [px |-> p, sz |-> s]
MCLadders ==
  [side \in {"bid", "ask"} |->
     IF side = "ask" THEN {<<T(11, 1), T(12, 3)>>, <<T(11, 2)>>} ELSE {<<T(10, 1), T(0, 2), T(8, 3)>>}]
Fx == INSTANCE FxLiquidity WITH
  Rated <- {"a", "b"}, PendingRing <- 2, Horizon <- 1, CardUnit <- 16, MaxTiers <- 3, Ladders <- MCLadders,
  MaxRejectRate <- 9, Mids <- {0, 10, 12}, Clips <- {1, 2, 4}, MaxEvents <- 4, MaxTime <- 1,
  ring <- rejects, now <- time

MCWeights == UNION {[1..n -> 0..3] : n \in 0..3} \cup {<<2, -1>>, <<1, 5, 1, 5>>}
MCDurations == {-1, 0, 7, 90}
MCShown == [{1, 2, 3} -> {T(10, 2), T(11, 1), T(11, 3), T(0, 0)}]
MCSees == {[v \in {1, 2, 3} |-> [px |-> q[v].px, sz |-> q[v].sz]] : q \in MCShown}
MCFees == {<<0, 0, 0>>, <<2, 0, -1>>, <<-2, 1, 0>>}

(* Frames of ten and twelve bytes; orders back and forth over midnight;    *)
(* reports with a field missing, foreign, fractional or negative.          *)
MCBodies == {<<2>>, <<3, 2>>}
F(t, v) == [tag |-> t, value |-> v]
MCReports ==
  {[type |-> "8", fields |-> fs] :
     fs \in {<<F("id", <<11, 12>>), F("qty", <<15, 20, 10>>), F("px", <<21, 10, 20, 15>>)>>,
             <<F("qty", <<15>>)>>, <<F("id", <<>>), F("qty", <<21, 13>>)>>,
             <<F("px", <<11, 20, 10, 18>>), F("id", <<2, 11>>), F("qty", <<15, 20, 13>>)>>}}
  \cup {[type |-> "0", fields |-> <<>>]}
Fix == INSTANCE FixStream WITH
  Bodies <- MCBodies, MaxSent <- 2, Junk <- {1, 5, 10, 19}, MinFrame <- 9, Cap <- 30, Modulus <- 10,
  Day <- 24, Hour <- 4, SendTimes <- {0, 23, 24, 27, 50},
  Prices <- [mantissa : {0, 5, 100, 10850}, decimals : {0, 1, 3, 6}],
  Reports <- MCReports, MaxOrders <- 2, MaxReports <- 3, sent <- framed

(* Both signs, and the largest and smallest values of the fields.          *)
Named == {"locate", "stamp", "ref", "newRef", "side", "shares", "delta", "stock", "price", "match",
          "symbol", "px", "size", "nanos", "id", "qty", "bid", "bidSize", "ask", "askSize"}
MCValues ==
  {[n \in Named |->
      CASE n = "side" -> 1 [] n = "price" -> -2048 [] n = "locate" -> 63 [] n = "ref" -> 16777215
        [] n = "stamp" -> 262143 [] OTHER -> 2047],
   [n \in Named |->
      CASE n = "side" -> 0 [] n = "price" -> 17 [] n = "locate" -> 9 [] n \in {"shares", "delta"} -> 1234
        [] n = "symbol" -> -1 [] n = "nanos" -> -5 [] OTHER -> 54321]}
Binary == INSTANCE BinaryCodec WITH
  Base <- 8, Size <- 96, Values <- MCValues, MaxLog <- 2, buffer <- block

fix == <<framed, wire, buffer, heard, corrupted, cachedDay, orders, view, wrapped>>
binary == <<block, log>>
fx == <<tier, count, sending, sent, events, rejects, rate, time>>

MCInit ==
  /\ part \in {"throttle", "inside", "router", "fx", "schedule", "frames", "orders", "reports", "binary"}
  /\ Init /\ NbboInit /\ SorInit /\ Fx!Init /\ CallInit /\ Fix!Init /\ Binary!Init

MCNext ==
  /\ UNCHANGED part
  /\ \/ part = "throttle" /\ Next /\ UNCHANGED <<nbboVars, sorVars, fx, call, fix, binary>>
     \/ part = "inside" /\ NbboNext /\ UNCHANGED <<vars, sorVars, fx, call, fix, binary>>
     \/ part = "router" /\ SorNext /\ UNCHANGED <<vars, nbboVars, fx, call, fix, binary>>
     \/ part = "fx" /\ Fx!Next /\ UNCHANGED <<vars, nbboVars, sorVars, call, fix, binary>>
     \/ part = "schedule" /\ CallNext /\ UNCHANGED <<vars, nbboVars, sorVars, fx, fix, binary>>
     \/ /\ UNCHANGED <<vars, nbboVars, sorVars, fx, call, binary>>
        /\ \/ part = "frames" /\ Fix!Streaming
           \/ part = "orders" /\ Fix!Encoding
           \/ part = "reports" /\ Fix!Reading
     \/ part = "binary" /\ Binary!Next /\ UNCHANGED <<vars, nbboVars, sorVars, fx, call, fix>>

MCSpec == MCInit /\ [][MCNext]_<<part, vars, nbboVars, sorVars, fx, call, fix, binary>>

(* An FX clip is dealt where it is best, and each reject charged to a      *)
(* provider was judged for once.                                           *)
FxIsDealtBest == part = "fx" => Fx!ClipIsDealtBest /\ Fx!RejectsAreJudgedOnce
(* What the wire carries is read as it was meant: frames however they are  *)
(* cut, orders, reports and binary messages.                               *)
WireIsRead ==
  /\ part = "frames" => Fix!FramesAreWhole
  /\ part = "orders" => Fix!OrdersReadBack
  /\ part = "reports" => Fix!ViewIsOfTheReport
  /\ part = "binary" => Binary!ReadsAsWritten
(* The active tiers of an FX ladder are of one update.                     *)
LadderIsWhole == part = "fx" => Fx!LadderIsWhole
=============================================================================
