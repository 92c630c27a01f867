------------------------------ MODULE RiskLedger ------------------------------
(* What a central risk book promises: factor by factor, the firm and each  *)
(* desk hold the sum of the legs booked, the gross is the sum of their     *)
(* sizes, each flow counts whole or not at all, and a fixing is released   *)
(* once.                                                                   *)
EXTENDS Fractions, Integers, Sequences

CONSTANTS
  Desks, Factors, Pairs,
  Flows     (* [legs : a sequence of [factor, amount], pair, fixing]       *)

VARIABLES
  held,     (* [Desks -> [Factors -> Int]]                                 *)
  net,      (* [Factors -> Int]                                            *)
  gross,    (* [Factors -> Nat]                                            *)
  pending   (* [Pairs -> Nat]: non-deliverable notional not fixed yet      *)

Amount(flow, f) ==
  SeqSum([k \in DOMAIN flow.legs |-> IF flow.legs[k].factor = f THEN flow.legs[k].amount ELSE 0])
Size(flow, f) ==
  SeqSum([k \in DOMAIN flow.legs |-> IF flow.legs[k].factor = f THEN Abs(flow.legs[k].amount) ELSE 0])

Book(flow) ==
  /\ net' = [f \in Factors |-> net[f] + Amount(flow, f)]
  /\ gross' = [f \in Factors |-> gross[f] + Size(flow, f)]
  /\ pending' = [p \in Pairs |-> IF p = flow.pair THEN pending[p] + flow.fixing ELSE pending[p]]
  /\ \E desk \in Desks :
       held' = [held EXCEPT ![desk] = [f \in Factors |-> @[f] + Amount(flow, f)]]

Settle(pair, notional) ==
  /\ notional \in 1..pending[pair]
  /\ pending' = [pending EXCEPT ![pair] = @ - notional]
  /\ UNCHANGED <<held, net, gross>>

Init ==
  /\ held = [d \in Desks |-> [f \in Factors |-> 0]]
  /\ net = [f \in Factors |-> 0] /\ gross = net
  /\ pending = [p \in Pairs |-> 0]

Next ==
  \/ \E flow \in Flows : Book(flow)
  \/ \E p \in Pairs : \E n \in 1..pending[p] : Settle(p, n)

vars == <<held, net, gross, pending>>
Spec == Init /\ [][Next]_vars
=============================================================================
