----------------------------- MODULE SpreadExec -----------------------------
(***************************************************************************)
(* The two-legged spread algo of execution/spread_execution_algo.py.  The  *)
(* lead leg is worked patiently, the hedge leg chases its fills, and the   *)
(* legging imbalance (in hedge units) is capped.                           *)
(*                                                                         *)
(* The caller is modelled with it: Decide cancels the children of the last *)
(* interval and works the new ones, which the market fills in any order    *)
(* and in any slices; a hedge report may be delivered twice.               *)
(*                                                                         *)
(* The ratio is the fraction Num/Den: the code's float ratio, without its  *)
(* representation error.                                                   *)
(***************************************************************************)
EXTENDS Integers

CONSTANTS
  Parent,        (* lead_parent_qty                                        *)
  Num, Den,      (* hedge_per_lead_unit                                    *)
  Limit,         (* legging_limit_hedge_units                              *)
  ChildMax,      (* lead_child_max                                         *)
  MaxDuplicates  (* bound: duplicate hedge reports                         *)

ASSUME SpreadExecAssumption ==
  /\ Parent \in Nat \ {0} /\ Num \in Nat \ {0} /\ Den \in Nat \ {0}
  /\ Limit \in Nat \ {0} /\ Limit * Den >= Num
  /\ ChildMax \in Nat \ {0} /\ MaxDuplicates \in Nat

VARIABLES
  lead,       (* _lead_executed                                            *)
  hedge,      (* _hedge_executed                                           *)
  child,      (* what the market still works of the last Children          *)
  lastHedge,  (* the last hedge report, which may be repeated              *)
  duplicates, (* history: duplicate hedge reports so far                   *)
  rejected    (* history: did a fill report raise                          *)

vars == <<lead, hedge, child, lastHedge, duplicates, rejected>>

-----------------------------------------------------------------------------
Lesser(a, b) == IF a < b THEN a ELSE b

(* math.floor(units * ratio + 0.5): the port spells out half-up rounding.  *)
HedgeFor(units) == (2 * units * Num + Den) \div (2 * Den)

Target == HedgeFor(Parent)
Imbalance == HedgeFor(lead) - hedge          (* imbalance_hedge_units()    *)

(* Lead units whose whole fill, with no hedge fill, stays inside the cap.  *)
HeadroomUp(room) == (room * Den + Num - 1) \div Num
HeadroomShort(room) == ((room - 1) * Den) \div Num
Headroom(room) == (room * Den) \div Num

LeadChild ==
  IF Imbalance >= Limit THEN 0
  ELSE Lesser(Lesser(Parent - lead, ChildMax), Headroom(Limit - Imbalance))

HedgeChildOfTarget == Target - hedge
HedgeChild == IF Imbalance > 0 THEN Imbalance ELSE 0

Decide ==
  /\ child' = [lead |-> LeadChild, hedge |-> HedgeChild]
  /\ UNCHANGED <<lead, hedge, lastHedge, duplicates, rejected>>

OnLeadFill(qty) ==
  IF lead + qty > Parent
  THEN rejected' = TRUE /\ UNCHANGED lead
  ELSE lead' = lead + qty /\ UNCHANGED rejected

OnHedgeFill(qty) ==
  IF hedge + qty > Target
  THEN rejected' = TRUE /\ UNCHANGED hedge
  ELSE hedge' = hedge + qty /\ UNCHANGED rejected

(* The market fills part of a child.                                       *)
LeadFills(qty) ==
  /\ OnLeadFill(qty)
  /\ child' = [child EXCEPT !.lead = @ - qty]
  /\ UNCHANGED <<hedge, lastHedge, duplicates>>

HedgeFills(qty) ==
  /\ OnHedgeFill(qty)
  /\ child' = [child EXCEPT !.hedge = @ - qty]
  /\ lastHedge' = qty
  /\ UNCHANGED <<lead, duplicates>>

HedgeReportRepeats ==
  /\ lastHedge > 0 /\ duplicates < MaxDuplicates
  /\ OnHedgeFill(lastHedge)
  /\ duplicates' = duplicates + 1
  /\ UNCHANGED <<lead, child, lastHedge>>

Init ==
  /\ lead = 0 /\ hedge = 0
  /\ child = [lead |-> 0, hedge |-> 0]
  /\ lastHedge = 0 /\ duplicates = 0 /\ rejected = FALSE

SomeLeadFills == \E qty \in 1..child.lead : LeadFills(qty)
SomeHedgeFills == \E qty \in 1..child.hedge : HedgeFills(qty)

Next ==
  \/ Decide
  \/ SomeLeadFills
  \/ SomeHedgeFills
  \/ HedgeReportRepeats

Spec == Init /\ [][Next]_vars

(* The caller's timer keeps deciding, and a child that is offered again    *)
(* and again fills some day.                                               *)
FairSpec == Spec /\ WF_vars(Decide) /\ SF_vars(SomeLeadFills) /\ SF_vars(SomeHedgeFills)

Done == lead = Parent /\ Imbalance <= 0      (* done()                     *)

-----------------------------------------------------------------------------
(* Properties.                                                             *)

\* The type of the state.
TypeOK ==
  /\ lead \in 0..Parent /\ hedge \in 0..Target
  /\ child \in [lead : Nat, hedge : Nat]
  /\ lastHedge \in Nat /\ duplicates \in Nat /\ rejected \in BOOLEAN

\* The imbalance cap does not yield: however the children of the last decision
\* fill (the lead whole, the hedge not at all), the imbalance stays in the cap.
CapHolds == Imbalance <= Limit

\* The hedge never runs ahead of the lead's fills, and no honest fill report is
\* refused as an overfill: only a duplicate can cause either.
HedgeOnlyChases == duplicates = 0 => Imbalance >= 0 /\ ~rejected

\* The two legs complete: the cap, the child sizes and the rounding never
\* leave the algo with nothing to work before it is done.
CompletesBothLegs == <>Done
=============================================================================
