----------------------------- MODULE DeskProofs -----------------------------
(***************************************************************************)
(* Proofs about SpreadExec, for every ratio, cap, child size and parent,   *)
(* and about CrbDesk and the book under it, for every set of flows,        *)
(* factors, clients, venues, limits and bands.                             *)
(*                                                                         *)
(* The spread: all the arithmetic is in three lemmas: what an integer      *)
(* quotient is, that half-up rounding of the hedge is monotone, and that   *)
(* lead units worth at most K hedge units move the rounded hedge by at     *)
(* most K.  The inductive invariant then says that the cap holds even      *)
(* after the lead child at work fills whole and the hedge child not at     *)
(* all, and that the hedge child at work never exceeds the imbalance.      *)
(*                                                                         *)
(* The risk book: an array reads as zero where it does not reach, so a     *)
(* book is its readings, factor by factor; growing the registry or an      *)
(* array changes no reading, and a leg changes one.  The legs of a flow    *)
(* then add up to what the ledger books.  The desk adds to the sound book  *)
(* that hedges are worked only while the hedger cools down, which is why   *)
(* a hedge is never sent twice.                                            *)
(***************************************************************************)
EXTENDS SpreadExec, CrbDesk, CommonLemmas

-----------------------------------------------------------------------------
(* The two-legged spread.                                                  *)

\* The rounded hedge of lead units, bounded from both sides.
LEMMA HedgeForBounds ==
  ASSUME NEW u \in Nat
  PROVE  /\ HedgeFor(u) \in Nat
         /\ 2 * Den * HedgeFor(u) <= 2 * u * Num + Den
         /\ 2 * u * Num + Den < 2 * Den * HedgeFor(u) + 2 * Den
<1>1. Num \in Nat \ {0} /\ Den \in Nat \ {0}
  BY SpreadExecAssumption
<1>2. PICK a \in Nat : a = 2 * u * Num + Den
  BY <1>1
<1>3. PICK d \in Nat \ {0} : d = 2 * Den
  BY <1>1
<1>4. PICK h \in Int : h = a \div d /\ d * h <= a /\ a < d * h + d
  BY IntegerQuotient
<1>5. h >= 0
  <2>1. SUFFICES ASSUME h < 0 PROVE FALSE
    BY <1>4
  <2>2. d * h + d <= 0
    BY <2>1, <1>3, <1>4
  <2> QED BY <1>2, <1>4, <2>2
<1> QED
  BY <1>2, <1>3, <1>4, <1>5 DEF HedgeFor

\* Lead units worth at most K hedge units move the rounded hedge by at most K.
LEMMA HedgeForStep ==
  ASSUME NEW u \in Nat, NEW x \in Nat, NEW K \in Nat, x * Num <= K * Den
  PROVE  HedgeFor(u + x) <= HedgeFor(u) + K
<1>1. Num \in Nat \ {0} /\ Den \in Nat \ {0}
  BY SpreadExecAssumption
<1>2. PICK h \in Nat : h = HedgeFor(u) /\ 2 * u * Num + Den < 2 * Den * h + 2 * Den
  BY HedgeForBounds
<1>3. 2 * (u + x) * Num + Den = (2 * u * Num + Den) + 2 * (x * Num)
  BY <1>1
<1>4. 2 * (u + x) * Num + Den < (2 * Den) * ((h + K) + 1)
  <2>1. 2 * (u + x) * Num + Den < (2 * Den * h + 2 * Den) + 2 * (K * Den)
    BY <1>1, <1>2, <1>3
  <2>2. (2 * Den * h + 2 * Den) + 2 * (K * Den) = (2 * Den) * ((h + K) + 1)
    BY <1>1
  <2> QED BY <2>1, <2>2
<1>5. (2 * (u + x) * Num + Den) \div (2 * Den) <= h + K
  <2>1. 2 * (u + x) * Num + Den \in Int /\ 2 * Den \in Nat \ {0} /\ h + K \in Int
    BY <1>1
  <2> QED BY <1>4, <2>1, QuotientBelow
<1> QED
  BY <1>2, <1>5 DEF HedgeFor

\* The rounded hedge grows with the lead.
LEMMA HedgeForMonotone ==
  ASSUME NEW u \in Nat, NEW v \in Nat, u <= v
  PROVE  HedgeFor(u) <= HedgeFor(v)
<1>1. Num \in Nat \ {0} /\ Den \in Nat \ {0}
  BY SpreadExecAssumption
<1>2. PICK h \in Nat : h = HedgeFor(v) /\ 2 * v * Num + Den < 2 * Den * h + 2 * Den
  BY HedgeForBounds
<1>3. 2 * u * Num <= 2 * v * Num
  <2>1. PICK w \in Nat : v = u + w
    <3>1. v - u \in Nat /\ v = u + (v - u)
      OBVIOUS
    <3> QED BY <3>1
  <2>2. 2 * v * Num = 2 * u * Num + 2 * (w * Num) /\ w * Num >= 0
    BY <1>1, <2>1
  <2> QED BY <1>1, <2>2
<1>4. 2 * u * Num + Den < (2 * Den) * (h + 1)
  BY <1>1, <1>2, <1>3
<1>5. (2 * u * Num + Den) \div (2 * Den) <= h
  <2>1. 2 * u * Num + Den \in Int /\ 2 * Den \in Nat \ {0} /\ h \in Int
    BY <1>1
  <2> QED BY <1>4, <2>1, QuotientBelow
<1> QED
  BY <1>2, <1>5 DEF HedgeFor

\* The headroom is worth no more than the room it is computed from.
LEMMA HeadroomFits ==
  ASSUME NEW room \in Nat
  PROVE  Headroom(room) \in Nat /\ Headroom(room) * Num <= room * Den
<1>1. Num \in Nat \ {0} /\ Den \in Nat \ {0}
  BY SpreadExecAssumption
<1>2. PICK a \in Nat : a = room * Den
  BY <1>1
<1>3. PICK h \in Int : h = a \div Num /\ Num * h <= a /\ a < Num * h + Num
  BY <1>1, IntegerQuotient
<1>4. h >= 0
  <2>1. SUFFICES ASSUME h < 0 PROVE FALSE
    BY <1>3
  <2>2. Num * h + Num <= 0
    BY <1>1, <2>1, <1>3
  <2> QED BY <1>1, <1>2, <1>3, <2>2
<1>5. h * Num = Num * h
  BY <1>1
<1> QED
  BY <1>2, <1>3, <1>4, <1>5 DEF Headroom

-----------------------------------------------------------------------------
(* The inductive invariant.                                                *)

SpreadInv ==
  /\ TypeOK
  /\ lead + child.lead <= Parent
  /\ HedgeFor(lead + child.lead) - hedge <= Limit
  /\ duplicates = 0 => ~rejected /\ child.hedge <= Imbalance /\ Imbalance >= 0

\* The lead child just decided keeps the cap after a whole fill.
LEMMA LeadChildFits ==
  ASSUME TypeOK, Imbalance <= Limit
  PROVE  /\ LeadChild \in Nat
         /\ lead + LeadChild <= Parent
         /\ HedgeFor(lead + LeadChild) - hedge <= Limit
<1>1. /\ Limit \in Nat /\ Parent \in Nat /\ ChildMax \in Nat
      /\ lead \in Nat /\ hedge \in Nat /\ lead <= Parent
  <2>1. Target \in Nat
    BY SpreadExecAssumption, HedgeForBounds DEF Target
  <2> QED BY <2>1, SpreadExecAssumption DEF TypeOK
<1>2. PICK h \in Nat : h = HedgeFor(lead)
  BY <1>1, HedgeForBounds
<1>3. Imbalance = h - hedge
  BY <1>2 DEF Imbalance
<1>4. CASE Imbalance >= Limit
  <2>1. LeadChild = 0
    BY <1>4 DEF LeadChild
  <2>2. lead + LeadChild = lead
    BY <1>1, <2>1
  <2> QED BY <1>1, <1>2, <1>3, <2>1, <2>2
<1>5. CASE ~(Imbalance >= Limit)
  <2>1. PICK room \in Nat : room = Limit - Imbalance
    <3>1. Limit - Imbalance \in Nat
      BY <1>1, <1>3, <1>5
    <3> QED BY <3>1
  <2>2. PICK x \in Nat : x = Headroom(room) /\ x * Num <= room * Den
    BY HeadroomFits
  <2>3. PICK y : y = LeadChild
    OBVIOUS
  <2>4. y = Lesser(Lesser(Parent - lead, ChildMax), x)
    BY <1>5, <2>1, <2>2, <2>3 DEF LeadChild
  <2>5. y \in Nat /\ y <= x /\ y <= Parent - lead
    BY <1>1, <2>2, <2>4 DEF Lesser
  <2>6. y * Num <= x * Num
    <3>1. PICK w \in Nat : x = y + w
      <4>1. x - y \in Nat /\ x = y + (x - y)
        BY <2>5
      <4> QED BY <4>1
    <3>2. x * Num = y * Num + w * Num /\ w * Num >= 0
      BY <2>5, <3>1, SpreadExecAssumption
    <3> QED BY <2>5, <3>2, SpreadExecAssumption
  <2>7. y * Num <= room * Den
    BY <2>2, <2>5, <2>6, SpreadExecAssumption
  <2>8. HedgeFor(lead + y) <= h + room
    BY <1>1, <1>2, <2>5, <2>7, HedgeForStep
  <2>9. HedgeFor(lead + y) \in Nat
    BY <1>1, <2>5, HedgeForBounds
  <2> QED BY <1>1, <1>3, <2>1, <2>3, <2>5, <2>8, <2>9
<1> QED
  BY <1>4, <1>5

\* What the invariant says of the rounded hedge at the points that matter.
LEMMA SpreadInvHedge ==
  ASSUME SpreadInv
  PROVE  /\ lead \in Nat /\ hedge \in Nat /\ child.lead \in Nat /\ child.hedge \in Nat
         /\ Limit \in Nat /\ Parent \in Nat /\ Target \in Nat /\ HedgeFor(lead) \in Nat
         /\ HedgeFor(lead + child.lead) \in Nat
         /\ HedgeFor(lead) <= HedgeFor(lead + child.lead)
         /\ HedgeFor(lead) <= Target
<1>1. Target \in Nat /\ Limit \in Nat /\ Parent \in Nat
  BY SpreadExecAssumption, HedgeForBounds DEF Target
<1>2. lead \in Nat /\ hedge \in Nat /\ child.lead \in Nat /\ child.hedge \in Nat /\ lead <= Parent
  BY <1>1 DEF SpreadInv, TypeOK
<1>3. HedgeFor(lead) \in Nat /\ HedgeFor(lead + child.lead) \in Nat
  BY <1>2, HedgeForBounds
<1>4. HedgeFor(lead) <= HedgeFor(lead + child.lead)
  BY <1>2, HedgeForMonotone
<1>5. HedgeFor(lead) <= Target
  BY <1>1, <1>2, HedgeForMonotone DEF Target
<1> QED
  BY <1>1, <1>2, <1>3, <1>4, <1>5

LEMMA SpreadInit == Init => SpreadInv
<1> SUFFICES ASSUME Init PROVE SpreadInv
  OBVIOUS
<1>1. HedgeFor(0) = 0
  <2>1. PICK h \in Nat : h = HedgeFor(0) /\ 2 * Den * h <= 2 * 0 * Num + Den
    BY HedgeForBounds
  <2>2. 2 * 0 * Num = 0
    BY SpreadExecAssumption
  <2>3. h < 1
    <3>1. SUFFICES ASSUME h >= 1 PROVE FALSE
      OBVIOUS
    <3>2. 2 * Den * h >= 2 * Den
      BY <3>1, SpreadExecAssumption
    <3> QED BY <2>1, <2>2, <3>2, SpreadExecAssumption
  <2> QED BY <2>1, <2>3
<1>2. Target \in Nat
  BY SpreadExecAssumption, HedgeForBounds DEF Target
<1> QED
  <2>1. /\ lead = 0 /\ hedge = 0 /\ child = [lead |-> 0, hedge |-> 0]
        /\ lastHedge = 0 /\ duplicates = 0 /\ rejected = FALSE
    BY DEF Init
  <2>2. TypeOK
    <3>1. Parent \in Nat
      BY SpreadExecAssumption
    <3>2. lead \in 0..Parent /\ hedge \in 0..Target
      BY <1>2, <2>1, <3>1
    <3> QED BY <2>1, <3>2 DEF TypeOK
  <2>3. Imbalance = 0
    BY <1>1, <2>1 DEF Imbalance
  <2>4. lead + child.lead = 0 /\ child.hedge = 0
    BY <2>1
  <2> QED BY <1>1, <2>1, <2>2, <2>3, <2>4, SpreadExecAssumption DEF SpreadInv

LEMMA DecideKeepsInv == SpreadInv /\ Decide => SpreadInv'
<1> SUFFICES ASSUME SpreadInv, Decide PROVE SpreadInv'
  OBVIOUS
<1>1. /\ lead' = lead /\ hedge' = hedge /\ duplicates' = duplicates
      /\ lastHedge' = lastHedge /\ rejected' = rejected
      /\ child' = [lead |-> LeadChild, hedge |-> HedgeChild]
  BY DEF Decide
<1>2. Imbalance \in Int /\ Imbalance <= Limit
  BY SpreadInvHedge DEF SpreadInv, Imbalance
<1>3. /\ LeadChild \in Nat /\ lead + LeadChild <= Parent
      /\ HedgeFor(lead + LeadChild) - hedge <= Limit
  BY <1>2, LeadChildFits DEF SpreadInv
<1>4. HedgeChild \in Nat /\ (Imbalance >= 0 => HedgeChild <= Imbalance)
  BY <1>2 DEF HedgeChild
<1>5. TypeOK'
  BY <1>1, <1>3, <1>4 DEF SpreadInv, TypeOK, Target
<1>6. (lead + child.lead <= Parent)' /\ (HedgeFor(lead + child.lead) - hedge <= Limit)'
  BY <1>1, <1>3 DEF HedgeFor
<1>7. (duplicates = 0 => ~rejected /\ child.hedge <= Imbalance /\ Imbalance >= 0)'
  BY <1>1, <1>4 DEF SpreadInv, Imbalance, HedgeFor
<1> QED
  BY <1>5, <1>6, <1>7 DEF SpreadInv

LEMMA LeadFillsKeepsInv == SpreadInv /\ SomeLeadFills => SpreadInv'
<1> SUFFICES ASSUME SpreadInv, SomeLeadFills PROVE SpreadInv'
  OBVIOUS
<1>1. PICK qty \in 1..child.lead : LeadFills(qty)
  BY DEF SomeLeadFills
<1>2. qty \in Nat /\ qty >= 1 /\ qty <= child.lead /\ lead + qty <= Parent
  BY SpreadInvHedge DEF SpreadInv
<1>3. /\ lead' = lead + qty /\ hedge' = hedge /\ rejected' = rejected
      /\ child' = [child EXCEPT !.lead = @ - qty]
      /\ lastHedge' = lastHedge /\ duplicates' = duplicates
  BY <1>1, <1>2, SpreadInvHedge DEF LeadFills, OnLeadFill
<1>4. /\ child' \in [lead : Nat, hedge : Nat]
      /\ child'.lead = child.lead - qty /\ child'.hedge = child.hedge
  BY <1>2, <1>3 DEF SpreadInv, TypeOK
<1>5. TypeOK'
  BY <1>2, <1>3, <1>4, SpreadInvHedge DEF SpreadInv, TypeOK, Target
<1>6. lead' + child'.lead = lead + child.lead
  BY <1>2, <1>3, <1>4, SpreadInvHedge
<1>7. (lead + child.lead <= Parent)' /\ (HedgeFor(lead + child.lead) - hedge <= Limit)'
  BY <1>3, <1>6 DEF SpreadInv, HedgeFor
<1>8. HedgeFor(lead) <= HedgeFor(lead + qty) /\ HedgeFor(lead + qty) \in Nat
  BY <1>2, SpreadInvHedge, HedgeForMonotone, HedgeForBounds
<1>9. (Imbalance)' = HedgeFor(lead + qty) - hedge
  BY <1>3 DEF Imbalance, HedgeFor
<1>10. (duplicates = 0 => ~rejected /\ child.hedge <= Imbalance /\ Imbalance >= 0)'
  BY <1>3, <1>4, <1>8, <1>9, SpreadInvHedge DEF SpreadInv, Imbalance
<1> QED
  BY <1>5, <1>7, <1>10 DEF SpreadInv

LEMMA HedgeFillsKeepsInv == SpreadInv /\ SomeHedgeFills => SpreadInv'
<1> SUFFICES ASSUME SpreadInv, SomeHedgeFills PROVE SpreadInv'
  OBVIOUS
<1>1. PICK qty \in 1..child.hedge : HedgeFills(qty)
  BY DEF SomeHedgeFills
<1>2. qty \in Nat /\ qty >= 1 /\ qty <= child.hedge
  BY SpreadInvHedge
<1>3. /\ lead' = lead /\ duplicates' = duplicates /\ lastHedge' = qty
      /\ child' = [child EXCEPT !.hedge = @ - qty]
  BY <1>1 DEF HedgeFills, OnHedgeFill
<1>4. /\ child' \in [lead : Nat, hedge : Nat]
      /\ child'.lead = child.lead /\ child'.hedge = child.hedge - qty
  BY <1>2, <1>3 DEF SpreadInv, TypeOK
<1>5. \/ hedge' = hedge + qty /\ hedge + qty <= Target /\ rejected' = rejected
      \/ hedge' = hedge /\ hedge + qty > Target /\ rejected' = TRUE
  BY <1>1, <1>2, SpreadInvHedge DEF HedgeFills, OnHedgeFill
<1>6. TypeOK'
  <2>1. Target' = Target
    BY DEF Target, HedgeFor
  <2>2. hedge \in 0..Target /\ lead \in 0..Parent /\ rejected \in BOOLEAN /\ duplicates \in Nat
    BY DEF SpreadInv, TypeOK
  <2>3. hedge' \in 0..Target /\ rejected' \in BOOLEAN
    <3>1. hedge' \in 0..Target
      BY <1>2, <1>5, <2>2, SpreadInvHedge
    <3>2. rejected' \in BOOLEAN
      BY <1>5, <2>2, Zenon
    <3> QED BY <3>1, <3>2
  <2> QED BY <1>2, <1>3, <1>4, <2>1, <2>2, <2>3 DEF TypeOK
<1>7. (lead + child.lead <= Parent)' /\ (HedgeFor(lead + child.lead) - hedge <= Limit)'
  BY <1>2, <1>3, <1>4, <1>5, SpreadInvHedge DEF SpreadInv, HedgeFor
<1>8. (Imbalance)' = HedgeFor(lead) - hedge'
  BY <1>3 DEF Imbalance, HedgeFor
<1>9. duplicates = 0 => hedge + qty <= Target
  BY <1>2, SpreadInvHedge DEF SpreadInv, Imbalance
<1>10. (duplicates = 0 => ~rejected /\ child.hedge <= Imbalance /\ Imbalance >= 0)'
  BY <1>2, <1>3, <1>4, <1>5, <1>8, <1>9, SpreadInvHedge DEF SpreadInv, Imbalance
<1> QED
  BY <1>6, <1>7, <1>10 DEF SpreadInv

LEMMA HedgeReportRepeatsKeepsInv == SpreadInv /\ HedgeReportRepeats => SpreadInv'
<1> SUFFICES ASSUME SpreadInv, HedgeReportRepeats PROVE SpreadInv'
  OBVIOUS
<1>1. /\ lead' = lead /\ child' = child /\ lastHedge' = lastHedge
      /\ duplicates' = duplicates + 1 /\ lastHedge \in Nat
  BY DEF HedgeReportRepeats, OnHedgeFill, SpreadInv, TypeOK
<1>2. \/ hedge' = hedge + lastHedge /\ hedge + lastHedge <= Target /\ rejected' = rejected
      \/ hedge' = hedge /\ rejected' = TRUE
  BY <1>1, SpreadInvHedge DEF HedgeReportRepeats, OnHedgeFill
<1>3. TypeOK'
  <2>1. Target' = Target
    BY DEF Target, HedgeFor
  <2>2. duplicates + 1 \in Nat
    BY DEF SpreadInv, TypeOK
  <2>3. /\ hedge \in 0..Target /\ lead \in 0..Parent /\ rejected \in BOOLEAN
        /\ child \in [lead : Nat, hedge : Nat]
    BY DEF SpreadInv, TypeOK
  <2>4. hedge' \in 0..Target /\ rejected' \in BOOLEAN
    <3>1. hedge' \in 0..Target
      BY <1>1, <1>2, <2>3, SpreadInvHedge
    <3>2. rejected' \in BOOLEAN
      BY <1>2, <2>3, Zenon
    <3> QED BY <3>1, <3>2
  <2> QED BY <1>1, <2>1, <2>2, <2>3, <2>4 DEF TypeOK
<1>4. (lead + child.lead <= Parent)' /\ (HedgeFor(lead + child.lead) - hedge <= Limit)'
  BY <1>1, <1>2, SpreadInvHedge DEF SpreadInv, HedgeFor
<1>5. (duplicates = 0 => ~rejected /\ child.hedge <= Imbalance /\ Imbalance >= 0)'
  BY <1>1 DEF SpreadInv, TypeOK
<1> QED
  BY <1>3, <1>4, <1>5 DEF SpreadInv

-----------------------------------------------------------------------------
\* The inductive invariant holds of every behaviour of the algo.
THEOREM SpreadInvHolds == Spec => []SpreadInv
<1>1. Init => SpreadInv
  BY SpreadInit
<1>2. SpreadInv /\ [Next]_vars => SpreadInv'
  <2> SUFFICES ASSUME SpreadInv, [Next]_vars PROVE SpreadInv'
    OBVIOUS
  <2>1. CASE Decide
    BY <2>1, DecideKeepsInv
  <2>2. CASE SomeLeadFills
    BY <2>2, LeadFillsKeepsInv
  <2>3. CASE SomeHedgeFills
    BY <2>3, HedgeFillsKeepsInv
  <2>4. CASE HedgeReportRepeats
    BY <2>4, HedgeReportRepeatsKeepsInv
  <2>5. CASE UNCHANGED vars
    BY <2>5 DEF vars, SpreadInv, TypeOK, Imbalance, HedgeFor, Target
  <2> QED BY <2>1, <2>2, <2>3, <2>4, <2>5 DEF Next
<1> QED
  BY <1>1, <1>2, PTL DEF Spec

\* The types of the algo's state: no fill takes either leg past its parent or
\* its target.
THEOREM SpreadTypeCorrect == Spec => []TypeOK
<1>1. SpreadInv => TypeOK
  BY DEF SpreadInv
<1> QED
  BY <1>1, SpreadInvHolds, PTL

\* For every ratio, parent, child size and cap: the imbalance cap of the class
\* docstring never yields, in whatever order and slices the children fill and
\* however often a hedge report is repeated.
THEOREM CapCorrect == Spec => []CapHolds
<1>1. SpreadInv => CapHolds
  BY SpreadInvHedge DEF SpreadInv, CapHolds, Imbalance
<1> QED
  BY <1>1, SpreadInvHolds, PTL

\* For every instance: the hedge never overtakes the lead and on_lead_fill and
\* on_hedge_fill refuse no honest report.
THEOREM HedgeChaseCorrect == Spec => []HedgeOnlyChases
<1>1. SpreadInv => HedgeOnlyChases
  BY DEF SpreadInv, HedgeOnlyChases
<1> QED
  BY <1>1, SpreadInvHolds, PTL

-----------------------------------------------------------------------------
(* The central risk book and the desk around it.                           *)

(* The arrays of the risk book.  All that is said of an array is what At   *)
(* reads from it: zero beyond its end.                                     *)

LEMMA ZerosAre ==
  ASSUME NEW n \in Nat
  PROVE  Zeros(n) \in Seq(Int) /\ Len(Zeros(n)) = n /\ \A k \in DOMAIN Zeros(n) : Zeros(n)[k] = 0
BY DEF Zeros

\* Growing an array changes nothing that is read from it.
LEMMA GrownAt ==
  ASSUME NEW a \in Seq(Int), NEW n \in Int
  PROVE  /\ Grown(a, n) \in Seq(Int) /\ Len(Grown(a, n)) >= n
         /\ \A k : At(Grown(a, n), k) = At(a, k)
<1>1. CASE n <= Len(a)
  BY <1>1 DEF Grown
<1>2. CASE n > Len(a)
  <2>0. PICK d \in Nat : d = n - Len(a)
    BY <1>2
  <2>1. PICK z \in Seq(Int) : z = Zeros(n - Len(a)) /\ Len(z) = d /\ \A k \in 1..Len(z) : z[k] = 0
    <3>1. Zeros(d) \in Seq(Int) /\ Len(Zeros(d)) = d /\ \A k \in 1..d : Zeros(d)[k] = 0
      BY ZerosAre
    <3> QED BY <2>0, <3>1
  <2>2. PICK g \in Seq(Int) : g = a \o z
    BY ConcatProperties
  <2>3. Grown(a, n) = g
    BY <1>2, <2>1, <2>2 DEF Grown
  <2>4. Len(g) = n /\ \A k \in 1..Len(g) : g[k] = IF k <= Len(a) THEN a[k] ELSE z[k - Len(a)]
    <3>1. Len(g) = Len(a) + Len(z) /\ \A k \in 1..(Len(a) + Len(z)) : g[k] = IF k <= Len(a) THEN a[k] ELSE z[k - Len(a)]
      BY <2>2, ConcatProperties
    <3> QED BY <2>0, <2>1, <3>1
  <2>5. ASSUME NEW k PROVE At(g, k) = At(a, k)
    <3>1. DOMAIN g = 1..n /\ DOMAIN a = 1..Len(a)
      BY <2>4
    <3>2. CASE k \in 1..Len(a)
      <4>1. k \in 1..n /\ k <= Len(a)
        BY <1>2, <3>2
      <4>2. g[k] = a[k]
        BY <2>4, <4>1
      <4>3. At(g, k) = g[k] /\ At(a, k) = a[k]
        BY <3>1, <3>2, <4>1, Zenon DEF At
      <4> QED BY <4>2, <4>3
    <3>3. CASE k \in 1..n /\ k \notin 1..Len(a)
      <4>1. k - Len(a) \in 1..Len(z)
        BY <2>0, <2>1, <3>3
      <4>2. g[k] = 0
        <5>1. k \in 1..Len(g) /\ ~(k <= Len(a))
          BY <2>4, <3>3
        <5> QED BY <2>1, <2>4, <4>1, <5>1
      <4>3. At(g, k) = g[k] /\ At(a, k) = 0
        BY <3>1, <3>3, Zenon DEF At
      <4> QED BY <4>2, <4>3
    <3>4. CASE k \notin 1..n
      <4>1. k \notin 1..Len(a)
        BY <1>2, <3>4
      <4> QED BY <3>1, <3>4, <4>1 DEF At
    <3> QED BY <3>2, <3>3, <3>4
  <2> QED BY <2>3, <2>4, <2>5
<1> QED BY <1>1, <1>2

\* Adding to one place changes what is read there, and nowhere else.
LEMMA AddedAt ==
  ASSUME NEW a \in Seq(Int), NEW id \in 1..Len(a), NEW x \in Int
  PROVE  /\ [a EXCEPT ![id] = @ + x] \in Seq(Int)
         /\ \A k : At([a EXCEPT ![id] = @ + x], k) = IF k = id THEN At(a, k) + x ELSE At(a, k)
BY DEF At

LEMMA AtIsInt == ASSUME NEW a \in Seq(Int), NEW k PROVE At(a, k) \in Int
BY DEF At

-----------------------------------------------------------------------------
(* The registry.                                                           *)

Distinct(names) == \A i, j \in 1..Len(names) : names[i] = names[j] => i = j

LEMMA IdIsTheIndex ==
  ASSUME NEW names \in Seq(Factors), Distinct(names), NEW i \in 1..Len(names)
  PROVE  IdOf(names, names[i]) = i
<1>1. Contains(names, names[i])
  BY DEF Contains
<1>2. \A k \in DOMAIN names : names[k] = names[i] => k = i
  BY DEF Distinct
<1> QED BY <1>1, <1>2 DEF IdOf

LEMMA IdOfStranger ==
  ASSUME NEW names, NEW f, ~Contains(names, f)
  PROVE  IdOf(names, f) = 0
BY DEF IdOf

\* A factor is registered once and the others keep their places.
LEMMA RegisteredKeeps ==
  ASSUME NEW names \in Seq(Factors), Distinct(names), NEW f \in Factors
  PROVE  /\ Registered(names, f) \in Seq(Factors) /\ Distinct(Registered(names, f))
         /\ Len(Registered(names, f)) >= Len(names)
         /\ IdOf(Registered(names, f), f) \in 1..Len(Registered(names, f))
         /\ \A g : \/ IdOf(Registered(names, f), g) = IdOf(names, g)
                   \/ /\ IdOf(names, g) = 0
                      /\ IdOf(Registered(names, f), g) = Len(names) + 1
         /\ \A g : IdOf(Registered(names, f), g) = IdOf(Registered(names, f), f) <=> g = f
<1> DEFINE more == Registered(names, f)
<1>1. CASE Contains(names, f)
  <2>1. more = names
    BY <1>1 DEF Registered
  <2>2. PICK i \in 1..Len(names) : names[i] = f
    BY <1>1 DEF Contains
  <2>3. IdOf(names, f) = i
    BY <2>2, IdIsTheIndex
  <2>4. ASSUME NEW g, IdOf(names, g) = i PROVE g = f
    <3>1. Contains(names, g)
      BY <2>4, IdOfStranger
    <3>2. PICK j \in 1..Len(names) : names[j] = g
      BY <3>1 DEF Contains
    <3>3. IdOf(names, g) = j
      BY <3>2, IdIsTheIndex
    <3> QED BY <2>2, <2>4, <3>2, <3>3
  <2> HIDE DEF more
  <2>5. \A g : IdOf(more, g) = IdOf(names, g)
    BY <2>1
  <2>6. \A g : IdOf(more, g) = IdOf(more, f) <=> g = f
    BY <2>1, <2>3, <2>4
  <2> QED BY <2>1, <2>3, <2>5, <2>6 DEF more
<1>2. CASE ~Contains(names, f)
  <2>1. PICK n \in Nat : n = Len(names)
    OBVIOUS
  <2>2. more = Append(names, f)
    BY <1>2 DEF Registered
  <2> HIDE DEF more
  <2>3. /\ more \in Seq(Factors) /\ Len(more) = n + 1 /\ more[n + 1] = f
        /\ \A i \in 1..n : more[i] = names[i]
    BY <2>1, <2>2
  <2>4. Distinct(more)
    <3>1. \A i \in 1..n : more[i] # f
      BY <1>2, <2>1, <2>3 DEF Contains
    <3>2. ASSUME NEW i \in 1..(n + 1), NEW j \in 1..(n + 1), more[i] = more[j] PROVE i = j
      <4>1. CASE i \in 1..n /\ j \in 1..n
        BY <2>1, <2>3, <3>2, <4>1 DEF Distinct
      <4>2. CASE i = n + 1 \/ j = n + 1
        BY <2>1, <2>3, <3>1, <3>2, <4>2
      <4> QED BY <2>1, <4>1, <4>2
    <3> QED BY <2>3, <3>2 DEF Distinct
  <2>5. IdOf(more, f) = n + 1
    <3>1. n + 1 \in 1..Len(more)
      BY <2>1, <2>3
    <3> QED BY <2>3, <2>4, <3>1, IdIsTheIndex
  <2>6. ASSUME NEW g
        PROVE  /\ g = f => IdOf(names, g) = 0 /\ IdOf(more, g) = n + 1
               /\ g # f => IdOf(more, g) = IdOf(names, g) /\ IdOf(more, g) # n + 1
    <3>1. CASE g = f
      BY <1>2, <2>5, <3>1, IdOfStranger
    <3>2. CASE Contains(names, g) /\ g # f
      <4>1. PICK j \in 1..n : names[j] = g
        BY <2>1, <3>2 DEF Contains
      <4>2. j \in 1..Len(more) /\ more[j] = g
        BY <2>1, <2>3, <4>1
      <4>3. IdOf(names, g) = j
        BY <2>1, <4>1, IdIsTheIndex
      <4>4. IdOf(more, g) = j
        BY <2>3, <2>4, <4>2, IdIsTheIndex
      <4> QED BY <2>1, <3>2, <4>1, <4>3, <4>4
    <3>3. CASE ~Contains(names, g) /\ g # f
      <4>1. ~Contains(more, g)
        <5>1. ASSUME NEW i \in 1..(n + 1) PROVE more[i] # g
          <6>1. i = n + 1 \/ i \in 1..n
            BY <2>1
          <6> QED BY <2>1, <2>3, <3>3, <6>1 DEF Contains
        <5> QED BY <2>3, <5>1 DEF Contains
      <4>2. IdOf(names, g) = 0 /\ IdOf(more, g) = 0
        BY <3>3, <4>1, IdOfStranger
      <4> QED BY <2>1, <3>3, <4>2
    <3> QED BY <3>1, <3>2, <3>3
  <2>7. \A g : \/ IdOf(more, g) = IdOf(names, g)
               \/ IdOf(names, g) = 0 /\ IdOf(more, g) = n + 1
    BY <2>6
  <2>8. \A g : IdOf(more, g) = IdOf(more, f) <=> g = f
    BY <2>5, <2>6
  <2>9. n + 1 \in 1..(n + 1) /\ n + 1 >= n
    BY <2>1
  <2> QED BY <2>1, <2>3, <2>4, <2>5, <2>7, <2>8, <2>9 DEF more
<1> QED BY <1>1, <1>2

LEMMA GrownLength ==
  ASSUME NEW a \in Seq(Int), NEW b \in Seq(Int), Len(a) = Len(b), NEW n \in Nat
  PROVE  Len(Grown(a, n)) = Len(Grown(b, n))
<1>1. CASE n <= Len(a)
  BY <1>1 DEF Grown
<1>2. CASE n > Len(a)
  <2>1. PICK z \in Seq(Int) : z = Zeros(n - Len(a))
    <3>1. n - Len(a) \in Nat
      BY <1>2
    <3> QED BY <3>1, ZerosAre
  <2>2. Len(a \o z) = Len(a) + Len(z) /\ Len(b \o z) = Len(b) + Len(z)
    BY ConcatProperties
  <2>3. Grown(a, n) = a \o z /\ Grown(b, n) = b \o z
    BY <1>2, <2>1 DEF Grown
  <2> QED BY <2>2, <2>3
<1> QED BY <1>1, <1>2

\* What is read of an array that is zero where no factor is, the registry's
\* growth does not change.
Empty(a, n) == \A k \in Int : k > n => At(a, k) = 0

LEMMA RegisteredReads ==
  ASSUME NEW names \in Seq(Factors), Distinct(names), NEW f \in Factors,
         NEW a \in Seq(Int), Empty(a, Len(names))
  PROVE  /\ \A g : At(a, IdOf(Registered(names, f), g)) = At(a, IdOf(names, g))
         /\ Empty(a, Len(Registered(names, f)))
<1>1. PICK more \in Seq(Factors) : more = Registered(names, f)
  BY RegisteredKeeps
<1>2. /\ Len(more) >= Len(names)
      /\ \A g : \/ IdOf(more, g) = IdOf(names, g)
                \/ IdOf(names, g) = 0 /\ IdOf(more, g) = Len(names) + 1
  BY <1>1, RegisteredKeeps
<1>3. At(a, 0) = 0
  BY DEF At
<1>4. At(a, Len(names) + 1) = 0
  BY DEF Empty
<1>5. Empty(a, Len(more))
  BY <1>2 DEF Empty
<1>6. ASSUME NEW g PROVE At(a, IdOf(more, g)) = At(a, IdOf(names, g))
  BY <1>2, <1>3, <1>4
<1> QED BY <1>1, <1>5, <1>6

\* An array grown to hold the factor's place, and the amount added there.
Bumped(a, n, id, x) == [Grown(a, n) EXCEPT ![id] = @ + x]

LEMMA BumpedReads ==
  ASSUME NEW names \in Seq(Factors), Distinct(names), NEW f \in Factors,
         NEW a \in Seq(Int), Empty(a, Len(names)), NEW x \in Int,
         NEW n \in Int, n >= IdOf(Registered(names, f), f)
  PROVE  /\ Bumped(a, n, IdOf(Registered(names, f), f), x) \in Seq(Int)
         /\ Len(Bumped(a, n, IdOf(Registered(names, f), f), x)) = Len(Grown(a, n))
         /\ Empty(Bumped(a, n, IdOf(Registered(names, f), f), x), Len(Registered(names, f)))
         /\ \A g : At(Bumped(a, n, IdOf(Registered(names, f), f), x), IdOf(Registered(names, f), g))
                    = At(a, IdOf(names, g)) + IF g = f THEN x ELSE 0
<1>1. PICK more \in Seq(Factors) : more = Registered(names, f)
  BY RegisteredKeeps
<1>2. PICK id \in 1..Len(more) : id = IdOf(more, f)
  BY <1>1, RegisteredKeeps
<1>3. PICK grown \in Seq(Int) : grown = Grown(a, n) /\ Len(grown) >= n /\ \A k : At(grown, k) = At(a, k)
  BY GrownAt
<1>4. id \in 1..Len(grown)
  BY <1>1, <1>2, <1>3
<1>5. PICK r \in Seq(Int) :
        /\ r = Bumped(a, n, id, x) /\ Len(r) = Len(grown)
        /\ \A k : At(r, k) = IF k = id THEN At(grown, k) + x ELSE At(grown, k)
  <2>1. [grown EXCEPT ![id] = @ + x] \in Seq(Int) /\ Len([grown EXCEPT ![id] = @ + x]) = Len(grown)
    BY <1>4
  <2>2. \A k : At([grown EXCEPT ![id] = @ + x], k) = IF k = id THEN At(grown, k) + x ELSE At(grown, k)
    BY <1>4, AddedAt
  <2> QED BY <1>3, <2>1, <2>2 DEF Bumped
<1>6. \A g : At(a, IdOf(more, g)) = At(a, IdOf(names, g))
  BY <1>1, RegisteredReads
<1>7. Empty(a, Len(more))
  BY <1>1, RegisteredReads
<1>8. Empty(r, Len(more))
  BY <1>2, <1>3, <1>5, <1>7 DEF Empty
<1>9. ASSUME NEW g PROVE At(r, IdOf(more, g)) = At(a, IdOf(names, g)) + IF g = f THEN x ELSE 0
  <2>1. IdOf(more, g) = id <=> g = f
    BY <1>1, <1>2, RegisteredKeeps
  <2>2. PICK y \in Int : y = At(a, IdOf(names, g))
    BY AtIsInt
  <2>3. At(grown, IdOf(more, g)) = y
    BY <1>3, <1>6, <2>2
  <2>4. At(r, IdOf(more, g)) = IF g = f THEN y + x ELSE y
    BY <1>5, <2>1, <2>3
  <2> QED BY <2>2, <2>4
<1> QED BY <1>1, <1>2, <1>3, <1>5, <1>8, <1>9

-----------------------------------------------------------------------------
(* The book.                                                               *)

DeskArrays == UNION {[D -> Seq(Int)] : D \in SUBSET Desks}
Sound(b) ==
  /\ Distinct(b.names)
  /\ Len(b.gross) = Len(b.net)
  /\ Empty(b.net, Len(b.names)) /\ Empty(b.gross, Len(b.names))
  /\ \A d \in DOMAIN b.desks : Empty(b.desks[d], Len(b.names))
Books ==
  {b \in [names : Seq(Factors), net : Seq(Int), gross : Seq(Int), desks : DeskArrays,
          pending : [Pairs -> Nat], flows : Nat] : Sound(b)}
Legs == [factor : Factors, amount : Int]

\* What a leg adds to a factor.
Share(leg, f) == IF leg.factor = f THEN leg.amount ELSE 0
ShareSize(leg, f) == IF leg.factor = f THEN Magnitude(leg.amount) ELSE 0

\* A leg is added to the firm and to one desk, and nothing else is changed.
AddsLeg(c, b, desk, leg) ==
  /\ c.pending = b.pending /\ c.flows = b.flows
  /\ \A f : Exposure(c, f) = Exposure(b, f) + Share(leg, f)
  /\ \A f : GrossExposure(c, f) = GrossExposure(b, f) + ShareSize(leg, f)
  /\ \A d, f : DeskExposure(c, d, f) = DeskExposure(b, d, f) + IF d = desk THEN Share(leg, f) ELSE 0

\* Added, with its local definitions as parameters.
Summed(b, desk, leg, names, id, size, mine) ==
  [b EXCEPT !.names = names,
            !.net = [Grown(b.net, size) EXCEPT ![id] = @ + leg.amount],
            !.gross = [Grown(b.gross, size) EXCEPT ![id] = @ + Magnitude(leg.amount)],
            !.desks = [d \in DOMAIN b.desks \cup {desk} |->
                         IF d = desk THEN [DeskGrown(mine, id, size) EXCEPT ![id] = @ + leg.amount]
                         ELSE b.desks[d]]]

LEMMA AddedKeeps ==
  ASSUME NEW b \in Books, NEW desk \in Desks, NEW leg \in Legs
  PROVE  Added(b, desk, leg) \in Books /\ AddsLeg(Added(b, desk, leg), b, desk, leg)
<1>1. PICK names \in Seq(Factors), net \in Seq(Int), gross \in Seq(Int), desks \in DeskArrays :
        names = b.names /\ net = b.net /\ gross = b.gross /\ desks = b.desks
  BY DEF Books
<1>2. PICK f \in Factors, x \in Int : f = leg.factor /\ x = leg.amount
  BY DEF Legs
<1>3. /\ Distinct(names) /\ Len(gross) = Len(net)
      /\ Empty(net, Len(names)) /\ Empty(gross, Len(names))
      /\ \A d \in DOMAIN desks : Empty(desks[d], Len(names))
  BY <1>1 DEF Books, Sound
<1>4. DOMAIN desks \subseteq Desks /\ (\A d \in DOMAIN desks : desks[d] \in Seq(Int))
  BY DEF DeskArrays
<1>5. PICK more \in Seq(Factors) :
        more = Registered(names, f) /\ Distinct(more) /\ Len(more) >= Len(names)
  BY <1>3, RegisteredKeeps
<1>6. PICK id \in 1..Len(more) : id = IdOf(more, f)
  BY <1>3, <1>5, RegisteredKeeps
<1>7. PICK size \in Nat : /\ size = IF id > Len(net) THEN Max({2 * Len(net), id}) ELSE Len(net)
                         /\ size >= id
  <2>1. PICK m \in Nat : m = 2 * Len(net)
    OBVIOUS
  <2>2. PICK i \in Nat : i = id
    OBVIOUS
  <2>3. Max({m, i}) \in {m, i} /\ Max({m, i}) >= i
    <3>1. m \in Int /\ i \in Int
      OBVIOUS
    <3> QED BY <3>1, MaxOfTwo, Zenon
  <2>4. Max({m, i}) \in Nat
    BY <2>3
  <2> QED BY <2>1, <2>2, <2>3, <2>4
<1>8. PICK mine \in Seq(Int) :
        /\ mine = IF desk \in DOMAIN desks THEN desks[desk] ELSE Zeros(size)
        /\ Empty(mine, Len(names))
        /\ desk \notin DOMAIN desks => \A k : At(mine, k) = 0
  <2>1. CASE desk \in DOMAIN desks
    BY <1>3, <1>4, <2>1
  <2>2. CASE desk \notin DOMAIN desks
    <3>1. PICK z \in Seq(Int) : z = Zeros(size) /\ \A k \in DOMAIN z : z[k] = 0
      BY ZerosAre
    <3>2. \A k : At(z, k) = 0
      BY <3>1 DEF At
    <3>3. Empty(z, Len(names))
      BY <3>2 DEF Empty
    <3> QED BY <2>2, <3>1, <3>2, <3>3
  <2> QED BY <2>1, <2>2
<1>9. PICK length \in Nat : DeskGrown(mine, id, size) = Grown(mine, length) /\ length >= id
  <2>1. CASE id > Len(mine)
    BY <1>7, <2>1 DEF DeskGrown
  <2>2. CASE ~(id > Len(mine))
    <3>1. Len(mine) \in Nat /\ Len(mine) >= id /\ Grown(mine, Len(mine)) = mine
      BY <2>2 DEF Grown
    <3> QED BY <2>2, <3>1 DEF DeskGrown
  <2> QED BY <2>1, <2>2
<1>10. PICK left \in Seq(Int), over \in Seq(Int), own \in Seq(Int) :
         /\ left = Bumped(net, size, id, x) /\ over = Bumped(gross, size, id, Magnitude(x))
         /\ own = Bumped(mine, length, id, x) /\ Len(left) = Len(over)
  <2>1. Magnitude(x) \in Int
    BY DEF Magnitude
  <2>2. Bumped(net, size, id, x) \in Seq(Int) /\ Len(Bumped(net, size, id, x)) = Len(Grown(net, size))
    BY <1>3, <1>5, <1>6, <1>7, BumpedReads
  <2>3. Bumped(gross, size, id, Magnitude(x)) \in Seq(Int)
        /\ Len(Bumped(gross, size, id, Magnitude(x))) = Len(Grown(gross, size))
    BY <1>3, <1>5, <1>6, <1>7, <2>1, BumpedReads
  <2>4. Bumped(mine, length, id, x) \in Seq(Int)
    BY <1>3, <1>5, <1>6, <1>8, <1>9, BumpedReads
  <2>5. Len(Grown(net, size)) = Len(Grown(gross, size))
    BY <1>3, GrownLength
  <2> QED BY <2>2, <2>3, <2>4, <2>5
<1> DEFINE Enough == size \in Nat /\ size >= id
<1>21. Enough
  BY <1>7
<1>11. /\ Empty(left, Len(more)) /\ Empty(over, Len(more)) /\ Empty(own, Len(more))
       /\ \A g : At(left, IdOf(more, g)) = At(net, IdOf(names, g)) + IF g = f THEN x ELSE 0
       /\ \A g : At(over, IdOf(more, g)) = At(gross, IdOf(names, g)) + IF g = f THEN Magnitude(x) ELSE 0
       /\ \A g : At(own, IdOf(more, g)) = At(mine, IdOf(names, g)) + IF g = f THEN x ELSE 0
  <2>1. Magnitude(x) \in Int
    BY DEF Magnitude
  <2>2. /\ Empty(left, Len(more))
        /\ \A g : At(left, IdOf(more, g)) = At(net, IdOf(names, g)) + IF g = f THEN x ELSE 0
    BY <1>3, <1>5, <1>6, <1>21, <1>10, BumpedReads
  <2>3. /\ Empty(over, Len(more))
        /\ \A g : At(over, IdOf(more, g)) = At(gross, IdOf(names, g)) + IF g = f THEN Magnitude(x) ELSE 0
    BY <1>3, <1>5, <1>6, <1>21, <1>10, <2>1, BumpedReads
  <2>4. /\ Empty(own, Len(more))
        /\ \A g : At(own, IdOf(more, g)) = At(mine, IdOf(names, g)) + IF g = f THEN x ELSE 0
    BY <1>3, <1>5, <1>6, <1>8, <1>9, <1>10, BumpedReads
  <2> QED BY <2>2, <2>3, <2>4
<1>12. PICK all : all = [d \in DOMAIN desks \cup {desk} |-> IF d = desk THEN own ELSE desks[d]]
  OBVIOUS
<1>13. all \in DeskArrays /\ DOMAIN all = DOMAIN desks \cup {desk}
  <2>1. all \in [DOMAIN desks \cup {desk} -> Seq(Int)]
    BY <1>4, <1>12
  <2> QED BY <1>4, <2>1 DEF DeskArrays
<1>14. \A d \in DOMAIN all : Empty(all[d], Len(more))
  <2>1. ASSUME NEW d \in DOMAIN desks PROVE Empty(desks[d], Len(more))
    BY <1>3, <1>4, <1>5, RegisteredReads
  <2> QED BY <1>11, <1>12, <1>13, <2>1
<1>15. PICK c : c = Added(b, desk, leg)
  OBVIOUS
<1>16. c = [b EXCEPT !.names = more, !.net = left, !.gross = over, !.desks = all]
  <2>1. c = Summed(b, desk, leg, more, id, size, mine)
    BY <1>1, <1>2, <1>5, <1>6, <1>7, <1>8, <1>15, Zenon DEF Added, Summed
  <2>2. [Grown(b.net, size) EXCEPT ![id] = @ + leg.amount] = left
    BY <1>1, <1>2, <1>10 DEF Bumped
  <2>3. [Grown(b.gross, size) EXCEPT ![id] = @ + Magnitude(leg.amount)] = over
    BY <1>1, <1>2, <1>10 DEF Bumped
  <2>4. [DeskGrown(mine, id, size) EXCEPT ![id] = @ + leg.amount] = own
    BY <1>2, <1>9, <1>10 DEF Bumped
  <2>5. [d \in DOMAIN b.desks \cup {desk} |->
           IF d = desk THEN [DeskGrown(mine, id, size) EXCEPT ![id] = @ + leg.amount] ELSE b.desks[d]] = all
    BY <1>1, <1>12, <2>4, Zenon
  <2> QED BY <2>1, <2>2, <2>3, <2>5, Zenon DEF Summed
<1>17. /\ c.names = more /\ c.net = left /\ c.gross = over /\ c.desks = all
       /\ c.pending = b.pending /\ c.flows = b.flows
       /\ c \in [names : Seq(Factors), net : Seq(Int), gross : Seq(Int), desks : DeskArrays,
                 pending : [Pairs -> Nat], flows : Nat]
  BY <1>13, <1>16 DEF Books
<1>18. c \in Books
  BY <1>5, <1>10, <1>11, <1>14, <1>17 DEF Books, Sound
<1>19. ASSUME NEW g
       PROVE  /\ Exposure(c, g) = Exposure(b, g) + Share(leg, g)
              /\ GrossExposure(c, g) = GrossExposure(b, g) + ShareSize(leg, g)
  BY <1>1, <1>2, <1>11, <1>17 DEF Exposure, GrossExposure, Share, ShareSize
<1>20. ASSUME NEW d, NEW g
       PROVE  DeskExposure(c, d, g) = DeskExposure(b, d, g) + IF d = desk THEN Share(leg, g) ELSE 0
  <2>1. CASE d = desk /\ d \in DOMAIN desks
    BY <1>1, <1>2, <1>8, <1>11, <1>12, <1>13, <1>17, <2>1 DEF DeskExposure, Share
  <2>2. CASE d = desk /\ d \notin DOMAIN desks
    BY <1>1, <1>2, <1>8, <1>11, <1>12, <1>13, <1>17, <2>2 DEF DeskExposure, Share
  <2>3. CASE d # desk /\ d \in DOMAIN desks
    <3>1. At(desks[d], IdOf(more, g)) = At(desks[d], IdOf(names, g))
      BY <1>3, <1>4, <1>5, <2>3, RegisteredReads
    <3>2. At(desks[d], IdOf(names, g)) \in Int
      BY <1>4, <2>3, AtIsInt
    <3> QED BY <1>1, <1>12, <1>13, <1>17, <2>3, <3>1, <3>2 DEF DeskExposure
  <2>4. CASE d # desk /\ d \notin DOMAIN desks
    BY <1>1, <1>13, <1>17, <2>4 DEF DeskExposure
  <2> QED BY <2>1, <2>2, <2>3, <2>4
<1> QED BY <1>15, <1>17, <1>18, <1>19, <1>20 DEF AddsLeg

\* The books that legs alone lead to.
Alike(b) == {c \in Books : c.pending = b.pending /\ c.flows = b.flows}

LEMMA AddingSteps ==
  ASSUME NEW b \in Books, NEW desk \in Desks, NEW legs \in Seq(Legs)
  PROVE  /\ Adding(b, desk, legs)[0] = b
         /\ \A k \in 0..Len(legs) : Adding(b, desk, legs)[k] \in Alike(b)
         /\ \A k \in 1..Len(legs) :
              AddsLeg(Adding(b, desk, legs)[k], Adding(b, desk, legs)[k - 1], desk, legs[k])
<1> DEFINE N == Len(legs)
           Step(f) == [k \in 0..N |-> IF k = 0 THEN b ELSE Added(f[k - 1], desk, legs[k])]
           chosen == CHOOSE f : f = Step(f)
           step == [k \in 1..N |-> [c \in Alike(b) |-> Added(c, desk, legs[k])]]
<1>1. N \in Nat /\ b \in Alike(b)
  BY DEF Alike
<1>2. step \in [1..N -> [Alike(b) -> Alike(b)]]
  <2>1. ASSUME NEW k \in 1..N, NEW c \in Alike(b) PROVE Added(c, desk, legs[k]) \in Alike(b)
    <3>1. PICK leg \in Legs : leg = legs[k]
      OBVIOUS
    <3>2. c \in Books /\ c.pending = b.pending /\ c.flows = b.flows
      BY DEF Alike
    <3>3. Added(c, desk, leg) \in Books /\ AddsLeg(Added(c, desk, leg), c, desk, leg)
      BY <3>2, AddedKeeps
    <3> QED BY <3>1, <3>2, <3>3 DEF Alike, AddsLeg
  <2> QED BY <2>1
<1>3. PICK f : f \in [0..N -> Alike(b)] /\ f[0] = b /\ \A k \in 1..N : f[k] = step[k][f[k - 1]]
  <2>1. PICK f : IsIteration(f, Alike(b), b, N, step)
    <3> HIDE DEF N, step
    <3> QED BY <1>1, <1>2, Iterates
  <2> HIDE DEF N, step
  <2> QED BY <2>1 DEF IsIteration
<1>4. ASSUME NEW k \in 1..N PROVE k - 1 \in 0..N /\ f[k] = Added(f[k - 1], desk, legs[k])
  <2>1. k - 1 \in 0..N
    BY <1>1
  <2>2. PICK c \in Alike(b) : c = f[k - 1]
    BY <1>3, <2>1
  <2>3. step[k][c] = Added(c, desk, legs[k])
    OBVIOUS
  <2> QED BY <1>3, <2>1, <2>2, <2>3
<1>5. f = Step(f)
  BY <1>1, <1>3, <1>4
<1>6. chosen = Step(chosen)
  BY <1>5
<1>7. Adding(b, desk, legs) = chosen
  BY DEF Adding
<1> HIDE DEF chosen, step
<1>8. chosen[0] = b
  <2>1. 0 \in 0..N
    BY <1>1
  <2> QED BY <1>6, <2>1
<1>9. ASSUME NEW k \in 1..N PROVE k - 1 \in 0..N /\ chosen[k] = Added(chosen[k - 1], desk, legs[k])
  <2>1. k \in 0..N /\ k # 0 /\ k - 1 \in 0..N
    BY <1>1
  <2> QED BY <1>6, <2>1
<1> DEFINE Bad == {k \in 0..N : chosen[k] \notin Alike(b)}
<1>10. ASSUME NEW k \in 1..N, chosen[k - 1] \in Alike(b)
       PROVE  chosen[k] \in Alike(b) /\ AddsLeg(chosen[k], chosen[k - 1], desk, legs[k])
  <2>1. PICK leg \in Legs : leg = legs[k]
    OBVIOUS
  <2>2. PICK c \in Books : c = chosen[k - 1] /\ c.pending = b.pending /\ c.flows = b.flows
    BY <1>10 DEF Alike
  <2>3. Added(c, desk, leg) \in Books /\ AddsLeg(Added(c, desk, leg), c, desk, leg)
    BY AddedKeeps
  <2>4. chosen[k] = Added(c, desk, leg)
    BY <1>9, <2>1, <2>2
  <2> QED BY <2>1, <2>2, <2>3, <2>4 DEF Alike, AddsLeg
<1>11. Bad = {}
  <2> SUFFICES ASSUME Bad # {} PROVE FALSE
    OBVIOUS
  <2>1. Bad \subseteq Nat
    BY <1>1
  <2> HIDE DEF Bad
  <2>2. PICK n \in Bad : \A m \in Bad : n <= m
    BY <2>1, LeastElement
  <2> USE DEF Bad
  <2>3. n # 0
    BY <1>1, <1>8
  <2>4. n \in 1..N /\ n - 1 \in 0..N /\ n - 1 \notin Bad
    BY <1>1, <2>2, <2>3
  <2> QED BY <1>10, <2>4
<1>12. \A k \in 0..N : chosen[k] \in Alike(b)
  BY <1>11
<1>13. \A k \in 1..N : AddsLeg(chosen[k], chosen[k - 1], desk, legs[k])
  BY <1>9, <1>10, <1>12
<1> QED BY <1>7, <1>8, <1>12, <1>13

\* What grows by the elements of a sequence grows by their sum.
LEMMA GrowsByTheSum ==
  ASSUME NEW seq \in Seq(Int), NEW p \in [0..Len(seq) -> Int],
         \A k \in 1..Len(seq) : p[k] = p[k - 1] + seq[k]
  PROVE  p[Len(seq)] = p[0] + SeqSum(seq)
<1> DEFINE s == [k \in 0..Len(seq) |-> p[k] - p[0]]
<1>1. Len(seq) \in Nat /\ 0 \in 0..Len(seq) /\ Len(seq) \in 0..Len(seq)
  OBVIOUS
<1>2. PartialSums(seq, Len(seq), s)
  <2>1. s \in [0..Len(seq) -> Int] /\ s[0] = 0
    BY <1>1
  <2>2. ASSUME NEW k \in 1..Len(seq) PROVE s[k] = s[k - 1] + seq[k]
    <3>1. k \in 0..Len(seq) /\ k - 1 \in 0..Len(seq) /\ seq[k] \in Int
      BY <1>1
    <3>2. p[k] \in Int /\ p[k - 1] \in Int /\ p[0] \in Int /\ p[k] = p[k - 1] + seq[k]
      BY <1>1, <3>1
    <3> QED BY <3>1, <3>2
  <2> QED BY <2>1, <2>2 DEF PartialSums
<1>3. SeqSum(seq) = s[Len(seq)]
  <2> HIDE DEF s
  <2> QED BY <1>2, SeqSumIsTheLast
<1>4. s[Len(seq)] = p[Len(seq)] - p[0] /\ p[0] \in Int /\ p[Len(seq)] \in Int
  BY <1>1
<1> QED BY <1>3, <1>4

LEMMA ReadsAreInt ==
  ASSUME NEW b \in Books, NEW f, NEW d
  PROVE  Exposure(b, f) \in Int /\ GrossExposure(b, f) \in Int /\ DeskExposure(b, d, f) \in Int
<1>1. b.net \in Seq(Int) /\ b.gross \in Seq(Int) /\ b.desks \in DeskArrays
  BY DEF Books
<1>2. d \in DOMAIN b.desks => b.desks[d] \in Seq(Int)
  BY <1>1 DEF DeskArrays
<1> QED BY <1>1, <1>2, AtIsInt DEF Exposure, GrossExposure, DeskExposure

\* What legs add to a factor, and to its gross.
Shares(legs, f) == [k \in DOMAIN legs |-> Share(legs[k], f)]
ShareSizes(legs, f) == [k \in DOMAIN legs |-> ShareSize(legs[k], f)]

\* All that legs amount to is in the book, and nothing else.
LegsBooked(c, b, desk, legs) ==
  /\ \A f : Exposure(c, f) = Exposure(b, f) + SeqSum(Shares(legs, f))
  /\ \A f : GrossExposure(c, f) = GrossExposure(b, f) + SeqSum(ShareSizes(legs, f))
  /\ \A d, f : DeskExposure(c, d, f)
                 = DeskExposure(b, d, f) + IF d = desk THEN SeqSum(Shares(legs, f)) ELSE 0

LEMMA SharesAreInts ==
  ASSUME NEW legs \in Seq(Legs), NEW f
  PROVE  /\ Shares(legs, f) \in Seq(Int) /\ Len(Shares(legs, f)) = Len(legs)
         /\ ShareSizes(legs, f) \in Seq(Int) /\ Len(ShareSizes(legs, f)) = Len(legs)
         /\ \A k \in 1..Len(legs) : Shares(legs, f)[k] = Share(legs[k], f)
         /\ \A k \in 1..Len(legs) : ShareSizes(legs, f)[k] = ShareSize(legs[k], f)
<1>1. ASSUME NEW leg \in Legs PROVE Share(leg, f) \in Int /\ ShareSize(leg, f) \in Int
  BY DEF Legs, Share, ShareSize, Magnitude
<1>2. ASSUME NEW k \in 1..Len(legs) PROVE Share(legs[k], f) \in Int /\ ShareSize(legs[k], f) \in Int
  <2>1. legs[k] \in Legs
    OBVIOUS
  <2> QED BY <1>1, <2>1
<1>3. DOMAIN legs = 1..Len(legs) /\ Len(legs) \in Nat
  OBVIOUS
<1> QED BY <1>2, <1>3 DEF Shares, ShareSizes

LEMMA LegsAreBooked ==
  ASSUME NEW b \in Books, NEW desk \in Desks, NEW legs \in Seq(Legs)
  PROVE  /\ AllAdded(b, desk, legs) \in Alike(b)
         /\ LegsBooked(AllAdded(b, desk, legs), b, desk, legs)
<1>1. PICK n \in Nat : n = Len(legs)
  OBVIOUS
<1>2. PICK r : r = Adding(b, desk, legs)
  OBVIOUS
<1>3. /\ r[0] = b /\ (\A k \in 0..n : r[k] \in Books /\ r[k] \in Alike(b))
      /\ \A k \in 1..n : AddsLeg(r[k], r[k - 1], desk, legs[k])
  BY <1>1, <1>2, AddingSteps DEF Alike
<1>4. AllAdded(b, desk, legs) = r[n] /\ n \in 0..n /\ 0 \in 0..n
  BY <1>1, <1>2 DEF AllAdded
<1>5. \A k \in 1..n : k \in 0..n /\ k - 1 \in 0..n
  BY <1>1
<1>6. ASSUME NEW f PROVE Exposure(r[n], f) = Exposure(b, f) + SeqSum(Shares(legs, f))
  <2>1. PICK seq \in Seq(Int) :
          seq = Shares(legs, f) /\ Len(seq) = n /\ \A k \in 1..n : seq[k] = Share(legs[k], f)
    BY <1>1, SharesAreInts
  <2>2. PICK p : p = [k \in 0..n |-> Exposure(r[k], f)]
    OBVIOUS
  <2>3. p \in [0..n -> Int]
    BY <1>3, <2>2, ReadsAreInt
  <2>4. ASSUME NEW k \in 1..n PROVE p[k] = p[k - 1] + seq[k]
    <3>1. AddsLeg(r[k], r[k - 1], desk, legs[k])
      BY <1>3
    <3>2. Exposure(r[k], f) = Exposure(r[k - 1], f) + Share(legs[k], f)
      BY <3>1, Zenon DEF AddsLeg
    <3> QED BY <1>5, <2>1, <2>2, <3>2
  <2>5. p[n] = p[0] + SeqSum(seq)
    BY <2>1, <2>3, <2>4, GrowsByTheSum
  <2> QED BY <1>3, <1>4, <2>1, <2>2, <2>5
<1>7. ASSUME NEW f PROVE GrossExposure(r[n], f) = GrossExposure(b, f) + SeqSum(ShareSizes(legs, f))
  <2>1. PICK seq \in Seq(Int) :
          seq = ShareSizes(legs, f) /\ Len(seq) = n /\ \A k \in 1..n : seq[k] = ShareSize(legs[k], f)
    BY <1>1, SharesAreInts
  <2>2. PICK p : p = [k \in 0..n |-> GrossExposure(r[k], f)]
    OBVIOUS
  <2>3. p \in [0..n -> Int]
    BY <1>3, <2>2, ReadsAreInt
  <2>4. ASSUME NEW k \in 1..n PROVE p[k] = p[k - 1] + seq[k]
    <3>1. AddsLeg(r[k], r[k - 1], desk, legs[k])
      BY <1>3
    <3>2. GrossExposure(r[k], f) = GrossExposure(r[k - 1], f) + ShareSize(legs[k], f)
      BY <3>1, Zenon DEF AddsLeg
    <3> QED BY <1>5, <2>1, <2>2, <3>2
  <2>5. p[n] = p[0] + SeqSum(seq)
    BY <2>1, <2>3, <2>4, GrowsByTheSum
  <2> QED BY <1>3, <1>4, <2>1, <2>2, <2>5
<1>8. ASSUME NEW f PROVE DeskExposure(r[n], desk, f) = DeskExposure(b, desk, f) + SeqSum(Shares(legs, f))
  <2>1. PICK seq \in Seq(Int) :
          seq = Shares(legs, f) /\ Len(seq) = n /\ \A k \in 1..n : seq[k] = Share(legs[k], f)
    BY <1>1, SharesAreInts
  <2>2. PICK p : p = [k \in 0..n |-> DeskExposure(r[k], desk, f)]
    OBVIOUS
  <2>3. p \in [0..n -> Int]
    BY <1>3, <2>2, ReadsAreInt
  <2>4. ASSUME NEW k \in 1..n PROVE p[k] = p[k - 1] + seq[k]
    <3>1. AddsLeg(r[k], r[k - 1], desk, legs[k])
      BY <1>3
    <3>2. DeskExposure(r[k], desk, f) = DeskExposure(r[k - 1], desk, f) + Share(legs[k], f)
      BY <3>1, Zenon DEF AddsLeg
    <3> QED BY <1>5, <2>1, <2>2, <3>2
  <2>5. p[n] = p[0] + SeqSum(seq)
    BY <2>1, <2>3, <2>4, GrowsByTheSum
  <2> QED BY <1>3, <1>4, <2>1, <2>2, <2>5
<1>9. ASSUME NEW d, NEW f, d # desk PROVE DeskExposure(r[n], d, f) = DeskExposure(b, d, f)
  <2> DEFINE Bad == {k \in 0..n : DeskExposure(r[k], d, f) # DeskExposure(b, d, f)}
  <2>1. Bad = {}
    <3> SUFFICES ASSUME Bad # {} PROVE FALSE
      OBVIOUS
    <3>1. Bad \subseteq Nat
      OBVIOUS
    <3> HIDE DEF Bad
    <3>2. PICK m \in Bad : \A k \in Bad : m <= k
      BY <3>1, LeastElement
    <3> USE DEF Bad
    <3>3. m \in 1..n
      BY <1>3
    <3>4. m - 1 \in 0..n /\ m - 1 \notin Bad
      BY <3>2, <3>3
    <3>5. DeskExposure(r[m], d, f) = DeskExposure(r[m - 1], d, f) + 0
      BY <1>3, <1>9, <3>3 DEF AddsLeg
    <3>6. DeskExposure(r[m - 1], d, f) \in Int
      BY <1>3, <3>4, ReadsAreInt
    <3> QED BY <3>2, <3>4, <3>5, <3>6
  <2> QED BY <1>4, <2>1
<1>10. ASSUME NEW d, NEW f
       PROVE  DeskExposure(r[n], d, f)
                = DeskExposure(b, d, f) + IF d = desk THEN SeqSum(Shares(legs, f)) ELSE 0
  <2>1. DeskExposure(b, d, f) \in Int
    BY ReadsAreInt
  <2> QED BY <1>8, <1>9, <2>1
<1>11. LegsBooked(r[n], b, desk, legs)
  BY <1>6, <1>7, <1>10 DEF LegsBooked
<1> QED BY <1>3, <1>4, <1>11

-----------------------------------------------------------------------------
(* The ledger.                                                             *)

LEMMA TheSameSum == ASSUME NEW seq PROVE Ledger!SeqSum(seq) = SeqSum(seq)
BY DEF Ledger!SeqSum, SeqSum

LEMMA LedgerAmounts ==
  ASSUME NEW flow, NEW f
  PROVE  /\ Ledger!Amount(flow, f) = SeqSum(Shares(flow.legs, f))
         /\ Ledger!Size(flow, f) = SeqSum(ShareSizes(flow.legs, f))
<1>1. [k \in DOMAIN flow.legs |-> IF flow.legs[k].factor = f THEN flow.legs[k].amount ELSE 0]
        = Shares(flow.legs, f)
  BY DEF Shares, Share
<1>2. [k \in DOMAIN flow.legs |-> IF flow.legs[k].factor = f THEN Ledger!Abs(flow.legs[k].amount) ELSE 0]
        = ShareSizes(flow.legs, f)
  BY DEF ShareSizes, ShareSize, Ledger!Abs, Magnitude
<1>3. Ledger!Amount(flow, f) = Ledger!SeqSum(Shares(flow.legs, f))
  BY <1>1, Zenon DEF Ledger!Amount
<1>4. Ledger!Size(flow, f) = Ledger!SeqSum(ShareSizes(flow.legs, f))
  BY <1>2, Zenon DEF Ledger!Size
<1> QED BY <1>3, <1>4, TheSameSum

\* What the desks and the clients bring.
Sent(flow) == flow.legs \in Seq(Legs) /\ flow.fixing \in Nat

\* Booking a flow: nothing, or all of it.
BooksIt(c, b, desk, flow) ==
  \/ c = b
  \/ /\ \A k \in DOMAIN flow.legs : Finite(flow.legs[k].amount)
     /\ LegsBooked(c, b, desk, flow.legs)
     /\ c.pending = [p \in Pairs |-> IF p = flow.pair THEN b.pending[p] + flow.fixing ELSE b.pending[p]]

LEMMA BookedIsInBooks ==
  ASSUME NEW b \in Books, NEW desk \in Desks, NEW flow, Sent(flow)
  PROVE  Booked(b, desk, flow) \in Books /\ BooksIt(Booked(b, desk, flow), b, desk, flow)
<1>1. CASE \E k \in DOMAIN flow.legs : ~Finite(flow.legs[k].amount)
  BY <1>1, Zenon DEF Booked, BooksIt
<1>2. CASE ~ \E k \in DOMAIN flow.legs : ~Finite(flow.legs[k].amount)
  <2>1. PICK legs \in Seq(Legs) : legs = flow.legs
    BY DEF Sent
  <2>2. PICK fixing \in Nat : fixing = flow.fixing
    BY DEF Sent
  <2>3. PICK a \in Books : a = AllAdded(b, desk, legs) /\ a \in Alike(b) /\ LegsBooked(a, b, desk, legs)
    BY LegsAreBooked DEF Alike
  <2>4. PICK due : due = [p \in Pairs |-> IF p = flow.pair THEN b.pending[p] + fixing ELSE b.pending[p]]
    OBVIOUS
  <2>5. due \in [Pairs -> Nat]
    BY <2>4 DEF Books
  <2>6. PICK c : c = [a EXCEPT !.flows = a.flows + 1, !.pending = due]
    OBVIOUS
  <2>7. Booked(b, desk, flow) = c
    <3>1. Booked(b, desk, flow)
            = [AllAdded(b, desk, flow.legs) EXCEPT
                 !.flows = @ + 1,
                 !.pending = [p \in Pairs |-> IF p = flow.pair THEN b.pending[p] + flow.fixing ELSE b.pending[p]]]
      BY <1>2, Zenon DEF Booked
    <3> QED BY <2>1, <2>2, <2>3, <2>4, <2>6, <3>1
  <2>8. /\ c.names = a.names /\ c.net = a.net /\ c.gross = a.gross /\ c.desks = a.desks
        /\ c.pending = due
        /\ c \in [names : Seq(Factors), net : Seq(Int), gross : Seq(Int), desks : DeskArrays,
                  pending : [Pairs -> Nat], flows : Nat]
    <3>1. /\ a \in [names : Seq(Factors), net : Seq(Int), gross : Seq(Int), desks : DeskArrays,
                    pending : [Pairs -> Nat], flows : Nat]
      BY <2>3, Zenon DEF Books
    <3>2. a.flows + 1 \in Nat
      BY <3>1
    <3> HIDE DEF Sound
    <3> QED BY <2>5, <2>6, <3>1, <3>2
  <2>9. c \in Books
    BY <2>3, <2>8 DEF Books, Sound
  <2>10. LegsBooked(c, b, desk, legs)
    <3>1. /\ \A f : Exposure(c, f) = Exposure(a, f) /\ GrossExposure(c, f) = GrossExposure(a, f)
          /\ \A d, f : DeskExposure(c, d, f) = DeskExposure(a, d, f)
      BY <2>8, Zenon DEF Exposure, GrossExposure, DeskExposure
    <3> QED BY <2>3, <3>1, Zenon DEF LegsBooked
  <2> QED BY <1>2, <2>1, <2>2, <2>4, <2>7, <2>8, <2>9, <2>10, Zenon DEF BooksIt
<1> QED BY <1>1, <1>2

(* A flow that is booked is booked in the ledger.                          *)
LEMMA BookFlowBooks ==
  ASSUME book \in Books, NEW desk \in Desks, NEW flow, Sent(flow), BookFlow(desk, flow)
  PROVE  /\ book' \in Books
         /\ \/ book' = book
            \/ (\A k \in DOMAIN flow.legs : Finite(flow.legs[k].amount)) /\ Ledger!Book(flow)
<1>1. book' \in Books /\ BooksIt(book', book, desk, flow)
  <2>1. book' = Booked(book, desk, flow)
    BY DEF BookFlow
  <2> QED BY <2>1, BookedIsInBooks
<1>2. CASE book' = book
  BY <1>1, <1>2
<1>3. CASE /\ \A k \in DOMAIN flow.legs : Finite(flow.legs[k].amount)
           /\ LegsBooked(book', book, desk, flow.legs)
           /\ book'.pending = [p \in Pairs |-> IF p = flow.pair THEN book.pending[p] + flow.fixing ELSE book.pending[p]]
  <2>1. /\ \A f : Exposure(book', f) = Exposure(book, f) + Ledger!Amount(flow, f)
        /\ \A f : GrossExposure(book', f) = GrossExposure(book, f) + Ledger!Size(flow, f)
        /\ \A d, f : DeskExposure(book', d, f)
                       = DeskExposure(book, d, f) + IF d = desk THEN Ledger!Amount(flow, f) ELSE 0
    <3>1. \A f : /\ Ledger!Amount(flow, f) = SeqSum(Shares(flow.legs, f))
                 /\ Ledger!Size(flow, f) = SeqSum(ShareSizes(flow.legs, f))
      BY LedgerAmounts
    <3>2. LegsBooked(book', book, desk, flow.legs)
      BY <1>3
    <3> QED BY <3>1, <3>2, Zenon DEF LegsBooked
  <2>2. ASSUME NEW d, NEW f, d # desk PROVE DeskExposure(book', d, f) = DeskExposure(book, d, f)
    <3>1. DeskExposure(book', d, f) = DeskExposure(book, d, f) + 0
      BY <2>1, <2>2
    <3>2. DeskExposure(book, d, f) \in Int
      BY ReadsAreInt
    <3> QED BY <3>1, <3>2
  <2>3. [f \in Factors |-> Exposure(book', f)]
          = [f \in Factors |-> [g \in Factors |-> Exposure(book, g)][f] + Ledger!Amount(flow, f)]
    BY <2>1
  <2>4. [f \in Factors |-> GrossExposure(book', f)]
          = [f \in Factors |-> [g \in Factors |-> GrossExposure(book, g)][f] + Ledger!Size(flow, f)]
    BY <2>1
  <2> DEFINE held == [d \in Desks |-> [f \in Factors |-> DeskExposure(book, d, f)]]
  <2>5. [d \in Desks |-> [f \in Factors |-> DeskExposure(book', d, f)]]
          = [held EXCEPT ![desk] = [f \in Factors |-> held[desk][f] + Ledger!Amount(flow, f)]]
    BY <2>1, <2>2
  <2> QED BY <1>1, <1>3, <2>3, <2>4, <2>5 DEF Ledger!Book
<1> QED BY <1>1, <1>2, <1>3, Zenon DEF BooksIt

-----------------------------------------------------------------------------
(* The invariant: a sound book, hedges worked only in the equities, and    *)
(* only while the hedger is cooling down from sending them.                *)
Equities == {Equity(s) : s \in Symbols}

DeskWorks ==
  /\ book \in Books
  /\ DOMAIN working \subseteq Equities /\ working \in [DOMAIN working -> Int]
  /\ engine \in [internalized : Nat, routed : Nat]
  /\ ledger \in [captured : Int, paid : Int, routing : Nat, hedging : Nat]
  /\ hedger \in [size : Nat, hedged : BOOLEAN, last : Nat, emitted : Nat]
  /\ now \in Nat
  /\ offered \in [total : Nat, cut : Nat]

LEMMA NewBookIsABook ==
  /\ NewBook \in Books /\ NewBook.pending = [p \in Pairs |-> 0]
  /\ \A f : Exposure(NewBook, f) = 0 /\ GrossExposure(NewBook, f) = 0
  /\ \A d, f : DeskExposure(NewBook, d, f) = 0
<1>1. PICK zeros \in Seq(Int) : zeros = [k \in 1..Slots |-> 0] /\ \A k : At(zeros, k) = 0
  <2>1. Slots \in Nat
    BY CrbDeskAssumption
  <2>2. Zeros(Slots) \in Seq(Int) /\ \A k \in DOMAIN Zeros(Slots) : Zeros(Slots)[k] = 0
    BY <2>1, ZerosAre
  <2>3. Zeros(Slots) = [k \in 1..Slots |-> 0]
    BY DEF Zeros
  <2>4. \A k : At(Zeros(Slots), k) = 0
    BY <2>2 DEF At
  <2> QED BY <2>2, <2>3, <2>4
<1>2. PICK none : none = [d \in {} |-> <<>>]
  OBVIOUS
<1>3. none \in DeskArrays /\ DOMAIN none = {}
  <2>1. none \in [{} -> Seq(Int)]
    BY <1>2
  <2> QED BY <1>2, <2>1 DEF DeskArrays
<1>4. PICK b : b = NewBook
  OBVIOUS
<1>5. /\ b.names = <<>> /\ b.net = zeros /\ b.gross = zeros /\ b.desks = none
      /\ b.pending = [p \in Pairs |-> 0] /\ b.flows = 0
      /\ b = [names |-> <<>>, net |-> zeros, gross |-> zeros, desks |-> none,
              pending |-> [p \in Pairs |-> 0], flows |-> 0]
  BY <1>1, <1>2, <1>4, Zenon DEF NewBook
<1>6. b \in [names : Seq(Factors), net : Seq(Int), gross : Seq(Int), desks : DeskArrays,
             pending : [Pairs -> Nat], flows : Nat]
  <2>1. <<>> \in Seq(Factors) /\ [p \in Pairs |-> 0] \in [Pairs -> Nat]
    OBVIOUS
  <2> QED BY <1>1, <1>3, <1>5, <2>1
<1>7. Sound(b)
  <2>1. Distinct(<<>>)
    BY DEF Distinct
  <2>2. Empty(zeros, Len(<<>>))
    BY <1>1 DEF Empty
  <2> QED BY <1>3, <1>5, <2>1, <2>2 DEF Sound
<1>8. \A f : Exposure(b, f) = 0 /\ GrossExposure(b, f) = 0
  BY <1>1, <1>5, Zenon DEF Exposure, GrossExposure
<1>9. \A d, f : DeskExposure(b, d, f) = 0
  BY <1>3, <1>5 DEF DeskExposure
<1> QED BY <1>4, <1>5, <1>6, <1>7, <1>8, <1>9 DEF Books

LEMMA InitWorks == CrbInit => DeskWorks /\ Ledger!Init
<1> SUFFICES ASSUME CrbInit PROVE DeskWorks /\ Ledger!Init
  OBVIOUS
<1>1. book = NewBook /\ working = <<>>
  BY DEF CrbInit
<1>2. book \in Books
  BY <1>1, NewBookIsABook
<1>3. DeskWorks
  BY <1>1, <1>2 DEF CrbInit, DeskWorks
<1>4. /\ book.pending = [p \in Pairs |-> 0]
      /\ \A f : Exposure(book, f) = 0 /\ GrossExposure(book, f) = 0
      /\ \A d, f : DeskExposure(book, d, f) = 0
  BY <1>1, NewBookIsABook
<1>5. Ledger!Init
  BY <1>4 DEF Ledger!Init
<1> QED BY <1>3, <1>5

\* The flows that are booked.
LEMMA EquitiesAreSent ==
  ASSUME NEW s \in Symbols, NEW q \in Int
  PROVE  /\ Sent(CashEquity(s, q, 1))
         /\ CashEquity(s, q, 1) = [legs |-> <<[factor |-> Equity(s), amount |-> q]>>, pair |-> <<>>, fixing |-> 0]
<1>1. Equity(s) \in Factors /\ Equity(s) = <<"EQ", s>>
  BY CrbDeskAssumption DEF Equity
<1>2. q * 1 = q
  OBVIOUS
<1>3. CashEquity(s, q, 1) = [legs |-> <<[factor |-> Equity(s), amount |-> q]>>, pair |-> <<>>, fixing |-> 0]
  BY <1>1, <1>2, Zenon DEF CashEquity, Flow, Leg
<1>4. [factor |-> Equity(s), amount |-> q] \in Legs
  BY <1>1 DEF Legs
<1>5. <<[factor |-> Equity(s), amount |-> q]>> \in Seq(Legs)
  BY <1>4
<1> QED BY <1>3, <1>5 DEF Sent

LEMMA FiniteEquities ==
  ASSUME NEW s \in Symbols, NEW q \in Int,
         \A k \in DOMAIN CashEquity(s, q, 1).legs : Finite(CashEquity(s, q, 1).legs[k].amount)
  PROVE  q \in -MaxFinite..MaxFinite
<1>1. CashEquity(s, q, 1).legs = <<[factor |-> Equity(s), amount |-> q]>>
  BY EquitiesAreSent
<1>2. 1 \in DOMAIN CashEquity(s, q, 1).legs /\ CashEquity(s, q, 1).legs[1].amount = q
  BY <1>1
<1>3. Finite(q)
  BY <1>2
<1> QED BY <1>3, CrbDeskAssumption DEF Finite, Magnitude


LEMMA SumOfOne ==
  ASSUME NEW x \in Int
  PROVE  SeqSum(<<x>>) = x
<1>1. PICK p : p = [k \in 0..1 |-> IF k = 0 THEN 0 ELSE x]
  OBVIOUS
<1>2. p \in [0..1 -> Int] /\ p[0] = 0 /\ p[1] = x
  BY <1>1
<1>3. PICK seq \in Seq(Int) : seq = <<x>> /\ Len(seq) = 1 /\ seq[1] = x
  <2>1. <<x>> \in Seq(Int) /\ Len(<<x>>) = 1 /\ <<x>>[1] = x
    OBVIOUS
  <2> QED BY <2>1, Zenon
<1>4. \A k \in 1..Len(seq) : p[k] = p[k - 1] + seq[k]
  BY <1>2, <1>3
<1>5. p[Len(seq)] = p[0] + SeqSum(seq)
  BY <1>2, <1>3, <1>4, GrowsByTheSum
<1>6. SeqSum(seq) \in Int
  <2>1. PICK s : PartialSums(seq, Len(seq), s)
    BY PartialSumsExist
  <2>2. SeqSum(seq) = s[Len(seq)]
    BY <2>1, SeqSumIsTheLast
  <2> QED BY <1>3, <2>1, <2>2 DEF PartialSums
<1> QED BY <1>2, <1>3, <1>5, <1>6

\* What clients' trades can be, among the flows of the ledger.
LedgerFlows ==
  {b[2] : b \in DeskFlows} \cup
  {CashEquity(s, q, 1) : s \in Symbols, q \in -MaxFinite..MaxFinite}

\* The ledger takes the step, or nothing it shows has changed.
LedgerStep == Ledger!Next \/ UNCHANGED Ledger!vars

LEMMA BookingIsAStep ==
  ASSUME NEW flow \in LedgerFlows, Ledger!Book(flow)
  PROVE  LedgerStep
BY DEF LedgerStep, Ledger!Next, LedgerFlows

LEMMA SameBookIsNoStep ==
  ASSUME book' = book
  PROVE  LedgerStep
BY DEF LedgerStep, Ledger!vars

\* The exposure in one equity, moved.
Moved(s, q) ==
  \A t \in Symbols : Exposure(book', Equity(t)) = Exposure(book, Equity(t)) + IF t = s THEN q ELSE 0

\* A trade in an equity is booked whole, or not at all where it is not finite.
LEMMA EquityIsBooked ==
  ASSUME book \in Books, NEW desk \in Desks, NEW s \in Symbols, NEW q \in Int,
         BookFlow(desk, CashEquity(s, q, 1))
  PROVE  book' \in Books /\ LedgerStep /\ (book' = book \/ Moved(s, q))
<1>1. PICK flow : /\ flow = CashEquity(s, q, 1) /\ Sent(flow)
                  /\ flow.legs = <<[factor |-> Equity(s), amount |-> q]>>
  BY EquitiesAreSent
<1>2. book' \in Books /\ BooksIt(book', book, desk, flow)
  BY <1>1, BookedIsInBooks DEF BookFlow
<1>3. LedgerStep
  <2>1. CASE book' = book
    BY <2>1, SameBookIsNoStep
  <2>2. CASE (\A k \in DOMAIN flow.legs : Finite(flow.legs[k].amount)) /\ Ledger!Book(flow)
    <3>1. q \in -MaxFinite..MaxFinite
      BY <1>1, <2>2, FiniteEquities
    <3>2. flow \in LedgerFlows
      BY <1>1, <3>1 DEF LedgerFlows
    <3> QED BY <2>2, <3>2, BookingIsAStep
  <2> QED BY <1>1, <2>1, <2>2, BookFlowBooks
<1>4. CASE LegsBooked(book', book, desk, flow.legs)
  <2>1. ASSUME NEW f PROVE SeqSum(Shares(flow.legs, f)) = IF f = Equity(s) THEN q ELSE 0
    <3>1. PICK x \in Int : x = IF f = Equity(s) THEN q ELSE 0
      OBVIOUS
    <3>2. Shares(flow.legs, f) = <<x>>
      BY <1>1, <3>1 DEF Shares, Share
    <3> QED BY <3>1, <3>2, SumOfOne
  <2>2. ASSUME NEW t \in Symbols
        PROVE  Exposure(book', Equity(t)) = Exposure(book, Equity(t)) + IF t = s THEN q ELSE 0
    <3>1. Exposure(book', Equity(t)) = Exposure(book, Equity(t)) + SeqSum(Shares(flow.legs, Equity(t)))
      BY <1>4, Zenon DEF LegsBooked
    <3>2. Equity(t) = Equity(s) <=> t = s
      BY DEF Equity
    <3> QED BY <2>1, <3>1, <3>2
  <2> QED BY <1>2, <1>3, <2>2 DEF Moved
<1>5. book' = book \/ LegsBooked(book', book, desk, flow.legs)
  BY <1>2, Zenon DEF BooksIt
<1> QED BY <1>2, <1>3, <1>4, <1>5

-----------------------------------------------------------------------------
(* Keeping and routing client flow.                                        *)

\* How much of a trade sheds the position it meets.
Shed(net, q) == Smaller(Magnitude(q), Max({0, -Sgn(q) * net}))

Decided(d, net, q) ==
  /\ d.internalized \in Int /\ d.routed \in Int
  /\ Magnitude(d.internalized) + Magnitude(d.routed) = Magnitude(q)
  /\ d.improvement = Improvement * Shed(net, q)
  /\ Magnitude(net + d.internalized) <= Max({WarehouseLimit, Magnitude(net)})

LEMMA CrossedIsShed ==
  ASSUME NEW net \in Int, NEW q \in Int
  PROVE  Crossed(net, q) = Shed(net, q) /\ Crossed(net, q) \in 0..Magnitude(q)
<1>1. PICK e \in Int : e = -Sgn(q) * net /\ e = IF q > 0 THEN -net ELSE IF q < 0 THEN net ELSE 0
  BY DEF Sgn
<1>2. Max({0, e}) = IF 0 >= e THEN 0 ELSE e
  BY MaxIs
<1>3. Shed(net, q) = Smaller(Magnitude(q), IF 0 >= e THEN 0 ELSE e)
  BY <1>1, <1>2 DEF Shed
<1>4. Crossed(net, q) = Smaller(Magnitude(q), IF 0 >= e THEN 0 ELSE e)
  BY <1>1 DEF Crossed, Smaller, Magnitude, Sgn
<1>5. Smaller(Magnitude(q), IF 0 >= e THEN 0 ELSE e) \in 0..Magnitude(q)
  BY <1>1 DEF Smaller, Magnitude
<1> QED BY <1>3, <1>4, <1>5

LEMMA RoomIs ==
  ASSUME NEW net \in Int, NEW q \in Int
  PROVE  /\ Room(net, q) \in Nat
         /\ Room(net, q) = IF Sgn(q) = -Sgn(net) /\ net # 0 THEN WarehouseLimit
                           ELSE IF WarehouseLimit >= Magnitude(net) THEN WarehouseLimit - Magnitude(net) ELSE 0
<1>1. WarehouseLimit \in Nat
  BY CrbDeskAssumption
<1>2. PICK e \in Int : e = WarehouseLimit - Magnitude(net) /\ Magnitude(net) \in Nat
  BY <1>1 DEF Magnitude
<1>3. Max({0, e}) = IF 0 >= e THEN 0 ELSE e
  BY MaxIs
<1> QED BY <1>1, <1>2, <1>3 DEF Room

LEMMA InternalizeDecides ==
  ASSUME NEW net \in Int, NEW q \in Int
  PROVE  Decided(Internalize(net, q), net, q)
<1>0. WarehouseLimit \in Nat
  BY CrbDeskAssumption
<1>1. PICK c \in Nat : c = Crossed(net, q) /\ c = Shed(net, q) /\ c <= Magnitude(q)
  <2>1. Crossed(net, q) \in 0..Magnitude(q) /\ Magnitude(q) \in Nat
    BY CrossedIsShed DEF Magnitude
  <2> QED BY <2>1, CrossedIsShed
<1>2. PICK room \in Nat :
        /\ room = Room(net, q)
        /\ room = IF Sgn(q) = -Sgn(net) /\ net # 0 THEN WarehouseLimit
                  ELSE IF WarehouseLimit >= Magnitude(net) THEN WarehouseLimit - Magnitude(net) ELSE 0
  BY RoomIs
<1>3. PICK k \in Nat : /\ k = c + Smaller(Magnitude(q) - c, room)
                       /\ k <= Magnitude(q) /\ k <= c + room
  BY <1>1 DEF Smaller, Magnitude
<1>4. PICK i \in Int : i = Sgn(q) * k /\ i = IF q > 0 THEN k ELSE IF q < 0 THEN -k ELSE 0
  BY DEF Sgn
<1>5. PICK d : d = Internalize(net, q)
  OBVIOUS
<1>6. d.internalized = i /\ d.routed = q - i /\ d.improvement = Improvement * Shed(net, q)
  BY <1>1, <1>2, <1>3, <1>4, <1>5 DEF Internalize
<1>7. Magnitude(i) + Magnitude(q - i) = Magnitude(q)
  BY <1>3, <1>4 DEF Magnitude
<1>8. Magnitude(net + i) <= WarehouseLimit \/ Magnitude(net + i) <= Magnitude(net)
  <2>1. CASE q = 0
    <3>1. i = 0 /\ net + i = net
      BY <1>4, <2>1
    <3> QED BY <3>1 DEF Magnitude
  <2>2. CASE net = 0
    <3>1. c = 0 /\ room = WarehouseLimit
      BY <1>0, <1>1, <1>2, <2>2 DEF Crossed, Magnitude
    <3> QED BY <1>0, <1>3, <1>4, <2>2, <3>1 DEF Magnitude
  <2>3. CASE net # 0 /\ q # 0 /\ Sgn(q) = Sgn(net)
    <3>1. Sgn(q) # -Sgn(net) /\ (q > 0 <=> net > 0)
      BY <2>3 DEF Sgn
    <3>2. c = 0 /\ room = IF WarehouseLimit >= Magnitude(net) THEN WarehouseLimit - Magnitude(net) ELSE 0
      BY <1>1, <1>2, <2>3, <3>1 DEF Crossed
    <3> QED BY <1>0, <1>3, <1>4, <2>3, <3>1, <3>2 DEF Magnitude
  <2>4. CASE net # 0 /\ q # 0 /\ Sgn(q) # Sgn(net)
    <3>1. Sgn(q) = -Sgn(net)
      BY <2>4 DEF Sgn
    <3>2. room = WarehouseLimit
      BY <1>2, <2>4, <3>1
    <3>3. c = Smaller(Magnitude(q), Magnitude(net))
      BY <1>1, <2>4 DEF Crossed
    <3> QED BY <1>0, <1>3, <1>4, <2>4, <3>2, <3>3 DEF Sgn, Magnitude, Smaller
  <2> QED BY <2>1, <2>2, <2>3, <2>4
<1>9. Magnitude(net + i) <= Max({WarehouseLimit, Magnitude(net)})
  <2>1. PICK m \in Int : m = Magnitude(net)
    BY DEF Magnitude
  <2>2. Max({WarehouseLimit, m}) = IF WarehouseLimit >= m THEN WarehouseLimit ELSE m
    BY <1>0, MaxIs
  <2>3. Magnitude(net + i) \in Int
    BY DEF Magnitude
  <2> QED BY <1>0, <1>8, <2>1, <2>2, <2>3
<1>10. q - i \in Int
  OBVIOUS
<1>11. Decided(d, net, q)
  BY <1>4, <1>6, <1>7, <1>9, <1>10 DEF Decided
<1> QED BY <1>5, <1>11

\* What is left to route, what it cost so far, and who can still be asked:
\* never dearer than all of it going lit.
Routing(n) ==
  {r \in [left : Nat, cost : Nat, open : SUBSET {v \in DarkVenues : v.charge < LitCost}] :
     r.cost + r.left * LitCost <= LitCost * n}

LEMMA CheapestIsOpen ==
  ASSUME NEW open \in SUBSET DarkVenues, open # {}
  PROVE  Cheapest(open) \in open
<1>1. \A v \in open : v.charge \in Nat
  BY CrbDeskAssumption
<1>2. PICK charges : charges = {v.charge : v \in open}
  OBVIOUS
<1>3. charges \subseteq Nat /\ charges # {}
  BY <1>1, <1>2
<1>4. PICK x \in charges : \A y \in charges : x <= y
  BY <1>3, LeastElement
<1>5. \E v \in open : \A w \in open : v.charge <= w.charge
  BY <1>2, <1>4
<1> QED BY <1>5 DEF Cheapest

LEMMA AskedKeeps ==
  ASSUME NEW n \in Nat, NEW r \in Routing(n)
  PROVE  Asked(r) \in Routing(n)
<1>0. LitCost \in Nat
  BY CrbDeskAssumption DEF LitCost
<1>1. CASE r.open = {}
  BY <1>1 DEF Asked
<1>2. CASE r.open # {}
  <2>1. PICK left \in Nat, cost \in Nat, open \in SUBSET {v \in DarkVenues : v.charge < LitCost} :
          /\ r.left = left /\ r.cost = cost /\ r.open = open
          /\ cost + left * LitCost <= LitCost * n
    BY DEF Routing
  <2>2. PICK v \in open : v = Cheapest(open)
    BY <1>2, <2>1, CheapestIsOpen
  <2>3. PICK charge \in Nat : charge = v.charge /\ charge <= LitCost
    BY <1>0, <2>2, CrbDeskAssumption
  <2>4. PICK fill \in Nat : fill = Smaller(left, v.fill) /\ fill <= left
    BY <2>2, CrbDeskAssumption DEF Smaller
  <2>5. PICK rest \in Nat : rest = left - fill /\ left = rest + fill
    BY <2>4
  <2>6. PICK paid \in Nat : paid = fill * charge
    BY ProductOfNaturals
  <2>7. PICK c : c = [left |-> rest, cost |-> cost + paid, open |-> open \ {v}]
    OBVIOUS
  <2>8. Asked(r) = c
    <3>1. Asked(r) = [left |-> r.left - Smaller(r.left, v.fill),
                      cost |-> r.cost + Smaller(r.left, v.fill) * v.charge,
                      open |-> r.open \ {v}]
      BY <1>2, <2>1, <2>2, Zenon DEF Asked
    <3> QED BY <2>1, <2>3, <2>4, <2>5, <2>6, <2>7, <3>1, Zenon
  <2>9. paid <= fill * LitCost
    BY <1>0, <2>3, <2>6, ProductsAreOrdered
  <2>10. left * LitCost = rest * LitCost + fill * LitCost
    BY <1>0, <2>5
  <2>11. /\ left * LitCost \in Nat /\ rest * LitCost \in Nat /\ fill * LitCost \in Nat
         /\ LitCost * n \in Nat
    BY <1>0, ProductOfNaturals
  <2>12. (cost + paid) + rest * LitCost <= LitCost * n
    BY <2>1, <2>9, <2>10, <2>11
  <2>13. cost + paid \in Nat /\ open \ {v} \in SUBSET {w \in DarkVenues : w.charge < LitCost}
    BY <2>1
  <2>14. c \in Routing(n)
    BY <2>7, <2>12, <2>13 DEF Routing
  <2> QED BY <2>8, <2>14
<1> QED BY <1>1, <1>2

LEMMA RoutingCosts ==
  ASSUME NEW n \in Nat
  PROVE  RouteCost(n) \in Nat /\ RouteCost(n) <= LitCost * n
<1>0. LitCost \in Nat
  BY CrbDeskAssumption DEF LitCost
<1> DEFINE N == Cardinality(DarkVenues)
           start == [left |-> n, cost |-> 0, open |-> {v \in DarkVenues : v.charge < LitCost}]
           Step(f) == [k \in 0..N |-> IF k = 0 THEN start ELSE Asked(f[k - 1])]
           chosen == CHOOSE f : f = Step(f)
           step == [k \in 1..N |-> [r \in Routing(n) |-> Asked(r)]]
<1>1. N \in Nat
  BY CrbDeskAssumption, FS_CardinalityType
<1>2. start \in Routing(n)
  <2>1. n * LitCost = LitCost * n /\ 0 + n * LitCost <= LitCost * n
    BY <1>0
  <2> QED BY <2>1 DEF Routing
<1>3. step \in [1..N -> [Routing(n) -> Routing(n)]]
  BY AskedKeeps
<1>4. PICK f : f \in [0..N -> Routing(n)] /\ f[0] = start /\ \A k \in 1..N : f[k] = step[k][f[k - 1]]
  <2>1. PICK f : IsIteration(f, Routing(n), start, N, step)
    <3> HIDE DEF N, step, start
    <3> QED BY <1>1, <1>2, <1>3, Iterates
  <2> HIDE DEF N, step, start
  <2> QED BY <2>1 DEF IsIteration
<1>5. ASSUME NEW k \in 1..N PROVE k - 1 \in 0..N /\ f[k] = Asked(f[k - 1])
  <2>1. k - 1 \in 0..N
    BY <1>1
  <2>2. PICK r \in Routing(n) : r = f[k - 1]
    BY <1>4, <2>1
  <2>3. step[k][r] = Asked(r)
    OBVIOUS
  <2> QED BY <1>4, <2>1, <2>2, <2>3
<1>6. f = Step(f)
  <2> HIDE DEF start
  <2> QED BY <1>1, <1>4, <1>5
<1>7. chosen = Step(chosen)
  BY <1>6
<1>8. Asking(n) = chosen
  BY DEF Asking
<1> HIDE DEF chosen, step
<1>9. chosen[0] = start
  <2>1. 0 \in 0..N
    BY <1>1
  <2> HIDE DEF start
  <2> QED BY <1>7, <2>1
<1>10. ASSUME NEW k \in 1..N PROVE k - 1 \in 0..N /\ chosen[k] = Asked(chosen[k - 1])
  <2>1. k \in 0..N /\ k # 0 /\ k - 1 \in 0..N
    BY <1>1
  <2> HIDE DEF start
  <2> QED BY <1>7, <2>1
<1> DEFINE Bad == {k \in 0..N : chosen[k] \notin Routing(n)}
<1>11. Bad = {}
  <2> SUFFICES ASSUME Bad # {} PROVE FALSE
    OBVIOUS
  <2>1. Bad \subseteq Nat
    BY <1>1
  <2> HIDE DEF Bad
  <2>2. PICK m \in Bad : \A k \in Bad : m <= k
    BY <2>1, LeastElement
  <2> USE DEF Bad
  <2>3. m # 0
    <3> HIDE DEF start
    <3> QED BY <1>1, <1>2, <1>9
  <2>4. m \in 1..N /\ m - 1 \in 0..N /\ m - 1 \notin Bad
    BY <1>1, <2>2, <2>3
  <2> QED BY <1>10, <2>4, AskedKeeps
<1>12. PICK r \in Routing(n) : r = Routed(n)
  <2>1. N \in 0..N
    BY <1>1
  <2>2. chosen[N] \in Routing(n)
    BY <1>11, <2>1
  <2> QED BY <1>8, <2>2 DEF Routed
<1>13. PICK left \in Nat, cost \in Nat : r.left = left /\ r.cost = cost /\ cost + left * LitCost <= LitCost * n
  BY DEF Routing
<1>14. left * LitCost \in Nat
  BY <1>0, ProductOfNaturals
<1> QED BY <1>12, <1>13, <1>14 DEF RouteCost

-----------------------------------------------------------------------------
(* The steps of the desk.                                                  *)

LEMMA DeskBooksKeeps ==
  ASSUME DeskWorks, NEW b \in DeskFlows, DeskBooks(b[1], b[2])
  PROVE  DeskWorks' /\ LedgerStep
<1>1. b[1] \in Desks /\ Sent(b[2]) /\ b[2] \in LedgerFlows
  <2>1. b[1] \in Desks /\ b[2].fixing \in Nat /\ b[2].legs \in Seq([factor : Factors, amount : Int])
    BY CrbDeskAssumption, Zenon
  <2>2. b[2] \in LedgerFlows
    BY DEF LedgerFlows
  <2> QED BY <2>1, <2>2, Zenon DEF Sent, Legs
<1>2. book \in Books /\ BookFlow(b[1], b[2])
  BY DEF DeskWorks, DeskBooks
<1>3. book' \in Books /\ (book' = book \/ Ledger!Book(b[2]))
  BY <1>1, <1>2, BookFlowBooks
<1>4. LedgerStep
  BY <1>1, <1>3, SameBookIsNoStep, BookingIsAStep
<1> QED BY <1>3, <1>4 DEF DeskWorks, DeskBooks

LEMMA FixingKeeps ==
  ASSUME DeskWorks, NEW p \in Pairs, NEW n \in 1..book.pending[p], FixingOccurs(p, n)
  PROVE  DeskWorks' /\ LedgerStep
<1>1. PICK due \in [Pairs -> Nat] : due = book.pending
  BY DEF DeskWorks, Books
<1>2. PICK left : left = [due EXCEPT ![p] = due[p] - n]
  OBVIOUS
<1>3. left \in [Pairs -> Nat]
  BY <1>1, <1>2
<1>4. book' = [book EXCEPT !.pending = left]
  BY <1>1, <1>2 DEF FixingOccurs, SettleFixing
<1>5. /\ book'.names = book.names /\ book'.net = book.net /\ book'.gross = book.gross
      /\ book'.desks = book.desks /\ book'.pending = left
      /\ book' \in [names : Seq(Factors), net : Seq(Int), gross : Seq(Int), desks : DeskArrays,
                    pending : [Pairs -> Nat], flows : Nat]
  <2>1. book \in [names : Seq(Factors), net : Seq(Int), gross : Seq(Int), desks : DeskArrays,
                  pending : [Pairs -> Nat], flows : Nat]
    BY Zenon DEF DeskWorks, Books
  <2> QED BY <1>3, <1>4, <2>1
<1>6. book' \in Books
  BY <1>5 DEF DeskWorks, Books, Sound
<1>7. /\ \A f : Exposure(book', f) = Exposure(book, f) /\ GrossExposure(book', f) = GrossExposure(book, f)
      /\ \A d, f : DeskExposure(book', d, f) = DeskExposure(book, d, f)
  BY <1>5, Zenon DEF Exposure, GrossExposure, DeskExposure
<1>8. Ledger!Settle(p, n)
  BY <1>1, <1>2, <1>5, <1>7 DEF Ledger!Settle
<1>9. LedgerStep
  BY <1>8 DEF LedgerStep, Ledger!Next
<1> QED BY <1>6, <1>9 DEF DeskWorks, FixingOccurs

LEMMA InstrumentKeeps ==
  ASSUME DeskWorks, AddInstrument
  PROVE  DeskWorks' /\ LedgerStep
<1>1. PICK names \in Seq(Factors) : names = book.names /\ Distinct(names)
  BY DEF DeskWorks, Books, Sound
<1>2. HedgeOnly \in Factors
  BY CrbDeskAssumption
<1>3. PICK more \in Seq(Factors) : more = Registered(names, HedgeOnly) /\ Distinct(more)
  BY <1>1, <1>2, RegisteredKeeps
<1>4. book' = [book EXCEPT !.names = more]
  BY <1>1, <1>3 DEF AddInstrument, RegisterFactor
<1>5. /\ book'.names = more /\ book'.net = book.net /\ book'.gross = book.gross
      /\ book'.desks = book.desks /\ book'.pending = book.pending
      /\ book' \in [names : Seq(Factors), net : Seq(Int), gross : Seq(Int), desks : DeskArrays,
                    pending : [Pairs -> Nat], flows : Nat]
  <2>1. book \in [names : Seq(Factors), net : Seq(Int), gross : Seq(Int), desks : DeskArrays,
                  pending : [Pairs -> Nat], flows : Nat]
    BY Zenon DEF DeskWorks, Books
  <2> QED BY <1>4, <2>1
<1>6. ASSUME NEW a \in Seq(Int), Empty(a, Len(names))
      PROVE  Empty(a, Len(more)) /\ \A g : At(a, IdOf(more, g)) = At(a, IdOf(names, g))
  BY <1>1, <1>2, <1>3, <1>6, RegisteredReads
<1>7. /\ book.net \in Seq(Int) /\ book.gross \in Seq(Int)
      /\ Empty(book.net, Len(names)) /\ Empty(book.gross, Len(names))
      /\ \A d \in DOMAIN book.desks : book.desks[d] \in Seq(Int) /\ Empty(book.desks[d], Len(names))
      /\ Len(book.gross) = Len(book.net)
  BY <1>1 DEF DeskWorks, Books, Sound, DeskArrays
<1>8. book' \in Books
  <2>1. /\ Empty(book.net, Len(more)) /\ Empty(book.gross, Len(more))
        /\ \A d \in DOMAIN book.desks : Empty(book.desks[d], Len(more))
    BY <1>6, <1>7
  <2> QED BY <1>3, <1>5, <1>7, <2>1 DEF Books, Sound
<1>9. ASSUME NEW f
      PROVE  Exposure(book', f) = Exposure(book, f) /\ GrossExposure(book', f) = GrossExposure(book, f)
  BY <1>1, <1>5, <1>6, <1>7 DEF Exposure, GrossExposure
<1>10. ASSUME NEW d, NEW f PROVE DeskExposure(book', d, f) = DeskExposure(book, d, f)
  BY <1>1, <1>5, <1>6, <1>7 DEF DeskExposure
<1>11. LedgerStep
  BY <1>5, <1>9, <1>10 DEF LedgerStep, Ledger!vars
<1> QED BY <1>8, <1>11 DEF DeskWorks, AddInstrument

\* No equity goes beyond its warehouse limit, nor further beyond it.
WithinWarehouse ==
  \A t \in Symbols :
    Magnitude(Exposure(book', Equity(t)))
      <= Max({WarehouseLimit, Magnitude(Exposure(book, Equity(t)))})

LEMMA SameIsWithin ==
  ASSUME book \in Books, NEW t,
         Exposure(book', Equity(t)) = Exposure(book, Equity(t))
  PROVE  Magnitude(Exposure(book', Equity(t))) <= Max({WarehouseLimit, Magnitude(Exposure(book, Equity(t)))})
<1>1. PICK m \in Int : m = Magnitude(Exposure(book, Equity(t)))
  BY ReadsAreInt DEF Magnitude
<1>2. Max({WarehouseLimit, m}) >= m
  BY CrbDeskAssumption, MaxIs
<1> QED BY <1>1, <1>2, CrbDeskAssumption, MaxIs

LEMMA ClientFlowKeeps ==
  ASSUME DeskWorks, NEW s \in Symbols, NEW q \in ClientSizes, ClientFlow(s, q)
  PROVE  /\ DeskWorks' /\ LedgerStep /\ WithinWarehouse
         /\ LedgerAddsUp => LedgerAddsUp'
<1>0. /\ q \in Int /\ HalfSpread \in Nat /\ Improvement \in Nat /\ "client" \in Desks
      /\ LitCost \in Nat /\ WarehouseLimit \in Nat
  BY CrbDeskAssumption DEF LitCost
<1>1. PICK net \in Int : net = Exposure(book, Equity(s))
  BY ReadsAreInt DEF DeskWorks
<1>2. PICK d : d = Internalize(net, q) /\ Decided(d, net, q)
  BY <1>0, InternalizeDecides
<1>3. PICK i \in Int, r \in Int, shed \in Nat :
        /\ d.internalized = i /\ d.routed = r /\ d.improvement = Improvement * shed
        /\ shed = Shed(net, q) /\ Magnitude(i) + Magnitude(r) = Magnitude(q)
        /\ Magnitude(net + i) <= Max({WarehouseLimit, Magnitude(net)})
  <2>1. Shed(net, q) \in Nat
    <3>1. Crossed(net, q) = Shed(net, q) /\ Crossed(net, q) \in 0..Magnitude(q)
      BY <1>0, CrossedIsShed
    <3>2. Magnitude(q) \in Nat
      BY <1>0 DEF Magnitude
    <3> QED BY <3>1, <3>2
  <2> QED BY <1>2, <2>1 DEF Decided
<1>4. PICK kept \in Nat, sent \in Nat, all \in Nat :
        kept = Magnitude(i) /\ sent = Magnitude(r) /\ all = Magnitude(q) /\ kept + sent = all
  BY <1>0, <1>3 DEF Magnitude
<1>5. PICK cost \in Nat : cost = RouteCost(sent) /\ cost <= LitCost * sent
  BY RoutingCosts
<1>6. PICK bonus \in Nat : bonus = Improvement * shed
  BY <1>0, ProductOfNaturals
<1>7. PICK earned \in Nat : earned = kept * HalfSpread
  BY <1>0, ProductOfNaturals
<1>8. /\ engine' = [internalized |-> engine.internalized + kept, routed |-> engine.routed + sent]
      /\ ledger' = [ledger EXCEPT !.captured = ledger.captured + earned - bonus,
                                  !.paid = ledger.paid + bonus,
                                  !.routing = ledger.routing + cost]
      /\ offered' = [total |-> offered.total + all, cut |-> offered.cut + shed]
      /\ UNCHANGED <<hedger, now, working>>
  <2>1. Shed(net, q) = Smaller(Magnitude(q), Max({0, -Sgn(q) * net}))
    BY DEF Shed
  <2>2. /\ engine' = [internalized |-> engine.internalized + Magnitude(d.internalized),
                      routed |-> engine.routed + Magnitude(d.routed)]
        /\ ledger' = OnDecision(d)
        /\ offered' = [total |-> offered.total + Magnitude(q),
                       cut |-> offered.cut + Smaller(Magnitude(q), Max({0, -Sgn(q) * net}))]
        /\ UNCHANGED <<hedger, now, working>>
    BY <1>1, <1>2, Zenon DEF ClientFlow
  <2>3. ledger' = [ledger EXCEPT !.captured = ledger.captured + earned - bonus,
                                 !.paid = ledger.paid + bonus,
                                 !.routing = ledger.routing + cost]
    BY <1>3, <1>4, <1>5, <1>6, <1>7, <2>2, Zenon DEF OnDecision
  <2> QED BY <1>3, <1>4, <2>1, <2>2, <2>3, Zenon
<1>9. IF i = 0 THEN book' = book ELSE BookFlow("client", CashEquity(s, i, 1))
  BY <1>1, <1>2, <1>3, Zenon DEF ClientFlow
<1>10. book' \in Books /\ LedgerStep /\ (book' = book \/ Moved(s, i))
  <2>1. CASE i = 0
    BY <1>9, <2>1, SameBookIsNoStep DEF DeskWorks
  <2>2. CASE i # 0
    BY <1>0, <1>9, <2>2, EquityIsBooked DEF DeskWorks
  <2> QED BY <2>1, <2>2
<1>11. WithinWarehouse
  <2>1. ASSUME NEW t \in Symbols
        PROVE  Magnitude(Exposure(book', Equity(t))) <= Max({WarehouseLimit, Magnitude(Exposure(book, Equity(t)))})
    <3>1. book \in Books
      BY DEF DeskWorks
    <3>2. CASE book' = book
      BY <3>1, <3>2, SameIsWithin
    <3>3. CASE Moved(s, i) /\ t = s
      <4>1. Exposure(book', Equity(s)) = net + i
        BY <1>1, <3>3 DEF Moved
      <4> QED BY <1>1, <1>3, <3>3, <4>1
    <3>4. CASE Moved(s, i) /\ t # s
      <4>1. Exposure(book', Equity(t)) = Exposure(book, Equity(t)) + 0
        BY <3>4 DEF Moved
      <4>2. Exposure(book, Equity(t)) \in Int
        BY <3>1, ReadsAreInt
      <4> QED BY <3>1, <4>1, <4>2, SameIsWithin
    <3> QED BY <1>10, <3>2, <3>3, <3>4
  <2> QED BY <2>1 DEF WithinWarehouse
<1>12. DeskWorks'
  <2>1. /\ engine \in [internalized : Nat, routed : Nat] /\ offered \in [total : Nat, cut : Nat]
        /\ ledger \in [captured : Int, paid : Int, routing : Nat, hedging : Nat]
    BY DEF DeskWorks
  <2>2. /\ engine.internalized + kept \in Nat /\ engine.routed + sent \in Nat
        /\ offered.total + all \in Nat /\ offered.cut + shed \in Nat
        /\ ledger.captured + earned - bonus \in Int /\ ledger.paid + bonus \in Int
        /\ ledger.routing + cost \in Nat
    BY <2>1
  <2>3. /\ engine' \in [internalized : Nat, routed : Nat] /\ offered' \in [total : Nat, cut : Nat]
        /\ ledger' \in [captured : Int, paid : Int, routing : Nat, hedging : Nat]
    BY <1>8, <2>1, <2>2
  <2> QED BY <1>8, <1>10, <2>3 DEF DeskWorks
<1>13. LedgerAddsUp => LedgerAddsUp'
  <2> SUFFICES ASSUME LedgerAddsUp PROVE LedgerAddsUp'
    OBVIOUS
  <2>1. PICK ei \in Nat, er \in Nat : ei = engine.internalized /\ er = engine.routed
    BY DEF DeskWorks
  <2>2. PICK lc \in Int, lp \in Int, lr \in Nat :
          lc = ledger.captured /\ lp = ledger.paid /\ lr = ledger.routing
    BY DEF DeskWorks
  <2>3. PICK ot \in Nat, oc \in Nat : ot = offered.total /\ oc = offered.cut
    BY DEF DeskWorks
  <2>4. /\ ei + er = ot /\ lc + lp = HalfSpread * ei /\ lp = Improvement * oc /\ lr <= LitCost * er
    BY <2>1, <2>2, <2>3 DEF LedgerAddsUp
  <2>5. /\ engine'.internalized = ei + kept /\ engine'.routed = er + sent
        /\ ledger'.captured = (lc + earned) - bonus /\ ledger'.paid = lp + bonus
        /\ ledger'.routing = lr + cost
        /\ offered'.total = ot + all /\ offered'.cut = oc + shed
    <3>1. ledger \in [captured : Int, paid : Int, routing : Nat, hedging : Nat]
      BY DEF DeskWorks
    <3> QED BY <1>8, <2>1, <2>2, <2>3, <3>1
  <2>6. /\ HalfSpread * (ei + kept) = HalfSpread * ei + kept * HalfSpread
        /\ Improvement * (oc + shed) = Improvement * oc + Improvement * shed
        /\ LitCost * (er + sent) = LitCost * er + LitCost * sent
    BY <1>0
  <2>7. /\ HalfSpread * ei \in Nat /\ Improvement * oc \in Nat /\ LitCost * er \in Nat
        /\ LitCost * sent \in Nat
    BY <1>0, ProductOfNaturals
  <2>8. /\ (ei + kept) + (er + sent) = ot + all
        /\ ((lc + earned) - bonus) + (lp + bonus) = HalfSpread * (ei + kept)
        /\ lp + bonus = Improvement * (oc + shed)
        /\ lr + cost <= LitCost * (er + sent)
    BY <1>4, <1>5, <1>6, <1>7, <2>4, <2>6, <2>7
  <2> QED BY <2>5, <2>8 DEF LedgerAddsUp
<1> QED BY <1>10, <1>11, <1>12, <1>13

-----------------------------------------------------------------------------
(* Hedging.                                                                *)

\* What a factor's position would be, with the hedge: inside the limit and
\* not through zero.
Heals(f, h) ==
  /\ Magnitude(Exposure(book, f) + h) <= HardLimit
  /\ Sgn(Exposure(book, f) + h) # -Sgn(Exposure(book, f))

LEMMA HedgeOfIs ==
  ASSUME DeskWorks, NEW thrift \in Nat
  PROVE  /\ DOMAIN HedgeOf(thrift) = {g \in Breached : Hedgeable(g)}
         /\ \A f \in {g \in Breached : Hedgeable(g)} :
              /\ HedgeOf(thrift)[f] \in Int
              /\ Sgn(Exposure(book, f) + HedgeOf(thrift)[f]) # -Sgn(Exposure(book, f))
              /\ thrift = 0 => Heals(f, HedgeOf(thrift)[f])
<1>0. HardLimit \in Nat /\ Band \in Nat /\ Band <= HardLimit
  BY CrbDeskAssumption
<1>1. DOMAIN HedgeOf(thrift) = {g \in Breached : Hedgeable(g)}
  BY DEF HedgeOf
<1>2. ASSUME NEW f \in {g \in Breached : Hedgeable(g)}
      PROVE  /\ HedgeOf(thrift)[f] \in Int
             /\ Sgn(Exposure(book, f) + HedgeOf(thrift)[f]) # -Sgn(Exposure(book, f))
             /\ thrift = 0 => Heals(f, HedgeOf(thrift)[f])
  <2>1. PICK e \in Int : e = Exposure(book, f)
    BY ReadsAreInt DEF DeskWorks
  <2>2. Magnitude(e) > HardLimit
    BY <2>1 DEF Breached
  <2>3. PICK m \in Int : m = Magnitude(e) - Band - thrift
    BY <1>0 DEF Magnitude
  <2>4. Max({0, m}) = IF 0 >= m THEN 0 ELSE m
    BY MaxIs
  <2>5. PICK x \in Nat : x = Max({0, m}) /\ x = IF 0 >= m THEN 0 ELSE m
    BY <2>4
  <2>6. PICK h \in Int : h = -Sgn(e) * x /\ h = IF e > 0 THEN -x ELSE IF e < 0 THEN x ELSE 0
    BY DEF Sgn
  <2>7. HedgeOf(thrift)[f] = h
    <3>1. HedgeOf(thrift)[f] = -Sgn(Exposure(book, f)) * Max({0, Magnitude(Exposure(book, f)) - Band - thrift})
      BY DEF HedgeOf
    <3> QED BY <2>1, <2>3, <2>5, <2>6, <3>1
  <2>8. Sgn(e + h) # -Sgn(e)
    BY <1>0, <2>2, <2>3, <2>5, <2>6 DEF Sgn, Magnitude
  <2>9. thrift = 0 => Magnitude(e + h) <= HardLimit
    <3> SUFFICES ASSUME thrift = 0 PROVE Magnitude(e + h) <= HardLimit
      OBVIOUS
    <3>1. CASE e > 0
      <4>1. m = e - Band /\ e > HardLimit
        BY <1>0, <2>2, <2>3, <3>1 DEF Magnitude
      <4>2. e + h = Band
        BY <1>0, <2>5, <2>6, <3>1, <4>1
      <4> QED BY <1>0, <4>2 DEF Magnitude
    <3>2. CASE ~(e > 0)
      <4>1. m = -e - Band /\ -e > HardLimit /\ e < 0
        BY <1>0, <2>2, <2>3, <3>2 DEF Magnitude
      <4>2. e + h = -Band
        BY <1>0, <2>5, <2>6, <4>1
      <4> QED BY <1>0, <4>2 DEF Magnitude
    <3> QED BY <3>1, <3>2
  <2> QED BY <2>1, <2>7, <2>8, <2>9 DEF Heals
<1> QED BY <1>1, <1>2

\* Whether thrift leaves a breach or not.
LEMMA HedgeHeals ==
  ASSUME DeskWorks
  PROVE  /\ DOMAIN Hedge \subseteq Equities
         /\ \A f \in DOMAIN Hedge : Hedge[f] \in Int /\ Heals(f, Hedge[f])
<1>0. Thrift \in Nat
  BY CrbDeskAssumption
<1>1. ASSUME NEW f \in {g \in Breached : Hedgeable(g)} PROVE f \in Equities /\ f \in ToSet(book.names)
  BY DEF Breached, Hedgeable, Equities
<1>2. CASE StillBreached(HedgeOf(Thrift))
  <2>1. Hedge = HedgeOf(0)
    BY <1>2 DEF Hedge
  <2> QED BY <1>1, <2>1, HedgeOfIs
<1>3. CASE ~StillBreached(HedgeOf(Thrift))
  <2>1. PICK h : h = HedgeOf(Thrift) /\ h = Hedge
    BY <1>3 DEF Hedge
  <2>2. DOMAIN h = {g \in Breached : Hedgeable(g)}
    BY <1>0, <2>1, HedgeOfIs
  <2>3. ASSUME NEW f \in DOMAIN h PROVE h[f] \in Int /\ Heals(f, h[f])
    <3>1. h[f] \in Int /\ Sgn(Exposure(book, f) + h[f]) # -Sgn(Exposure(book, f))
      BY <1>0, <2>1, <2>2, <2>3, HedgeOfIs
    <3>2. ~(Magnitude(Exposure(book, f) + h[f]) > HardLimit)
      BY <1>1, <1>3, <2>1, <2>2, <2>3 DEF StillBreached
    <3>3. Exposure(book, f) + h[f] \in Int
      BY <3>1, ReadsAreInt DEF DeskWorks
    <3> QED BY <3>1, <3>2, <3>3, CrbDeskAssumption DEF Heals, Magnitude
  <2> QED BY <1>1, <2>1, <2>2, <2>3
<1> QED BY <1>2, <1>3

\* Hedges are worked only while the hedger cools down from sending them.
WorkedWhileCooling == DOMAIN working # {} => hedger.hedged /\ now - hedger.last < Cooldown

HedgesHeal == \A f \in DOMAIN working' : Heals(f, working'[f])

LEMMA CheckKeeps ==
  ASSUME DeskWorks, Check
  PROVE  /\ DeskWorks' /\ LedgerStep
         /\ WorkedWhileCooling => HedgesHeal
         /\ Cooldown > 0 => WorkedWhileCooling'
<1>1. PICK orders : orders = Orders
  OBVIOUS
<1>2. /\ DOMAIN orders = {g \in DOMAIN Hedge : Hedge[g] # 0}
      /\ \A f \in DOMAIN orders : orders[f] = Hedge[f]
  BY <1>1 DEF Orders
<1>3. /\ DOMAIN orders \subseteq Equities
      /\ \A f \in DOMAIN orders : orders[f] \in Int /\ Heals(f, orders[f])
  BY <1>2, HedgeHeals
<1>5. working' = [f \in DOMAIN working \cup DOMAIN orders |->
                    (IF f \in DOMAIN working THEN working[f] ELSE 0)
                    + (IF f \in DOMAIN orders THEN orders[f] ELSE 0)]
  BY <1>1 DEF Check
<1>7. WorkedWhileCooling => HedgesHeal
  <2> SUFFICES ASSUME WorkedWhileCooling PROVE HedgesHeal
    OBVIOUS
  <2>1. DOMAIN working = {}
    BY DEF WorkedWhileCooling, Check, Cooling
  <2>2. /\ DOMAIN working' = DOMAIN orders
        /\ \A f \in DOMAIN working' : working'[f] = orders[f]
    BY <1>3, <1>5, <2>1
  <2> QED BY <1>3, <2>2 DEF HedgesHeal
<1>8. DOMAIN working' \subseteq Equities /\ working' \in [DOMAIN working' -> Int]
  <2>1. DOMAIN working \subseteq Equities /\ \A f \in DOMAIN working : working[f] \in Int
    BY DEF DeskWorks
  <2> QED BY <1>3, <1>5, <2>1
<1>9. /\ UNCHANGED <<book, engine, ledger, now, offered>>
      /\ hedger' = [hedger EXCEPT !.hedged = TRUE, !.last = now, !.emitted = @ + 1]
  BY DEF Check
<1>10. /\ hedger \in [size : Nat, hedged : BOOLEAN, last : Nat, emitted : Nat] /\ now \in Nat
  BY DEF DeskWorks
<1>11. /\ hedger' \in [size : Nat, hedged : BOOLEAN, last : Nat, emitted : Nat]
       /\ hedger'.hedged /\ hedger'.last = now
  <2>1. PICK yes \in BOOLEAN : yes = TRUE
    BY Zenon
  <2>2. hedger' = [hedger EXCEPT !.hedged = yes, !.last = now, !.emitted = hedger.emitted + 1]
    BY <1>9, <2>1, Zenon
  <2>3. /\ hedger' \in [size : Nat, hedged : BOOLEAN, last : Nat, emitted : Nat]
        /\ hedger'.hedged = yes /\ hedger'.last = now
    <3>1. PICK size \in Nat, hedged \in BOOLEAN, last \in Nat, emitted \in Nat :
            hedger = [size |-> size, hedged |-> hedged, last |-> last, emitted |-> emitted]
      BY <1>10
    <3>2. hedger' = [size |-> size, hedged |-> yes, last |-> now, emitted |-> emitted + 1]
      BY <2>2, <3>1
    <3> QED BY <1>10, <3>2
  <2> QED BY <2>1, <2>3, Zenon
<1>12. DeskWorks'
  BY <1>8, <1>9, <1>11 DEF DeskWorks
<1>13. LedgerStep
  BY <1>9, SameBookIsNoStep
<1>14. Cooldown > 0 => WorkedWhileCooling'
  BY <1>9, <1>10, <1>11, CrbDeskAssumption DEF WorkedWhileCooling
<1> QED BY <1>7, <1>12, <1>13, <1>14

LEMMA SizeHedgerKeeps ==
  ASSUME DeskWorks, SizeHedger
  PROVE  DeskWorks' /\ LedgerStep /\ hedger'.emitted = hedger.emitted
         /\ (WorkedWhileCooling => WorkedWhileCooling')
<1>1. /\ UNCHANGED <<book, engine, ledger, now, working, offered>>
      /\ hedger' = [hedger EXCEPT !.size = Len(book.names)]
  BY DEF SizeHedger
<1>2. /\ hedger \in [size : Nat, hedged : BOOLEAN, last : Nat, emitted : Nat]
      /\ Len(book.names) \in Nat
  BY DEF DeskWorks, Books
<1>3. /\ hedger' \in [size : Nat, hedged : BOOLEAN, last : Nat, emitted : Nat]
      /\ hedger'.hedged = hedger.hedged /\ hedger'.last = hedger.last /\ hedger'.emitted = hedger.emitted
  BY <1>1, <1>2
<1>4. LedgerStep
  BY <1>1, SameBookIsNoStep
<1> QED BY <1>1, <1>3, <1>4 DEF DeskWorks, WorkedWhileCooling

LEMMA TickKeeps ==
  ASSUME DeskWorks, Tick
  PROVE  DeskWorks' /\ LedgerStep /\ (WorkedWhileCooling => WorkedWhileCooling')
<1>1. UNCHANGED <<book, engine, ledger, hedger, working, offered>> /\ now' = now + 1
  BY DEF Tick
<1>2. LedgerStep
  BY <1>1, SameBookIsNoStep
<1>3. DeskWorks'
  BY <1>1 DEF DeskWorks
<1>4. WorkedWhileCooling => WorkedWhileCooling'
  <2>1. DOMAIN working # {} => now' - hedger.last < Cooldown
    <3>1. DOMAIN working # {} => now + 1 - hedger.last < Cooldown
      BY Zenon DEF Tick
    <3>2. now \in Nat /\ hedger.last \in Nat
      BY DEF DeskWorks
    <3> QED BY <1>1, <3>1, <3>2
  <2>2. hedger' = hedger /\ working' = working
    BY <1>1
  <2> QED BY <2>1, <2>2, Zenon DEF WorkedWhileCooling
<1> QED BY <1>2, <1>3, <1>4

LEMMA HedgeFilledKeeps ==
  ASSUME DeskWorks, NEW f \in DOMAIN working, HedgeFilled(f, 1)
  PROVE  DeskWorks' /\ LedgerStep /\ (WorkedWhileCooling => WorkedWhileCooling')
<1>1. PICK s \in Symbols : f = Equity(s)
  BY DEF DeskWorks, Equities
<1>2. f[2] = s
  BY <1>1 DEF Equity
<1>3. PICK q \in Int : q = working[f]
  BY DEF DeskWorks
<1>4. /\ BookFlow("hedge", CashEquity(s, q, 1))
      /\ working' = [g \in DOMAIN working \ {f} |-> working[g]]
      /\ ledger' = [ledger EXCEPT !.hedging = ledger.hedging + Magnitude(q) * 1]
      /\ UNCHANGED <<engine, hedger, now, offered>>
  BY <1>2, <1>3 DEF HedgeFilled, Restrict
<1>5. book' \in Books /\ LedgerStep
  BY <1>3, <1>4, CrbDeskAssumption, EquityIsBooked DEF DeskWorks
<1>6. /\ DOMAIN working' = DOMAIN working \ {f}
      /\ DOMAIN working' \subseteq Equities /\ working' \in [DOMAIN working' -> Int]
  BY <1>4 DEF DeskWorks
<1>7. ledger' \in [captured : Int, paid : Int, routing : Nat, hedging : Nat]
  <2>1. ledger \in [captured : Int, paid : Int, routing : Nat, hedging : Nat]
    BY DEF DeskWorks
  <2>2. ledger.hedging + Magnitude(q) * 1 \in Nat
    BY <2>1 DEF Magnitude
  <2> QED BY <1>4, <2>1, <2>2
<1>8. DeskWorks'
  BY <1>4, <1>5, <1>6, <1>7 DEF DeskWorks
<1>9. WorkedWhileCooling => WorkedWhileCooling'
  BY <1>4, <1>6 DEF WorkedWhileCooling
<1> QED BY <1>5, <1>8, <1>9

-----------------------------------------------------------------------------
(* The theorems.                                                           *)

\* What a step keeps, whichever it is.
StepKeeps ==
  /\ DeskWorks' /\ LedgerStep
  /\ LedgerAddsUp => LedgerAddsUp'
  /\ engine' # engine => WithinWarehouse
  /\ WorkedWhileCooling /\ Cooldown > 0 => WorkedWhileCooling'
  /\ WorkedWhileCooling /\ hedger'.emitted # hedger.emitted => HedgesHeal

LEMMA LedgerIsLeftAlone ==
  ASSUME UNCHANGED <<engine, offered>>,
         ledger'.captured = ledger.captured, ledger'.paid = ledger.paid, ledger'.routing = ledger.routing
  PROVE  LedgerAddsUp => LedgerAddsUp'
BY DEF LedgerAddsUp

LEMMA EveryStepKeeps ==
  ASSUME DeskWorks, [CrbNext]_crbVars
  PROVE  StepKeeps
<1>1. ASSUME NEW b \in DeskFlows, DeskBooks(b[1], b[2]) PROVE StepKeeps
  <2>1. DeskWorks' /\ LedgerStep
    BY <1>1, DeskBooksKeeps
  <2>2. UNCHANGED <<engine, ledger, hedger, now, working, offered>>
    BY <1>1 DEF DeskBooks
  <2>3. LedgerAddsUp => LedgerAddsUp'
    BY <2>2, LedgerIsLeftAlone
  <2> QED BY <2>1, <2>2, <2>3 DEF StepKeeps, WorkedWhileCooling
<1>2. ASSUME NEW p \in Pairs, NEW n \in 1..book.pending[p], FixingOccurs(p, n) PROVE StepKeeps
  <2>1. DeskWorks' /\ LedgerStep
    BY <1>2, FixingKeeps
  <2>2. UNCHANGED <<engine, ledger, hedger, now, working, offered>>
    BY <1>2 DEF FixingOccurs
  <2>3. LedgerAddsUp => LedgerAddsUp'
    BY <2>2, LedgerIsLeftAlone
  <2> QED BY <2>1, <2>2, <2>3 DEF StepKeeps, WorkedWhileCooling
<1>3. ASSUME NEW s \in Symbols, NEW q \in ClientSizes, ClientFlow(s, q) PROVE StepKeeps
  <2>1. DeskWorks' /\ LedgerStep /\ WithinWarehouse /\ (LedgerAddsUp => LedgerAddsUp')
    BY <1>3, ClientFlowKeeps
  <2>2. UNCHANGED <<hedger, now, working>>
    BY <1>3 DEF ClientFlow
  <2> QED BY <2>1, <2>2 DEF StepKeeps, WorkedWhileCooling
<1>4. CASE SizeHedger
  <2>1. DeskWorks' /\ LedgerStep /\ hedger'.emitted = hedger.emitted /\ (WorkedWhileCooling => WorkedWhileCooling')
    BY <1>4, SizeHedgerKeeps
  <2>2. UNCHANGED <<engine, ledger, offered>>
    BY <1>4 DEF SizeHedger
  <2>3. LedgerAddsUp => LedgerAddsUp'
    BY <2>2, LedgerIsLeftAlone
  <2> QED BY <2>1, <2>2, <2>3 DEF StepKeeps
<1>5. CASE AddInstrument
  <2>1. DeskWorks' /\ LedgerStep
    BY <1>5, InstrumentKeeps
  <2>2. UNCHANGED <<engine, ledger, hedger, now, working, offered>>
    BY <1>5 DEF AddInstrument
  <2>3. LedgerAddsUp => LedgerAddsUp'
    BY <2>2, LedgerIsLeftAlone
  <2> QED BY <2>1, <2>2, <2>3 DEF StepKeeps, WorkedWhileCooling
<1>6. CASE Check
  <2>1. UNCHANGED <<book, engine, ledger, now, offered>>
    BY <1>6 DEF Check
  <2>2. LedgerAddsUp => LedgerAddsUp'
    BY <2>1, LedgerIsLeftAlone
  <2>3. /\ DeskWorks' /\ LedgerStep
        /\ WorkedWhileCooling => HedgesHeal
        /\ Cooldown > 0 => WorkedWhileCooling'
    BY <1>6, CheckKeeps
  <2> QED BY <2>1, <2>2, <2>3 DEF StepKeeps
<1>7. CASE Tick
  <2>1. DeskWorks' /\ LedgerStep /\ (WorkedWhileCooling => WorkedWhileCooling')
    BY <1>7, TickKeeps
  <2>2. UNCHANGED <<engine, ledger, hedger, offered>>
    BY <1>7 DEF Tick
  <2>3. LedgerAddsUp => LedgerAddsUp'
    BY <2>2, LedgerIsLeftAlone
  <2> QED BY <2>1, <2>2, <2>3 DEF StepKeeps
<1>8. ASSUME NEW f \in DOMAIN working, HedgeFilled(f, 1) PROVE StepKeeps
  <2>1. DeskWorks' /\ LedgerStep /\ (WorkedWhileCooling => WorkedWhileCooling')
    BY <1>8, HedgeFilledKeeps
  <2>2. /\ UNCHANGED <<engine, hedger, now, offered>>
        /\ ledger' = [ledger EXCEPT !.hedging = @ + Magnitude(working[f]) * 1]
    BY <1>8 DEF HedgeFilled
  <2>3. ledger \in [captured : Int, paid : Int, routing : Nat, hedging : Nat]
    BY DEF DeskWorks
  <2>4. ledger'.captured = ledger.captured /\ ledger'.paid = ledger.paid /\ ledger'.routing = ledger.routing
    BY <2>2, <2>3
  <2>5. LedgerAddsUp => LedgerAddsUp'
    BY <2>2, <2>4, LedgerIsLeftAlone
  <2> QED BY <2>1, <2>2, <2>5 DEF StepKeeps
<1>9. CASE UNCHANGED crbVars
  <2>1. UNCHANGED <<book, engine, ledger, hedger, now, working, offered>>
    BY <1>9 DEF crbVars
  <2>2. LedgerAddsUp => LedgerAddsUp'
    BY <2>1, LedgerIsLeftAlone
  <2>3. LedgerStep
    BY <2>1, SameBookIsNoStep
  <2>4. DeskWorks'
    BY <2>1 DEF DeskWorks
  <2> QED BY <2>1, <2>2, <2>3, <2>4 DEF StepKeeps, WorkedWhileCooling
<1> QED BY <1>1, <1>2, <1>3, <1>4, <1>5, <1>6, <1>7, <1>8, <1>9 DEF CrbNext

(* In every reachable state the book's registry, arrays and fixings are    *)
(* sound, whatever order factors and desks first appear in.                *)
THEOREM DeskAlwaysWorks == CrbSpec => []DeskWorks
<1>1. CrbInit => DeskWorks
  BY InitWorks
<1>2. DeskWorks /\ [CrbNext]_crbVars => DeskWorks'
  BY EveryStepKeeps DEF StepKeeps
<1> QED BY <1>1, <1>2, PTL DEF CrbSpec

(* The arrays, the registry and the fixings implement the ledger.          *)
THEOREM ImplementsLedger == CrbSpec => Ledger!Spec
<1>1. CrbInit => Ledger!Init
  BY InitWorks
<1>2. DeskWorks /\ [CrbNext]_crbVars => [Ledger!Next]_(Ledger!vars)
  BY EveryStepKeeps DEF StepKeeps, LedgerStep
<1> QED BY <1>1, <1>2, DeskAlwaysWorks, PTL DEF CrbSpec, Ledger!Spec

(* KeepsTheLedger of crb/central_risk_book.py and crb/crb_pnl_ledger.py:   *)
(* the money adds up to the flow, and the risk is the ledger's.            *)
THEOREM LedgerIsKept == CrbSpec => KeepsTheLedger
<1>1. CrbInit => LedgerAddsUp /\ Ledger!Init
  <2>1. CrbInit => LedgerAddsUp
    BY CrbDeskAssumption DEF CrbInit, LedgerAddsUp, LitCost
  <2> QED BY <2>1, InitWorks
<1>2. DeskWorks /\ LedgerAddsUp /\ [CrbNext]_crbVars => LedgerAddsUp'
  BY EveryStepKeeps DEF StepKeeps
<1>3. DeskWorks /\ [CrbNext]_crbVars => [book' # book => [Ledger!Next]_(Ledger!vars)]_book
  BY EveryStepKeeps DEF StepKeeps, LedgerStep
<1>4. CrbSpec => []LedgerAddsUp
  BY <1>1, <1>2, DeskAlwaysWorks, PTL DEF CrbSpec
<1>5. LedgerAddsUp' => [LedgerAddsUp']_crbVars
  OBVIOUS
<1> QED BY <1>1, <1>3, <1>4, <1>5, DeskAlwaysWorks, PTL DEF CrbSpec, KeepsTheLedger, ImplementsTheLedger

(* LimitsOutrankTrades of crb/internalization_engine.py and                *)
(* crb/crb_auto_hedger.py, for a cooldown that is not zero: without one    *)
(* the hedger sends the same hedge again while the first is worked.        *)
THEOREM LimitsRule ==
  ASSUME Cooldown > 0
  PROVE  CrbSpec => LimitsOutrankTrades
<1>1. CrbInit => WorkedWhileCooling
  BY DEF CrbInit, WorkedWhileCooling
<1>2. DeskWorks /\ WorkedWhileCooling /\ [CrbNext]_crbVars => WorkedWhileCooling'
  BY EveryStepKeeps DEF StepKeeps
<1>3. DeskWorks /\ [CrbNext]_crbVars =>
        [engine' # engine =>
           \A s \in Symbols :
             Magnitude(Exposure(book', Equity(s)))
               <= Max({WarehouseLimit, Magnitude(Exposure(book, Equity(s)))})]_crbVars
  BY EveryStepKeeps DEF StepKeeps, WithinWarehouse
<1>4. DeskWorks /\ WorkedWhileCooling /\ [CrbNext]_crbVars =>
        [hedger'.emitted # hedger.emitted =>
           \A f \in DOMAIN working' :
             LET after == Exposure(book, f) + working'[f]
             IN  Magnitude(after) <= HardLimit /\ Sgn(after) # -Sgn(Exposure(book, f))]_crbVars
  BY EveryStepKeeps DEF StepKeeps, HedgesHeal, Heals
<1> QED BY <1>1, <1>2, <1>3, <1>4, DeskAlwaysWorks, PTL
        DEF CrbSpec, LimitsOutrankTrades, WarehouseLimitHolds, LimitOutranksThrift
=============================================================================
