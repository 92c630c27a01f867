--------------------------- MODULE PriceTimeQueue ---------------------------
(***************************************************************************)
(* A venue's resting orders as price-time priority defines them: one queue *)
(* per level, the earliest order first.  An execution trades against the   *)
(* head of a queue, a partial cancel keeps its order's place, a replace    *)
(* sends the order to the back.  This is what the participant-side book of *)
(* L3Book promises to reconstruct, and the source of the feed of L3Feed.   *)
(* The venue itself is not in the repository: it is modelled from how      *)
(* marketdata/l3_book_builder.py uses its feed.                            *)
(***************************************************************************)
EXTENDS Naturals, Sequences, SequencesExt

CONSTANTS
  Refs,       (* order references                                          *)
  Level,      (* the <<side, tick>> pairs an order may rest at             *)
  MaxShares   (* bound on the shares of an order or of an event            *)

VARIABLE queue    (* [Level -> sequence of [ref, qty]], head first          *)

Order == [ref : Refs, qty : 1..MaxShares]

RefsAt(l) == {queue[l][i].ref : i \in 1..Len(queue[l])}
Resting == UNION {RefsAt(l) : l \in Level}

LevelOf(ref) == CHOOSE l \in Level : ref \in RefsAt(l)
PlaceOf(ref) == SelectInSeq(queue[LevelOf(ref)], LAMBDA o : o.ref = ref)
QtyOf(ref) == queue[LevelOf(ref)][PlaceOf(ref)].qty

\* Shares queued ahead of a resting order: the total of the orders before it.
SharesBefore(ref) ==
  LET q == queue[LevelOf(ref)]
      before[i \in 0..Len(q)] == IF i = 0 THEN 0 ELSE before[i - 1] + q[i].qty
  IN before[PlaceOf(ref) - 1]

\* The level's queue with its i-th order reduced by n, and gone when empty.
ReducedAt(q, i, n) ==
  IF n >= q[i].qty THEN RemoveAt(q, i) ELSE [q EXCEPT ![i].qty = @ - n]

-----------------------------------------------------------------------------

Init == queue = [l \in Level |-> <<>>]

Add(ref, l, shares) ==
  /\ ref \notin Resting
  /\ queue' = [queue EXCEPT ![l] = Append(@, [ref |-> ref, qty |-> shares])]

Execute(ref, n) ==
  /\ ref \in Resting /\ PlaceOf(ref) = 1
  /\ queue' = [queue EXCEPT ![LevelOf(ref)] = ReducedAt(@, 1, n)]

Cancel(ref, n) ==
  /\ ref \in Resting
  /\ queue' = [queue EXCEPT ![LevelOf(ref)] = ReducedAt(@, PlaceOf(ref), n)]

Delete(ref) ==
  /\ ref \in Resting
  /\ queue' = [queue EXCEPT ![LevelOf(ref)] = RemoveAt(@, PlaceOf(ref))]

\* The order keeps its side and joins the back of the new level.
Replace(orig, new, l, shares) ==
  /\ orig \in Resting /\ new \notin Resting \ {orig}
  /\ LET at == LevelOf(orig)
         without == [queue EXCEPT ![at] = RemoveAt(@, PlaceOf(orig))]
     IN /\ l[1] = at[1]
        /\ queue' = [without EXCEPT ![l] = Append(@, [ref |-> new, qty |-> shares])]

Next ==
  \/ \E ref \in Refs \ Resting, l \in Level, n \in 1..MaxShares : Add(ref, l, n)
  \/ \E ref \in Resting :
       \/ \E n \in 1..MaxShares :
            \/ Execute(ref, n)
            \/ Cancel(ref, n)
            \/ \E new \in Refs, l \in Level : Replace(ref, new, l, n)
       \/ Delete(ref)

\* A message that moves no order comes first: TLC tries disjuncts in order.
Step == UNCHANGED queue \/ Next
Spec == Init /\ [][Step]_queue
=============================================================================
