------------------------------- MODULE L3Book -------------------------------
(***************************************************************************)
(* The participant-side full-depth book of marketdata/l3_book_builder.py:  *)
(* one FIFO of resting orders per price level, cached level totals,        *)
(* occupancy and inside prices, and a table of the participant's own       *)
(* orders whose shares-ahead is maintained in O(1) per feed event.         *)
(*                                                                         *)
(* Spec drives the book with ANY feed: unknown and duplicate references,   *)
(* off-band prices, executions that miss the queue head.  PrioritySpec     *)
(* adds what the class documents of a sound feed: an execution hits the    *)
(* head of its level.                                                      *)
(*                                                                         *)
(* The seven event tallies are unbounded and write-only; "counted" is the  *)
(* set of those the last event incremented.  last_trade_tick is write-only *)
(* and left out.                                                           *)
(***************************************************************************)
EXTENDS Integers, Sequences, FiniteSets, SequencesExt

CONSTANTS
  Refs,        (* positive order references                                *)
  BadRef,      (* stands for a reference <= 0                              *)
  Ladder,      (* number of ticks between min_price_tick and max_price_tick *)
  MaxOrders,   (* resting-order capacity                                   *)
  MaxTracked,  (* _MAX_TRACKED                                             *)
  MaxShares,   (* bound: shares of one event                               *)
  MaxSeq       (* bound: insertions in a behaviour                         *)

ASSUME L3BookAssumption ==
  /\ BadRef \notin Refs
  /\ IsFiniteSet(Refs)
  /\ Ladder \in Nat \ {0} /\ MaxOrders \in Nat \ {0} /\ MaxTracked \in Nat
  /\ MaxShares \in Nat \ {0} /\ MaxSeq \in Nat

Sides == {"BUY", "SELL"}
Ticks == 0..(Ladder - 1)
Level == Sides \X Ticks
None == -1

NoNode == [at |-> <<>>, qty |-> 0, seq |-> 0]
Node == [at : Level, qty : Nat \ {0}, seq : Nat]
Row == [ref : Refs, at : Level, seq : Nat, ahead : Nat]

VARIABLES
  book,      (* the fields of L3BookBuilder, as a record                   *)
  counted    (* the event tallies incremented by the last event            *)

vars == <<book, counted>>

-----------------------------------------------------------------------------
(* The book as a value: what each private method returns of it.            *)

Live(b) == {r \in Refs : b.orders[r] # NoNode}

EmptyBook ==
  [ orders  |-> [r \in Refs |-> NoNode],
    fifo    |-> [l \in Level |-> <<>>],
    qty     |-> [l \in Level |-> 0],
    occ     |-> [s \in Sides |-> {}],
    best    |-> [s \in Sides |-> None],
    tracked |-> <<>>,
    seq     |-> 1,
    resting |-> 0 ]

Better(side, a, b) == IF side = "BUY" THEN a > b ELSE a < b

\* The inside of a set of occupied ticks, None when there is none.
BestTick(side, occ) ==
  IF occ = {} THEN None ELSE IF side = "BUY" THEN Max(occ) ELSE Min(occ)

\* Why _insert drops an order: the tally it increments, "none" when it accepts.
InsertFault(b, ref, shares, tick) ==
  IF ref \notin Refs \/ tick \notin Ticks \/ shares <= 0
       \/ Cardinality(Live(b)) >= MaxOrders
  THEN "outOfBand"
  ELSE IF ref \in Live(b) THEN "duplicateRef" ELSE "none"

Inserted(b, ref, side, shares, tick) ==
  LET l == <<side, tick>>
      inside == b.best[side] = None \/ Better(side, tick, b.best[side])
  IN [b EXCEPT
       !.orders[ref] = [at |-> l, qty |-> shares, seq |-> b.seq],
       !.fifo[l] = Append(@, ref),
       !.qty[l] = @ + shares,
       !.occ[side] = @ \cup {tick},
       !.best[side] = IF inside THEN tick ELSE @,
       !.seq = @ + 1,
       !.resting = @ + 1]

\* Mutants: a cancel moves every tracked order up, or those it was behind.
CreditsEveryone(t, node, ref, bySeq) == t.at = node.at /\ t.ref # ref
CreditsThoseAhead(t, node, ref, bySeq) ==
  t.at = node.at /\ t.ref # ref /\ (bySeq => t.seq < node.seq)

\* Whether shares of the order "ref" were ahead of the tracked row t.
IsBehind(t, node, ref, bySeq) ==
  t.at = node.at /\ t.ref # ref /\ (bySeq => node.seq < t.seq)

\* _credit_ahead: the tracked orders that n shares leaving "ref" move up.
Credited(b, ref, n, bySeq) ==
  LET Moved(t) == IF IsBehind(t, b.orders[ref], ref, bySeq)
                  THEN [t EXCEPT !.ahead = IF t.ahead >= n THEN t.ahead - n ELSE 0]
                  ELSE t
  IN [b EXCEPT !.tracked = [i \in 1..Len(b.tracked) |-> Moved(b.tracked[i])]]

\* untrack: a tracking table without the row of ref, if it has one.
WithoutRow(rows, ref) == RemoveFirstMatch(rows, LAMBDA t : t.ref = ref)

KeepsRow(b, ref) == b                                            \* mutant

Untracked(b, ref) == [b EXCEPT !.tracked = WithoutRow(@, ref)]

\* _remove_node: unlinks a node whose shares have left the level's total.
Unlinked(b, ref) ==
  LET l == b.orders[ref].at
      side == l[1]
      tick == l[2]
      emptied == b.qty[l] = 0
      occ == IF emptied THEN b.occ[side] \ {tick} ELSE b.occ[side]
  IN [Untracked(b, ref) EXCEPT
       !.orders[ref] = NoNode,
       !.fifo[l] = IF emptied THEN <<>> ELSE RemoveFirst(@, ref),
       !.occ[side] = occ,
       !.best[side] = IF emptied /\ tick = @ THEN BestTick(side, occ) ELSE @,
       !.resting = @ - 1]

\* _reduce and _remove_whole: credit, then the level's total, then unlink.
Reduced(b, ref, shares, bySeq) ==
  LET node == b.orders[ref]
      cut == IF shares < node.qty THEN shares ELSE node.qty
      c == Credited(b, ref, cut, bySeq)
      d == [c EXCEPT !.qty[node.at] = @ - cut]
  IN IF cut = node.qty THEN Unlinked(d, ref)
                       ELSE [d EXCEPT !.orders[ref].qty = @ - cut]

RemovedWhole(b, ref) == Reduced(b, ref, b.orders[ref].qty, TRUE)

\* track: the row of a resting order, by one walk of its level's FIFO.
TotalUpTo(b, l) ==
  LET sum[i \in 0..Len(b.fifo[l])] ==
        IF i = 0 THEN 0 ELSE sum[i - 1] + b.orders[b.fifo[l][i]].qty
  IN sum

PlaceOf(b, ref) == CHOOSE i \in 1..Len(b.fifo[b.orders[ref].at]) :
                     b.fifo[b.orders[ref].at][i] = ref

SharesBefore(b, ref) == TotalUpTo(b, b.orders[ref].at)[PlaceOf(b, ref) - 1]

IsTracked(b, ref) == \E i \in 1..Len(b.tracked) : b.tracked[i].ref = ref

-----------------------------------------------------------------------------
(* Feed events and own-order tracking.                                     *)

Init == book = EmptyBook /\ counted = {}

OnAdd(ref, side, shares, tick) ==
  LET fault == InsertFault(book, ref, shares, tick)
  IN /\ book.seq <= MaxSeq
     /\ \/ /\ fault = "none"
           /\ book' = Inserted(book, ref, side, shares, tick)
           /\ counted' = {"add"}
        \/ /\ fault # "none"
           /\ counted' = {fault}
           /\ UNCHANGED book

UnknownRef(ref) ==
  /\ ref \notin Live(book)
  /\ counted' = {"unknownRef"}
  /\ UNCHANGED book

OnExecute(ref, shares) ==
  \/ UnknownRef(ref)
  \/ /\ ref \in Live(book)
     /\ book' = Reduced(book, ref, shares, FALSE)
     /\ counted' = {"execute"}

\* Mutant: a partial cancel removes the order.
OnCancelWhole(ref, shares) ==
  /\ ref \in Live(book) /\ counted' = {"cancel"} /\ book' = RemovedWhole(book, ref)

OnCancel(ref, shares) ==
  \/ UnknownRef(ref)
  \/ /\ ref \in Live(book)
     /\ book' = Reduced(book, ref, shares, TRUE)
     /\ counted' = {"cancel"}

OnDelete(ref) ==
  \/ UnknownRef(ref)
  \/ /\ ref \in Live(book)
     /\ book' = RemovedWhole(book, ref)
     /\ counted' = {"delete"}

\* Mutants: a replaced order keeps its place, or its old reference.
OnReplaceInPlace(orig, new, shares, tick) ==
  /\ orig \in Live(book) /\ orig = new /\ shares > 0 /\ counted' = {"replace"}
  /\ book' = [book EXCEPT !.orders[orig].qty = shares]
OnReplaceKeepsRef(orig, new, shares, tick) ==
  /\ orig \in Live(book) /\ shares > 0 /\ tick \in Ticks /\ counted' = {"replace"}
  /\ book' = Inserted(RemovedWhole(book, orig), orig,
                      book.orders[orig].at[1], shares, tick)

OnReplace(orig, new, shares, tick) ==
  \/ UnknownRef(orig)
  \/ LET without == RemovedWhole(book, orig)
         fault == InsertFault(without, new, shares, tick)
         side == book.orders[orig].at[1]
     IN /\ orig \in Live(book)
        /\ book.seq <= MaxSeq
        /\ \/ /\ fault = "none"
              /\ book' = Inserted(without, new, side, shares, tick)
              /\ counted' = {"replace"}
           \/ /\ fault # "none"
              /\ book' = without
              /\ counted' = {"replace", fault}

OnTrade == counted' = {"trade"} /\ UNCHANGED book

\* False for an unknown reference or a full table, and no second row for a
\* retried acknowledgement: those calls change nothing.
Track(ref) ==
  /\ ref \in Live(book) /\ ~IsTracked(book, ref)
  /\ Len(book.tracked) # MaxTracked
  /\ LET node == book.orders[ref]
         row == [ref |-> ref, at |-> node.at, seq |-> node.seq,
                 ahead |-> SharesBefore(book, ref)]
     IN book' = [book EXCEPT !.tracked = Append(@, row)]
  /\ counted' = {}

Untrack(ref) == book' = Untracked(book, ref) /\ counted' = {}

Event(executable) ==
  \/ \E ref \in Refs \cup {BadRef}, side \in Sides, shares \in 0..MaxShares,
        tick \in -1..Ladder : OnAdd(ref, side, shares, tick)
  \/ \E ref \in executable, shares \in 0..MaxShares : OnExecute(ref, shares)
  \/ \E ref \in Refs, shares \in 0..MaxShares : OnCancel(ref, shares)
  \/ \E ref \in Refs : OnDelete(ref)
  \/ \E orig \in Refs, new \in Refs \cup {BadRef}, shares \in 0..MaxShares,
        tick \in -1..Ladder : OnReplace(orig, new, shares, tick)
  \/ OnTrade
  \/ \E ref \in Refs : Track(ref) \/ Untrack(ref)

Next == Event(Refs)
Spec == Init /\ [][Next]_vars

\* The orders an execution may hit when the venue keeps price-time priority.
AtHead(b) == {r \in Refs : r \in Live(b) => PlaceOf(b, r) = 1}
PriorityNext == Event(AtHead(book))
PrioritySpec == Init /\ [][PriorityNext]_vars

-----------------------------------------------------------------------------
(* Properties.                                                             *)

Tallies == {"add", "execute", "cancel", "delete", "replace", "trade",
            "unknownRef", "outOfBand", "duplicateRef"}

Book == [orders  : [Refs -> Node \cup {NoNode}],
         fifo    : [Level -> Seq(Refs)],
         qty     : [Level -> Nat],
         occ     : [Sides -> SUBSET Ticks],
         best    : [Sides -> Ticks \cup {None}],
         tracked : Seq(Row),
         seq     : Nat \ {0},
         resting : Nat]

TypeOK == book \in Book /\ counted \subseteq Tallies

\* Every level's FIFO holds exactly the orders resting there, each once and
\* in insertion order, whatever adds, cancels and replaces came between:
\* sequence numbers decide who a cancel was ahead of (lines 167-170, 301-305).
FifoIsPriorityOrder ==
  \A l \in Level :
    LET q == book.fifo[l]
    IN /\ \A i \in 1..Len(q) : q[i] \in Live(book) /\ book.orders[q[i]].at = l
       /\ \A r \in Live(book) : book.orders[r].at = l => r \in ToSet(q)
       /\ \A i, j \in 1..Len(q) :
            i < j => book.orders[q[i]].seq < book.orders[q[j]].seq
       /\ \A i \in 1..Len(q) : book.orders[q[i]].seq < book.seq

\* The cached total of a level is the total of the orders in its FIFO, so a
\* level vanishes exactly with its last order (lines 230-236, 242, 319-322).
LevelTotalIsSum ==
  \A l \in Level : book.qty[l] = TotalUpTo(book, l)[Len(book.fifo[l])]

\* The cached inside price of a side is the best tick at which an order
\* rests: the fast paths of lines 173-178 and 323-328 lose no level.
InsideIsBestResting ==
  \A s \in Sides :
    book.best[s] = BestTick(s, {t \in Ticks : book.fifo[<<s, t>>] # <<>>})

\* A tracking row is about a live order and about this one, never about a
\* later order reusing its reference; no order has two rows; the resting
\* count is the number of live orders (lines 260-276, 311-317).
TrackingIsLive ==
  /\ \A i \in 1..Len(book.tracked) :
       LET t == book.tracked[i]
       IN /\ t.ref \in Live(book)
          /\ book.orders[t.ref].at = t.at /\ book.orders[t.ref].seq = t.seq
  /\ \A i, j \in 1..Len(book.tracked) :
       book.tracked[i].ref = book.tracked[j].ref => i = j
  /\ book.resting = Cardinality(Live(book))

\* The redundant views agree, whatever mix of handlers updated them.
ViewsAgree ==
  FifoIsPriorityOrder /\ LevelTotalIsSum /\ InsideIsBestResting /\ TrackingIsLive

\* Whatever the feed does, shares_ahead never overstates the queue: it is at
\* most what the local book holds ahead of the order (lines 295-305).
AheadNeverOverstates ==
  \A i \in 1..Len(book.tracked) :
    book.tracked[i].ahead <= SharesBefore(book, book.tracked[i].ref)

\* When executions hit the queue head, the O(1) maintenance is exact:
\* shares_ahead is what a walk of the FIFO would count (lines 19-27).
AheadIsExact ==
  \A i \in 1..Len(book.tracked) :
    book.tracked[i].ahead = SharesBefore(book, book.tracked[i].ref)

\* The book as the venue's queues: the mapping under which a feed that keeps
\* price-time priority makes this book a price-time queue.
QueueOf(b) ==
  [l \in Level |-> [i \in 1..Len(b.fifo[l]) |->
     [ref |-> b.fifo[l][i], qty |-> b.orders[b.fifo[l][i]].qty]]]

Venue == INSTANCE PriceTimeQueue WITH queue <- QueueOf(book)

\* Every step of the book is a step of a price-time queue or changes none.
ImplementsPriceTimeQueue == Venue!Spec

\* For model checking: orders are interchangeable references.
RefSymmetry == Permutations(Refs)
=============================================================================
