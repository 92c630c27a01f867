---------------------------- MODULE L3BookProofs ----------------------------
(***************************************************************************)
(* Theorems of L3Book, L3BookMC and L3Feed.  First the book alone: its     *)
(* views agree and shares_ahead never overstates.  Then whose queues it    *)
(* holds: on a feed that keeps price-time priority every event moves it as *)
(* the event moves a price-time queue, with shares_ahead exact; behind a   *)
(* venue's channel it is the venue's queues less what is in flight.        *)
(***************************************************************************)
EXTENDS L3BookMC, L3Feed, CommonLemmas

LEMMA MaxOfTicks ==
  ASSUME NEW T, T \subseteq Ticks, T # {}
  PROVE  Max(T) \in T /\ \A y \in T : y <= Max(T)
<1> DEFINE D == {Ladder - t : t \in T}
<1>1. D \subseteq Nat /\ D # {}
  <2>1. \A t \in T : Ladder - t \in Nat
    BY L3BookAssumption DEF Ticks
  <2>2. PICK t \in T : TRUE
    OBVIOUS
  <2>3. Ladder - t \in D
    OBVIOUS
  <2> QED BY <2>1, <2>3
<1>2. PICK d \in D : \A e \in D : d <= e
  <2> HIDE DEF D
  <2> QED BY <1>1, LeastElement
<1>3. PICK t \in T : d = Ladder - t
  BY <1>2
<1>4. \A y \in T : y <= t
  BY <1>2, <1>3, L3BookAssumption DEF Ticks
<1>5. \A y \in T : t >= y
  BY <1>4, L3BookAssumption DEF Ticks
<1>6. Max(T) \in T /\ \A y \in T : Max(T) >= y
  BY <1>5 DEF Max
<1> QED
  BY <1>6, L3BookAssumption DEF Ticks

\* Untracking removes one row of the reference, or nothing.
LEMMA UntrackedRows ==
  ASSUME NEW rows \in Seq(Row), NEW ref
  PROVE  \/ /\ \A i \in 1..Len(rows) : rows[i].ref # ref
            /\ WithoutRow(rows, ref) = rows
         \/ \E k \in 1..Len(rows) : /\ rows[k].ref = ref
                                    /\ WithoutRow(rows, ref) = RemoveAt(rows, k)
<1> DEFINE I == {i \in 1..Len(rows) : rows[i].ref = ref}
<1>1. CASE \E i \in 1..Len(rows) : rows[i].ref = ref
  <2>1. Min(I) \in I
    <3>1. I \subseteq Nat /\ I # {}
      BY <1>1
    <3> HIDE DEF I
    <3> QED BY <3>1, MinOfNaturals
  <2>2. WithoutRow(rows, ref) = RemoveAt(rows, Min(I))
    BY <1>1, <2>1 DEF WithoutRow, RemoveFirstMatch, SelectInSeq
  <2> QED BY <2>1, <2>2
<1>2. CASE ~ \E i \in 1..Len(rows) : rows[i].ref = ref
  BY <1>2 DEF WithoutRow, RemoveFirstMatch
<1> QED
  BY <1>1, <1>2

-----------------------------------------------------------------------------
(* The inductive invariant, over the book as a value.                      *)

\* FIFOs hold the live orders of their level, in order of insertion.
FifosSorted(b) ==
  /\ \A l \in Level :
       /\ \A i \in 1..Len(b.fifo[l]) :
            /\ b.fifo[l][i] \in Live(b)
            /\ b.orders[b.fifo[l][i]].at = l
            /\ b.orders[b.fifo[l][i]].seq < b.seq
       /\ \A i, j \in 1..Len(b.fifo[l]) :
            i < j => b.orders[b.fifo[l][i]].seq < b.orders[b.fifo[l][j]].seq
  /\ \A r \in Live(b) : \E i \in 1..Len(b.fifo[b.orders[r].at]) :
       b.fifo[b.orders[r].at][i] = r

RowsLive(b) ==
  /\ \A i \in 1..Len(b.tracked) :
       /\ b.tracked[i].ref \in Live(b)
       /\ b.orders[b.tracked[i].ref].at = b.tracked[i].at
       /\ b.orders[b.tracked[i].ref].seq = b.tracked[i].seq
  /\ \A i, j \in 1..Len(b.tracked) :
       b.tracked[i].ref = b.tracked[j].ref => i = j

CountIsLive(b) == IsFiniteSet(Live(b)) /\ b.resting = Cardinality(Live(b))

InsideCached(b) ==
  \A s \in Sides :
    /\ \A t \in Ticks : t \in b.occ[s] <=> b.fifo[<<s, t>>] # <<>>
    /\ b.best[s] = BestTick(s, b.occ[s])

\* p holds the running totals of a level's FIFO.  They are strictly
\* increasing, so a level whose total is 0 is empty; its last is the cached
\* total; and the one before an order bounds the order's shares-ahead, or is
\* equal to it when every execution has hit the head.
RunningTotals(b, l, p, exact) ==
  /\ p \in [0..Len(b.fifo[l]) -> Nat]
  /\ p[0] = 0
  /\ \A i \in 1..Len(b.fifo[l]) : p[i] = p[i - 1] + b.orders[b.fifo[l][i]].qty
  /\ \A i, j \in 0..Len(b.fifo[l]) : i < j => p[i] < p[j]
  /\ p[Len(b.fifo[l])] = b.qty[l]
  /\ \A i \in 1..Len(b.tracked), k \in 1..Len(b.fifo[l]) :
       b.tracked[i].ref = b.fifo[l][k] =>
         /\ b.tracked[i].ahead <= p[k - 1]
         /\ exact => b.tracked[i].ahead = p[k - 1]

TotalsKept(b, exact) == \A l \in Level : \E p : RunningTotals(b, l, p, exact)

BookInv(b, exact) ==
  /\ b \in Book
  /\ FifosSorted(b) /\ RowsLive(b) /\ CountIsLive(b) /\ InsideCached(b)
  /\ TotalsKept(b, exact)

\* The order of the FIFOs is a matter of where the live orders are and when
\* they came, of the FIFOs and of the counter.
LEMMA SortedInPlace ==
  ASSUME NEW b, NEW c, FifosSorted(b),
         c.fifo = b.fifo, c.seq = b.seq, Live(c) = Live(b),
         \A r \in Live(b) : c.orders[r].at = b.orders[r].at /\ c.orders[r].seq = b.orders[r].seq
  PROVE  FifosSorted(c)
<1>1. ASSUME NEW l \in Level
      PROVE  /\ \A i \in 1..Len(c.fifo[l]) :
                  /\ c.fifo[l][i] \in Live(c)
                  /\ c.orders[c.fifo[l][i]].at = l
                  /\ c.orders[c.fifo[l][i]].seq < c.seq
             /\ \A i, j \in 1..Len(c.fifo[l]) :
                  i < j => c.orders[c.fifo[l][i]].seq < c.orders[c.fifo[l][j]].seq
  <2>1. PICK f : f = b.fifo[l]
    OBVIOUS
  <2>2. c.fifo[l] = f
    BY <2>1
  <2>3. ASSUME NEW i \in 1..Len(f)
        PROVE  /\ f[i] \in Live(b)
               /\ b.orders[f[i]].at = l
               /\ b.orders[f[i]].seq < b.seq
    BY <2>1 DEF FifosSorted
  <2>4. ASSUME NEW i \in 1..Len(f), NEW j \in 1..Len(f), i < j
        PROVE  b.orders[f[i]].seq < b.orders[f[j]].seq
    BY <2>1, <2>4 DEF FifosSorted
  <2>5. ASSUME NEW i \in 1..Len(f)
        PROVE  c.orders[f[i]].at = l /\ c.orders[f[i]].seq = b.orders[f[i]].seq
    BY <2>3
  <2> QED BY <2>2, <2>3, <2>4, <2>5
<1>2. ASSUME NEW r \in Live(c)
      PROVE  \E i \in 1..Len(c.fifo[c.orders[r].at]) : c.fifo[c.orders[r].at][i] = r
  <2>1. \E i \in 1..Len(b.fifo[b.orders[r].at]) : b.fifo[b.orders[r].at][i] = r
    BY DEF FifosSorted
  <2>2. PICK l : l = b.orders[r].at
    OBVIOUS
  <2>3. c.orders[r].at = l /\ c.fifo[l] = b.fifo[l]
    BY <2>2
  <2> QED BY <2>1, <2>2, <2>3
<1> QED
  BY <1>1, <1>2 DEF FifosSorted

LEMMA SortedAlike ==
  ASSUME NEW b, NEW c, FifosSorted(b),
         c.orders = b.orders, c.fifo = b.fifo, c.seq = b.seq
  PROVE  FifosSorted(c)
<1>1. Live(c) = Live(b)
  BY DEF Live
<1> QED
  BY <1>1, SortedInPlace

LEMMA LevelParts ==
  ASSUME NEW l \in Level
  PROVE  l[1] \in Sides /\ l[2] \in Ticks /\ l = <<l[1], l[2]>>
BY DEF Level

LEMMA EmptyBookInv ==
  ASSUME NEW exact \in BOOLEAN
  PROVE  BookInv(EmptyBook, exact)
<1>1. EmptyBook \in Book
  BY DEF EmptyBook, Book, None
<1>2. Live(EmptyBook) = {}
  BY DEF EmptyBook, Live
<1>3. FifosSorted(EmptyBook) /\ RowsLive(EmptyBook)
  <2>1. \A l \in Level : Len(EmptyBook.fifo[l]) = 0
    BY DEF EmptyBook
  <2>2. Len(EmptyBook.tracked) = 0
    BY DEF EmptyBook
  <2> QED BY <1>2, <2>1, <2>2 DEF FifosSorted, RowsLive
<1>4. CountIsLive(EmptyBook)
  BY <1>2, FS_EmptySet DEF EmptyBook, CountIsLive
<1>5. InsideCached(EmptyBook)
  BY DEF EmptyBook, InsideCached, BestTick, Level
<1>6. ASSUME NEW l \in Level
      PROVE  RunningTotals(EmptyBook, l, [i \in 0..0 |-> 0], exact)
  BY DEF EmptyBook, RunningTotals
<1> QED
  BY <1>1, <1>3, <1>4, <1>5, <1>6 DEF BookInv, TotalsKept

\* The inside of a set of ticks does not move when a tick that is not better
\* is added, and is the tick when it is.
LEMMA InsideAfterAdd ==
  ASSUME NEW s \in Sides, NEW occ \in SUBSET Ticks, NEW t \in Ticks,
         NEW best, best = BestTick(s, occ)
  PROVE  BestTick(s, occ \cup {t}) =
           IF best = None \/ Better(s, t, best) THEN t ELSE best
<1>1. Ticks \subseteq Nat /\ None \notin Nat
  BY L3BookAssumption DEF Ticks, None
<1>2. PICK new : new = occ \cup {t}
  OBVIOUS
<1>3. new \subseteq Ticks /\ new # {} /\ new \subseteq Nat /\ occ \subseteq Nat
  BY <1>1, <1>2
<1>4. CASE s = "BUY"
  <2>1. PICK m : m = Max(new) /\ m \in new /\ \A y \in new : y <= m
    BY <1>3, MaxOfTicks
  <2>2. BestTick(s, new) = m
    BY <1>3, <1>4, <2>1 DEF BestTick
  <2>3. CASE occ = {}
    BY <1>2, <1>4, <2>1, <2>2, <2>3 DEF BestTick
  <2>4. CASE occ # {}
    <3>1. PICK o : o = Max(occ) /\ o \in occ /\ \A y \in occ : y <= o
      BY <2>4, MaxOfTicks
    <3>2. best = o
      BY <1>4, <2>4, <3>1 DEF BestTick
    <3>3. best # None /\ (Better(s, t, best) <=> t > o)
      BY <1>1, <1>3, <1>4, <3>1, <3>2 DEF Better
    <3>4. m = IF t > o THEN t ELSE o
      BY <1>1, <1>2, <1>3, <2>1, <3>1
    <3> QED
      BY <1>2, <2>2, <3>2, <3>3, <3>4
  <2> QED BY <2>3, <2>4
<1>5. CASE s = "SELL"
  <2>1. PICK m : m = Min(new) /\ m \in new /\ \A y \in new : m <= y
    BY <1>3, MinOfNaturals
  <2>2. BestTick(s, new) = m
    BY <1>3, <1>5, <2>1 DEF BestTick
  <2>3. CASE occ = {}
    BY <1>2, <1>5, <2>1, <2>2, <2>3 DEF BestTick
  <2>4. CASE occ # {}
    <3>1. PICK o : o = Min(occ) /\ o \in occ /\ \A y \in occ : o <= y
      BY <1>3, <2>4, MinOfNaturals
    <3>2. best = o
      BY <1>5, <2>4, <3>1 DEF BestTick
    <3>3. best # None /\ (Better(s, t, best) <=> t < o)
      BY <1>1, <1>3, <1>5, <3>1, <3>2 DEF Better
    <3>4. m = IF t < o THEN t ELSE o
      BY <1>1, <1>2, <1>3, <2>1, <3>1
    <3> QED
      BY <1>2, <2>2, <3>2, <3>3, <3>4
  <2> QED BY <2>3, <2>4
<1> QED
  BY <1>4, <1>5 DEF Sides

LEMMA InsideInTicks ==
  ASSUME NEW s \in Sides, NEW occ, occ \subseteq Ticks
  PROVE  BestTick(s, occ) \in Ticks \cup {None}
<1>1. Ticks \subseteq Nat
  BY L3BookAssumption DEF Ticks
<1>2. CASE occ = {}
  BY <1>2 DEF BestTick
<1>3. CASE occ # {}
  <2>1. Max(occ) \in occ /\ Min(occ) \in occ
    BY <1>1, <1>3, MaxOfTicks, MinOfNaturals
  <2> QED BY <1>3, <2>1 DEF BestTick
<1> QED
  BY <1>2, <1>3

\* Emptying a tick that is not the inside does not move the inside.
LEMMA InsideAfterRemove ==
  ASSUME NEW s \in Sides, NEW occ \in SUBSET Ticks, NEW t \in Ticks,
         t # BestTick(s, occ)
  PROVE  BestTick(s, occ \ {t}) = BestTick(s, occ)
<1>1. Ticks \subseteq Nat
  BY L3BookAssumption DEF Ticks
<1>2. PICK new : new = occ \ {t}
  OBVIOUS
<1>3. CASE occ = {}
  BY <1>3 DEF BestTick
<1>4. CASE occ # {} /\ s = "BUY"
  <2>1. PICK o : o = Max(occ) /\ o \in occ /\ \A y \in occ : y <= o
    BY <1>4, MaxOfTicks
  <2>2. BestTick(s, occ) = o
    BY <1>4, <2>1 DEF BestTick
  <2>3. o \in new /\ new # {} /\ new \subseteq Ticks
    BY <1>2, <2>1, <2>2
  <2>4. PICK m : m = Max(new) /\ m \in new /\ \A y \in new : y <= m
    BY <2>3, MaxOfTicks
  <2>5. m = o
    <3>1. o \in Nat /\ m \in Nat /\ m \in occ
      BY <1>1, <1>2, <2>1, <2>3, <2>4
    <3> QED BY <2>1, <2>3, <2>4, <3>1
  <2> QED BY <1>2, <1>4, <2>2, <2>3, <2>4, <2>5 DEF BestTick
<1>5. CASE occ # {} /\ s = "SELL"
  <2>1. PICK o : o = Min(occ) /\ o \in occ /\ \A y \in occ : o <= y
    BY <1>1, <1>5, MinOfNaturals
  <2>2. BestTick(s, occ) = o
    BY <1>5, <2>1 DEF BestTick
  <2>3. o \in new /\ new # {} /\ new \subseteq Nat
    BY <1>1, <1>2, <2>1, <2>2
  <2>4. PICK m : m = Min(new) /\ m \in new /\ \A y \in new : m <= y
    BY <2>3, MinOfNaturals
  <2>5. m = o
    <3>1. o \in Nat /\ m \in Nat /\ m \in occ
      BY <1>1, <1>2, <2>1, <2>3, <2>4
    <3> QED BY <2>1, <2>3, <2>4, <3>1
  <2> QED BY <1>2, <1>5, <2>2, <2>3, <2>4, <2>5 DEF BestTick
<1> QED
  BY <1>3, <1>4, <1>5 DEF Sides

Fields == {"orders", "fifo", "qty", "occ", "best", "tracked", "seq", "resting"}

LEMMA InsertedFields ==
  ASSUME NEW b \in Book, NEW ref \in Refs, NEW side \in Sides,
         NEW tick \in Ticks, NEW shares \in Nat \ {0}
  PROVE  LET c == Inserted(b, ref, side, shares, tick)
         IN c = [orders |-> c.orders, fifo |-> c.fifo, qty |-> c.qty,
                 occ |-> c.occ, best |-> c.best, tracked |-> c.tracked,
                 seq |-> c.seq, resting |-> c.resting]
<1> DEFINE c == Inserted(b, ref, side, shares, tick)
<1>1. DOMAIN b = Fields
  BY DEF Book, Fields
<1>2. c = [f \in Fields |-> c[f]]
  BY <1>1 DEF Inserted
<1> HIDE DEF c
<1>3. c = [orders |-> c.orders, fifo |-> c.fifo, qty |-> c.qty,
           occ |-> c.occ, best |-> c.best, tracked |-> c.tracked,
           seq |-> c.seq, resting |-> c.resting]
  BY <1>2 DEF Fields
<1> QED
  BY <1>3 DEF c

LEMMA InsertedInv ==
  ASSUME NEW exact \in BOOLEAN, NEW b, BookInv(b, exact),
         NEW ref \in Refs \ Live(b), NEW side \in Sides, NEW tick \in Ticks,
         NEW shares \in Nat \ {0}
  PROVE  BookInv(Inserted(b, ref, side, shares, tick), exact)
<1> DEFINE c == Inserted(b, ref, side, shares, tick)
           k == <<side, tick>>
           node == [at |-> k, qty |-> shares, seq |-> b.seq]
           inside == b.best[side] = None \/ Better(side, tick, b.best[side])
<1>1. /\ b \in Book /\ k \in Level /\ node \in Node /\ node # NoNode
      /\ k = <<side, tick>> /\ node.at = k /\ node.qty = shares /\ node.seq = b.seq
  BY DEF BookInv, Level, Node, NoNode, Book
<1>2. /\ c.orders = [b.orders EXCEPT ![ref] = node]
      /\ c.fifo = [b.fifo EXCEPT ![k] = Append(@, ref)]
      /\ c.qty = [b.qty EXCEPT ![k] = @ + shares]
      /\ c.occ = [b.occ EXCEPT ![side] = @ \cup {tick}]
      /\ c.best = [b.best EXCEPT ![side] = IF inside THEN tick ELSE @]
      /\ c.tracked = b.tracked
      /\ c.seq = b.seq + 1
      /\ c.resting = b.resting + 1
  BY <1>1 DEF Inserted, Book
<1> HIDE DEF k, node, inside
<1>3. c \in Book
  <2>1. c = [orders |-> c.orders, fifo |-> c.fifo, qty |-> c.qty, occ |-> c.occ,
             best |-> c.best, tracked |-> c.tracked, seq |-> c.seq,
             resting |-> c.resting]
    BY <1>1, InsertedFields
  <2>2. c.orders \in [Refs -> Node \cup {NoNode}]
    BY <1>1, <1>2 DEF Book
  <2>3. c.fifo \in [Level -> Seq(Refs)]
    BY <1>1, <1>2 DEF Book
  <2>4. c.qty \in [Level -> Nat]
    BY <1>1, <1>2 DEF Book
  <2>5. c.occ \in [Sides -> SUBSET Ticks] /\ c.best \in [Sides -> Ticks \cup {None}]
    BY <1>1, <1>2 DEF Book
  <2>6. c.tracked \in Seq(Row) /\ c.seq \in Nat \ {0} /\ c.resting \in Nat
    BY <1>1, <1>2 DEF Book
  <2> HIDE DEF c
  <2> QED BY <2>1, <2>2, <2>3, <2>4, <2>5, <2>6 DEF Book
<1> HIDE DEF c
<1>4. Live(c) = Live(b) \cup {ref}
  BY <1>1, <1>2 DEF Live, Book
<1>5. \A r \in Live(b) : c.orders[r] = b.orders[r]
  BY <1>1, <1>2 DEF Live, Book
<1>6. \A l \in Level : l # k => c.fifo[l] = b.fifo[l] /\ c.qty[l] = b.qty[l]
  BY <1>1, <1>2 DEF Book
<1>7. /\ Len(c.fifo[k]) = Len(b.fifo[k]) + 1
      /\ c.fifo[k][Len(b.fifo[k]) + 1] = ref
      /\ \A i \in 1..Len(b.fifo[k]) : c.fifo[k][i] = b.fifo[k][i]
      /\ Len(b.fifo[k]) \in Nat
  <2>1. b.fifo[k] \in Seq(Refs) /\ c.fifo[k] = Append(b.fifo[k], ref)
    BY <1>1, <1>2 DEF Book
  <2> QED BY <2>1
<1>8. c.orders[ref] = node
  BY <1>1, <1>2 DEF Book
<1>9. \A l \in Level : b.fifo[l] \in Seq(Refs)
  BY <1>1 DEF Book
<1>10. \A r \in Live(b) : b.orders[r] \in Node
  BY <1>1 DEF Book, Live
<1>11. FifosSorted(c)
  <2>1. ASSUME NEW l \in Level
        PROVE  /\ \A i \in 1..Len(c.fifo[l]) :
                    /\ c.fifo[l][i] \in Live(c)
                    /\ c.orders[c.fifo[l][i]].at = l
                    /\ c.orders[c.fifo[l][i]].seq < c.seq
               /\ \A i, j \in 1..Len(c.fifo[l]) :
                    i < j => c.orders[c.fifo[l][i]].seq < c.orders[c.fifo[l][j]].seq
    <3>0. b.seq \in Nat /\ c.seq = b.seq + 1
      BY <1>1, <1>2 DEF Book
    <3>1. \A i \in 1..Len(b.fifo[l]) :
            /\ b.fifo[l][i] \in Live(b) /\ c.orders[b.fifo[l][i]] = b.orders[b.fifo[l][i]]
            /\ b.orders[b.fifo[l][i]].at = l
            /\ b.orders[b.fifo[l][i]].seq < b.seq
            /\ b.orders[b.fifo[l][i]].seq \in Nat
      BY <1>5, <1>10 DEF BookInv, FifosSorted, Node
    <3>2. \A i, j \in 1..Len(b.fifo[l]) :
            i < j => b.orders[b.fifo[l][i]].seq < b.orders[b.fifo[l][j]].seq
      BY DEF BookInv, FifosSorted
    <3>3. CASE l # k
      <4>1. c.fifo[l] = b.fifo[l]
        BY <3>3, <1>6
      <4>2. \A i \in 1..Len(b.fifo[l]) : b.orders[b.fifo[l][i]].seq < b.seq + 1
        BY <3>0, <3>1
      <4>3. \A i \in 1..Len(c.fifo[l]) :
              /\ c.fifo[l][i] \in Live(c) /\ c.orders[c.fifo[l][i]].at = l
              /\ c.orders[c.fifo[l][i]].seq < c.seq
        BY <3>0, <3>1, <1>4, <4>1, <4>2
      <4>4. \A i, j \in 1..Len(c.fifo[l]) :
              i < j => c.orders[c.fifo[l][i]].seq < c.orders[c.fifo[l][j]].seq
        BY <3>1, <3>2, <4>1
      <4> QED BY <4>3, <4>4
    <3>4. CASE l = k
      <4>1. \A i \in 1..Len(c.fifo[k]) : i \in 1..Len(b.fifo[k]) \/ i = Len(b.fifo[k]) + 1
        BY <1>7
      <4>2. \A i \in 1..Len(c.fifo[k]) :
              /\ c.fifo[k][i] \in Live(c) /\ c.orders[c.fifo[k][i]].at = k
              /\ c.orders[c.fifo[k][i]].seq < c.seq
        <5> SUFFICES ASSUME NEW i \in 1..Len(c.fifo[k])
                     PROVE  /\ c.fifo[k][i] \in Live(c)
                            /\ c.orders[c.fifo[k][i]].at = k
                            /\ c.orders[c.fifo[k][i]].seq < c.seq
          OBVIOUS
        <5>1. CASE i \in 1..Len(b.fifo[k])
          <6>1. c.fifo[k][i] = b.fifo[k][i]
            BY <5>1, <1>7
          <6>2. /\ b.fifo[k][i] \in Live(c)
                /\ c.orders[b.fifo[k][i]].at = k
                /\ c.orders[b.fifo[k][i]].seq \in Nat
                /\ c.orders[b.fifo[k][i]].seq < b.seq
            BY <5>1, <3>1, <3>4, <1>4
          <6> QED BY <6>1, <6>2, <3>0
        <5>2. CASE i = Len(b.fifo[k]) + 1
          BY <5>2, <3>0, <1>1, <1>4, <1>7, <1>8
        <5> QED BY <4>1, <5>1, <5>2
      <4>3. \A i, j \in 1..Len(c.fifo[k]) :
              i < j => c.orders[c.fifo[k][i]].seq < c.orders[c.fifo[k][j]].seq
        <5> SUFFICES ASSUME NEW i \in 1..Len(c.fifo[k]), NEW j \in 1..Len(c.fifo[k]),
                            i < j
                     PROVE  c.orders[c.fifo[k][i]].seq < c.orders[c.fifo[k][j]].seq
          OBVIOUS
        <5>1. i \in 1..Len(b.fifo[k])
          BY <1>7
        <5>2. CASE j \in 1..Len(b.fifo[k])
          <6>1. c.fifo[k][i] = b.fifo[k][i] /\ c.fifo[k][j] = b.fifo[k][j]
            BY <5>1, <5>2, <1>7
          <6>2. /\ c.orders[b.fifo[k][i]] = b.orders[b.fifo[k][i]]
                /\ c.orders[b.fifo[k][j]] = b.orders[b.fifo[k][j]]
            BY <5>1, <5>2, <3>1, <3>4
          <6>3. b.orders[b.fifo[k][i]].seq < b.orders[b.fifo[k][j]].seq
            BY <5>1, <5>2, <3>2, <3>4
          <6> QED BY <6>1, <6>2, <6>3
        <5>3. CASE j = Len(b.fifo[k]) + 1
          BY <5>1, <5>3, <3>1, <3>4, <1>1, <1>7, <1>8
        <5> QED BY <4>1, <5>2, <5>3
      <4> QED BY <3>4, <4>2, <4>3
    <3> QED BY <3>3, <3>4
  <2>2. ASSUME NEW r \in Live(c)
        PROVE  \E i \in 1..Len(c.fifo[c.orders[r].at]) : c.fifo[c.orders[r].at][i] = r
    <3>1. CASE r = ref
      <4>1. c.orders[r].at = k
        BY <3>1, <1>1, <1>8
      <4>2. c.fifo[k][Len(b.fifo[k]) + 1] = ref /\ Len(c.fifo[k]) = Len(b.fifo[k]) + 1
        BY <1>7
      <4>3. Len(b.fifo[k]) + 1 \in 1..Len(c.fifo[k])
        BY <1>7, <4>2
      <4> QED BY <3>1, <4>1, <4>2, <4>3
    <3>2. CASE r \in Live(b)
      <4>1. PICK i \in 1..Len(b.fifo[b.orders[r].at]) : b.fifo[b.orders[r].at][i] = r
        BY <3>2 DEF BookInv, FifosSorted
      <4>2. c.orders[r] = b.orders[r] /\ b.orders[r].at \in Level
        BY <3>2, <1>5, <1>10 DEF Node
      <4>3. CASE b.orders[r].at = k
        BY <4>1, <4>2, <4>3, <1>7
      <4>4. CASE b.orders[r].at # k
        BY <4>1, <4>2, <4>4, <1>6
      <4> QED BY <4>3, <4>4
    <3> QED BY <3>1, <3>2, <1>4
  <2> QED BY <2>1, <2>2 DEF FifosSorted
<1>12. RowsLive(c)
  BY <1>2, <1>4, <1>5 DEF BookInv, RowsLive
<1>13. CountIsLive(c)
  <2>1. /\ IsFiniteSet(Live(b) \cup {ref})
        /\ Cardinality(Live(b) \cup {ref}) = Cardinality(Live(b)) + 1
    BY FS_AddElement DEF BookInv, CountIsLive
  <2> QED BY <2>1, <1>2, <1>4 DEF BookInv, CountIsLive
<1>14. InsideCached(c)
  <2>1. ASSUME NEW s \in Sides, NEW t \in Ticks
        PROVE  t \in c.occ[s] <=> c.fifo[<<s, t>>] # <<>>
    <3>1. t \in b.occ[s] <=> b.fifo[<<s, t>>] # <<>>
      BY DEF BookInv, InsideCached
    <3>2. CASE s = side /\ t = tick
      <4>1. c.fifo[k] # <<>>
        BY <1>7, <1>9
      <4>2. c.occ[side] = b.occ[side] \cup {tick}
        BY <1>1, <1>2 DEF Book
      <4> QED BY <3>2, <4>1, <4>2, <1>1
    <3>3. CASE ~(s = side /\ t = tick)
      <4>1. <<s, t>> \in Level /\ <<s, t>> # k
        BY <3>3, <1>1 DEF Level
      <4>2. t \in c.occ[s] <=> t \in b.occ[s]
        BY <3>3, <1>1, <1>2 DEF Book
      <4> QED BY <3>1, <4>1, <4>2, <1>6
    <3> QED BY <3>2, <3>3
  <2>2. ASSUME NEW s \in Sides
        PROVE  c.best[s] = BestTick(s, c.occ[s])
    <3>1. b.best[s] = BestTick(s, b.occ[s]) /\ b.occ[s] \in SUBSET Ticks
      BY <1>1 DEF BookInv, InsideCached, Book
    <3>2. CASE s = side
      <4>1. c.occ[s] = b.occ[s] \cup {tick} /\ c.best[s] = IF inside THEN tick ELSE b.best[s]
        BY <3>2, <1>1, <1>2 DEF Book
      <4> QED BY <3>1, <3>2, <4>1, InsideAfterAdd DEF inside
    <3>3. CASE s # side
      BY <3>1, <3>3, <1>1, <1>2 DEF Book
    <3> QED BY <3>2, <3>3
  <2> QED BY <2>1, <2>2 DEF InsideCached
<1>15. TotalsKept(c, exact)
  <2> SUFFICES ASSUME NEW l \in Level
               PROVE  \E p : RunningTotals(c, l, p, exact)
    BY DEF TotalsKept
  <2>1. PICK p : RunningTotals(b, l, p, exact)
    BY DEF BookInv, TotalsKept
  <2>2. \A i \in 1..Len(b.fifo[l]) : c.orders[b.fifo[l][i]] = b.orders[b.fifo[l][i]]
    BY <1>5 DEF BookInv, FifosSorted
  <2>3. CASE l # k
    <3>1. c.fifo[l] = b.fifo[l] /\ c.qty[l] = b.qty[l] /\ c.tracked = b.tracked
      BY <2>3, <1>2, <1>6
    <3>2. \A i \in 1..Len(c.fifo[l]) : p[i] = p[i - 1] + c.orders[c.fifo[l][i]].qty
      BY <2>1, <2>2, <3>1 DEF RunningTotals
    <3>3. RunningTotals(c, l, p, exact)
      BY <2>1, <3>1, <3>2 DEF RunningTotals
    <3> QED BY <3>3
  <2>4. CASE l = k
    <3>1. PICK n : n = Len(b.fifo[k]) /\ n \in Nat
      BY <1>7
    <3>2. /\ p \in [0..n -> Nat] /\ p[0] = 0 /\ p[n] = b.qty[k]
          /\ \A i \in 1..n : p[i] = p[i - 1] + b.orders[b.fifo[k][i]].qty
          /\ \A i, j \in 0..n : i < j => p[i] < p[j]
          /\ \A i \in 1..Len(b.tracked), j \in 1..n :
               b.tracked[i].ref = b.fifo[k][j] =>
                 /\ b.tracked[i].ahead <= p[j - 1]
                 /\ exact => b.tracked[i].ahead = p[j - 1]
      BY <2>1, <2>4, <3>1 DEF RunningTotals
    <3>3. /\ Len(c.fifo[k]) = n + 1 /\ c.fifo[k][n + 1] = ref
          /\ \A i \in 1..n : c.fifo[k][i] = b.fifo[k][i]
      BY <1>7, <3>1
    <3> DEFINE q == [i \in 0..(n + 1) |-> IF i <= n THEN p[i] ELSE p[n] + shares]
    <3>4. \A i \in 0..n : q[i] = p[i] /\ p[i] \in Nat
      BY <3>1, <3>2
    <3>5. q[n + 1] = p[n] + shares /\ q[n + 1] \in Nat
      <4>1. n \in 0..n /\ n + 1 \in 0..(n + 1) /\ ~(n + 1 <= n)
        BY <3>1
      <4>2. p[n] \in Nat
        BY <3>4, <4>1
      <4> QED BY <4>1, <4>2
    <3>6. q \in [0..(n + 1) -> Nat]
      BY <3>1, <3>2
    <3> HIDE DEF q
    <3>7. \A i \in 1..(n + 1) : i \in 1..n \/ i = n + 1
      BY <3>1
    <3>8. \A i \in 1..(n + 1) : q[i] = q[i - 1] + c.orders[c.fifo[k][i]].qty
      <4>1. ASSUME NEW i \in 1..n
            PROVE  q[i] = q[i - 1] + c.orders[c.fifo[k][i]].qty
        <5>1. i \in 0..n /\ i - 1 \in 0..n
          BY <3>1
        <5>2. c.orders[c.fifo[k][i]] = b.orders[b.fifo[k][i]]
          BY <2>2, <2>4, <3>1, <3>3
        <5> QED BY <3>2, <3>4, <5>1, <5>2
      <4>2. q[n + 1] = q[(n + 1) - 1] + c.orders[c.fifo[k][n + 1]].qty
        <5>1. c.orders[c.fifo[k][n + 1]].qty = shares
          BY <1>1, <1>8, <3>3
        <5>2. (n + 1) - 1 = n /\ n \in 0..n
          BY <3>1
        <5> QED BY <3>4, <3>5, <5>1, <5>2
      <4> QED BY <4>1, <4>2, <3>7
    <3>9. \A i, j \in 0..(n + 1) : i < j => q[i] < q[j]
      <4>1. \A i \in 0..n : p[i] <= p[n]
        <5> TAKE i \in 0..n
        <5>1. i = n \/ i < n
          BY <3>1
        <5> QED BY <5>1, <3>1, <3>2, <3>4
      <4>2. \A i \in 0..n : q[i] < q[n + 1]
        BY <4>1, <3>1, <3>4, <3>5
      <4>3. ASSUME NEW i \in 0..(n + 1), NEW j \in 0..(n + 1), i < j
            PROVE  q[i] < q[j]
        <5>1. i \in 0..n /\ (j \in 0..n \/ j = n + 1)
          BY <3>1, <4>3
        <5> QED BY <5>1, <4>2, <4>3, <3>2, <3>4
      <4> QED BY <4>3
    <3>10. q[n + 1] = c.qty[k]
      <4>1. c.qty[k] = b.qty[k] + shares
        BY <1>1, <1>2 DEF Book
      <4> QED BY <3>2, <3>5, <4>1
    <3>11. ASSUME NEW i \in 1..Len(c.tracked), NEW j \in 1..(n + 1),
                  c.tracked[i].ref = c.fifo[k][j]
           PROVE  c.tracked[i].ahead <= q[j - 1] /\ (exact => c.tracked[i].ahead = q[j - 1])
      <4>1. c.tracked = b.tracked /\ c.tracked[i].ref # ref
        BY <1>2 DEF BookInv, RowsLive
      <4>2. j \in 1..n
        BY <3>3, <3>7, <3>11, <4>1
      <4>3. j - 1 \in 0..n
        BY <3>1, <4>2
      <4>4. /\ b.tracked[i].ref = b.fifo[k][j]
            /\ b.tracked[i] = c.tracked[i]
            /\ i \in 1..Len(b.tracked)
        BY <3>3, <3>11, <4>1, <4>2
      <4>5. /\ b.tracked[i].ahead <= p[j - 1]
            /\ exact => b.tracked[i].ahead = p[j - 1]
        BY <3>2, <4>2, <4>4
      <4>6. q[j - 1] = p[j - 1]
        BY <3>4, <4>3
      <4> QED BY <4>4, <4>5, <4>6
    <3>12. q[0] = 0
      BY <3>1, <3>2, <3>4
    <3>13. RunningTotals(c, k, q, exact)
      BY <3>3, <3>6, <3>8, <3>9, <3>10, <3>11, <3>12 DEF RunningTotals
    <3> QED BY <2>4, <3>13
  <2> QED BY <2>3, <2>4
<1> QED
  BY <1>3, <1>11, <1>12, <1>13, <1>14, <1>15 DEF BookInv, c

\* The tracking table after a credit: rows keep everything but shares-ahead.
RowsCredited(b, ref, n, bySeq, rows) ==
  /\ rows \in Seq(Row) /\ Len(rows) = Len(b.tracked)
  /\ \A i \in 1..Len(b.tracked) :
       /\ rows[i].ref = b.tracked[i].ref
       /\ rows[i].at = b.tracked[i].at
       /\ rows[i].seq = b.tracked[i].seq
       /\ rows[i].ahead =
            IF /\ b.tracked[i].at = b.orders[ref].at /\ b.tracked[i].ref # ref
               /\ bySeq => b.orders[ref].seq < b.tracked[i].seq
            THEN IF b.tracked[i].ahead >= n THEN b.tracked[i].ahead - n ELSE 0
            ELSE b.tracked[i].ahead

\* Credited is such a table.
LEMMA CreditedRows ==
  ASSUME NEW b \in Book, NEW ref \in Refs, NEW n \in Nat, NEW bySeq \in BOOLEAN
  PROVE  RowsCredited(b, ref, n, bySeq, Credited(b, ref, n, bySeq).tracked)
<1> DEFINE node == b.orders[ref]
           Ahead(t) == /\ t.at = node.at /\ t.ref # ref
                       /\ bySeq => node.seq < t.seq
           Moved(t) == IF Ahead(t)
                       THEN [t EXCEPT !.ahead = IF t.ahead >= n THEN t.ahead - n ELSE 0]
                       ELSE t
           rows == Credited(b, ref, n, bySeq).tracked
<1>1. b.tracked \in Seq(Row) /\ Len(b.tracked) \in Nat
  BY DEF Book
<1>2. rows = [i \in 1..Len(b.tracked) |-> Moved(b.tracked[i])]
  <2>1. "tracked" \in DOMAIN b
    BY DEF Book
  <2> QED BY <2>1 DEF Credited, IsBehind
<1>3. ASSUME NEW t \in Row
      PROVE  /\ Moved(t) \in Row /\ Moved(t).ref = t.ref /\ Moved(t).at = t.at
             /\ Moved(t).seq = t.seq
             /\ Moved(t).ahead = IF Ahead(t)
                                 THEN IF t.ahead >= n THEN t.ahead - n ELSE 0
                                 ELSE t.ahead
  BY <1>3 DEF Row
<1>4. \A i \in 1..Len(b.tracked) : b.tracked[i] \in Row
  BY <1>1
<1> HIDE DEF Moved, rows
<1>5. /\ rows \in Seq(Row) /\ Len(rows) = Len(b.tracked)
      /\ \A i \in 1..Len(b.tracked) : rows[i] = Moved(b.tracked[i])
  BY <1>1, <1>2, <1>3, <1>4
<1>6. ASSUME NEW i \in 1..Len(b.tracked)
      PROVE  /\ rows[i].ref = b.tracked[i].ref
             /\ rows[i].at = b.tracked[i].at
             /\ rows[i].seq = b.tracked[i].seq
             /\ rows[i].ahead = IF Ahead(b.tracked[i])
                                THEN IF b.tracked[i].ahead >= n
                                     THEN b.tracked[i].ahead - n ELSE 0
                                ELSE b.tracked[i].ahead
  BY <1>3, <1>4, <1>5
<1> QED
  BY <1>5, <1>6 DEF rows, RowsCredited

\* Where a credit of n shares leaves a tracked order of the level: those
\* before the m-th order stay, those behind it move up by n.
LEMMA CreditMoves ==
  ASSUME NEW exact \in BOOLEAN, NEW b, BookInv(b, exact), NEW ref \in Live(b),
         NEW bySeq \in BOOLEAN, NEW n \in Nat, n <= b.orders[ref].qty,
         NEW l \in Level, l = b.orders[ref].at,
         NEW m \in 1..Len(b.fifo[l]), b.fifo[l][m] = ref,
         exact /\ ~bySeq => m = 1,
         NEW p, RunningTotals(b, l, p, exact),
         NEW i \in 1..Len(b.tracked), NEW k \in 1..Len(b.fifo[l]),
         b.tracked[i].ref = b.fifo[l][k]
  PROVE  LET ahead == Credited(b, ref, n, bySeq).tracked[i].ahead
         IN /\ k <= m => ahead <= p[k - 1] /\ (exact => ahead = p[k - 1])
            /\ k > m => ahead <= p[k - 1] - n /\ (exact => ahead = p[k - 1] - n)
<1>1. PICK N \in Nat : N = Len(b.fifo[l])
  <2>1. b.fifo[l] \in Seq(Refs)
    BY DEF BookInv, Book
  <2> QED BY <2>1, SMTT(30)
<1>2. /\ b \in Book /\ ref \in Refs /\ b.orders[ref] \in Node
  BY DEF BookInv, Book, Live
<1>3. PICK t : t = b.tracked[i] /\ t \in Row
  BY <1>2 DEF Book
<1>4. PICK ahead : ahead = Credited(b, ref, n, bySeq).tracked[i].ahead
  OBVIOUS
<1>5. ahead = IF t.at = l /\ t.ref # ref /\ (bySeq => b.orders[ref].seq < t.seq)
              THEN IF t.ahead >= n THEN t.ahead - n ELSE 0 ELSE t.ahead
  <2>1. RowsCredited(b, ref, n, bySeq, Credited(b, ref, n, bySeq).tracked)
    BY <1>2, CreditedRows
  <2> QED BY <1>3, <1>4, <2>1 DEF RowsCredited
<1>6. /\ t.ref = b.fifo[l][k] /\ t.at = l /\ t.seq = b.orders[b.fifo[l][k]].seq
  <2>1. b.orders[t.ref].at = t.at /\ b.orders[t.ref].seq = t.seq
    BY <1>3 DEF BookInv, RowsLive
  <2>2. b.orders[b.fifo[l][k]].at = l
    BY DEF BookInv, FifosSorted
  <2> QED BY <1>3, <2>1, <2>2
<1>7. t.ahead \in Nat /\ t.seq \in Nat /\ b.orders[ref].seq \in Nat
  BY <1>2, <1>3 DEF Row, Node
<1>8. /\ p \in [0..N -> Nat] /\ p[m] = p[m - 1] + b.orders[ref].qty
      /\ t.ahead <= p[k - 1] /\ (exact => t.ahead = p[k - 1])
      /\ \A x, y \in 0..N : x < y => p[x] < p[y]
  BY <1>1, <1>3 DEF RunningTotals
<1>9. k - 1 \in 0..N /\ m \in 0..N /\ m - 1 \in 0..N
  BY <1>1
<1>10. p[k - 1] \in Nat /\ p[m] \in Nat /\ p[m - 1] \in Nat
  BY <1>8, <1>9
<1>11. b.orders[ref].qty \in Nat
  BY <1>2 DEF Node
<1>12. CASE k = m
  <2>1. t.ref = ref
    BY <1>6, <1>12
  <2>2. ahead = t.ahead
    BY <1>5, <2>1
  <2> QED BY <1>4, <1>8, <1>12, <2>2
<1>13. CASE k < m
  <2>1. t.seq < b.orders[ref].seq
    BY <1>6, <1>13 DEF BookInv, FifosSorted
  <2>2. bySeq => ahead = t.ahead
    BY <1>5, <1>7, <2>1
  <2>3. ~bySeq => ~exact
    BY <1>1, <1>13
  <2>4. ahead <= t.ahead
    BY <1>5, <1>7
  <2>5. ahead <= p[k - 1]
    <3>1. ahead \in Nat
      BY <1>5, <1>7
    <3> QED BY <3>1, <1>7, <1>8, <1>10, <2>4
  <2>6. exact => ahead = p[k - 1]
    BY <1>8, <2>2, <2>3
  <2> QED BY <1>4, <1>1, <1>13, <2>5, <2>6
<1>14. CASE k > m
  <2>1. b.orders[ref].seq < t.seq
    BY <1>6, <1>14 DEF BookInv, FifosSorted
  <2>2. t.ref # ref
    <3>1. t.ref = ref => t.seq = b.orders[ref].seq
      BY <1>6
    <3> QED BY <1>7, <2>1, <3>1
  <2>3. ahead = IF t.ahead >= n THEN t.ahead - n ELSE 0
    BY <1>5, <1>6, <2>1, <2>2
  <2>4. p[m] <= p[k - 1]
    <3>1. m = k - 1 \/ m < k - 1
      BY <1>1, <1>14
    <3> QED BY <3>1, <1>8, <1>9, <1>10
  <2>5. p[k - 1] >= n
    <3>0. p[m] = p[m - 1] + b.orders[ref].qty
      BY <1>8
    <3>1. p[m] >= b.orders[ref].qty
      BY <3>0, <1>10, <1>11, SMTT(30)
    <3>2. b.orders[ref].qty <= p[k - 1]
      BY <3>1, <2>4, <1>10, <1>11, SMTT(30)
    <3>3. n <= b.orders[ref].qty
      OBVIOUS
    <3> QED BY <3>2, <3>3, <1>10, <1>11, SMTT(30)
  <2>6. ahead <= p[k - 1] - n
    BY <1>7, <1>8, <1>10, <2>3, <2>5
  <2>7. exact => ahead = p[k - 1] - n
    BY <1>7, <1>8, <1>10, <2>3, <2>5
  <2>8. ~(k <= m)
    BY <1>14
  <2> QED BY <1>4, <2>6, <2>7, <2>8
<1>15. k < m \/ k = m \/ k > m
  BY <1>1
<1> QED
  BY <1>12, <1>13, <1>14, <1>15

\* The fields of the book after a reduction that leaves shares of the order.
LEMMA ReducedPartFields ==
  ASSUME NEW b \in Book, NEW ref \in Live(b), NEW n \in Nat,
         NEW bySeq \in BOOLEAN, n < b.orders[ref].qty
  PROVE  LET c == Reduced(b, ref, n, bySeq)
             l == b.orders[ref].at
         IN /\ c.orders = [b.orders EXCEPT ![ref].qty = @ - n]
            /\ c.qty = [b.qty EXCEPT ![l] = @ - n]
            /\ c.tracked = Credited(b, ref, n, bySeq).tracked
            /\ c.fifo = b.fifo /\ c.occ = b.occ /\ c.best = b.best
            /\ c.seq = b.seq /\ c.resting = b.resting
            /\ c = [orders |-> c.orders, fifo |-> c.fifo, qty |-> c.qty,
                    occ |-> c.occ, best |-> c.best, tracked |-> c.tracked,
                    seq |-> c.seq, resting |-> c.resting]
<1> DEFINE c == Reduced(b, ref, n, bySeq)
           l == b.orders[ref].at
           a == Credited(b, ref, n, bySeq)
<1>1. DOMAIN b = Fields
  BY DEF Book, Fields
<1>2. /\ DOMAIN a = Fields
      /\ a.orders = b.orders /\ a.fifo = b.fifo /\ a.qty = b.qty /\ a.occ = b.occ
      /\ a.best = b.best /\ a.seq = b.seq /\ a.resting = b.resting
      /\ a = [f \in Fields |-> a[f]]
  BY <1>1 DEF Credited, IsBehind, Fields
<1> HIDE DEF a
<1>3. b.orders[ref].qty \in Nat
  BY DEF Book, Live, Node
<1>4. n # b.orders[ref].qty
  BY <1>3
<1>5. c = [[a EXCEPT !.qty[l] = @ - n] EXCEPT !.orders[ref].qty = @ - n]
  BY <1>4 DEF Reduced, a
<1>6. /\ c.orders = [b.orders EXCEPT ![ref].qty = @ - n]
      /\ c.qty = [b.qty EXCEPT ![l] = @ - n]
      /\ c.tracked = a.tracked
      /\ c.fifo = b.fifo /\ c.occ = b.occ /\ c.best = b.best
      /\ c.seq = b.seq /\ c.resting = b.resting
      /\ c = [f \in Fields |-> c[f]]
  <2> HIDE DEF c
  <2> QED BY <1>2, <1>5 DEF Fields
<1> HIDE DEF c
<1>7. c = [orders |-> c.orders, fifo |-> c.fifo, qty |-> c.qty,
           occ |-> c.occ, best |-> c.best, tracked |-> c.tracked,
           seq |-> c.seq, resting |-> c.resting]
  BY <1>6 DEF Fields
<1> QED
  BY <1>6, <1>7 DEF c, a

LEMMA ReducedPartInv ==
  ASSUME NEW exact \in BOOLEAN, NEW b, BookInv(b, exact), NEW ref \in Live(b),
         NEW n \in Nat, NEW bySeq \in BOOLEAN, n < b.orders[ref].qty,
         exact /\ ~bySeq => b.fifo[b.orders[ref].at][1] = ref
  PROVE  BookInv(Reduced(b, ref, n, bySeq), exact)
<1>1. PICK c : c = Reduced(b, ref, n, bySeq)
  OBVIOUS
<1>2. PICK at : at = b.orders[ref].at
  OBVIOUS
<1>3. PICK rows : rows = Credited(b, ref, n, bySeq).tracked
  OBVIOUS
<1>4. b \in Book /\ ref \in Refs /\ b.orders[ref] \in Node /\ at \in Level
  BY <1>2 DEF BookInv, Book, Live, Node
<1>5. /\ c.orders = [b.orders EXCEPT ![ref].qty = @ - n]
      /\ c.qty = [b.qty EXCEPT ![at] = @ - n]
      /\ c.tracked = rows
      /\ c.fifo = b.fifo /\ c.occ = b.occ /\ c.best = b.best
      /\ c.seq = b.seq /\ c.resting = b.resting
      /\ c = [orders |-> c.orders, fifo |-> c.fifo, qty |-> c.qty,
              occ |-> c.occ, best |-> c.best, tracked |-> c.tracked,
              seq |-> c.seq, resting |-> c.resting]
  BY <1>1, <1>2, <1>3, <1>4, ReducedPartFields
<1>5a. RowsCredited(b, ref, n, bySeq, rows)
  BY <1>3, <1>4, CreditedRows
<1>6. /\ rows \in Seq(Row) /\ Len(rows) = Len(b.tracked)
      /\ \A i \in 1..Len(b.tracked) : /\ rows[i].ref = b.tracked[i].ref
                                      /\ rows[i].at = b.tracked[i].at
                                      /\ rows[i].seq = b.tracked[i].seq
  BY <1>5a DEF RowsCredited
<1>7. /\ c.orders[ref] \in Node /\ c.orders[ref].at = at
      /\ c.orders[ref].seq = b.orders[ref].seq
      /\ c.orders[ref].qty = b.orders[ref].qty - n
      /\ c.orders[ref] # NoNode
  <2>1. c.orders[ref] = [b.orders[ref] EXCEPT !.qty = @ - n]
    BY <1>4, <1>5 DEF Book
  <2>2. b.orders[ref].qty - n \in Nat \ {0}
    BY <1>4 DEF Node
  <2> QED BY <1>2, <1>4, <2>1, <2>2 DEF Node, NoNode
<1>8. \A r \in Refs : r # ref => c.orders[r] = b.orders[r]
  BY <1>4, <1>5 DEF Book
<1>9. Live(c) = Live(b)
  BY <1>7, <1>8 DEF Live
<1>10. \A r \in Live(b) : c.orders[r].at = b.orders[r].at /\ c.orders[r].seq = b.orders[r].seq
  BY <1>2, <1>7, <1>8 DEF Live
<1>11. ASSUME NEW l \in Level
       PROVE  \E q : RunningTotals(c, l, q, exact)
  <2>1. PICK p : RunningTotals(b, l, p, exact)
    BY DEF BookInv, TotalsKept
  <2>2. PICK N \in Nat : N = Len(b.fifo[l])
    <3>1. b.fifo[l] \in Seq(Refs)
      BY <1>4 DEF Book
    <3> QED BY <3>1
  <2>3. /\ p \in [0..N -> Nat] /\ p[0] = 0 /\ p[N] = b.qty[l]
        /\ \A i \in 1..N : p[i] = p[i - 1] + b.orders[b.fifo[l][i]].qty
        /\ \A i, j \in 0..N : i < j => p[i] < p[j]
        /\ \A i \in 1..Len(b.tracked), k \in 1..N :
             b.tracked[i].ref = b.fifo[l][k] =>
               /\ b.tracked[i].ahead <= p[k - 1]
               /\ exact => b.tracked[i].ahead = p[k - 1]
    BY <2>1, <2>2 DEF RunningTotals
  <2>4. \A i \in 1..N : b.fifo[l][i] \in Live(b) /\ b.orders[b.fifo[l][i]].at = l
    BY <2>2 DEF BookInv, FifosSorted
  <2>5. CASE l # at
    <3>1. \A i \in 1..N : b.fifo[l][i] # ref
      BY <1>2, <2>4, <2>5
    <3>2. \A i \in 1..N : c.orders[b.fifo[l][i]] = b.orders[b.fifo[l][i]]
      BY <1>8, <2>4, <3>1 DEF Live
    <3>3. c.qty[l] = b.qty[l]
      BY <1>4, <1>5, <2>5 DEF Book
    <3>4. ASSUME NEW i \in 1..Len(rows), NEW k \in 1..N, rows[i].ref = b.fifo[l][k]
          PROVE  rows[i].ahead = b.tracked[i].ahead /\ b.tracked[i].ref = b.fifo[l][k]
      <4>1. b.tracked[i].ref = b.fifo[l][k]
        BY <1>6, <3>4
      <4>2. b.tracked[i].at = l
        BY <1>6, <2>4, <4>1 DEF BookInv, RowsLive
      <4> QED BY <1>2, <1>5a, <1>6, <2>5, <4>1, <4>2 DEF RowsCredited
    <3>5. \A i \in 1..N : p[i] = p[i - 1] + c.orders[c.fifo[l][i]].qty
      <4> TAKE i \in 1..N
      <4>1. p[i] = p[i - 1] + b.orders[b.fifo[l][i]].qty
        BY <2>3
      <4> QED BY <1>5, <3>2, <4>1
    <3>6. ASSUME NEW i \in 1..Len(c.tracked), NEW k \in 1..N,
                 c.tracked[i].ref = c.fifo[l][k]
          PROVE  c.tracked[i].ahead <= p[k - 1] /\ (exact => c.tracked[i].ahead = p[k - 1])
      BY <1>5, <1>6, <2>3, <3>4, <3>6
    <3>7. RunningTotals(c, l, p, exact)
      BY <1>5, <2>2, <2>3, <3>3, <3>5, <3>6 DEF RunningTotals
    <3> QED BY <3>7
  <2>6. CASE l = at
    <3>1. PICK m \in 1..N : b.fifo[l][m] = ref
      BY <1>2, <2>2, <2>6 DEF BookInv, FifosSorted
    <3>2. exact /\ ~bySeq => m = 1
      <4>1. SUFFICES ASSUME exact, ~bySeq, m # 1
                     PROVE  FALSE
        OBVIOUS
      <4>2. b.fifo[l][1] = ref /\ 1 \in 1..N /\ 1 < m
        BY <1>2, <2>2, <2>6, <4>1
      <4>3. b.orders[ref].seq < b.orders[ref].seq
        BY <2>2, <3>1, <4>2 DEF BookInv, FifosSorted
      <4> QED BY <1>4, <4>3 DEF Node
    <3> DEFINE q == [i \in 0..N |-> IF i < m THEN p[i] ELSE p[i] - n]
    <3>3. p[m] = p[m - 1] + b.orders[ref].qty
      BY <2>3, <3>1
    <3>4. b.orders[ref].qty \in Nat /\ b.orders[ref].qty > n
      BY <1>4 DEF Node
    <3>5. \A i \in 0..N : p[i] \in Nat
      BY <2>3
    <3>6. m \in 0..N /\ m - 1 \in 0..N
      BY <3>1
    <3>7. \A i \in 0..N : i < m => p[i] < p[m] - n
      <4> TAKE i \in 0..N
      <4> HAVE i < m
      <4>1. i = m - 1 \/ i < m - 1
        BY <3>1
      <4>2. p[i] <= p[m - 1]
        BY <2>3, <3>5, <3>6, <4>1
      <4> QED BY <3>3, <3>4, <3>5, <3>6, <4>2
    <3>8. \A i \in 0..N : i >= m => p[i] >= p[m] /\ p[m] > n
      <4> TAKE i \in 0..N
      <4> HAVE i >= m
      <4>1. i = m \/ m < i
        BY <3>1
      <4>2. p[i] >= p[m]
        BY <2>3, <3>5, <3>6, <4>1
      <4>3. p[m] > n
        BY <3>3, <3>4, <3>5, <3>6
      <4> QED BY <4>2, <4>3
    <3>9. \A i \in 0..N : /\ i < m => q[i] = p[i]
                          /\ i >= m => q[i] = p[i] - n
                          /\ q[i] \in Nat
      BY <3>1, <3>5, <3>6, <3>8
    <3>10. q \in [0..N -> Nat]
      BY <3>9
    <3> HIDE DEF q
    <3>11. q[0] = 0
      BY <2>2, <2>3, <3>1, <3>9
    <3>12. \A i \in 1..N : q[i] = q[i - 1] + c.orders[c.fifo[l][i]].qty
      <4> SUFFICES ASSUME NEW i \in 1..N
                   PROVE  q[i] = q[i - 1] + c.orders[b.fifo[l][i]].qty
        BY <1>5
      <4>0. p[i] = p[i - 1] + b.orders[b.fifo[l][i]].qty
        BY <2>3
      <4>1. i \in 0..N /\ i - 1 \in 0..N /\ p[i] = p[i - 1] + b.orders[b.fifo[l][i]].qty
        BY <2>2, <4>0
      <4>2. CASE i = m
        BY <1>7, <3>1, <3>3, <3>4, <3>5, <3>9, <4>1, <4>2
      <4>3. CASE i # m
        <5>1. b.fifo[l][i] # ref
          <6>1. i < m \/ m < i
            BY <4>3
          <6>2. b.fifo[l][i] = ref => b.orders[ref].seq < b.orders[ref].seq
            BY <2>2, <3>1, <6>1 DEF BookInv, FifosSorted
          <6> QED BY <1>4, <6>2 DEF Node
        <5>2. c.orders[b.fifo[l][i]] = b.orders[b.fifo[l][i]]
          BY <1>8, <2>4, <5>1 DEF Live
        <5>3. b.orders[b.fifo[l][i]].qty \in Nat
          BY <1>4, <2>4 DEF Book, Live, Node
        <5>4. CASE i < m
          BY <3>9, <4>1, <5>2, <5>4
        <5>5. CASE i > m
          <6>1. i >= m /\ i - 1 >= m
            BY <5>5
          <6>2. q[i] = p[i] - n /\ q[i - 1] = p[i - 1] - n
            BY <3>9, <4>1, <6>1
          <6>3. p[i - 1] \in Nat
            BY <3>5, <4>1
          <6> QED BY <4>1, <5>2, <5>3, <6>2, <6>3
        <5> QED BY <4>3, <5>4, <5>5
      <4> QED BY <4>2, <4>3
    <3>13. \A i, j \in 0..N : i < j => q[i] < q[j]
      <4> SUFFICES ASSUME NEW i \in 0..N, NEW j \in 0..N, i < j
                   PROVE  q[i] < q[j]
        OBVIOUS
      <4>1. p[i] < p[j]
        BY <2>3
      <4>2. CASE j < m
        BY <3>9, <4>1, <4>2
      <4>3. CASE i >= m
        BY <3>5, <3>9, <4>1, <4>3
      <4>4. CASE i < m /\ j >= m
        <5>1. p[i] < p[m] - n /\ p[j] >= p[m]
          BY <3>7, <3>8, <4>4
        <5>2. q[i] = p[i] /\ q[j] = p[j] - n
          BY <3>9, <4>4
        <5> QED BY <3>5, <3>6, <5>1, <5>2
      <4> QED BY <4>2, <4>3, <4>4
    <3>14. q[N] = c.qty[l]
      <4>1. c.qty[l] = b.qty[l] - n
        BY <1>4, <1>5, <2>6 DEF Book
      <4>2. N \in 0..N /\ N >= m
        BY <3>1
      <4> QED BY <2>3, <3>9, <4>1, <4>2
    <3>15. ASSUME NEW i \in 1..Len(c.tracked), NEW k \in 1..N,
                  c.tracked[i].ref = c.fifo[l][k]
           PROVE  c.tracked[i].ahead <= q[k - 1] /\ (exact => c.tracked[i].ahead = q[k - 1])
      <4>1. i \in 1..Len(b.tracked) /\ b.tracked[i].ref = b.fifo[l][k]
        BY <1>5, <1>6, <3>15
      <4>2. /\ k <= m => rows[i].ahead <= p[k - 1] /\ (exact => rows[i].ahead = p[k - 1])
            /\ k > m => /\ rows[i].ahead <= p[k - 1] - n
                        /\ exact => rows[i].ahead = p[k - 1] - n
        <5>1. /\ n <= b.orders[ref].qty /\ l = b.orders[ref].at
              /\ m \in 1..Len(b.fifo[l]) /\ k \in 1..Len(b.fifo[l])
          BY <1>2, <2>2, <2>6, <3>4
        <5> QED BY <1>3, <2>1, <3>1, <3>2, <4>1, <5>1, CreditMoves, SMTT(30)
      <4>3. k - 1 \in 0..N
        BY <2>2
      <4>4. CASE k <= m
        BY <1>5, <3>9, <4>2, <4>3, <4>4
      <4>5. CASE k > m
        BY <1>5, <3>9, <4>2, <4>3, <4>5
      <4> QED BY <3>1, <4>4, <4>5
    <3>16. RunningTotals(c, l, q, exact)
      BY <1>5, <2>2, <3>10, <3>11, <3>12, <3>13, <3>14, <3>15 DEF RunningTotals
    <3> QED BY <3>16
  <2> QED BY <2>5, <2>6
<1>12. c \in Book
  <2>1. c.orders \in [Refs -> Node \cup {NoNode}]
    <3>1. b.orders \in [Refs -> Node \cup {NoNode}]
      BY <1>4 DEF Book
    <3>2. c.orders = [r \in Refs |-> c.orders[r]]
      BY <1>5, <3>1
    <3>3. \A r \in Refs : c.orders[r] \in Node \cup {NoNode}
      <4> TAKE r \in Refs
      <4> QED BY <1>7, <1>8, <3>1
    <3> QED BY <3>2, <3>3
  <2>2. c.qty \in [Level -> Nat]
    <3>1. \A l \in Level : c.qty[l] \in Nat
      <4> TAKE l \in Level
      <4>1. PICK q : RunningTotals(c, l, q, exact)
        BY <1>11
      <4>2. Len(c.fifo[l]) \in 0..Len(c.fifo[l])
        <5>1. b.fifo[l] \in Seq(Refs)
          BY <1>4 DEF Book
        <5> QED BY <1>5, <5>1
      <4> QED BY <4>1, <4>2 DEF RunningTotals
    <3> QED BY <1>4, <1>5, <3>1 DEF Book
  <2> QED BY <1>4, <1>5, <1>6, <2>1, <2>2 DEF Book
<1>13. FifosSorted(c)
  BY <1>5, <1>9, <1>10, SortedInPlace DEF BookInv
<1>14. RowsLive(c)
  BY <1>5, <1>6, <1>9, <1>10 DEF BookInv, RowsLive
<1>15. CountIsLive(c) /\ InsideCached(c)
  BY <1>5, <1>9 DEF BookInv, CountIsLive, InsideCached
<1> QED
  BY <1>1, <1>11, <1>12, <1>13, <1>14, <1>15 DEF BookInv, TotalsKept

\* c is b without its order ref of "whole" shares at the level "at", where
\* occ are the ticks of its side then occupied and rows the rows once credited.
WholeGone(b, c, ref, side, tick, at, whole, occ, rows) ==
  /\ c.orders = [b.orders EXCEPT ![ref] = NoNode]
  /\ c.fifo = [b.fifo EXCEPT ![at] = IF b.qty[at] - whole = 0 THEN <<>>
                                     ELSE RemoveFirst(b.fifo[at], ref)]
  /\ c.qty = [b.qty EXCEPT ![at] = @ - whole]
  /\ c.occ = [b.occ EXCEPT ![side] = occ]
  /\ c.best = [b.best EXCEPT ![side] =
                 IF b.qty[at] - whole = 0 /\ tick = @
                 THEN BestTick(side, occ) ELSE @]
  /\ c.tracked = WithoutRow(rows, ref)
  /\ c.seq = b.seq /\ c.resting = b.resting - 1
  /\ c = [orders |-> c.orders, fifo |-> c.fifo, qty |-> c.qty,
          occ |-> c.occ, best |-> c.best, tracked |-> c.tracked,
          seq |-> c.seq, resting |-> c.resting]

LEMMA ReducedWholeFields ==
  ASSUME NEW b \in Book, NEW ref \in Live(b), NEW n \in Nat,
         NEW bySeq \in BOOLEAN, n >= b.orders[ref].qty,
         NEW side \in Sides, NEW tick \in Ticks, b.orders[ref].at = <<side, tick>>
  PROVE  WholeGone(b, Reduced(b, ref, n, bySeq), ref, side, tick, <<side, tick>>,
                   b.orders[ref].qty,
                   IF b.qty[<<side, tick>>] - b.orders[ref].qty = 0
                   THEN b.occ[side] \ {tick} ELSE b.occ[side],
                   Credited(b, ref, b.orders[ref].qty, bySeq).tracked)
<1> DEFINE c == Reduced(b, ref, n, bySeq)
           l == <<side, tick>>
           whole == b.orders[ref].qty
           a == Credited(b, ref, whole, bySeq)
           d == [a EXCEPT !.qty[l] = @ - whole]
           u == Untracked(d, ref)
           emptied == b.qty[l] - whole = 0
           occ == IF emptied THEN b.occ[side] \ {tick} ELSE b.occ[side]
<1>1. DOMAIN b = Fields
  BY DEF Book, Fields
<1>2. /\ DOMAIN a = Fields
      /\ a.orders = b.orders /\ a.fifo = b.fifo /\ a.qty = b.qty /\ a.occ = b.occ
      /\ a.best = b.best /\ a.seq = b.seq /\ a.resting = b.resting
  BY <1>1 DEF Credited, IsBehind, Fields
<1>3. b.orders[ref].qty \in Nat
  BY DEF Book, Live, Node
<1>4. c = Unlinked(d, ref)
  <2>1. (IF n < whole THEN n ELSE whole) = whole
    BY <1>3
  <2>2. b.orders[ref].at = l
    OBVIOUS
  <2> HIDE DEF l, whole
  <2>3. c = IF whole = b.orders[ref].qty
            THEN Unlinked([Credited(b, ref, whole, bySeq) EXCEPT
                             !.qty[b.orders[ref].at] = @ - whole], ref)
            ELSE c
    BY <2>1 DEF Reduced, whole
  <2> QED BY <2>2, <2>3 DEF whole
<1> HIDE DEF a
<1>5. /\ DOMAIN d = Fields
      /\ d.orders = b.orders /\ d.fifo = b.fifo /\ d.occ = b.occ
      /\ d.best = b.best /\ d.seq = b.seq /\ d.resting = b.resting
      /\ d.tracked = a.tracked
      /\ d.qty = [b.qty EXCEPT ![l] = @ - whole]
  BY <1>2 DEF Fields
<1> HIDE DEF d
<1>6. /\ DOMAIN u = Fields
      /\ u.orders = b.orders /\ u.fifo = b.fifo /\ u.occ = b.occ
      /\ u.best = b.best /\ u.seq = b.seq /\ u.resting = b.resting
      /\ u.tracked = WithoutRow(a.tracked, ref)
      /\ u.qty = [b.qty EXCEPT ![l] = @ - whole]
  BY <1>5 DEF Untracked, Fields
<1>7. d.qty[l] = b.qty[l] - whole
  BY <1>5 DEF Book, Level
<1>8. l[1] = side /\ l[2] = tick /\ d.orders[ref].at = l
  BY <1>5
<1> HIDE DEF u, l
<1>9. c = [u EXCEPT
            !.orders[ref] = NoNode,
            !.fifo[l] = IF emptied THEN <<>> ELSE RemoveFirst(@, ref),
            !.occ[side] = occ,
            !.best[side] = IF emptied /\ tick = @ THEN BestTick(side, occ) ELSE @,
            !.resting = @ - 1]
  BY <1>4, <1>5, <1>7, <1>8 DEF Unlinked, u
<1>10. /\ c.orders = [b.orders EXCEPT ![ref] = NoNode]
       /\ c.fifo = [b.fifo EXCEPT ![l] =
                      IF emptied THEN <<>> ELSE RemoveFirst(b.fifo[l], ref)]
       /\ c.qty = u.qty
       /\ c.occ = [b.occ EXCEPT ![side] = occ]
       /\ c.best = [b.best EXCEPT ![side] =
                      IF emptied /\ tick = @ THEN BestTick(side, occ) ELSE @]
       /\ c.tracked = u.tracked
       /\ c.seq = b.seq /\ c.resting = b.resting - 1
       /\ c = [f \in Fields |-> c[f]]
  <2> HIDE DEF c, emptied, occ
  <2> QED BY <1>6, <1>9 DEF Fields
<1> HIDE DEF c
<1>11. c = [orders |-> c.orders, fifo |-> c.fifo, qty |-> c.qty,
            occ |-> c.occ, best |-> c.best, tracked |-> c.tracked,
            seq |-> c.seq, resting |-> c.resting]
  BY <1>10 DEF Fields
<1>12. WholeGone(b, c, ref, side, tick, l, whole, occ, a.tracked)
  BY <1>6, <1>10, <1>11 DEF WholeGone
<1> QED
  BY <1>12 DEF c, a, l

\* Of a table with one row per reference, untracking keeps exactly the rows
\* of the other references, still one each.
LEMMA UntrackedProps ==
  ASSUME NEW rows \in Seq(Row), NEW ref,
         \A i, j \in 1..Len(rows) : rows[i].ref = rows[j].ref => i = j
  PROVE  LET new == WithoutRow(rows, ref)
         IN /\ new \in Seq(Row)
            /\ \A i \in 1..Len(new) :
                 /\ new[i].ref # ref
                 /\ \E j \in 1..Len(rows) : new[i] = rows[j]
            /\ \A i, j \in 1..Len(new) : new[i].ref = new[j].ref => i = j
<1>1. PICK new : new = WithoutRow(rows, ref)
  OBVIOUS
<1>0. \/ (\A i \in 1..Len(rows) : rows[i].ref # ref) /\ new = rows
      \/ \E k \in 1..Len(rows) : rows[k].ref = ref /\ new = RemoveAt(rows, k)
  BY <1>1, UntrackedRows
<1>2. CASE (\A i \in 1..Len(rows) : rows[i].ref # ref) /\ new = rows
  BY <1>1, <1>2
<1>3. CASE \E k \in 1..Len(rows) : rows[k].ref = ref /\ new = RemoveAt(rows, k)
  <2>1. PICK k \in 1..Len(rows) : rows[k].ref = ref /\ new = RemoveAt(rows, k)
    BY <1>3
  <2>2. /\ new \in Seq(Row) /\ Len(new) = Len(rows) - 1
        /\ \A i \in 1..(Len(rows) - 1) : new[i] = IF i < k THEN rows[i] ELSE rows[i + 1]
    BY <2>1, RemoveAtProps
  <2>3. Len(rows) \in Nat
    OBVIOUS
  <2> DEFINE from(i) == IF i < k THEN i ELSE i + 1
  <2>4. \A i \in 1..Len(new) : /\ from(i) \in 1..Len(rows) /\ from(i) # k
                               /\ new[i] = rows[from(i)]
    BY <2>1, <2>2, <2>3
  <2>5. \A i, j \in 1..Len(new) : from(i) = from(j) => i = j
    BY <2>1, <2>2, <2>3
  <2> HIDE DEF from
  <2>6. \A i \in 1..Len(new) : new[i].ref # ref /\ \E j \in 1..Len(rows) : new[i] = rows[j]
    BY <2>1, <2>4
  <2>7. \A i, j \in 1..Len(new) : new[i].ref = new[j].ref => i = j
    BY <2>4, <2>5
  <2> QED BY <1>1, <2>2, <2>6, <2>7
<1> QED
  BY <1>0, <1>1, <1>2, <1>3

LEMMA ReducedWholeInv ==
  ASSUME NEW exact \in BOOLEAN, NEW b, BookInv(b, exact), NEW ref \in Live(b),
         NEW n \in Nat, NEW bySeq \in BOOLEAN, n >= b.orders[ref].qty,
         exact /\ ~bySeq => b.fifo[b.orders[ref].at][1] = ref
  PROVE  BookInv(Reduced(b, ref, n, bySeq), exact)
<1>1. PICK c : c = Reduced(b, ref, n, bySeq)
  OBVIOUS
<1>2. PICK at : at = b.orders[ref].at
  OBVIOUS
<1>3. PICK whole : whole = b.orders[ref].qty
  OBVIOUS
<1>4. /\ b \in Book /\ ref \in Refs /\ b.orders[ref] \in Node /\ at \in Level
      /\ whole \in Nat \ {0} /\ b.orders[ref] # NoNode
  BY <1>2, <1>3 DEF BookInv, Book, Live, Node
<1>5. PICK side \in Sides, tick \in Ticks : at = <<side, tick>>
  BY <1>4 DEF Level
<1>6. PICK rows : rows = Credited(b, ref, whole, bySeq).tracked
  OBVIOUS
<1>7. PICK occ : occ = IF b.qty[at] - whole = 0 THEN b.occ[side] \ {tick} ELSE b.occ[side]
  OBVIOUS
<1>8. /\ c.orders = [b.orders EXCEPT ![ref] = NoNode]
      /\ c.fifo = [b.fifo EXCEPT ![at] = IF b.qty[at] - whole = 0 THEN <<>>
                                         ELSE RemoveFirst(b.fifo[at], ref)]
      /\ c.qty = [b.qty EXCEPT ![at] = @ - whole]
      /\ c.occ = [b.occ EXCEPT ![side] = occ]
      /\ c.best = [b.best EXCEPT ![side] =
                     IF b.qty[at] - whole = 0 /\ tick = @ THEN BestTick(side, occ) ELSE @]
      /\ c.tracked = WithoutRow(rows, ref)
      /\ c.seq = b.seq /\ c.resting = b.resting - 1
      /\ c = [orders |-> c.orders, fifo |-> c.fifo, qty |-> c.qty,
              occ |-> c.occ, best |-> c.best, tracked |-> c.tracked,
              seq |-> c.seq, resting |-> c.resting]
  <2>1. b.orders[ref].at = <<side, tick>>
    BY <1>2, <1>5
  <2>2. WholeGone(b, Reduced(b, ref, n, bySeq), ref, side, tick, <<side, tick>>,
                  b.orders[ref].qty,
                  IF b.qty[<<side, tick>>] - b.orders[ref].qty = 0
                  THEN b.occ[side] \ {tick} ELSE b.occ[side],
                  Credited(b, ref, b.orders[ref].qty, bySeq).tracked)
    BY <1>4, <2>1, ReducedWholeFields
  <2>3. WholeGone(b, c, ref, side, tick, at, whole, occ, rows)
    BY <1>1, <1>3, <1>5, <1>6, <1>7, <2>2
  <2> QED BY <2>3 DEF WholeGone
<1>8a. RowsCredited(b, ref, whole, bySeq, rows)
  BY <1>4, <1>6, CreditedRows
<1>9. /\ rows \in Seq(Row) /\ Len(rows) = Len(b.tracked)
      /\ \A i \in 1..Len(b.tracked) : /\ rows[i].ref = b.tracked[i].ref
                                      /\ rows[i].at = b.tracked[i].at
                                      /\ rows[i].seq = b.tracked[i].seq
  BY <1>8a DEF RowsCredited
<1>9a. \A i \in 1..Len(b.tracked) : b.tracked[i].at # at => rows[i].ahead = b.tracked[i].ahead
  BY <1>2, <1>8a DEF RowsCredited
<1>10. /\ c.tracked \in Seq(Row)
       /\ \A i \in 1..Len(c.tracked) :
            /\ c.tracked[i].ref # ref
            /\ \E j \in 1..Len(rows) : c.tracked[i] = rows[j]
       /\ \A i, j \in 1..Len(c.tracked) : c.tracked[i].ref = c.tracked[j].ref => i = j
  <2>1. \A i, j \in 1..Len(rows) : rows[i].ref = rows[j].ref => i = j
    BY <1>9 DEF BookInv, RowsLive
  <2> QED BY <1>8, <1>9, <2>1, UntrackedProps
<1>11. Live(c) = Live(b) \ {ref} /\ \A r \in Live(c) : c.orders[r] = b.orders[r]
  BY <1>4, <1>8 DEF Live, Book
<1>12. \A l \in Level : l # at => c.fifo[l] = b.fifo[l] /\ c.qty[l] = b.qty[l]
  BY <1>4, <1>8 DEF Book
<1>13. c.qty[at] = b.qty[at] - whole
  BY <1>4, <1>8 DEF Book
<1>14. PICK p : RunningTotals(b, at, p, exact)
  BY <1>4 DEF BookInv, TotalsKept
<1>15. PICK N \in Nat : N = Len(b.fifo[at])
  <2>1. b.fifo[at] \in Seq(Refs)
    BY <1>4 DEF Book
  <2> QED BY <2>1
<1>16. PICK m \in 1..N : b.fifo[at][m] = ref
  BY <1>2, <1>15 DEF BookInv, FifosSorted
<1>17. \A i \in 1..N : b.fifo[at][i] = ref => i = m
  <2> SUFFICES ASSUME NEW i \in 1..N, b.fifo[at][i] = ref, i # m
               PROVE  FALSE
    OBVIOUS
  <2>1. i < m \/ m < i
    OBVIOUS
  <2>2. b.orders[ref].seq < b.orders[ref].seq
    BY <1>4, <1>15, <1>16, <2>1 DEF BookInv, FifosSorted
  <2> QED BY <1>4, <2>2 DEF Node
<1>18. /\ p \in [0..N -> Nat] /\ p[0] = 0 /\ p[N] = b.qty[at]
       /\ p[m] = p[m - 1] + whole
       /\ \A i, j \in 0..N : i < j => p[i] < p[j]
  BY <1>3, <1>14, <1>15, <1>16 DEF RunningTotals
<1>19. /\ m \in 0..N /\ m - 1 \in 0..N /\ N \in 0..N /\ 0 \in 0..N
       /\ \A i \in 0..N : p[i] \in Nat
  BY <1>16, <1>18
<1>20. \A i \in 0..N : i >= m => p[i] >= p[m] /\ p[i] >= whole
  <2> SUFFICES ASSUME NEW i \in 0..N, i >= m
               PROVE  p[i] >= p[m] /\ p[i] >= whole
    OBVIOUS
  <2>1. i = m \/ m < i
    BY <1>16
  <2>2. p[i] >= p[m]
    BY <1>18, <1>19, <2>1
  <2> QED BY <1>4, <1>18, <1>19, <2>2
<1>21. b.qty[at] - whole = 0 => N = 1
  <2> SUFFICES ASSUME b.qty[at] - whole = 0
               PROVE  N = 1
    OBVIOUS
  <2>1. p[N] = whole
    BY <1>4, <1>18, <1>19
  <2>2. p[m] <= p[N]
    BY <1>16, <1>19, <1>20
  <2>3. p[m - 1] = 0
    BY <1>4, <1>18, <1>19, <2>1, <2>2
  <2>4. ~(0 < m - 1)
    BY <1>18, <1>19, <2>3
  <2>5. p[m] = p[N]
    BY <1>4, <1>18, <1>19, <2>1, <2>3
  <2>6. ~(m < N)
    BY <1>18, <1>19, <2>5
  <2> QED BY <1>16, <2>4, <2>6
<1>22. N = 1 => b.qty[at] - whole = 0
  BY <1>4, <1>16, <1>18
<1>23. /\ c.fifo[at] \in Seq(Refs) /\ Len(c.fifo[at]) = N - 1
       /\ \A i \in 1..(N - 1) :
            c.fifo[at][i] = IF i < m THEN b.fifo[at][i] ELSE b.fifo[at][i + 1]
  <2>1. b.fifo[at] \in Seq(Refs)
    BY <1>4 DEF Book
  <2>2. CASE b.qty[at] - whole = 0
    <3>1. c.fifo[at] = <<>>
      BY <1>4, <1>8, <2>2 DEF Book
    <3> QED BY <1>21, <2>2, <3>1
  <2>3. CASE b.qty[at] - whole # 0
    <3>1. c.fifo[at] = RemoveFirst(b.fifo[at], ref)
      BY <1>4, <1>8, <2>3 DEF Book
    <3>2. PICK k \in 1..Len(b.fifo[at]) : b.fifo[at][k] = ref /\ c.fifo[at] = RemoveAt(b.fifo[at], k)
      BY <1>15, <1>16, <2>1, <3>1, RemoveFirstProps
    <3>3. k = m
      BY <1>15, <1>17, <3>2
    <3>4. m \in 1..Len(b.fifo[at])
      BY <1>15
    <3>5. /\ RemoveAt(b.fifo[at], m) \in Seq(Refs)
          /\ Len(RemoveAt(b.fifo[at], m)) = Len(b.fifo[at]) - 1
          /\ \A i \in 1..(Len(b.fifo[at]) - 1) :
               RemoveAt(b.fifo[at], m)[i] = IF i < m THEN b.fifo[at][i] ELSE b.fifo[at][i + 1]
      BY <2>1, <3>4, RemoveAtProps
    <3> QED BY <1>15, <3>2, <3>3, <3>5
  <2> QED BY <2>2, <2>3

<1>24. FifosSorted(c)
  <2> DEFINE from(i) == IF i < m THEN i ELSE i + 1
  <2>1. \A i \in 1..(N - 1) : /\ from(i) \in 1..N /\ from(i) # m
                              /\ c.fifo[at][i] = b.fifo[at][from(i)]
    BY <1>16, <1>23
  <2>2. \A i, j \in 1..(N - 1) : i < j => from(i) < from(j)
    BY <1>15, <1>16
  <2> HIDE DEF from
  <2>3. \A i \in 1..(N - 1) : /\ c.fifo[at][i] \in Live(c)
                              /\ c.orders[c.fifo[at][i]] = b.orders[b.fifo[at][from(i)]]
    <3> TAKE i \in 1..(N - 1)
    <3>1. b.fifo[at][from(i)] \in Live(b) /\ b.fifo[at][from(i)] # ref
      BY <1>15, <1>17, <1>4, <2>1 DEF BookInv, FifosSorted
    <3> QED BY <1>11, <2>1, <3>1
  <2>0. /\ \A x \in 1..N : /\ b.orders[b.fifo[at][x]].at = at
                           /\ b.orders[b.fifo[at][x]].seq < b.seq
        /\ \A x, y \in 1..N :
             x < y => b.orders[b.fifo[at][x]].seq < b.orders[b.fifo[at][y]].seq
    BY <1>4, <1>15 DEF BookInv, FifosSorted
  <2>4. \A i \in 1..(N - 1) : /\ c.orders[c.fifo[at][i]].at = at
                              /\ c.orders[c.fifo[at][i]].seq < c.seq
    <3> SUFFICES ASSUME NEW i \in 1..(N - 1)
                 PROVE  /\ c.orders[c.fifo[at][i]].at = at
                        /\ c.orders[c.fifo[at][i]].seq < c.seq
      OBVIOUS
    <3>1. from(i) \in 1..N /\ c.orders[c.fifo[at][i]] = b.orders[b.fifo[at][from(i)]]
      BY <2>1, <2>3
    <3> QED BY <1>8, <2>0, <3>1
  <2>5. \A i, j \in 1..(N - 1) :
          i < j => c.orders[c.fifo[at][i]].seq < c.orders[c.fifo[at][j]].seq
    <3> SUFFICES ASSUME NEW i \in 1..(N - 1), NEW j \in 1..(N - 1), i < j
                 PROVE  c.orders[c.fifo[at][i]].seq < c.orders[c.fifo[at][j]].seq
      OBVIOUS
    <3>1. /\ from(i) \in 1..N /\ c.orders[c.fifo[at][i]] = b.orders[b.fifo[at][from(i)]]
          /\ from(j) \in 1..N /\ c.orders[c.fifo[at][j]] = b.orders[b.fifo[at][from(j)]]
          /\ from(i) < from(j)
      BY <2>1, <2>2, <2>3
    <3> QED BY <2>0, <3>1
  <2>6. ASSUME NEW l \in Level, l # at
        PROVE  /\ \A i \in 1..Len(c.fifo[l]) :
                    /\ c.fifo[l][i] \in Live(c)
                    /\ c.orders[c.fifo[l][i]].at = l
                    /\ c.orders[c.fifo[l][i]].seq < c.seq
               /\ \A i, j \in 1..Len(c.fifo[l]) :
                    i < j => c.orders[c.fifo[l][i]].seq < c.orders[c.fifo[l][j]].seq
    <3>1. c.fifo[l] = b.fifo[l]
      BY <1>12, <2>6
    <3>2. \A i \in 1..Len(b.fifo[l]) : /\ b.fifo[l][i] \in Live(b) /\ b.fifo[l][i] # ref
                                       /\ b.orders[b.fifo[l][i]].at = l
                                       /\ b.orders[b.fifo[l][i]].seq < b.seq
      BY <1>2, <2>6 DEF BookInv, FifosSorted
    <3>3. \A i \in 1..Len(b.fifo[l]) : /\ b.fifo[l][i] \in Live(c)
                                       /\ c.orders[b.fifo[l][i]] = b.orders[b.fifo[l][i]]
      BY <1>11, <3>2
    <3>4. \A i, j \in 1..Len(b.fifo[l]) :
            i < j => b.orders[b.fifo[l][i]].seq < b.orders[b.fifo[l][j]].seq
      BY DEF BookInv, FifosSorted
    <3>5. \A i \in 1..Len(c.fifo[l]) : /\ c.fifo[l][i] \in Live(c)
                                       /\ c.orders[c.fifo[l][i]].at = l
                                       /\ c.orders[c.fifo[l][i]].seq < c.seq
      <4> SUFFICES ASSUME NEW i \in 1..Len(b.fifo[l])
                   PROVE  /\ b.fifo[l][i] \in Live(c)
                          /\ c.orders[b.fifo[l][i]].at = l
                          /\ c.orders[b.fifo[l][i]].seq < c.seq
        BY <3>1
      <4> QED BY <1>8, <3>2, <3>3
    <3>6. \A i, j \in 1..Len(c.fifo[l]) :
            i < j => c.orders[c.fifo[l][i]].seq < c.orders[c.fifo[l][j]].seq
      <4> SUFFICES ASSUME NEW i \in 1..Len(b.fifo[l]), NEW j \in 1..Len(b.fifo[l]), i < j
                   PROVE  c.orders[b.fifo[l][i]].seq < c.orders[b.fifo[l][j]].seq
        BY <3>1
      <4>1. b.orders[b.fifo[l][i]].seq < b.orders[b.fifo[l][j]].seq
        BY <3>4
      <4> QED BY <3>3, <4>1
    <3> QED BY <3>5, <3>6
  <2>7. ASSUME NEW r \in Live(c)
        PROVE  \E i \in 1..Len(c.fifo[c.orders[r].at]) : c.fifo[c.orders[r].at][i] = r
    <3>1. r \in Live(b) /\ r # ref /\ c.orders[r] = b.orders[r]
      BY <1>11
    <3>2. PICK i \in 1..Len(b.fifo[b.orders[r].at]) : b.fifo[b.orders[r].at][i] = r
      BY <3>1 DEF BookInv, FifosSorted
    <3>3. CASE b.orders[r].at # at
      <4>1. b.orders[r].at \in Level
        BY <1>4, <3>1 DEF Book, Live, Node
      <4>2. c.fifo[b.orders[r].at] = b.fifo[b.orders[r].at]
        BY <1>12, <3>3, <4>1
      <4> QED BY <3>1, <3>2, <4>2
    <3>4. CASE b.orders[r].at = at
      <4>1. i \in 1..N /\ i # m /\ b.fifo[at][i] = r
        BY <1>15, <1>16, <3>1, <3>2, <3>4
      <4>2. CASE i < m
        <5>1. i \in 1..(N - 1) /\ c.fifo[at][i] = r
          BY <1>15, <1>16, <1>23, <4>1, <4>2
        <5> QED BY <1>23, <3>1, <3>4, <5>1
      <4>3. CASE i > m
        <5>1. i - 1 \in 1..(N - 1) /\ ~(i - 1 < m) /\ (i - 1) + 1 = i
          BY <1>15, <1>16, <4>1, <4>3
        <5>2. c.fifo[at][i - 1] = r
          BY <1>23, <4>1, <5>1
        <5> QED BY <1>23, <3>1, <3>4, <5>1, <5>2
      <4> QED BY <4>1, <4>2, <4>3
    <3> QED BY <3>3, <3>4
  <2>8. \A l \in Level :
          /\ \A i \in 1..Len(c.fifo[l]) :
               /\ c.fifo[l][i] \in Live(c)
               /\ c.orders[c.fifo[l][i]].at = l
               /\ c.orders[c.fifo[l][i]].seq < c.seq
          /\ \A i, j \in 1..Len(c.fifo[l]) :
               i < j => c.orders[c.fifo[l][i]].seq < c.orders[c.fifo[l][j]].seq
    <3> TAKE l \in Level
    <3>1. CASE l # at
      BY <2>6, <3>1
    <3>2. CASE l = at
      BY <1>23, <2>3, <2>4, <2>5, <3>2
    <3> QED BY <3>1, <3>2
  <2> QED BY <2>7, <2>8 DEF FifosSorted
<1>25. RowsLive(c)
  <2>1. ASSUME NEW i \in 1..Len(c.tracked)
        PROVE  /\ c.tracked[i].ref \in Live(c)
               /\ c.orders[c.tracked[i].ref].at = c.tracked[i].at
               /\ c.orders[c.tracked[i].ref].seq = c.tracked[i].seq
    <3>1. PICK j \in 1..Len(rows) : c.tracked[i] = rows[j]
      BY <1>10
    <3>2. /\ rows[j].ref \in Live(b)
          /\ b.orders[rows[j].ref].at = rows[j].at
          /\ b.orders[rows[j].ref].seq = rows[j].seq
      BY <1>9 DEF BookInv, RowsLive
    <3> QED BY <1>10, <1>11, <3>1, <3>2
  <2> QED BY <1>10, <2>1 DEF RowsLive
<1>26. CountIsLive(c) /\ c.resting \in Nat
  <2>1. IsFiniteSet(Live(b)) /\ b.resting = Cardinality(Live(b))
    BY DEF BookInv, CountIsLive
  <2>2. /\ IsFiniteSet(Live(b) \ {ref})
        /\ Cardinality(Live(b) \ {ref}) = Cardinality(Live(b)) - 1
    BY <2>1, FS_RemoveElement
  <2>3. Cardinality(Live(c)) \in Nat
    BY <1>11, <2>2, FS_CardinalityType
  <2> QED BY <1>8, <1>11, <2>1, <2>2, <2>3 DEF CountIsLive
<1>27. InsideCached(c)
  <2>1. c.occ[side] = occ /\ \A s \in Sides : s # side => c.occ[s] = b.occ[s] /\ c.best[s] = b.best[s]
    BY <1>4, <1>8 DEF Book
  <2>2. ASSUME NEW s \in Sides, NEW t \in Ticks
        PROVE  t \in c.occ[s] <=> c.fifo[<<s, t>>] # <<>>
    <3>1. t \in b.occ[s] <=> b.fifo[<<s, t>>] # <<>>
      BY DEF BookInv, InsideCached
    <3>2. CASE s = side /\ t = tick
      <4>1. b.fifo[at] # <<>>
        BY <1>15, <1>16
      <4>2. c.fifo[at] = <<>> <=> N = 1
        <5>1. c.fifo[at] = <<>> <=> Len(c.fifo[at]) = 0
          BY <1>23
        <5> QED BY <1>15, <1>23, <5>1
      <4> QED BY <1>5, <1>7, <1>21, <1>22, <2>1, <3>1, <3>2, <4>1, <4>2
    <3>3. CASE ~(s = side /\ t = tick)
      <4>1. <<s, t>> \in Level /\ <<s, t>> # at
        BY <1>5, <3>3 DEF Level
      <4>2. t \in c.occ[s] <=> t \in b.occ[s]
        BY <1>7, <2>1, <3>3
      <4> QED BY <1>12, <3>1, <4>1, <4>2
    <3> QED BY <3>2, <3>3
  <2>3. ASSUME NEW s \in Sides
        PROVE  c.best[s] = BestTick(s, c.occ[s])
    <3>1. b.best[s] = BestTick(s, b.occ[s]) /\ b.occ[s] \in SUBSET Ticks
      BY <1>4 DEF BookInv, InsideCached, Book
    <3>2. CASE s # side
      BY <2>1, <3>1, <3>2
    <3>3. CASE s = side
      <4>1. c.best[s] = IF b.qty[at] - whole = 0 /\ tick = b.best[s]
                        THEN BestTick(s, occ) ELSE b.best[s]
        BY <1>4, <1>8, <3>3 DEF Book
      <4>2. CASE b.qty[at] - whole # 0
        BY <1>7, <2>1, <3>1, <3>3, <4>1, <4>2
      <4>3. CASE b.qty[at] - whole = 0 /\ tick = b.best[s]
        BY <2>1, <3>3, <4>1, <4>3
      <4>4. CASE b.qty[at] - whole = 0 /\ tick # b.best[s]
        <5>1. occ = b.occ[s] \ {tick} /\ c.occ[s] = occ /\ c.best[s] = b.best[s]
          BY <1>7, <2>1, <3>3, <4>1, <4>4
        <5> QED BY <3>1, <4>4, <5>1, InsideAfterRemove
      <4> QED BY <4>2, <4>3, <4>4
    <3> QED BY <3>2, <3>3
  <2> QED BY <2>2, <2>3 DEF InsideCached
<1>28. ASSUME NEW l \in Level
       PROVE  \E q : RunningTotals(c, l, q, exact)
  <2>1. CASE l # at
    <3>1. PICK q : RunningTotals(b, l, q, exact)
      BY DEF BookInv, TotalsKept
    <3>2. c.fifo[l] = b.fifo[l] /\ c.qty[l] = b.qty[l]
      BY <1>12, <2>1
    <3>3. \A i \in 1..Len(b.fifo[l]) : /\ b.orders[b.fifo[l][i]].at = l
                                       /\ c.orders[b.fifo[l][i]] = b.orders[b.fifo[l][i]]
      <4>1. \A i \in 1..Len(b.fifo[l]) : /\ b.fifo[l][i] \in Live(b) /\ b.fifo[l][i] # ref
                                         /\ b.orders[b.fifo[l][i]].at = l
        BY <1>2, <2>1 DEF BookInv, FifosSorted
      <4> QED BY <1>11, <4>1
    <3>4. ASSUME NEW i \in 1..Len(c.tracked), NEW k \in 1..Len(c.fifo[l]),
                 c.tracked[i].ref = c.fifo[l][k]
          PROVE  c.tracked[i].ahead <= q[k - 1] /\ (exact => c.tracked[i].ahead = q[k - 1])
      <4>1. PICK j \in 1..Len(b.tracked) : c.tracked[i] = rows[j]
        BY <1>9, <1>10
      <4>2. b.tracked[j].ref = b.fifo[l][k]
        BY <1>9, <3>2, <3>4, <4>1
      <4>3. b.tracked[j].at # at
        <5>1. k \in 1..Len(b.fifo[l])
          BY <3>2
        <5>2. b.orders[b.tracked[j].ref].at = l
          BY <3>3, <4>2, <5>1
        <5>3. b.tracked[j].at = b.orders[b.tracked[j].ref].at
          BY DEF BookInv, RowsLive
        <5> QED BY <2>1, <5>2, <5>3
      <4>4. rows[j].ahead = b.tracked[j].ahead
        BY <1>9a, <4>3
      <4>5. /\ b.tracked[j].ahead <= q[k - 1]
            /\ exact => b.tracked[j].ahead = q[k - 1]
        <5>1. \A x \in 1..Len(b.tracked), y \in 1..Len(b.fifo[l]) :
                b.tracked[x].ref = b.fifo[l][y] =>
                  /\ b.tracked[x].ahead <= q[y - 1]
                  /\ exact => b.tracked[x].ahead = q[y - 1]
          BY <3>1 DEF RunningTotals
        <5>2. k \in 1..Len(b.fifo[l])
          BY <3>2
        <5> QED BY <4>2, <5>1, <5>2
      <4> QED BY <4>1, <4>4, <4>5
    <3>5. \A i \in 1..Len(c.fifo[l]) : q[i] = q[i - 1] + c.orders[c.fifo[l][i]].qty
      BY <3>1, <3>2, <3>3 DEF RunningTotals
    <3>6. RunningTotals(c, l, q, exact)
      BY <3>1, <3>2, <3>4, <3>5 DEF RunningTotals
    <3> QED BY <3>6
  <2>2. CASE l = at
    <3> DEFINE q == [i \in 0..(N - 1) |-> IF i < m THEN p[i] ELSE p[i + 1] - whole]
    <3>1. \A i \in 0..(N - 1) : /\ i \in 0..N /\ i + 1 \in 0..N
                                /\ i < m => q[i] = p[i]
                                /\ i >= m => q[i] = p[i + 1] - whole
                                /\ q[i] \in Nat
      <4> SUFFICES ASSUME NEW i \in 0..(N - 1)
                   PROVE  /\ i \in 0..N /\ i + 1 \in 0..N
                          /\ i < m => q[i] = p[i]
                          /\ i >= m => q[i] = p[i + 1] - whole
                          /\ q[i] \in Nat
        OBVIOUS
      <4>1. i \in 0..N /\ i + 1 \in 0..N
        BY <1>15
      <4>2. i >= m => p[i + 1] - whole \in Nat
        <5>1. i >= m => i + 1 >= m
          BY <1>16
        <5> QED BY <1>4, <1>19, <1>20, <4>1, <5>1
      <4>3. p[i] \in Nat
        BY <1>19, <4>1
      <4>4. i < m \/ i >= m
        BY <1>16
      <4> QED BY <4>1, <4>2, <4>3, <4>4
    <3>2. q \in [0..(N - 1) -> Nat]
      BY <3>1
    <3> HIDE DEF q
    <3>3. q[0] = 0
      BY <1>15, <1>16, <1>18, <3>1
    <3>4. \A i \in 1..(N - 1) : q[i] = q[i - 1] + c.orders[c.fifo[at][i]].qty
      <4> SUFFICES ASSUME NEW i \in 1..(N - 1)
                   PROVE  q[i] = q[i - 1] + c.orders[c.fifo[at][i]].qty
        OBVIOUS
      <4>1. i \in 0..(N - 1) /\ i - 1 \in 0..(N - 1) /\ i \in 1..N /\ i + 1 \in 1..N
        BY <1>15
      <4>2. c.fifo[at][i] \in Live(c) /\ c.orders[c.fifo[at][i]] = b.orders[c.fifo[at][i]]
        BY <1>4, <1>11, <1>23, <1>24 DEF FifosSorted
      <4>3. b.orders[c.fifo[at][i]].qty \in Nat
        BY <1>4, <1>11, <4>2 DEF Book, Live, Node
      <4>4. CASE i < m
        <5>1. p[i] = p[i - 1] + b.orders[b.fifo[at][i]].qty
          BY <1>14, <1>15, <4>1 DEF RunningTotals
        <5>2. c.fifo[at][i] = b.fifo[at][i]
          BY <1>23, <4>4
        <5>3. i - 1 < m
          BY <1>16, <4>4
        <5>4. q[i] = p[i] /\ q[i - 1] = p[i - 1]
          BY <3>1, <4>1, <4>4, <5>3
        <5> QED BY <4>2, <5>1, <5>2, <5>4
      <4>5. CASE i >= m
        <5>1. p[i + 1] = p[(i + 1) - 1] + b.orders[b.fifo[at][i + 1]].qty
          BY <1>14, <1>15, <4>1 DEF RunningTotals
        <5>2. (i + 1) - 1 = i /\ c.fifo[at][i] = b.fifo[at][i + 1]
          BY <1>16, <1>23, <4>1, <4>5
        <5>3. q[i] = p[i + 1] - whole /\ p[i + 1] = p[i] + b.orders[c.fifo[at][i]].qty
          BY <3>1, <4>1, <4>5, <5>1, <5>2
        <5>4. q[i - 1] = p[i] - whole
          <6>1. CASE i = m
            <7>1. q[i - 1] = p[m - 1]
              BY <1>16, <3>1, <4>1, <6>1
            <7> QED BY <1>4, <1>18, <1>19, <6>1, <7>1
          <6>2. CASE i > m
            <7>1. i - 1 >= m /\ (i - 1) + 1 = i
              BY <1>16, <4>1, <6>2
            <7> QED BY <3>1, <4>1, <7>1
          <6> QED BY <1>16, <4>1, <4>5, <6>1, <6>2
        <5>5. p[i] \in Nat
          BY <1>19, <3>1, <4>1
        <5> QED BY <1>4, <4>2, <4>3, <5>3, <5>4, <5>5
      <4> QED BY <1>16, <4>1, <4>4, <4>5
    <3>5. \A i, j \in 0..(N - 1) : i < j => q[i] < q[j]
      <4> SUFFICES ASSUME NEW i \in 0..(N - 1), NEW j \in 0..(N - 1), i < j
                   PROVE  q[i] < q[j]
        OBVIOUS
      <4>1. /\ i \in 0..N /\ j \in 0..N /\ i + 1 \in 0..N /\ j + 1 \in 0..N
            /\ p[i] \in Nat /\ p[j] \in Nat /\ p[i + 1] \in Nat /\ p[j + 1] \in Nat
        BY <1>19, <3>1
      <4>2. CASE j < m
        <5>1. i < m
          BY <1>16, <4>2
        <5> QED BY <1>18, <3>1, <4>1, <4>2, <5>1
      <4>3. CASE i >= m
        <5>1. j >= m /\ i + 1 < j + 1
          BY <1>16, <4>3
        <5>2. p[i + 1] < p[j + 1]
          BY <1>18, <4>1, <5>1
        <5> QED BY <1>4, <3>1, <4>1, <4>3, <5>1, <5>2
      <4>4. CASE i < m /\ j >= m
        <5>1. i = m - 1 \/ i < m - 1
          BY <1>16, <4>4
        <5>2. p[i] <= p[m - 1]
          BY <1>18, <1>19, <4>1, <5>1, SMTT(30)
        <5>3. p[m] < p[j + 1]
          BY <1>16, <1>18, <1>19, <4>1, <4>4
        <5>4. p[m - 1] < p[j + 1] - whole
          BY <1>4, <1>18, <1>19, <4>1, <5>3
        <5> QED BY <1>4, <1>19, <3>1, <4>1, <4>4, <5>2, <5>4
      <4> QED BY <1>16, <4>2, <4>3, <4>4
    <3>6. q[N - 1] = c.qty[at]
      <4>1. N - 1 \in 0..(N - 1) /\ (N - 1) + 1 = N
        BY <1>15, <1>16
      <4>2. CASE N - 1 < m
        <5>1. m = N
          BY <1>16, <4>2
        <5>2. q[N - 1] = p[N - 1] /\ p[N] = p[N - 1] + whole
          BY <1>18, <3>1, <4>1, <4>2, <5>1
        <5>3. p[N - 1] \in Nat
          BY <1>19, <5>1
        <5> QED BY <1>4, <1>13, <1>18, <5>2, <5>3
      <4>3. CASE N - 1 >= m
        BY <1>13, <1>18, <3>1, <4>1, <4>3
      <4> QED BY <1>16, <4>2, <4>3
    <3>7. ASSUME NEW i \in 1..Len(c.tracked), NEW k \in 1..(N - 1),
                 c.tracked[i].ref = c.fifo[at][k]
          PROVE  c.tracked[i].ahead <= q[k - 1] /\ (exact => c.tracked[i].ahead = q[k - 1])
      <4>1. PICK j \in 1..Len(b.tracked) : c.tracked[i] = rows[j]
        BY <1>9, <1>10
      <4>2. PICK x : x = (IF k < m THEN k ELSE k + 1)
        OBVIOUS
      <4>3. x \in 1..N /\ x # m /\ c.fifo[at][k] = b.fifo[at][x]
        BY <1>15, <1>16, <1>23, <4>2
      <4>4. b.tracked[j].ref = b.fifo[at][x]
        BY <1>9, <3>7, <4>1, <4>3
      <4>5. exact /\ ~bySeq => m = 1
        <5>1. exact /\ ~bySeq => b.fifo[at][1] = ref /\ 1 \in 1..N
          BY <1>2, <1>16
        <5> QED BY <1>17, <5>1
      <4>6. /\ x <= m => rows[j].ahead <= p[x - 1] /\ (exact => rows[j].ahead = p[x - 1])
            /\ x > m => /\ rows[j].ahead <= p[x - 1] - whole
                        /\ exact => rows[j].ahead = p[x - 1] - whole
        <5>1. /\ whole <= b.orders[ref].qty /\ at = b.orders[ref].at
              /\ m \in 1..Len(b.fifo[at]) /\ x \in 1..Len(b.fifo[at])
          BY <1>2, <1>3, <1>4, <1>15, <4>3
        <5> QED BY <1>4, <1>6, <1>14, <1>16, <4>4, <4>5, <5>1, CreditMoves, SMTT(30)
      <4>7. k - 1 \in 0..(N - 1)
        BY <1>15
      <4>8. CASE k < m
        <5>1. x = k /\ x <= m /\ k - 1 < m
          BY <1>16, <4>2, <4>8
        <5> QED BY <3>1, <4>1, <4>6, <4>7, <5>1
      <4>9. CASE k >= m
        <5>1. x = k + 1 /\ x > m /\ x - 1 = k
          BY <1>16, <4>2, <4>9
        <5>2. q[k - 1] = p[k] - whole
          <6>1. CASE k = m
            <7>1. q[k - 1] = p[m - 1]
              BY <1>16, <3>1, <4>7, <6>1
            <7> QED BY <1>4, <1>18, <1>19, <6>1, <7>1
          <6>2. CASE k > m
            <7>1. k - 1 >= m /\ (k - 1) + 1 = k
              BY <1>16, <6>2
            <7> QED BY <3>1, <4>7, <7>1
          <6> QED BY <1>16, <4>9, <6>1, <6>2
        <5> QED BY <4>1, <4>6, <5>1, <5>2
      <4> QED BY <1>16, <4>8, <4>9
    <3>8. RunningTotals(c, at, q, exact)
      BY <1>23, <3>2, <3>3, <3>4, <3>5, <3>6, <3>7 DEF RunningTotals
    <3> QED BY <2>2, <3>8
  <2> QED BY <2>1, <2>2
<1>29. c \in Book
  <2>1. c.orders \in [Refs -> Node \cup {NoNode}]
    BY <1>4, <1>8 DEF Book
  <2>2. c.fifo \in [Level -> Seq(Refs)]
    <3>1. \A l \in Level : c.fifo[l] \in Seq(Refs)
      BY <1>4, <1>12, <1>23 DEF Book
    <3> QED BY <1>4, <1>8, <3>1 DEF Book
  <2>3. c.qty \in [Level -> Nat]
    <3>1. \A l \in Level : c.qty[l] \in Nat
      <4> TAKE l \in Level
      <4>1. PICK q : RunningTotals(c, l, q, exact)
        BY <1>28
      <4>2. Len(c.fifo[l]) \in 0..Len(c.fifo[l])
        <5>1. c.fifo[l] \in Seq(Refs)
          BY <2>2
        <5> QED BY <5>1
      <4> QED BY <4>1, <4>2 DEF RunningTotals
    <3> QED BY <1>4, <1>8, <3>1 DEF Book
  <2>4. c.occ \in [Sides -> SUBSET Ticks]
    BY <1>4, <1>7, <1>8 DEF Book
  <2>5. c.best \in [Sides -> Ticks \cup {None}]
    <3>1. BestTick(side, occ) \in Ticks \cup {None}
      <4>1. occ \subseteq Ticks
        BY <1>4, <1>7 DEF Book
      <4> QED BY <4>1, InsideInTicks
    <3> QED BY <1>4, <1>8, <3>1 DEF Book
  <2> QED BY <1>4, <1>8, <1>10, <1>26, <2>1, <2>2, <2>3, <2>4, <2>5 DEF Book
<1> QED
  BY <1>1, <1>24, <1>25, <1>26, <1>27, <1>28, <1>29 DEF BookInv, TotalsKept

-----------------------------------------------------------------------------
(* What TotalUpTo and PlaceOf return of a book that satisfies BookInv.     *)

\* Running totals are unique: the recursive sum is the p of RunningTotals.
LEMMA TotalsAreSums ==
  ASSUME NEW exact \in BOOLEAN, NEW b \in Book, NEW l \in Level,
         NEW p, RunningTotals(b, l, p, exact)
  PROVE  TotalUpTo(b, l) = p
<1>1. PICK n \in Nat : n = Len(b.fifo[l])
  <2>1. b.fifo[l] \in Seq(Refs)
    BY DEF Book
  <2> QED BY <2>1
<1> DEFINE D(g) == g = [i \in 0..n |->
                          IF i = 0 THEN 0
                          ELSE g[i - 1] + b.orders[b.fifo[l][i]].qty]
<1>2. /\ p \in [0..n -> Nat] /\ p[0] = 0
      /\ \A i \in 1..n : p[i] = p[i - 1] + b.orders[b.fifo[l][i]].qty
  BY <1>1 DEF RunningTotals
<1>3. D(p)
  BY <1>2
<1>4. D(CHOOSE g : D(g))
  BY <1>3
<1>5. TotalUpTo(b, l) = CHOOSE g : D(g)
  BY <1>1 DEF TotalUpTo
<1>6. PICK s : s = TotalUpTo(b, l)
  OBVIOUS
<1>7. D(s)
  BY <1>4, <1>5, <1>6
<1> DEFINE T == {i \in 0..n : s[i] # p[i]}
<1>8. T = {}
  <2> SUFFICES ASSUME T # {}
               PROVE  FALSE
    OBVIOUS
  <2>1. PICK x \in T : \A y \in T : x <= y
    <3>1. T \subseteq Nat
      OBVIOUS
    <3> HIDE DEF T
    <3> QED BY <3>1, LeastElement
  <2>2. x # 0
    BY <1>2, <1>7, <2>1
  <2>3. x - 1 \in 0..n /\ x - 1 \notin T
    BY <2>1, <2>2
  <2>4. s[x - 1] = p[x - 1] /\ x \in 1..n /\ s[x] # p[x]
    BY <2>1, <2>2, <2>3
  <2>5. s[x] = s[x - 1] + b.orders[b.fifo[l][x]].qty
    BY <1>7, <2>2, <2>4
  <2> QED BY <1>2, <2>4, <2>5
<1>9. \A i \in 0..n : s[i] = p[i]
  BY <1>8
<1>10. s = [i \in 0..n |-> s[i]]
  BY <1>7
<1> QED
  BY <1>2, <1>6, <1>9, <1>10

LEMMA PlaceOfFifo ==
  ASSUME NEW exact \in BOOLEAN, NEW b, BookInv(b, exact), NEW ref \in Live(b)
  PROVE  /\ PlaceOf(b, ref) \in 1..Len(b.fifo[b.orders[ref].at])
         /\ b.fifo[b.orders[ref].at][PlaceOf(b, ref)] = ref
<1>1. \E i \in 1..Len(b.fifo[b.orders[ref].at]) : b.fifo[b.orders[ref].at][i] = ref
  BY DEF BookInv, FifosSorted
<1> QED
  BY <1>1 DEF PlaceOf

LEMMA SharesBeforeIsTotal ==
  ASSUME NEW exact \in BOOLEAN, NEW b, BookInv(b, exact), NEW ref \in Live(b),
         NEW p, RunningTotals(b, b.orders[ref].at, p, exact)
  PROVE  SharesBefore(b, ref) = p[PlaceOf(b, ref) - 1]
<1>1. b \in Book /\ b.orders[ref].at \in Level
  BY DEF BookInv, Book, Live, Node
<1>2. TotalUpTo(b, b.orders[ref].at) = p
  BY <1>1, TotalsAreSums
<1> QED
  BY <1>2 DEF SharesBefore

-----------------------------------------------------------------------------
(* Tracking and untracking.                                                *)

LEMMA TrackedInv ==
  ASSUME NEW exact \in BOOLEAN, NEW b, BookInv(b, exact), NEW ref \in Live(b),
         ~IsTracked(b, ref),
         NEW row, row = [ref |-> ref, at |-> b.orders[ref].at,
                         seq |-> b.orders[ref].seq, ahead |-> SharesBefore(b, ref)],
         NEW c, c = [b EXCEPT !.tracked = Append(@, row)]
  PROVE  BookInv(c, exact)
<1>1. b \in Book /\ ref \in Refs /\ b.orders[ref] \in Node
  BY DEF BookInv, Book, Live, Node
<1>2. b.orders[ref].at \in Level /\ b.orders[ref].seq \in Nat
  BY <1>1 DEF Node
<1>3. PICK at : at = b.orders[ref].at
  OBVIOUS
<1>4. PICK p : RunningTotals(b, at, p, exact)
  BY <1>2, <1>3 DEF BookInv, TotalsKept
<1>5. PICK k : k = PlaceOf(b, ref)
  OBVIOUS
<1>6. k \in 1..Len(b.fifo[at]) /\ b.fifo[at][k] = ref
  BY <1>3, <1>5, PlaceOfFifo
<1>7. SharesBefore(b, ref) = p[k - 1]
  BY <1>3, <1>4, <1>5, SharesBeforeIsTotal
<1>8. b.fifo[at] \in Seq(Refs)
  BY <1>1, <1>2, <1>3 DEF Book
<1>9. p[k - 1] \in Nat
  BY <1>4, <1>6, <1>8 DEF RunningTotals
<1>10. row \in Row /\ row.ref = ref /\ row.at = at /\ row.ahead = p[k - 1]
       /\ row.seq = b.orders[ref].seq
  BY <1>1, <1>2, <1>3, <1>7, <1>9 DEF Row
<1>11. b.tracked \in Seq(Row)
  BY <1>1 DEF Book
<1>12. PICK M \in Nat : M = Len(b.tracked)
  BY <1>11
<1>13. /\ c.orders = b.orders /\ c.fifo = b.fifo /\ c.qty = b.qty /\ c.occ = b.occ
       /\ c.best = b.best /\ c.seq = b.seq /\ c.resting = b.resting
       /\ c.tracked = Append(b.tracked, row)
  BY <1>1 DEF Book
<1>14. /\ c.tracked \in Seq(Row) /\ Len(c.tracked) = M + 1
       /\ c.tracked[M + 1] = row
       /\ \A i \in 1..M : c.tracked[i] = b.tracked[i]
  BY <1>10, <1>11, <1>12, <1>13
<1>15. Live(c) = Live(b)
  BY <1>13 DEF Live
<1>16. \A i \in 1..M : b.tracked[i].ref # ref
  BY <1>12 DEF IsTracked
<1>17. c \in Book
  <2>1. c = [b EXCEPT !.tracked = c.tracked]
    BY <1>1 DEF Book
  <2> HIDE <1>13
  <2> QED BY <1>1, <1>14, <2>1 DEF Book
<1>18. FifosSorted(c) /\ CountIsLive(c) /\ InsideCached(c)
  <2>1. FifosSorted(c)
    <3>1. FifosSorted(b)
      BY DEF BookInv
    <3> QED BY <1>13, <3>1, SortedAlike
  <2>2. CountIsLive(c)
    BY <1>13, <1>15 DEF BookInv, CountIsLive
  <2>3. InsideCached(c)
    BY <1>13 DEF BookInv, InsideCached
  <2> QED BY <2>1, <2>2, <2>3
<1>19. RowsLive(c)
  <2>1. ASSUME NEW i \in 1..(M + 1)
        PROVE  /\ c.tracked[i].ref \in Live(c)
               /\ c.orders[c.tracked[i].ref].at = c.tracked[i].at
               /\ c.orders[c.tracked[i].ref].seq = c.tracked[i].seq
    <3>1. CASE i \in 1..M
      BY <1>12, <1>13, <1>14, <1>15, <3>1 DEF BookInv, RowsLive
    <3>2. CASE i = M + 1
      BY <1>3, <1>10, <1>13, <1>14, <1>15, <3>2
    <3> QED BY <1>12, <3>1, <3>2
  <2>2. ASSUME NEW i \in 1..(M + 1), NEW j \in 1..(M + 1),
               c.tracked[i].ref = c.tracked[j].ref
        PROVE  i = j
    <3>1. CASE i \in 1..M /\ j \in 1..M
      BY <1>12, <1>14, <2>2, <3>1 DEF BookInv, RowsLive
    <3>2. CASE i = M + 1 \/ j = M + 1
      BY <1>10, <1>12, <1>14, <1>16, <2>2, <3>2
    <3> QED BY <1>12, <3>1, <3>2
  <2> QED BY <1>14, <2>1, <2>2 DEF RowsLive
<1>20. ASSUME NEW l \in Level
       PROVE  \E q : RunningTotals(c, l, q, exact)
  <2>1. PICK q : RunningTotals(b, l, q, exact) /\ (l = at => q = p)
    BY <1>4 DEF BookInv, TotalsKept
  <2>2. ASSUME NEW i \in 1..(M + 1), NEW x \in 1..Len(c.fifo[l]),
               c.tracked[i].ref = c.fifo[l][x]
        PROVE  c.tracked[i].ahead <= q[x - 1] /\ (exact => c.tracked[i].ahead = q[x - 1])
    <3>1. CASE i \in 1..M
      <4>1. \A y \in 1..Len(b.tracked), z \in 1..Len(b.fifo[l]) :
              b.tracked[y].ref = b.fifo[l][z] =>
                /\ b.tracked[y].ahead <= q[z - 1]
                /\ exact => b.tracked[y].ahead = q[z - 1]
        BY <2>1 DEF RunningTotals
      <4>2. c.fifo[l] = b.fifo[l] /\ c.tracked[i] = b.tracked[i] /\ i \in 1..Len(b.tracked)
        BY <1>12, <1>13, <1>14, <3>1
      <4> QED BY <2>2, <4>1, <4>2
    <3>2. CASE i = M + 1
      <4>1. c.fifo[l][x] = ref /\ x \in 1..Len(b.fifo[l]) /\ b.fifo[l][x] = ref
        BY <1>10, <1>13, <1>14, <2>2, <3>2
      <4>2. l = at
        BY <1>3, <4>1 DEF BookInv, FifosSorted
      <4>3. x = k
        <5>1. x \in Nat /\ k \in Nat
          BY <1>6, <1>8, <4>1, <4>2
        <5>2. ~(x < k) /\ ~(k < x)
          <6>1. \A i1, j1 \in 1..Len(b.fifo[at]) :
                  i1 < j1 => b.orders[b.fifo[at][i1]].seq < b.orders[b.fifo[at][j1]].seq
            BY <1>2, <1>3 DEF BookInv, FifosSorted
          <6>2. ~(b.orders[ref].seq < b.orders[ref].seq)
            BY <1>2
          <6> QED BY <1>6, <4>1, <4>2, <6>1, <6>2
        <5> QED BY <5>1, <5>2
      <4> QED BY <1>9, <1>10, <1>14, <2>1, <3>2, <4>2, <4>3
    <3> QED BY <1>12, <3>1, <3>2
  <2>3. RunningTotals(c, l, q, exact)
    BY <1>13, <1>14, <2>1, <2>2 DEF RunningTotals
  <2> QED BY <2>3
<1> QED
  BY <1>17, <1>18, <1>19, <1>20 DEF BookInv, TotalsKept

LEMMA UntrackedInv ==
  ASSUME NEW exact \in BOOLEAN, NEW b, BookInv(b, exact), NEW ref \in Refs,
         NEW c, c = Untracked(b, ref)
  PROVE  BookInv(c, exact)
<1>1. b \in Book /\ b.tracked \in Seq(Row)
  BY DEF BookInv, Book
<1>2. /\ c.orders = b.orders /\ c.fifo = b.fifo /\ c.qty = b.qty /\ c.occ = b.occ
      /\ c.best = b.best /\ c.seq = b.seq /\ c.resting = b.resting
      /\ c.tracked = WithoutRow(b.tracked, ref)
      /\ c = [b EXCEPT !.tracked = c.tracked]
  BY <1>1 DEF Book, Untracked
<1>3. \A i, j \in 1..Len(b.tracked) : b.tracked[i].ref = b.tracked[j].ref => i = j
  BY DEF BookInv, RowsLive
<1>4. /\ c.tracked \in Seq(Row)
      /\ \A i \in 1..Len(c.tracked) : \E j \in 1..Len(b.tracked) : c.tracked[i] = b.tracked[j]
      /\ \A i, j \in 1..Len(c.tracked) : c.tracked[i].ref = c.tracked[j].ref => i = j
  <2>1. PICK rows \in Seq(Row) : rows = b.tracked
    BY <1>1
  <2>2. c.tracked = WithoutRow(rows, ref)
    BY <1>2, <2>1
  <2>3. \A i, j \in 1..Len(rows) : rows[i].ref = rows[j].ref => i = j
    BY <1>3, <2>1
  <2>4. /\ c.tracked \in Seq(Row)
        /\ \A i \in 1..Len(c.tracked) :
             c.tracked[i].ref # ref /\ \E j \in 1..Len(rows) : c.tracked[i] = rows[j]
        /\ \A i, j \in 1..Len(c.tracked) : c.tracked[i].ref = c.tracked[j].ref => i = j
    BY <2>2, <2>3, UntrackedProps
  <2> QED BY <2>1, <2>4
<1>5. Live(c) = Live(b)
  BY <1>2 DEF Live
<1>6. c \in Book
  <2>1. PICK rows : rows = c.tracked
    OBVIOUS
  <2>2. c = [b EXCEPT !.tracked = rows] /\ rows \in Seq(Row)
    BY <1>2, <1>4, <2>1
  <2> QED BY <1>1, <2>2 DEF Book
<1>7. FifosSorted(c) /\ CountIsLive(c) /\ InsideCached(c)
  <2>1. c.orders = b.orders /\ c.fifo = b.fifo /\ c.seq = b.seq
    BY <1>2
  <2>4. FifosSorted(c)
    BY <2>1, SortedAlike DEF BookInv
  <2>2. CountIsLive(c)
    BY <1>2, <1>5 DEF BookInv, CountIsLive
  <2>3. InsideCached(c)
    BY <1>2 DEF BookInv, InsideCached
  <2> QED BY <2>2, <2>3, <2>4
<1>8. RowsLive(c)
  <2>1. ASSUME NEW i \in 1..Len(c.tracked)
        PROVE  /\ c.tracked[i].ref \in Live(c)
               /\ c.orders[c.tracked[i].ref].at = c.tracked[i].at
               /\ c.orders[c.tracked[i].ref].seq = c.tracked[i].seq
    <3>1. PICK j \in 1..Len(b.tracked) : c.tracked[i] = b.tracked[j]
      BY <1>4
    <3> QED BY <1>2, <1>5, <3>1 DEF BookInv, RowsLive
  <2> QED BY <1>4, <2>1 DEF RowsLive
<1>9. ASSUME NEW l \in Level
      PROVE  \E q : RunningTotals(c, l, q, exact)
  <2>1. PICK q : RunningTotals(b, l, q, exact)
    BY DEF BookInv, TotalsKept
  <2>2. ASSUME NEW i \in 1..Len(c.tracked), NEW x \in 1..Len(c.fifo[l]),
               c.tracked[i].ref = c.fifo[l][x]
        PROVE  c.tracked[i].ahead <= q[x - 1] /\ (exact => c.tracked[i].ahead = q[x - 1])
    <3>1. PICK j \in 1..Len(b.tracked) : c.tracked[i] = b.tracked[j]
      BY <1>4
    <3>2. x \in 1..Len(b.fifo[l]) /\ b.tracked[j].ref = b.fifo[l][x]
      BY <1>2, <2>2, <3>1
    <3>3. b.tracked[j].ahead <= q[x - 1] /\ (exact => b.tracked[j].ahead = q[x - 1])
      BY <2>1, <3>2 DEF RunningTotals
    <3> QED BY <3>1, <3>3
  <2>3. RunningTotals(c, l, q, exact)
    BY <1>2, <2>1, <2>2 DEF RunningTotals
  <2> QED BY <2>3
<1> QED
  BY <1>6, <1>7, <1>8, <1>9 DEF BookInv, TotalsKept

-----------------------------------------------------------------------------
(* Every event preserves the invariant.                                    *)

LEMMA ReducedInv ==
  ASSUME NEW exact \in BOOLEAN, NEW b, BookInv(b, exact), NEW ref \in Live(b),
         NEW n \in Nat, NEW bySeq \in BOOLEAN,
         exact /\ ~bySeq => b.fifo[b.orders[ref].at][1] = ref
  PROVE  BookInv(Reduced(b, ref, n, bySeq), exact)
<1>1. b.orders[ref].qty \in Nat
  BY DEF BookInv, Book, Live, Node
<1>2. CASE n < b.orders[ref].qty
  BY <1>2, ReducedPartInv
<1>3. CASE n >= b.orders[ref].qty
  BY <1>3, ReducedWholeInv
<1> QED
  BY <1>1, <1>2, <1>3

LEMMA RemovedWholeInv ==
  ASSUME NEW exact \in BOOLEAN, NEW b, BookInv(b, exact), NEW ref \in Live(b)
  PROVE  BookInv(RemovedWhole(b, ref), exact)
<1>1. PICK n \in Nat : n = b.orders[ref].qty
  BY DEF BookInv, Book, Live, Node
<1>2. BookInv(Reduced(b, ref, n, TRUE), exact)
  BY ReducedInv
<1> QED
  BY <1>1, <1>2 DEF RemovedWhole

LEMMA AcceptedInsert ==
  ASSUME NEW b, NEW ref, NEW shares \in 0..MaxShares, NEW tick,
         InsertFault(b, ref, shares, tick) = "none"
  PROVE  ref \in Refs \ Live(b) /\ shares \in Nat \ {0} /\ tick \in Ticks
<1>1. ~(ref \notin Refs \/ tick \notin Ticks \/ shares <= 0
          \/ Cardinality(Live(b)) >= MaxOrders)
  BY DEF InsertFault
<1>2. ref \notin Live(b)
  BY <1>1 DEF InsertFault
<1>3. shares \in Nat
  BY L3BookAssumption
<1>4. ~(shares <= 0)
  BY <1>1
<1>5. shares # 0
  <2>1. shares = 0 => FALSE
    <3>1. 0 <= 0
      OBVIOUS
    <3> QED BY <1>4, <3>1
  <2> QED BY <2>1
<1>6. ref \in Refs /\ tick \in Ticks
  BY <1>1
<1> QED
  BY <1>2, <1>3, <1>5, <1>6

LEMMA AcceptedInsertInv ==
  ASSUME NEW exact \in BOOLEAN, NEW b, BookInv(b, exact), NEW ref,
         NEW side \in Sides, NEW shares \in 0..MaxShares, NEW tick,
         InsertFault(b, ref, shares, tick) = "none"
  PROVE  BookInv(Inserted(b, ref, side, shares, tick), exact)
<1>1. ref \in Refs \ Live(b) /\ shares \in Nat \ {0} /\ tick \in Ticks
  BY AcceptedInsert
<1> QED
  BY <1>1, InsertedInv

LEMMA HeadIsFirst ==
  ASSUME NEW exact \in BOOLEAN, NEW b, BookInv(b, exact),
         NEW ref \in AtHead(b), ref \in Live(b)
  PROVE  b.fifo[b.orders[ref].at][1] = ref
<1>1. PlaceOf(b, ref) = 1
  BY DEF AtHead
<1>2. b.fifo[b.orders[ref].at][PlaceOf(b, ref)] = ref
  BY PlaceOfFifo
<1> QED
  BY <1>1, <1>2

\* One event of any feed keeps the invariant; the exact one needs executions
\* to hit the heads of the queues.
LEMMA EventInv ==
  ASSUME NEW exact \in BOOLEAN, NEW executable \in SUBSET Refs,
         exact => executable = AtHead(book),
         BookInv(book, exact), Event(executable)
  PROVE  BookInv(book', exact)
<1>1. ASSUME NEW ref \in Refs \cup {BadRef}, NEW side \in Sides,
             NEW shares \in 0..MaxShares, NEW tick \in -1..Ladder,
             OnAdd(ref, side, shares, tick)
      PROVE  BookInv(book', exact)
  <2>1. CASE InsertFault(book, ref, shares, tick) = "none"
    <3>1. book' = Inserted(book, ref, side, shares, tick)
      BY <1>1, <2>1 DEF OnAdd
    <3> QED BY <2>1, <3>1, AcceptedInsertInv
  <2>2. CASE InsertFault(book, ref, shares, tick) # "none"
    BY <1>1, <2>2 DEF OnAdd
  <2> QED BY <2>1, <2>2
<1>2. ASSUME NEW ref \in executable, NEW shares \in 0..MaxShares,
             OnExecute(ref, shares)
      PROVE  BookInv(book', exact)
  <2>1. CASE UnknownRef(ref)
    BY <2>1 DEF UnknownRef
  <2>2. CASE ref \in Live(book) /\ book' = Reduced(book, ref, shares, FALSE)
    <3>1. exact => book.fifo[book.orders[ref].at][1] = ref
      BY <2>2, HeadIsFirst
    <3>2. shares \in Nat
      OBVIOUS
    <3>3. BookInv(Reduced(book, ref, shares, FALSE), exact)
      BY <2>2, <3>1, <3>2, ReducedInv
    <3> QED BY <2>2, <3>3
  <2> QED BY <1>2, <2>1, <2>2 DEF OnExecute
<1>3. ASSUME NEW ref \in Refs, NEW shares \in 0..MaxShares, OnCancel(ref, shares)
      PROVE  BookInv(book', exact)
  <2>1. CASE UnknownRef(ref)
    BY <2>1 DEF UnknownRef
  <2>2. CASE ref \in Live(book) /\ book' = Reduced(book, ref, shares, TRUE)
    <3>1. shares \in Nat
      OBVIOUS
    <3>2. BookInv(Reduced(book, ref, shares, TRUE), exact)
      BY <2>2, <3>1, ReducedInv
    <3> QED BY <2>2, <3>2
  <2> QED BY <1>3, <2>1, <2>2 DEF OnCancel
<1>4. ASSUME NEW ref \in Refs, OnDelete(ref)
      PROVE  BookInv(book', exact)
  <2>1. CASE UnknownRef(ref)
    BY <2>1 DEF UnknownRef
  <2>2. CASE ref \in Live(book) /\ book' = RemovedWhole(book, ref)
    BY <2>2, RemovedWholeInv
  <2> QED BY <1>4, <2>1, <2>2 DEF OnDelete
<1>5. ASSUME NEW orig \in Refs, NEW new \in Refs \cup {BadRef},
             NEW shares \in 0..MaxShares, NEW tick \in -1..Ladder,
             OnReplace(orig, new, shares, tick)
      PROVE  BookInv(book', exact)
  <2>1. CASE UnknownRef(orig)
    BY <2>1 DEF UnknownRef
  <2>2. CASE orig \in Live(book) /\ ~UnknownRef(orig)
    <3>1. PICK without : without = RemovedWhole(book, orig)
      OBVIOUS
    <3>2. BookInv(without, exact)
      BY <2>2, <3>1, RemovedWholeInv
    <3>3. PICK side \in Sides : side = book.orders[orig].at[1]
      <4>1. book.orders[orig].at \in Level
        BY <2>2 DEF BookInv, Book, Live, Node
      <4> QED BY <4>1, LevelParts
    <3>4. CASE /\ InsertFault(without, new, shares, tick) = "none"
               /\ book' = Inserted(without, new, side, shares, tick)
      BY <3>2, <3>4, AcceptedInsertInv
    <3>5. CASE book' = without
      BY <3>2, <3>5
    <3> QED BY <1>5, <2>2, <3>1, <3>3, <3>4, <3>5 DEF OnReplace
  <2> QED BY <1>5, <2>1, <2>2 DEF OnReplace
<1>6. ASSUME OnTrade
      PROVE  BookInv(book', exact)
  BY <1>6 DEF OnTrade
<1>7. ASSUME NEW ref \in Refs, Track(ref)
      PROVE  BookInv(book', exact)
  <2>1. PICK row : /\ row = [ref |-> ref, at |-> book.orders[ref].at,
                             seq |-> book.orders[ref].seq,
                             ahead |-> SharesBefore(book, ref)]
                   /\ book' = [book EXCEPT !.tracked = Append(@, row)]
                   /\ ref \in Live(book) /\ ~IsTracked(book, ref)
    BY <1>7 DEF Track
  <2> QED BY <2>1, TrackedInv
<1>8. ASSUME NEW ref \in Refs, Untrack(ref)
      PROVE  BookInv(book', exact)
  BY <1>8, UntrackedInv DEF Untrack
<1> QED
  BY <1>1, <1>2, <1>3, <1>4, <1>5, <1>6, <1>7, <1>8 DEF Event

LEMMA TalliesKept == TypeOK /\ [Next]_vars => counted' \subseteq Tallies
<1> SUFFICES ASSUME TypeOK, [Next]_vars
             PROVE  counted' \subseteq Tallies
  OBVIOUS
<1>1. CASE UNCHANGED vars
  BY <1>1 DEF TypeOK, vars
<1>2. CASE Next
  <2>1. \A b, ref, shares, tick :
          InsertFault(b, ref, shares, tick) \in {"none", "outOfBand", "duplicateRef"}
    BY DEF InsertFault
  <2>2. ASSUME NEW ref, UnknownRef(ref)
        PROVE  counted' \subseteq Tallies
    BY <2>2 DEF UnknownRef, Tallies
  <2>3. ASSUME NEW ref, NEW side, NEW shares, NEW tick, OnAdd(ref, side, shares, tick)
        PROVE  counted' \subseteq Tallies
    <3>1. PICK fault : fault = InsertFault(book, ref, shares, tick)
      OBVIOUS
    <3>2. counted' = {"add"} \/ (fault # "none" /\ counted' = {fault})
      BY <2>3, <3>1 DEF OnAdd
    <3>3. fault # "none" => fault \in {"outOfBand", "duplicateRef"}
      BY <2>1, <3>1
    <3> QED BY <3>2, <3>3 DEF Tallies
  <2>4. ASSUME NEW ref, NEW shares, OnExecute(ref, shares) \/ OnCancel(ref, shares)
        PROVE  counted' \subseteq Tallies
    BY <2>2, <2>4 DEF OnExecute, OnCancel, Tallies
  <2>5. ASSUME NEW ref, OnDelete(ref)
        PROVE  counted' \subseteq Tallies
    BY <2>2, <2>5 DEF OnDelete, Tallies
  <2>6. ASSUME NEW orig, NEW new, NEW shares, NEW tick, OnReplace(orig, new, shares, tick)
        PROVE  counted' \subseteq Tallies
    BY <2>1, <2>2, <2>6 DEF OnReplace, Tallies
  <2>7. ASSUME NEW ref, OnTrade \/ Track(ref) \/ Untrack(ref)
        PROVE  counted' \subseteq Tallies
    BY <2>7 DEF OnTrade, Track, Untrack, Tallies
  <2>8. OnTrade => counted' \subseteq Tallies
    BY DEF OnTrade, Tallies
  <2> QED
    BY <1>2, <2>3, <2>4, <2>5, <2>6, <2>7, <2>8 DEF Next, Event
<1> QED
  BY <1>1, <1>2

-----------------------------------------------------------------------------
(* What the invariant says of a book.                                      *)

Inv == BookInv(book, FALSE) /\ counted \subseteq Tallies
ExactInv == BookInv(book, TRUE)

LEMMA InvImpliesOrder == BookInv(book, FALSE) => FifoIsPriorityOrder
<1> SUFFICES ASSUME BookInv(book, FALSE), NEW l \in Level
             PROVE  /\ \A i \in 1..Len(book.fifo[l]) :
                         /\ book.fifo[l][i] \in Live(book)
                         /\ book.orders[book.fifo[l][i]].at = l
                    /\ \A r \in Live(book) :
                         book.orders[r].at = l => r \in ToSet(book.fifo[l])
                    /\ \A i, j \in 1..Len(book.fifo[l]) :
                         i < j => book.orders[book.fifo[l][i]].seq
                                    < book.orders[book.fifo[l][j]].seq
                    /\ \A i \in 1..Len(book.fifo[l]) :
                         book.orders[book.fifo[l][i]].seq < book.seq
  BY DEF FifoIsPriorityOrder
<1>1. book.fifo[l] \in Seq(Refs)
  BY DEF BookInv, Book
<1>2. \A r \in Live(book) : book.orders[r].at = l => r \in ToSet(book.fifo[l])
  BY <1>1 DEF BookInv, FifosSorted, ToSet
<1> QED
  BY <1>2 DEF BookInv, FifosSorted

LEMMA InvImpliesTotals == BookInv(book, FALSE) => LevelTotalIsSum
<1> SUFFICES ASSUME BookInv(book, FALSE), NEW l \in Level
             PROVE  book.qty[l] = TotalUpTo(book, l)[Len(book.fifo[l])]
  BY DEF LevelTotalIsSum
<1>1. PICK p : RunningTotals(book, l, p, FALSE)
  BY DEF BookInv, TotalsKept
<1>2. TotalUpTo(book, l) = p
  BY <1>1, TotalsAreSums DEF BookInv
<1> QED
  BY <1>1, <1>2 DEF RunningTotals

LEMMA InvImpliesInside == BookInv(book, FALSE) => InsideIsBestResting
<1> SUFFICES ASSUME BookInv(book, FALSE), NEW s \in Sides
             PROVE  book.best[s] = BestTick(s, {t \in Ticks : book.fifo[<<s, t>>] # <<>>})
  BY DEF InsideIsBestResting
<1>1. book.occ[s] \subseteq Ticks /\ book.best[s] = BestTick(s, book.occ[s])
  BY DEF BookInv, Book, InsideCached
<1>2. book.occ[s] = {t \in Ticks : book.fifo[<<s, t>>] # <<>>}
  BY <1>1 DEF BookInv, InsideCached
<1> QED
  BY <1>1, <1>2

LEMMA InvImpliesTracking == BookInv(book, FALSE) => TrackingIsLive
<1> SUFFICES ASSUME BookInv(book, FALSE)
             PROVE  TrackingIsLive
  OBVIOUS
<1> QED
  BY DEF BookInv, RowsLive, CountIsLive, TrackingIsLive

LEMMA InvBoundsAhead ==
  ASSUME NEW exact \in BOOLEAN, NEW b, BookInv(b, exact), NEW i \in 1..Len(b.tracked)
  PROVE  /\ b.tracked[i].ahead <= SharesBefore(b, b.tracked[i].ref)
         /\ exact => b.tracked[i].ahead = SharesBefore(b, b.tracked[i].ref)
<1>1. PICK ref \in Live(b) : ref = b.tracked[i].ref
  BY DEF BookInv, RowsLive
<1>2. PICK l \in Level : l = b.orders[ref].at
  BY <1>1 DEF BookInv, Book, Live, Node
<1>3. PICK p : RunningTotals(b, l, p, exact)
  BY DEF BookInv, TotalsKept
<1>4. PICK k : k = PlaceOf(b, ref)
  OBVIOUS
<1>5. k \in 1..Len(b.fifo[l]) /\ b.fifo[l][k] = ref
  BY <1>2, <1>4, PlaceOfFifo
<1>6. SharesBefore(b, ref) = p[k - 1]
  BY <1>2, <1>3, <1>4, SharesBeforeIsTotal
<1> QED
  BY <1>1, <1>3, <1>5, <1>6 DEF RunningTotals

-----------------------------------------------------------------------------
(* Theorems: Spec drives the book with any feed.                           *)

LEMMA InvIsInvariant == Spec => []Inv
<1>1. Init => Inv
  BY EmptyBookInv DEF Init, Inv
<1>2. Inv /\ [Next]_vars => Inv'
  <2> SUFFICES ASSUME Inv, [Next]_vars
               PROVE  Inv'
    OBVIOUS
  <2>1. BookInv(book, FALSE)'
    <3>1. CASE UNCHANGED vars
      BY <3>1 DEF Inv, vars
    <3>2. CASE Next
      BY <3>2, EventInv DEF Inv, Next
    <3> QED BY <3>1, <3>2
  <2>2. TypeOK
    BY DEF Inv, TypeOK, BookInv
  <2>3. counted' \subseteq Tallies
    BY <2>2, TalliesKept
  <2> QED BY <2>1, <2>3 DEF Inv
<1> QED
  BY <1>1, <1>2, PTL DEF Spec

\* The fields of L3BookBuilder keep their types whatever the feed sends: a
\* level's total never goes below zero, and no row points outside the book.
THEOREM TypeCorrect == Spec => []TypeOK
<1>1. Inv => TypeOK
  BY DEF Inv, BookInv, TypeOK
<1> QED
  BY <1>1, InvIsInvariant, PTL

\* Each level's FIFO is exactly its live orders in order of insertion.
THEOREM FifoOrderCorrect == Spec => []FifoIsPriorityOrder
<1>1. Inv => FifoIsPriorityOrder
  BY InvImpliesOrder DEF Inv
<1> QED
  BY <1>1, InvIsInvariant, PTL

\* The cached total of a level is the sum of the orders queued there.
THEOREM LevelTotalCorrect == Spec => []LevelTotalIsSum
<1>1. Inv => LevelTotalIsSum
  BY InvImpliesTotals DEF Inv
<1> QED
  BY <1>1, InvIsInvariant, PTL

\* The cached inside of a side is its best tick with a resting order.
THEOREM InsideCorrect == Spec => []InsideIsBestResting
<1>1. Inv => InsideIsBestResting
  BY InvImpliesInside DEF Inv
<1> QED
  BY <1>1, InvIsInvariant, PTL

\* Tracking rows describe live orders, one each, never a reused reference.
THEOREM TrackingCorrect == Spec => []TrackingIsLive
<1>1. Inv => TrackingIsLive
  BY InvImpliesTracking DEF Inv
<1> QED
  BY <1>1, InvIsInvariant, PTL

\* All redundant views of the book agree, whatever the handlers did.
THEOREM ViewsCorrect == Spec => []ViewsAgree
BY FifoOrderCorrect, LevelTotalCorrect, InsideCorrect, TrackingCorrect, PTL DEF ViewsAgree

\* On any feed at all, shares_ahead is a lower bound of the true queue.
THEOREM AheadIsSafe == Spec => []AheadNeverOverstates
<1>1. Inv => AheadNeverOverstates
  <2> SUFFICES ASSUME BookInv(book, FALSE), NEW i \in 1..Len(book.tracked)
               PROVE  book.tracked[i].ahead <= SharesBefore(book, book.tracked[i].ref)
    BY DEF Inv, AheadNeverOverstates
  <2> QED BY InvBoundsAhead
<1> QED
  BY <1>1, InvIsInvariant, PTL

-----------------------------------------------------------------------------
(* Theorems: PrioritySpec, where executions hit the heads of the queues.   *)

\* When the venue keeps price-time priority, shares_ahead is what a walk of
\* the FIFO would count, after any number of events since the order joined.
THEOREM AheadCorrect == PrioritySpec => []AheadIsExact
<1>1. Init => ExactInv
  BY EmptyBookInv DEF Init, ExactInv
<1>2. ExactInv /\ [PriorityNext]_vars => ExactInv'
  <2> SUFFICES ASSUME ExactInv, [PriorityNext]_vars
               PROVE  ExactInv'
    OBVIOUS
  <2>1. CASE UNCHANGED vars
    BY <2>1 DEF ExactInv, vars
  <2>2. CASE PriorityNext
    <3>1. AtHead(book) \in SUBSET Refs
      BY DEF AtHead
    <3> QED BY <2>2, <3>1, EventInv DEF ExactInv, PriorityNext
  <2> QED BY <2>1, <2>2
<1>3. ExactInv => AheadIsExact
  <2> SUFFICES ASSUME BookInv(book, TRUE), NEW i \in 1..Len(book.tracked)
               PROVE  book.tracked[i].ahead = SharesBefore(book, book.tracked[i].ref)
    BY DEF ExactInv, AheadIsExact
  <2> QED BY InvBoundsAhead
<1> QED
  BY <1>1, <1>2, <1>3, PTL DEF PrioritySpec


-----------------------------------------------------------------------------
(* Queues as values, and what an event does to them.                       *)

Queues == [Level -> Seq([ref : Refs, qty : Nat \ {0}])]
RefsIn(q) == UNION {{q[l][i].ref : i \in 1..Len(q[l])} : l \in Level}
Distinct(q) ==
  \A l, m \in Level : \A i \in 1..Len(q[l]), j \in 1..Len(q[m]) :
    q[l][i].ref = q[m][j].ref => l = m /\ i = j

Stands(q, ref, l, i) == l \in Level /\ i \in 1..Len(q[l]) /\ q[l][i].ref = ref

Joined(q, l, ref, n) == [q EXCEPT ![l] = Append(@, [ref |-> ref, qty |-> n])]
Cut(q, l, i, n) == [q EXCEPT ![l] = Floor!ReducedAt(@, i, n)]
Taken(q, l, i) == [q EXCEPT ![l] = RemoveAt(@, i)]

LEMMA QueuesEqual ==
  ASSUME NEW q \in Queues, NEW r \in Queues,
         \A l \in Level : Len(q[l]) = Len(r[l]),
         \A l \in Level : \A i \in 1..Len(q[l]) :
           q[l][i].ref = r[l][i].ref /\ q[l][i].qty = r[l][i].qty
  PROVE  q = r
<1>1. ASSUME NEW l \in Level PROVE q[l] = r[l]
  <2>1. /\ q[l] \in Seq([ref : Refs, qty : Nat \ {0}])
        /\ r[l] \in Seq([ref : Refs, qty : Nat \ {0}])
    BY DEF Queues
  <2>2. ASSUME NEW i \in 1..Len(q[l]) PROVE q[l][i] = r[l][i]
    <3>1. PICK S : S = [ref : Refs, qty : Nat \ {0}]
      OBVIOUS
    <3>2. q[l] \in Seq(S) /\ r[l] \in Seq(S) /\ Len(q[l]) = Len(r[l])
      BY <2>1, <3>1
    <3>3. q[l][i] \in S /\ r[l][i] \in S
      BY <3>2
    <3> QED BY <3>1, <3>3
  <2> QED BY <2>1, <2>2, SeqEqual
<1> QED BY <1>1 DEF Queues

\* What the queues need of a book: its invariant on any feed.
Sane(b) == BookInv(b, FALSE)

LEMMA Inexact ==
  ASSUME NEW exact \in BOOLEAN, NEW b, BookInv(b, exact)
  PROVE  Sane(b)
<1>1. ASSUME NEW l \in Level PROVE \E p : RunningTotals(b, l, p, FALSE)
  <2>1. PICK p : RunningTotals(b, l, p, exact)
    BY DEF BookInv, TotalsKept
  <2>2. RunningTotals(b, l, p, FALSE)
    BY <2>1 DEF RunningTotals
  <2> QED BY <2>2
<1> QED BY <1>1 DEF Sane, BookInv, TotalsKept

LEMMA SaneFacts ==
  ASSUME NEW b, Sane(b)
  PROVE  b \in Book /\ FifosSorted(b)
BY DEF Sane, BookInv

LEMMA SaneOrder ==
  ASSUME NEW b, Sane(b), NEW r \in Live(b)
  PROVE  r \in Refs /\ b.orders[r] \in Node
BY SaneFacts DEF Book, Live

LEMMA SanePlace ==
  ASSUME NEW b, Sane(b), NEW ref \in Live(b)
  PROVE  /\ PlaceOf(b, ref) \in 1..Len(b.fifo[b.orders[ref].at])
         /\ b.fifo[b.orders[ref].at][PlaceOf(b, ref)] = ref
BY PlaceOfFifo, Zenon DEF Sane

LEMMA SaneReduced ==
  ASSUME NEW b, Sane(b), NEW ref \in Live(b), NEW n \in Nat, NEW bySeq \in BOOLEAN
  PROVE  Sane(Reduced(b, ref, n, bySeq))
<1>1. BookInv(b, FALSE) BY DEF Sane
<1>2. BookInv(Reduced(b, ref, n, bySeq), FALSE) BY <1>1, ReducedInv, Zenon
<1> QED BY <1>2 DEF Sane

LEMMA SaneInserted ==
  ASSUME NEW b, Sane(b), NEW ref \in Refs \ Live(b), NEW side \in Sides, NEW tick \in Ticks,
         NEW shares \in Nat \ {0}
  PROVE  Sane(Inserted(b, ref, side, shares, tick))
<1>1. BookInv(b, FALSE) BY DEF Sane
<1>2. BookInv(Inserted(b, ref, side, shares, tick), FALSE) BY <1>1, InsertedInv, Zenon
<1> QED BY <1>2 DEF Sane

\* The queues of a book are its FIFOs with the shares of their orders.
LEMMA BookQueue ==
  ASSUME NEW b, Sane(b), NEW q, q = QueueOf(b)
  PROVE  /\ q \in Queues
         /\ \A l \in Level : Len(q[l]) = Len(b.fifo[l]) /\ Len(q[l]) \in Nat
         /\ \A l \in Level : \A i \in 1..Len(q[l]) :
              /\ q[l][i].ref = b.fifo[l][i]
              /\ q[l][i].qty = b.orders[b.fifo[l][i]].qty
              /\ q[l][i].ref \in Live(b) /\ b.orders[q[l][i].ref].at = l
<1>1. ASSUME NEW l \in Level
      PROVE  /\ q[l] \in Seq([ref : Refs, qty : Nat \ {0}])
             /\ Len(q[l]) = Len(b.fifo[l]) /\ Len(q[l]) \in Nat
             /\ \A i \in 1..Len(q[l]) :
                  /\ q[l][i] = [ref |-> b.fifo[l][i], qty |-> b.orders[b.fifo[l][i]].qty]
                  /\ b.fifo[l][i] \in Live(b) /\ b.orders[b.fifo[l][i]].at = l
  <2>1. b.fifo[l] \in Seq(Refs)
    BY SaneFacts DEF Book
  <2>2. PICK n \in Nat : n = Len(b.fifo[l])
    BY <2>1
  <2>3. ASSUME NEW i \in 1..n
        PROVE  /\ b.fifo[l][i] \in Live(b) /\ b.orders[b.fifo[l][i]].at = l
               /\ b.fifo[l][i] \in Refs /\ b.orders[b.fifo[l][i]].qty \in Nat \ {0}
    <3>1. b.fifo[l][i] \in Live(b) /\ b.orders[b.fifo[l][i]].at = l
      BY <2>2, SaneFacts DEF FifosSorted
    <3>2. b.fifo[l][i] \in Refs /\ b.orders[b.fifo[l][i]] \in Node
      BY <3>1, SaneOrder
    <3> QED BY <3>1, <3>2 DEF Node
  <2>4. q[l] = [i \in 1..n |-> [ref |-> b.fifo[l][i], qty |-> b.orders[b.fifo[l][i]].qty]]
    BY <2>2 DEF QueueOf
  <2>5. q[l] \in Seq([ref : Refs, qty : Nat \ {0}]) /\ Len(q[l]) = n
    <3>1. PICK S : S = [ref : Refs, qty : Nat \ {0}]
      OBVIOUS
    <3>2. \A i \in 1..n : q[l][i] \in S
      BY <2>3, <2>4, <3>1, SMTT(30)
    <3>3. q[l] \in [1..n -> S]
      BY <2>4, <3>2
    <3>4. q[l] \in Seq(S) /\ Len(q[l]) = n
      BY <3>3
    <3> QED BY <3>1, <3>4
  <2> QED BY <2>2, <2>3, <2>4, <2>5
<1>2. q = [l \in Level |-> q[l]]
  BY DEF QueueOf
<1>3. q \in Queues
  BY <1>1, <1>2 DEF Queues
<1>4. ASSUME NEW l \in Level, NEW i \in 1..Len(q[l])
      PROVE  /\ q[l][i].ref = b.fifo[l][i]
             /\ q[l][i].qty = b.orders[b.fifo[l][i]].qty
             /\ q[l][i].ref \in Live(b) /\ b.orders[q[l][i].ref].at = l
  <2>1. /\ q[l][i] = [ref |-> b.fifo[l][i], qty |-> b.orders[b.fifo[l][i]].qty]
        /\ b.fifo[l][i] \in Live(b) /\ b.orders[b.fifo[l][i]].at = l
    BY <1>1
  <2> QED BY <2>1
<1> QED BY <1>1, <1>3, <1>4

\* An order has one place in them.
LEMMA BookQueueDistinct ==
  ASSUME NEW b, Sane(b)
  PROVE  Distinct(QueueOf(b)) /\ RefsIn(QueueOf(b)) = Live(b)
<1>1. PICK q : q = QueueOf(b)
  OBVIOUS
<1>2. /\ \A l \in Level : Len(q[l]) = Len(b.fifo[l]) /\ Len(q[l]) \in Nat
      /\ \A l \in Level : \A i \in 1..Len(q[l]) :
           /\ q[l][i].ref = b.fifo[l][i]
           /\ q[l][i].ref \in Live(b) /\ b.orders[q[l][i].ref].at = l
  BY <1>1, BookQueue
<1>3. ASSUME NEW l \in Level, NEW m \in Level, NEW i \in 1..Len(q[l]), NEW j \in 1..Len(q[m]),
             q[l][i].ref = q[m][j].ref
      PROVE  l = m /\ i = j
  <2>1. l = m
    BY <1>2, <1>3, SMTT(30)
  <2>2. b.fifo[l][i] = b.fifo[l][j] /\ i \in 1..Len(b.fifo[l]) /\ j \in 1..Len(b.fifo[l])
    BY <1>2, <1>3, <2>1
  <2>3. b.orders[b.fifo[l][i]].seq \in Nat
    BY <1>2, SaneFacts DEF Book, Live, Node
  <2>4. ~(i < j) /\ ~(j < i)
    BY <2>2, <2>3, SaneFacts, SMTT(30) DEF FifosSorted
  <2> QED BY <2>1, <2>4
<1>4. RefsIn(q) \subseteq Live(b)
  BY <1>2 DEF RefsIn
<1>5. ASSUME NEW r \in Live(b) PROVE r \in RefsIn(q)
  <2>1. b.orders[r].at \in Level
    BY SaneFacts DEF Book, Live, Node
  <2>2. PICK i \in 1..Len(b.fifo[b.orders[r].at]) : b.fifo[b.orders[r].at][i] = r
    BY SaneFacts DEF FifosSorted
  <2>3. i \in 1..Len(q[b.orders[r].at]) /\ q[b.orders[r].at][i].ref = r
    BY <1>2, <2>1, <2>2
  <2> QED BY <2>1, <2>3 DEF RefsIn
<1>6. Distinct(q)
  BY <1>3 DEF Distinct
<1> QED BY <1>1, <1>4, <1>5, <1>6

\* A live order stands where PlaceOf finds it, with its shares.
LEMMA BookQueuePlace ==
  ASSUME NEW b, Sane(b), NEW ref \in Live(b)
  PROVE  /\ Stands(QueueOf(b), ref, b.orders[ref].at, PlaceOf(b, ref))
         /\ QueueOf(b)[b.orders[ref].at][PlaceOf(b, ref)].qty = b.orders[ref].qty
<1>1. PICK q : q = QueueOf(b)
  OBVIOUS
<1>2. b.orders[ref].at \in Level
  BY SaneFacts DEF Book, Live, Node
<1>3. /\ PlaceOf(b, ref) \in 1..Len(b.fifo[b.orders[ref].at])
      /\ b.fifo[b.orders[ref].at][PlaceOf(b, ref)] = ref
  BY SanePlace
<1> QED BY <1>1, <1>2, <1>3, BookQueue, SMTT(30) DEF Stands

\* An order at the back of a queue.
LEMMA JoinedQueue ==
  ASSUME NEW q \in Queues, NEW l \in Level, NEW ref \in Refs, NEW n \in Nat \ {0}
  PROVE  /\ Joined(q, l, ref, n) \in Queues
         /\ \A m \in Level : m # l => Joined(q, l, ref, n)[m] = q[m]
         /\ Len(q[l]) \in Nat /\ Len(Joined(q, l, ref, n)[l]) = Len(q[l]) + 1
         /\ \A i \in 1..Len(q[l]) : Joined(q, l, ref, n)[l][i] = q[l][i]
         /\ Joined(q, l, ref, n)[l][Len(q[l]) + 1] = [ref |-> ref, qty |-> n]
<1>1. PICK S : S = [ref : Refs, qty : Nat \ {0}]
  OBVIOUS
<1>2. PICK o : o = [ref |-> ref, qty |-> n]
  OBVIOUS
<1>3. o \in S /\ q \in [Level -> Seq(S)] /\ q[l] \in Seq(S)
  BY <1>1, <1>2 DEF Queues
<1>4. PICK r : r = Joined(q, l, ref, n)
  OBVIOUS
<1>5. r = [q EXCEPT ![l] = Append(@, o)]
  BY <1>2, <1>4 DEF Joined
<1>6. /\ Append(q[l], o) \in Seq(S) /\ Len(q[l]) \in Nat /\ Len(Append(q[l], o)) = Len(q[l]) + 1
      /\ \A i \in 1..Len(q[l]) : Append(q[l], o)[i] = q[l][i]
      /\ Append(q[l], o)[Len(q[l]) + 1] = o
  BY <1>3
<1>7. r[l] = Append(q[l], o) /\ \A m \in Level : m # l => r[m] = q[m]
  BY <1>3, <1>5
<1>8. r \in [Level -> Seq(S)]
  BY <1>3, <1>5, <1>6
<1>9. r \in Queues
  BY <1>1, <1>8 DEF Queues
<1> QED BY <1>2, <1>4, <1>6, <1>7, <1>9

\* An order out of a queue.
LEMMA TakenQueue ==
  ASSUME NEW q \in Queues, NEW l \in Level, NEW i \in 1..Len(q[l])
  PROVE  /\ Taken(q, l, i) \in Queues
         /\ \A m \in Level : m # l => Taken(q, l, i)[m] = q[m]
         /\ Len(q[l]) \in Nat /\ Len(Taken(q, l, i)[l]) = Len(q[l]) - 1
         /\ \A j \in 1..(Len(q[l]) - 1) :
              Taken(q, l, i)[l][j] = IF j < i THEN q[l][j] ELSE q[l][j + 1]
<1>1. PICK S : S = [ref : Refs, qty : Nat \ {0}]
  OBVIOUS
<1>2. q \in [Level -> Seq(S)] /\ q[l] \in Seq(S) /\ Len(q[l]) \in Nat
  <2>1. q \in [Level -> Seq(S)]
    BY <1>1 DEF Queues
  <2>2. q[l] \in Seq(S)
    BY <2>1
  <2> QED BY <2>1, <2>2
<1>3. PICK r : r = Taken(q, l, i)
  OBVIOUS
<1>4. r = [q EXCEPT ![l] = RemoveAt(@, i)]
  BY <1>3 DEF Taken
<1>5. PICK s : s = RemoveAt(q[l], i)
  OBVIOUS
<1>6. /\ s \in Seq(S) /\ Len(s) = Len(q[l]) - 1
      /\ \A j \in 1..(Len(q[l]) - 1) : s[j] = IF j < i THEN q[l][j] ELSE q[l][j + 1]
  BY <1>2, <1>5, RemoveAtProps
<1>7. r[l] = s /\ \A m \in Level : m # l => r[m] = q[m]
  BY <1>2, <1>4, <1>5
<1>8. r \in [Level -> Seq(S)]
  BY <1>2, <1>4, <1>5, <1>6
<1>9. r \in Queues
  BY <1>1, <1>8 DEF Queues
<1> QED BY <1>2, <1>3, <1>6, <1>7, <1>9

\* Shares out of an order: the order itself when they are all it has.
LEMMA CutWhole ==
  ASSUME NEW q \in Queues, NEW l \in Level, NEW i \in 1..Len(q[l]), NEW n, n >= q[l][i].qty
  PROVE  Cut(q, l, i, n) = Taken(q, l, i)
<1>1. Floor!ReducedAt(q[l], i, n) = RemoveAt(q[l], i)
  BY DEF Floor!ReducedAt, Floor!RemoveAt, RemoveAt
<1> QED BY <1>1 DEF Cut, Taken

LEMMA CutPart ==
  ASSUME NEW q \in Queues, NEW l \in Level, NEW i \in 1..Len(q[l]), NEW n \in Nat,
         n < q[l][i].qty
  PROVE  /\ Cut(q, l, i, n) \in Queues
         /\ \A m \in Level : m # l => Cut(q, l, i, n)[m] = q[m]
         /\ Len(Cut(q, l, i, n)[l]) = Len(q[l])
         /\ \A j \in 1..Len(q[l]) :
              /\ Cut(q, l, i, n)[l][j].ref = q[l][j].ref
              /\ Cut(q, l, i, n)[l][j].qty = IF j = i THEN q[l][j].qty - n ELSE q[l][j].qty
<1>1. PICK S : S = [ref : Refs, qty : Nat \ {0}]
  OBVIOUS
<1>2. q \in [Level -> Seq(S)] /\ q[l] \in Seq(S) /\ Len(q[l]) \in Nat
  <2>1. q \in [Level -> Seq(S)]
    BY <1>1 DEF Queues
  <2>2. q[l] \in Seq(S)
    BY <2>1
  <2> QED BY <2>1, <2>2
<1>3. PICK r : r = Cut(q, l, i, n)
  OBVIOUS
<1>4. q[l][i] \in S
  BY <1>2
<1>5. q[l][i].ref \in Refs /\ q[l][i].qty \in Nat /\ ~(n >= q[l][i].qty)
  BY <1>1, <1>4
<1>6. PICK o : o = [q[l][i] EXCEPT !.qty = @ - n]
  OBVIOUS
<1>7. o \in S /\ o.ref = q[l][i].ref /\ o.qty = q[l][i].qty - n
  BY <1>1, <1>4, <1>5, <1>6
<1>8. PICK s : s = [q[l] EXCEPT ![i] = o]
  OBVIOUS
<1>9. Floor!ReducedAt(q[l], i, n) = s
  BY <1>5, <1>6, <1>8 DEF Floor!ReducedAt
<1>10. r = [q EXCEPT ![l] = s]
  BY <1>3, <1>9 DEF Cut
<1>11. /\ s \in Seq(S) /\ Len(s) = Len(q[l]) /\ s[i] = o
       /\ \A j \in 1..Len(q[l]) : j # i => s[j] = q[l][j]
  BY <1>2, <1>7, <1>8
<1>12. r[l] = s /\ \A m \in Level : m # l => r[m] = q[m]
  BY <1>2, <1>10
<1>13. r \in [Level -> Seq(S)]
  BY <1>2, <1>10, <1>11
<1>14. r \in Queues
  BY <1>1, <1>13 DEF Queues
<1>15. ASSUME NEW j \in 1..Len(q[l])
       PROVE  /\ s[j].ref = q[l][j].ref
              /\ s[j].qty = IF j = i THEN q[l][j].qty - n ELSE q[l][j].qty
  BY <1>7, <1>11
<1> QED BY <1>3, <1>11, <1>12, <1>14, <1>15

-----------------------------------------------------------------------------
(* What the handlers do to the queues of the book.                         *)

LEMMA InsertedQueue ==
  ASSUME NEW b, Sane(b),
         NEW ref \in Refs \ Live(b), NEW side \in Sides, NEW tick \in Ticks,
         NEW shares \in Nat \ {0}
  PROVE  QueueOf(Inserted(b, ref, side, shares, tick))
           = Joined(QueueOf(b), <<side, tick>>, ref, shares)
<1>1. PICK c : c = Inserted(b, ref, side, shares, tick)
  OBVIOUS
<1>2. PICK l \in Level : l = <<side, tick>>
  BY DEF Level
<1>3. PICK node : node = [at |-> l, qty |-> shares, seq |-> b.seq]
  OBVIOUS
<1>4. Sane(c)
  BY <1>1, SaneInserted
<1>5. b.orders \in [Refs -> Node \cup {NoNode}] /\ b.fifo \in [Level -> Seq(Refs)]
  BY SaneFacts DEF Book
<1>6. c.orders = [b.orders EXCEPT ![ref] = node] /\ c.fifo = [b.fifo EXCEPT ![l] = Append(@, ref)]
  BY <1>1, <1>2, <1>3, SaneFacts DEF Inserted, Book
<1>7. /\ c.orders[ref].qty = shares /\ \A r \in Refs : r # ref => c.orders[r] = b.orders[r]
      /\ c.fifo[l] = Append(b.fifo[l], ref) /\ \A m \in Level : m # l => c.fifo[m] = b.fifo[m]
  BY <1>3, <1>5, <1>6
<1>8. PICK q : q = QueueOf(b)
  OBVIOUS
<1>9. PICK d : d = QueueOf(c)
  OBVIOUS
<1>10. PICK r : r = Joined(q, l, ref, shares)
  OBVIOUS
<1>11. /\ q \in Queues
       /\ \A m \in Level : Len(q[m]) = Len(b.fifo[m]) /\ Len(q[m]) \in Nat
       /\ \A m \in Level : \A i \in 1..Len(q[m]) :
            /\ q[m][i].ref = b.fifo[m][i]
            /\ q[m][i].qty = b.orders[b.fifo[m][i]].qty
            /\ q[m][i].ref \in Live(b)
  BY <1>8, BookQueue
<1>12. /\ d \in Queues
       /\ \A m \in Level : Len(d[m]) = Len(c.fifo[m])
       /\ \A m \in Level : \A i \in 1..Len(d[m]) :
            /\ d[m][i].ref = c.fifo[m][i]
            /\ d[m][i].qty = c.orders[c.fifo[m][i]].qty
  BY <1>4, <1>9, BookQueue
<1>13. /\ r \in Queues
       /\ \A m \in Level : m # l => r[m] = q[m]
       /\ Len(r[l]) = Len(q[l]) + 1
       /\ \A i \in 1..Len(q[l]) : r[l][i] = q[l][i]
       /\ r[l][Len(q[l]) + 1].ref = ref /\ r[l][Len(q[l]) + 1].qty = shares
  <2>1. q \in Queues /\ shares \in Nat \ {0} /\ ref \in Refs
    BY <1>11
  <2>2. /\ Joined(q, l, ref, shares) \in Queues
        /\ \A m \in Level : m # l => Joined(q, l, ref, shares)[m] = q[m]
        /\ Len(q[l]) \in Nat /\ Len(Joined(q, l, ref, shares)[l]) = Len(q[l]) + 1
        /\ \A i \in 1..Len(q[l]) : Joined(q, l, ref, shares)[l][i] = q[l][i]
        /\ Joined(q, l, ref, shares)[l][Len(q[l]) + 1] = [ref |-> ref, qty |-> shares]
    BY <2>1, JoinedQueue
  <2> QED BY <1>10, <2>2
<1>14. PICK n \in Nat : n = Len(q[l])
  BY <1>11
<1>15. /\ Len(c.fifo[l]) = n + 1 /\ c.fifo[l][n + 1] = ref
       /\ \A i \in 1..n : c.fifo[l][i] = b.fifo[l][i]
  BY <1>5, <1>7, <1>11, <1>14
<1>16. ASSUME NEW m \in Level, NEW i \in 1..Len(q[m])
       PROVE  c.orders[b.fifo[m][i]].qty = q[m][i].qty /\ b.fifo[m][i] = q[m][i].ref
  <2>1. b.fifo[m][i] \in Refs \ {ref}
    BY <1>11 DEF Live
  <2> QED BY <1>7, <1>11, <2>1, SMTT(30)
<1>17. \A m \in Level : Len(d[m]) = Len(r[m])
  <2> TAKE m \in Level
  <2>1. CASE m = l
    <3>1. Len(d[l]) = n + 1
      BY <1>12, <1>15, <2>1
    <3>2. Len(r[l]) = n + 1
      BY <1>13, <1>14
    <3> QED BY <2>1, <3>1, <3>2
  <2>2. CASE m # l
    <3>1. Len(d[m]) = Len(b.fifo[m])
      BY <1>7, <1>12, <2>2
    <3>2. Len(r[m]) = Len(b.fifo[m])
      BY <1>11, <1>13, <2>2
    <3> QED BY <3>1, <3>2
  <2> QED BY <2>1, <2>2
<1>18. ASSUME NEW m \in Level, NEW i \in 1..Len(d[m])
       PROVE  d[m][i].ref = r[m][i].ref /\ d[m][i].qty = r[m][i].qty
  <2>1. CASE m # l
    <3>1. c.fifo[m] = b.fifo[m] /\ r[m] = q[m] /\ i \in 1..Len(q[m])
      BY <1>7, <1>11, <1>12, <1>13, <2>1
    <3>2. d[m][i].ref = b.fifo[m][i] /\ d[m][i].qty = c.orders[b.fifo[m][i]].qty
      BY <1>12, <3>1
    <3> QED BY <1>16, <3>1, <3>2
  <2>2. CASE m = l /\ i \in 1..n
    <3>1. d[l][i].ref = b.fifo[l][i] /\ d[l][i].qty = c.orders[b.fifo[l][i]].qty
      <4>1. c.fifo[l][i] = b.fifo[l][i] /\ i \in 1..Len(d[l])
        BY <1>15, <2>2
      <4>2. d[l][i].ref = c.fifo[l][i] /\ d[l][i].qty = c.orders[c.fifo[l][i]].qty
        BY <1>12, <4>1
      <4> QED BY <4>1, <4>2
    <3> QED BY <1>13, <1>14, <1>16, <2>2, <3>1
  <2>3. CASE m = l /\ i = n + 1
    <3>1. d[l][n + 1].ref = ref /\ d[l][n + 1].qty = shares
      BY <1>7, <1>12, <1>15, <2>3
    <3>2. r[l][n + 1].ref = ref /\ r[l][n + 1].qty = shares
      BY <1>13, <1>14
    <3> QED BY <2>3, <3>1, <3>2
  <2> QED BY <1>12, <1>14, <1>15, <2>1, <2>2, <2>3
<1>19. d = r
  BY <1>12, <1>13, <1>17, <1>18, QueuesEqual
<1> QED BY <1>1, <1>2, <1>8, <1>9, <1>10, <1>19

\* Shares taken off an order that keeps some.
LEMMA ReducedPartQueue ==
  ASSUME NEW b, Sane(b), NEW ref \in Live(b), NEW n \in Nat, NEW bySeq \in BOOLEAN,
         n < b.orders[ref].qty
  PROVE  QueueOf(Reduced(b, ref, n, bySeq))
           = Cut(QueueOf(b), b.orders[ref].at, PlaceOf(b, ref), n)
<1>1. PICK c : c = Reduced(b, ref, n, bySeq)
  OBVIOUS
<1>2. PICK l \in Level : l = b.orders[ref].at
  BY SaneFacts DEF Book, Live, Node
<1>3. Sane(c)
  BY <1>1, SaneReduced
<1>4. /\ b \in Book /\ ref \in Refs /\ b.orders \in [Refs -> Node \cup {NoNode}]
      /\ b.orders[ref] \in Node
  BY SaneFacts DEF Book, Live
<1>5. c.orders = [b.orders EXCEPT ![ref].qty = @ - n] /\ c.fifo = b.fifo
  <2>1. PICK rows : rows = Credited(b, ref, n, bySeq).tracked
    OBVIOUS
  <2>2. /\ c.orders = [b.orders EXCEPT ![ref].qty = @ - n]
        /\ c.qty = [b.qty EXCEPT ![l] = @ - n]
        /\ c.tracked = rows
        /\ c.fifo = b.fifo /\ c.occ = b.occ /\ c.best = b.best
        /\ c.seq = b.seq /\ c.resting = b.resting
        /\ c = [orders |-> c.orders, fifo |-> c.fifo, qty |-> c.qty,
                occ |-> c.occ, best |-> c.best, tracked |-> c.tracked,
                seq |-> c.seq, resting |-> c.resting]
    BY <1>1, <1>2, <1>4, <2>1, ReducedPartFields
  <2> QED BY <2>2
<1>6. c.orders[ref].qty = b.orders[ref].qty - n /\ \A r \in Refs : r # ref => c.orders[r] = b.orders[r]
  BY <1>4, <1>5 DEF Node
<1>7. PICK q : q = QueueOf(b)
  OBVIOUS
<1>8. PICK d : d = QueueOf(c)
  OBVIOUS
<1>9. PICK i : i = PlaceOf(b, ref)
  OBVIOUS
<1>10. Stands(q, ref, l, i) /\ q[l][i].qty = b.orders[ref].qty
  BY <1>2, <1>7, <1>9, BookQueuePlace
<1>11. PICK r : r = Cut(q, l, i, n)
  OBVIOUS
<1>12. /\ q \in Queues
       /\ \A m \in Level : Len(q[m]) = Len(b.fifo[m])
       /\ \A m \in Level : \A j \in 1..Len(q[m]) :
            /\ q[m][j].ref = b.fifo[m][j]
            /\ q[m][j].qty = b.orders[b.fifo[m][j]].qty
            /\ q[m][j].ref \in Live(b)
  BY <1>7, BookQueue
<1>13. /\ d \in Queues
       /\ \A m \in Level : Len(d[m]) = Len(c.fifo[m])
       /\ \A m \in Level : \A j \in 1..Len(d[m]) :
            /\ d[m][j].ref = c.fifo[m][j]
            /\ d[m][j].qty = c.orders[c.fifo[m][j]].qty
  BY <1>3, <1>8, BookQueue
<1>14. /\ r \in Queues
       /\ \A m \in Level : m # l => r[m] = q[m]
       /\ Len(r[l]) = Len(q[l])
       /\ \A j \in 1..Len(q[l]) :
            /\ r[l][j].ref = q[l][j].ref
            /\ r[l][j].qty = IF j = i THEN q[l][j].qty - n ELSE q[l][j].qty
  BY <1>10, <1>11, <1>12, CutPart DEF Stands
<1>15. \A m \in Level : Len(d[m]) = Len(r[m])
  BY <1>5, <1>12, <1>13, <1>14
<1>16. ASSUME NEW m \in Level, NEW j \in 1..Len(d[m])
       PROVE  d[m][j].ref = r[m][j].ref /\ d[m][j].qty = r[m][j].qty
  <2>1. j \in 1..Len(q[m]) /\ b.fifo[m][j] \in Refs
    BY <1>5, <1>12, <1>13 DEF Live
  <2>2. d[m][j].ref = q[m][j].ref /\ d[m][j].qty = c.orders[q[m][j].ref].qty
    BY <1>5, <1>12, <1>13, <2>1
  <2>3. q[m][j].ref = ref <=> m = l /\ j = i
    <3>1. Distinct(q)
      BY <1>7, BookQueueDistinct
    <3> QED BY <1>10, <2>1, <3>1 DEF Distinct, Stands
  <2>4. c.orders[q[m][j].ref].qty = IF m = l /\ j = i THEN q[m][j].qty - n ELSE q[m][j].qty
    <3>1. q[m][j].ref \in Refs /\ q[m][j].qty = b.orders[q[m][j].ref].qty
      BY <1>12, <2>1
    <3>2. CASE q[m][j].ref = ref
      BY <1>6, <2>3, <3>1, <3>2
    <3>3. CASE q[m][j].ref # ref
      BY <1>6, <2>3, <3>1, <3>3
    <3> QED BY <3>2, <3>3
  <2> QED BY <1>14, <2>1, <2>2, <2>4
<1>17. d = r
  BY <1>13, <1>14, <1>15, <1>16, QueuesEqual
<1> QED BY <1>1, <1>2, <1>7, <1>8, <1>9, <1>11, <1>17

\* The whole of an order: its FIFO without it, the others as they were.
LEMMA ReducedWholeFifo ==
  ASSUME NEW b, Sane(b), NEW ref \in Live(b), NEW n \in Nat, NEW bySeq \in BOOLEAN,
         n >= b.orders[ref].qty, NEW c, c = Reduced(b, ref, n, bySeq), NEW l, l = b.orders[ref].at
  PROVE  /\ Live(c) = Live(b) \ {ref}
         /\ \A r \in Live(c) : c.orders[r] = b.orders[r]
         /\ \A m \in Level : m # l => c.fifo[m] = b.fifo[m]
         /\ c.fifo[l] = RemoveAt(b.fifo[l], PlaceOf(b, ref))
<1>1. /\ b \in Book /\ ref \in Refs /\ b.orders \in [Refs -> Node \cup {NoNode}]
      /\ b.orders[ref] \in Node /\ l \in Level /\ b.fifo \in [Level -> Seq(Refs)]
      /\ b.orders[ref].qty \in Nat
  BY SaneFacts DEF Book, Live, Node
<1>2. PICK side \in Sides, tick \in Ticks : l = <<side, tick>>
  BY <1>1 DEF Level
<1>3. Sane(c)
  BY SaneReduced
<1>4. /\ c.orders = [b.orders EXCEPT ![ref] = NoNode]
      /\ c.fifo = [b.fifo EXCEPT ![l] = IF b.qty[l] - b.orders[ref].qty = 0 THEN <<>>
                                        ELSE RemoveFirst(b.fifo[l], ref)]
  <2>1. WholeGone(b, Reduced(b, ref, n, bySeq), ref, side, tick, <<side, tick>>,
                  b.orders[ref].qty,
                  IF b.qty[<<side, tick>>] - b.orders[ref].qty = 0
                  THEN b.occ[side] \ {tick} ELSE b.occ[side],
                  Credited(b, ref, b.orders[ref].qty, bySeq).tracked)
    BY <1>1, <1>2, ReducedWholeFields
  <2> QED BY <1>2, <2>1 DEF WholeGone
<1>5. Live(c) = Live(b) \ {ref} /\ \A r \in Live(c) : c.orders[r] = b.orders[r]
  BY <1>1, <1>4 DEF Live
<1>6. \A m \in Level : m # l => c.fifo[m] = b.fifo[m]
  BY <1>1, <1>4
<1>7. PICK i \in 1..Len(b.fifo[l]) : i = PlaceOf(b, ref) /\ b.fifo[l][i] = ref
  BY SanePlace
<1>8. ASSUME NEW j \in 1..Len(b.fifo[l]), b.fifo[l][j] = ref PROVE j = i
  <2>1. PICK q : q = QueueOf(b)
    OBVIOUS
  <2>2. Distinct(q)
    BY <2>1, BookQueueDistinct
  <2>3. /\ i \in 1..Len(q[l]) /\ j \in 1..Len(q[l])
        /\ q[l][i].ref = b.fifo[l][i] /\ q[l][j].ref = b.fifo[l][j]
    BY <1>1, <2>1, BookQueue
  <2> QED BY <1>1, <1>7, <1>8, <2>2, <2>3 DEF Distinct
<1>9. c.fifo[l] = RemoveAt(b.fifo[l], i)
  <2>1. CASE b.qty[l] - b.orders[ref].qty = 0
    <3>1. c.fifo[l] = <<>>
      BY <1>1, <1>4, <2>1
    <3>2. ASSUME NEW j \in 1..Len(b.fifo[l]) PROVE j = i
      <4>1. b.fifo[l][j] \in Live(b) /\ b.orders[b.fifo[l][j]].at = l
        <5>1. FifosSorted(b)
          BY SaneFacts
        <5> QED BY <1>1, <5>1 DEF FifosSorted
      <4>2. b.fifo[l][j] \notin Live(c)
        <5>1. ASSUME b.fifo[l][j] \in Live(c) PROVE FALSE
          <6>1. PICK r \in Live(c) : r = b.fifo[l][j]
            BY <5>1
          <6>2. c.orders[r].at = l
            BY <1>5, <4>1, <6>1
          <6>3. \E k \in 1..Len(c.fifo[c.orders[r].at]) : c.fifo[c.orders[r].at][k] = r
            BY <1>3, SaneFacts DEF FifosSorted
          <6> QED BY <3>1, <6>2, <6>3
        <5> QED BY <5>1
      <4> QED BY <1>5, <1>8, <4>1, <4>2
    <3>3. Len(b.fifo[l]) = 1 /\ i = 1
      <4>1. Len(b.fifo[l]) \in Nat
        BY <1>1
      <4>2. 1 \in 1..Len(b.fifo[l]) /\ Len(b.fifo[l]) \in 1..Len(b.fifo[l])
        BY <1>7, <4>1
      <4> QED BY <3>2, <4>2
    <3>4. RemoveAt(b.fifo[l], i) \in Seq(Refs) /\ Len(RemoveAt(b.fifo[l], i)) = Len(b.fifo[l]) - 1
      BY <1>1, RemoveAtProps
    <3>5. PICK s : s = RemoveAt(b.fifo[l], i)
      OBVIOUS
    <3>6. s \in Seq(Refs) /\ Len(s) = 0
      BY <3>3, <3>4, <3>5
    <3> QED BY <3>1, <3>5, <3>6
  <2>2. CASE b.qty[l] - b.orders[ref].qty # 0
    <3>1. c.fifo[l] = RemoveFirst(b.fifo[l], ref)
      BY <1>1, <1>4, <2>2
    <3>2. PICK k \in 1..Len(b.fifo[l]) : b.fifo[l][k] = ref /\ c.fifo[l] = RemoveAt(b.fifo[l], k)
      <4>1. PICK s \in Seq(Refs) : s = b.fifo[l]
        BY <1>1
      <4>2. \E j \in 1..Len(s) : s[j] = ref
        BY <1>7, <4>1
      <4>3. PICK k \in 1..Len(s) : s[k] = ref /\ RemoveFirst(s, ref) = RemoveAt(s, k)
        BY <4>2, RemoveFirstProps
      <4> QED BY <3>1, <4>1, <4>3
    <3> QED BY <1>8, <3>2
  <2> QED BY <2>1, <2>2
<1> QED BY <1>5, <1>6, <1>7, <1>9

LEMMA ReducedWholeQueue ==
  ASSUME NEW b, Sane(b), NEW ref \in Live(b), NEW n \in Nat, NEW bySeq \in BOOLEAN,
         n >= b.orders[ref].qty
  PROVE  QueueOf(Reduced(b, ref, n, bySeq))
           = Taken(QueueOf(b), b.orders[ref].at, PlaceOf(b, ref))
<1>1. PICK c : c = Reduced(b, ref, n, bySeq)
  OBVIOUS
<1>2. PICK l \in Level : l = b.orders[ref].at
  BY SaneOrder DEF Node
<1>3. Sane(c)
  BY <1>1, SaneReduced
<1>4. PICK q : q = QueueOf(b)
  OBVIOUS
<1>5. PICK d : d = QueueOf(c)
  OBVIOUS
<1>6. PICK i : i = PlaceOf(b, ref)
  OBVIOUS
<1>7. i \in 1..Len(q[l]) /\ q[l][i].ref = ref
  BY <1>2, <1>4, <1>6, BookQueuePlace DEF Stands
<1>8. /\ Live(c) = Live(b) \ {ref}
      /\ \A r \in Live(c) : c.orders[r] = b.orders[r]
      /\ \A m \in Level : m # l => c.fifo[m] = b.fifo[m]
      /\ c.fifo[l] = RemoveAt(b.fifo[l], i)
  BY <1>1, <1>2, <1>6, ReducedWholeFifo
<1>9. PICK r : r = Taken(q, l, i)
  OBVIOUS
<1>10. /\ q \in Queues
       /\ \A m \in Level : Len(q[m]) = Len(b.fifo[m]) /\ Len(q[m]) \in Nat
       /\ \A m \in Level : \A j \in 1..Len(q[m]) :
            /\ q[m][j].ref = b.fifo[m][j]
            /\ q[m][j].qty = b.orders[b.fifo[m][j]].qty
  BY <1>4, BookQueue
<1>11. /\ d \in Queues
       /\ \A m \in Level : Len(d[m]) = Len(c.fifo[m])
       /\ \A m \in Level : \A j \in 1..Len(d[m]) :
            /\ d[m][j].ref = c.fifo[m][j]
            /\ d[m][j].qty = c.orders[c.fifo[m][j]].qty
            /\ d[m][j].ref \in Live(c)
  BY <1>3, <1>5, BookQueue
<1>12. /\ r \in Queues
       /\ \A m \in Level : m # l => r[m] = q[m]
       /\ Len(r[l]) = Len(q[l]) - 1
       /\ \A j \in 1..(Len(q[l]) - 1) : r[l][j] = IF j < i THEN q[l][j] ELSE q[l][j + 1]
  BY <1>7, <1>9, <1>10, TakenQueue
<1>13. PICK N \in Nat : N = Len(q[l])
  BY <1>10
<1>14. /\ Len(c.fifo[l]) = N - 1
       /\ \A j \in 1..(N - 1) : c.fifo[l][j] = IF j < i THEN b.fifo[l][j] ELSE b.fifo[l][j + 1]
  <2>1. b.fifo[l] \in Seq(Refs) /\ N = Len(b.fifo[l]) /\ i \in 1..Len(b.fifo[l])
    BY <1>7, <1>10, <1>13, SaneFacts DEF Book
  <2>2. PICK f \in Seq(Refs) : f = b.fifo[l]
    BY <2>1
  <2>3. /\ Len(RemoveAt(f, i)) = N - 1
        /\ \A j \in 1..(N - 1) : RemoveAt(f, i)[j] = IF j < i THEN f[j] ELSE f[j + 1]
    BY <2>1, <2>2, RemoveAtProps
  <2> QED BY <1>8, <2>2, <2>3
<1>15. \A m \in Level : Len(d[m]) = Len(r[m])
  <2> TAKE m \in Level
  <2>1. CASE m = l
    BY <1>11, <1>12, <1>13, <1>14, <2>1
  <2>2. CASE m # l
    BY <1>8, <1>10, <1>11, <1>12, <2>2
  <2> QED BY <2>1, <2>2
<1>16. ASSUME NEW m \in Level, NEW j \in 1..Len(d[m])
       PROVE  d[m][j].ref = r[m][j].ref /\ d[m][j].qty = r[m][j].qty
  <2>1. /\ d[m][j].ref = c.fifo[m][j] /\ d[m][j].qty = c.orders[c.fifo[m][j]].qty
        /\ c.fifo[m][j] \in Live(c)
    BY <1>11
  <2>2. d[m][j].qty = b.orders[c.fifo[m][j]].qty
    BY <1>8, <2>1
  <2>3. CASE m # l
    <3>1. c.fifo[m] = b.fifo[m] /\ r[m] = q[m] /\ j \in 1..Len(q[m])
      BY <1>8, <1>10, <1>11, <1>12, <2>3
    <3> QED BY <1>10, <2>1, <2>2, <3>1
  <2>4. CASE m = l
    <3>1. j \in 1..(N - 1)
      BY <1>11, <1>14, <2>4
    <3>2. PICK k \in 1..N : c.fifo[l][j] = b.fifo[l][k] /\ r[l][j] = q[l][k]
      <4>1. CASE j < i
        <5>1. c.fifo[l][j] = b.fifo[l][j] /\ r[l][j] = q[l][j]
          BY <1>12, <1>13, <1>14, <3>1, <4>1
        <5> QED BY <3>1, <5>1
      <4>2. CASE ~(j < i)
        <5>1. c.fifo[l][j] = b.fifo[l][j + 1] /\ r[l][j] = q[l][j + 1]
          BY <1>12, <1>13, <1>14, <3>1, <4>2
        <5> QED BY <3>1, <5>1
      <4> QED BY <4>1, <4>2
    <3>3. q[l][k].ref = b.fifo[l][k] /\ q[l][k].qty = b.orders[b.fifo[l][k]].qty
      BY <1>10, <1>13
    <3> QED BY <2>1, <2>2, <2>4, <3>2, <3>3
  <2> QED BY <2>3, <2>4
<1>17. d = r
  BY <1>11, <1>12, <1>15, <1>16, QueuesEqual
<1> QED BY <1>1, <1>2, <1>4, <1>5, <1>6, <1>9, <1>17

\* Shares off an order, as the venue takes them off its queue.
LEMMA ReducedQueue ==
  ASSUME NEW b, Sane(b), NEW ref \in Live(b), NEW n \in Nat, NEW bySeq \in BOOLEAN
  PROVE  QueueOf(Reduced(b, ref, n, bySeq))
           = Cut(QueueOf(b), b.orders[ref].at, PlaceOf(b, ref), n)
<1>1. b.orders[ref].qty \in Nat
  BY SaneOrder DEF Node
<1>2. CASE n < b.orders[ref].qty
  BY <1>2, ReducedPartQueue
<1>3. CASE n >= b.orders[ref].qty
  <2>1. PICK q, l, i : q = QueueOf(b) /\ l = b.orders[ref].at /\ i = PlaceOf(b, ref)
    OBVIOUS
  <2>2. q \in Queues
    BY <2>1, BookQueue
  <2>3. Stands(q, ref, l, i) /\ q[l][i].qty = b.orders[ref].qty
    BY <2>1, BookQueuePlace
  <2>4. Cut(q, l, i, n) = Taken(q, l, i)
    BY <1>3, <2>2, <2>3, CutWhole DEF Stands
  <2>5. QueueOf(Reduced(b, ref, n, bySeq)) = Taken(q, l, i)
    BY <1>3, <2>1, ReducedWholeQueue
  <2> QED BY <2>1, <2>4, <2>5
<1> QED BY <1>1, <1>2, <1>3

LEMMA RemovedWholeQueue ==
  ASSUME NEW b, Sane(b), NEW ref \in Live(b), NEW c, c = RemovedWhole(b, ref)
  PROVE  /\ Sane(c) /\ Live(c) = Live(b) \ {ref}
         /\ QueueOf(c) = Taken(QueueOf(b), b.orders[ref].at, PlaceOf(b, ref))
<1>1. PICK n \in Nat : n = b.orders[ref].qty
  BY SaneOrder DEF Node
<1>2. n >= b.orders[ref].qty /\ c = Reduced(b, ref, n, TRUE)
  BY <1>1 DEF RemovedWhole
<1>3. Sane(c)
  BY <1>2, SaneReduced
<1>4. Live(c) = Live(b) \ {ref}
  <2>1. PICK l : l = b.orders[ref].at
    OBVIOUS
  <2>2. ASSUME NEW bySeq \in BOOLEAN, c = Reduced(b, ref, n, bySeq)
        PROVE  Live(c) = Live(b) \ {ref}
    <3>1. n >= b.orders[ref].qty
      BY <1>1
    <3>2. /\ Live(c) = Live(b) \ {ref}
          /\ \A r \in Live(c) : c.orders[r] = b.orders[r]
          /\ \A m \in Level : m # l => c.fifo[m] = b.fifo[m]
          /\ c.fifo[l] = RemoveAt(b.fifo[l], PlaceOf(b, ref))
      BY <2>1, <2>2, <3>1, ReducedWholeFifo
    <3> QED BY <3>2
  <2> QED BY <1>2, <2>2, Zenon
<1>5. QueueOf(Reduced(b, ref, n, TRUE)) = Taken(QueueOf(b), b.orders[ref].at, PlaceOf(b, ref))
  BY <1>2, ReducedWholeQueue
<1> QED BY <1>2, <1>3, <1>4, <1>5

\* Taking no shares off an order takes nothing.
LEMMA CutNothing ==
  ASSUME NEW q \in Queues, NEW l \in Level, NEW i \in 1..Len(q[l])
  PROVE  Cut(q, l, i, 0) = q
<1>1. q[l][i].qty \in Nat \ {0}
  <2>1. PICK S : S = [ref : Refs, qty : Nat \ {0}]
    OBVIOUS
  <2>2. q \in [Level -> Seq(S)]
    BY <2>1 DEF Queues
  <2>3. q[l] \in Seq(S)
    BY <2>2
  <2>4. q[l][i] \in S
    BY <2>3
  <2> QED BY <2>1, <2>4
<1>2. PICK r : r = Cut(q, l, i, 0)
  OBVIOUS
<1>3. /\ r \in Queues
      /\ \A m \in Level : m # l => r[m] = q[m]
      /\ Len(r[l]) = Len(q[l])
      /\ \A j \in 1..Len(q[l]) :
           /\ r[l][j].ref = q[l][j].ref
           /\ r[l][j].qty = IF j = i THEN q[l][j].qty - 0 ELSE q[l][j].qty
  BY <1>1, <1>2, CutPart, SMTT(30)
<1>4. \A m \in Level : Len(r[m]) = Len(q[m])
  BY <1>3
<1>5. ASSUME NEW m \in Level, NEW j \in 1..Len(r[m])
      PROVE  r[m][j].ref = q[m][j].ref /\ r[m][j].qty = q[m][j].qty
  BY <1>1, <1>3
<1>6. r = q
  BY <1>3, <1>4, <1>5, QueuesEqual
<1> QED BY <1>2, <1>6

-----------------------------------------------------------------------------
(* What the venue's operators return of its queues.                        *)

LEMMA OnlyPlace ==
  ASSUME NEW q \in Queues, Distinct(q), NEW ref, NEW l, NEW i, Stands(q, ref, l, i)
  PROVE  /\ {k \in 1..Len(q[l]) : q[l][k].ref = ref} = {i}
         /\ i \in Nat /\ ref \in RefsIn(q)
         /\ (CHOOSE m \in Level : ref \in {q[m][k].ref : k \in 1..Len(q[m])}) = l
<1>1. l \in Level /\ i \in 1..Len(q[l]) /\ q[l][i].ref = ref
  BY DEF Stands
<1>2. \A m \in Level : \A k \in 1..Len(q[m]) : q[m][k].ref = ref => m = l /\ k = i
  BY <1>1 DEF Distinct
<1>3. {k \in 1..Len(q[l]) : q[l][k].ref = ref} = {i}
  BY <1>1, <1>2
<1>4. \A m \in Level : ref \in {q[m][k].ref : k \in 1..Len(q[m])} <=> m = l
  BY <1>1, <1>2
<1>5. (CHOOSE m \in Level : ref \in {q[m][k].ref : k \in 1..Len(q[m])}) = l
  BY <1>1, <1>4
<1>6. ref \in RefsIn(q)
  BY <1>1 DEF RefsIn
<1> QED BY <1>1, <1>3, <1>5, <1>6

LEMMA FloorPlace ==
  ASSUME queue \in Queues, Distinct(queue), NEW ref, NEW l, NEW i, Stands(queue, ref, l, i)
  PROVE  /\ ref \in Floor!Resting
         /\ Floor!LevelOf(ref) = l /\ Floor!PlaceOf(ref) = i
         /\ Floor!QtyOf(ref) = queue[l][i].qty
<1>1. /\ {k \in 1..Len(queue[l]) : queue[l][k].ref = ref} = {i}
      /\ i \in Nat /\ ref \in RefsIn(queue)
      /\ (CHOOSE m \in Level : ref \in {queue[m][k].ref : k \in 1..Len(queue[m])}) = l
  BY OnlyPlace
<1>2. ref \in Floor!Resting
  BY <1>1 DEF RefsIn, Floor!Resting, Floor!RefsAt
<1>3. Floor!LevelOf(ref) = l
  BY <1>1 DEF Floor!LevelOf, Floor!RefsAt
<1>4. Floor!PlaceOf(ref) = i
  BY <1>1, <1>3 DEF Floor!PlaceOf, Floor!SelectInSeq, Floor!Min
<1> QED BY <1>2, <1>3, <1>4 DEF Floor!QtyOf

LEMMA VenuePlace ==
  ASSUME NEW q, q = QueueOf(book), q \in Queues, Distinct(q), NEW ref, NEW l, NEW i,
         Stands(q, ref, l, i)
  PROVE  /\ ref \in Venue!Resting
         /\ Venue!LevelOf(ref) = l /\ Venue!PlaceOf(ref) = i
<1>1. /\ {k \in 1..Len(q[l]) : q[l][k].ref = ref} = {i}
      /\ i \in Nat /\ ref \in RefsIn(q)
      /\ (CHOOSE m \in Level : ref \in {q[m][k].ref : k \in 1..Len(q[m])}) = l
  BY OnlyPlace
<1>2. ref \in Venue!Resting
  BY <1>1 DEF RefsIn, Venue!Resting, Venue!RefsAt
<1>3. Venue!LevelOf(ref) = l
  BY <1>1 DEF Venue!LevelOf, Venue!RefsAt
<1>4. Venue!PlaceOf(ref) = i
  BY <1>1, <1>3 DEF Venue!PlaceOf, Venue!SelectInSeq, Venue!Min
<1> QED BY <1>2, <1>3, <1>4

LEMMA VenueResting == Venue!Resting = RefsIn(QueueOf(book))
BY DEF Venue!Resting, Venue!RefsAt, RefsIn

LEMMA FloorResting == Floor!Resting = RefsIn(queue)
BY DEF Floor!Resting, Floor!RefsAt, RefsIn

LEMMA SameOperators ==
  ASSUME NEW s, NEW i, NEW n
  PROVE  /\ Venue!ReducedAt(s, i, n) = Floor!ReducedAt(s, i, n)
         /\ Venue!RemoveAt(s, i) = RemoveAt(s, i) /\ Floor!RemoveAt(s, i) = RemoveAt(s, i)
<1>1. Venue!RemoveAt(s, i) = RemoveAt(s, i) /\ Floor!RemoveAt(s, i) = RemoveAt(s, i)
  BY DEF Venue!RemoveAt, Floor!RemoveAt, RemoveAt
<1> QED BY <1>1 DEF Venue!ReducedAt, Floor!ReducedAt

-----------------------------------------------------------------------------
(* Every event of a feed that keeps price-time priority moves the book as  *)
(* the event moves a price-time queue, or not at all.                      *)

LEMMA SameFifos ==
  ASSUME NEW b, NEW c, c.fifo = b.fifo, c.orders = b.orders
  PROVE  QueueOf(c) = QueueOf(b)
BY DEF QueueOf

LEMMA AddIsVenues ==
  ASSUME Sane(book), NEW ref, NEW side \in Sides, NEW shares \in 0..MaxShares, NEW tick,
         OnAdd(ref, side, shares, tick)
  PROVE  Venue!Step
<1>1. CASE book' = book
  BY <1>1 DEF Venue!Step
<1>2. CASE /\ InsertFault(book, ref, shares, tick) = "none"
           /\ book' = Inserted(book, ref, side, shares, tick)
  <2>1. ref \in Refs \ Live(book) /\ shares \in Nat \ {0} /\ tick \in Ticks
    BY <1>2, AcceptedInsert
  <2>2. PICK l \in Level : l = <<side, tick>>
    BY <2>1 DEF Level
  <2>3. PICK q, r : q = QueueOf(book) /\ r = QueueOf(book')
    OBVIOUS
  <2>4. r = Joined(q, l, ref, shares)
    BY <1>2, <2>1, <2>2, <2>3, InsertedQueue
  <2>5. ref \in Refs \ Venue!Resting
    BY <2>1, VenueResting, BookQueueDistinct
  <2>6. shares \in 1..MaxShares
    BY <2>1
  <2>7. Venue!Add(ref, l, shares)
    BY <2>3, <2>4, <2>5 DEF Venue!Add, Joined
  <2> QED BY <2>2, <2>5, <2>6, <2>7 DEF Venue!Step, Venue!Next
<1> QED BY <1>1, <1>2 DEF OnAdd

\* Where a live order stands, as the book and as the venue see it.
LEMMA OrderStands ==
  ASSUME Sane(book), NEW ref \in Live(book), NEW l, NEW i, NEW q,
         l = book.orders[ref].at, i = PlaceOf(book, ref), q = QueueOf(book)
  PROVE  /\ q \in Queues /\ Distinct(q) /\ Stands(q, ref, l, i) /\ l \in Level
         /\ ref \in Venue!Resting /\ Venue!LevelOf(ref) = l /\ Venue!PlaceOf(ref) = i
<1>1. q \in Queues
  BY BookQueue
<1>2. Distinct(q)
  BY BookQueueDistinct
<1>3. Stands(q, ref, l, i)
  BY BookQueuePlace
<1>4. ref \in Venue!Resting /\ Venue!LevelOf(ref) = l /\ Venue!PlaceOf(ref) = i
  BY <1>1, <1>2, <1>3, VenuePlace
<1> QED BY <1>1, <1>2, <1>3, <1>4 DEF Stands

LEMMA ReducedIsVenues ==
  ASSUME Sane(book), NEW ref \in Live(book), NEW n \in 0..MaxShares, NEW bySeq \in BOOLEAN,
         book' = Reduced(book, ref, n, bySeq),
         bySeq \/ PlaceOf(book, ref) = 1
  PROVE  Venue!Step
<1>1. PICK q, r, l, i : /\ q = QueueOf(book) /\ r = QueueOf(book')
                        /\ l = book.orders[ref].at /\ i = PlaceOf(book, ref)
  OBVIOUS
<1>2. /\ q \in Queues /\ Stands(q, ref, l, i) /\ l \in Level
      /\ ref \in Venue!Resting /\ Venue!LevelOf(ref) = l /\ Venue!PlaceOf(ref) = i
  BY <1>1, OrderStands
<1>3. n \in Nat
  OBVIOUS
<1>4. r = Cut(q, l, i, n)
  BY <1>1, <1>3, ReducedQueue
<1>5. CASE n = 0
  <2>1. r = q
    BY <1>2, <1>4, <1>5, CutNothing DEF Stands
  <2> QED BY <1>1, <2>1 DEF Venue!Step
<1>6. CASE n \in 1..MaxShares
  <2>1. r = [q EXCEPT ![l] = Venue!ReducedAt(@, i, n)]
    BY <1>4, SameOperators DEF Cut
  <2>2. Venue!Execute(ref, n) \/ Venue!Cancel(ref, n)
    <3>1. CASE bySeq
      BY <1>1, <1>2, <2>1 DEF Venue!Cancel
    <3>2. CASE i = 1
      BY <1>1, <1>2, <2>1, <3>2 DEF Venue!Execute
    <3> QED BY <1>1, <3>1, <3>2
  <2> QED BY <1>2, <1>6, <2>2 DEF Venue!Step, Venue!Next
<1> QED BY <1>5, <1>6

LEMMA RemovedIsVenues ==
  ASSUME Sane(book), NEW ref \in Live(book), book' = RemovedWhole(book, ref)
  PROVE  Venue!Step
<1>1. PICK q, r, l, i : /\ q = QueueOf(book) /\ r = QueueOf(book')
                        /\ l = book.orders[ref].at /\ i = PlaceOf(book, ref)
  OBVIOUS
<1>2. ref \in Venue!Resting /\ Venue!LevelOf(ref) = l /\ Venue!PlaceOf(ref) = i
  BY <1>1, OrderStands
<1>3. r = Taken(q, l, i)
  BY <1>1, RemovedWholeQueue
<1>4. r = [q EXCEPT ![l] = Venue!RemoveAt(@, i)]
  BY <1>3, SameOperators DEF Taken
<1>5. Venue!Delete(ref)
  BY <1>1, <1>2, <1>4 DEF Venue!Delete
<1> QED BY <1>2, <1>5 DEF Venue!Step, Venue!Next

LEMMA ReplaceIsVenues ==
  ASSUME Sane(book), NEW orig \in Refs, NEW new, NEW shares \in 0..MaxShares,
         NEW tick, OnReplace(orig, new, shares, tick)
  PROVE  Venue!Step
<1>1. CASE UnknownRef(orig)
  BY <1>1 DEF UnknownRef, Venue!Step
<1>2. CASE orig \in Live(book) /\ book' = RemovedWhole(book, orig)
  BY <1>2, RemovedIsVenues
<1>3. CASE /\ orig \in Live(book)
           /\ InsertFault(RemovedWhole(book, orig), new, shares, tick) = "none"
           /\ book' = Inserted(RemovedWhole(book, orig), new, book.orders[orig].at[1], shares, tick)
  <2>1. PICK q, r, l, i, w, c :
          /\ q = QueueOf(book) /\ r = QueueOf(book') /\ w = QueueOf(c)
          /\ l = book.orders[orig].at /\ i = PlaceOf(book, orig) /\ c = RemovedWhole(book, orig)
    OBVIOUS
  <2>2. /\ Distinct(q) /\ l \in Level
        /\ orig \in Venue!Resting /\ Venue!LevelOf(orig) = l /\ Venue!PlaceOf(orig) = i
    BY <1>3, <2>1, OrderStands
  <2>3. Sane(c) /\ Live(c) = Live(book) \ {orig} /\ w = Taken(q, l, i)
    BY <1>3, <2>1, RemovedWholeQueue
  <2>4. InsertFault(c, new, shares, tick) = "none"
    BY <1>3, <2>1
  <2>5. new \in Refs \ Live(c) /\ shares \in Nat \ {0} /\ tick \in Ticks
    BY <2>4, AcceptedInsert
  <2>6. PICK side \in Sides : side = l[1]
    BY <2>2, LevelParts
  <2>7. PICK m \in Level : m = <<side, tick>>
    BY <2>5 DEF Level
  <2>8. r = Joined(w, m, new, shares)
    <3>1. book' = Inserted(c, new, side, shares, tick)
      BY <1>3, <2>1, <2>6
    <3>2. QueueOf(Inserted(c, new, side, shares, tick))
            = Joined(QueueOf(c), <<side, tick>>, new, shares)
      BY <2>3, <2>5, InsertedQueue
    <3> QED BY <2>1, <2>7, <3>1, <3>2
  <2>9. w = [q EXCEPT ![l] = Venue!RemoveAt(@, i)]
    BY <2>3, SameOperators DEF Taken
  <2>10. new \notin Venue!Resting \ {orig}
    <3>1. Venue!Resting = Live(book)
      BY VenueResting, BookQueueDistinct
    <3> QED BY <2>3, <2>5, <3>1
  <2>11. m[1] = l[1] /\ shares \in 1..MaxShares /\ new \in Refs
    BY <2>5, <2>6, <2>7
  <2>12. Venue!Replace(orig, new, m, shares)
    BY <2>1, <2>2, <2>8, <2>9, <2>10, <2>11 DEF Venue!Replace, Joined
  <2> QED BY <2>2, <2>7, <2>11, <2>12 DEF Venue!Step, Venue!Next
<1> QED BY <1>1, <1>2, <1>3 DEF OnReplace

LEMMA PriorityIsVenues ==
  ASSUME Sane(book), PriorityNext
  PROVE  Venue!Step
<1>0. ASSUME NEW ref, UnknownRef(ref) PROVE Venue!Step
  BY <1>0 DEF UnknownRef, Venue!Step
<1>1. ASSUME NEW ref \in Refs \cup {BadRef}, NEW side \in Sides, NEW shares \in 0..MaxShares,
             NEW tick \in -1..Ladder, OnAdd(ref, side, shares, tick)
      PROVE  Venue!Step
  BY <1>1, AddIsVenues
<1>2. ASSUME NEW ref \in AtHead(book), NEW shares \in 0..MaxShares, OnExecute(ref, shares)
      PROVE  Venue!Step
  <2>1. CASE ref \in Live(book) /\ book' = Reduced(book, ref, shares, FALSE)
    <3>1. PlaceOf(book, ref) = 1
      BY <2>1 DEF AtHead
    <3> QED BY <2>1, <3>1, ReducedIsVenues
  <2> QED BY <1>0, <1>2, <2>1 DEF OnExecute
<1>3. ASSUME NEW ref \in Refs, NEW shares \in 0..MaxShares, OnCancel(ref, shares)
      PROVE  Venue!Step
  <2>1. CASE ref \in Live(book) /\ book' = Reduced(book, ref, shares, TRUE)
    BY <2>1, ReducedIsVenues
  <2> QED BY <1>0, <1>3, <2>1 DEF OnCancel
<1>4. ASSUME NEW ref \in Refs, OnDelete(ref) PROVE Venue!Step
  BY <1>0, <1>4, RemovedIsVenues DEF OnDelete
<1>5. ASSUME NEW orig \in Refs, NEW new \in Refs \cup {BadRef}, NEW shares \in 0..MaxShares,
             NEW tick \in -1..Ladder, OnReplace(orig, new, shares, tick)
      PROVE  Venue!Step
  BY <1>5, ReplaceIsVenues
<1>6. CASE OnTrade
  BY <1>6 DEF OnTrade, Venue!Step
<1>7. ASSUME NEW ref \in Refs, Track(ref) \/ Untrack(ref) PROVE Venue!Step
  <2>1. book'.fifo = book.fifo /\ book'.orders = book.orders
    BY <1>7, SaneFacts DEF Track, Untrack, Untracked, Book
  <2> QED BY <2>1, SameFifos DEF Venue!Step
<1> QED BY <1>1, <1>2, <1>3, <1>4, <1>5, <1>6, <1>7 DEF PriorityNext, Event

\* The exact invariant holds of the book while the feed keeps priority, the
\* other one of any feed's.
MCInv ==
  /\ feed \in {"anything", "priority"}
  /\ Sane(book)
  /\ feed = "priority" => BookInv(book, TRUE)

LEMMA MCInvHolds == MCSpec => []MCInv
<1>1. MCInit => MCInv
  BY EmptyBookInv DEF MCInit, Init, MCInv, Sane
<1>2. ASSUME MCInv, [MCNext]_<<vars, feed>> PROVE MCInv'
  <2>1. CASE UNCHANGED <<vars, feed>>
    BY <1>2, <2>1 DEF MCInv, vars
  <2>2. CASE feed = "anything" /\ Next /\ UNCHANGED feed
    <3>1. BookInv(book', FALSE)
      BY <1>2, <2>2, EventInv DEF MCInv, Sane, Next
    <3> QED BY <1>2, <2>2, <3>1 DEF MCInv, Sane
  <2>3. CASE feed = "priority" /\ PriorityNext /\ UNCHANGED feed
    <3>1. AtHead(book) \in SUBSET Refs
      BY DEF AtHead
    <3>2. BookInv(book', TRUE)
      BY <1>2, <2>3, <3>1, EventInv DEF MCInv, PriorityNext
    <3>3. Sane(book')
      BY <3>2, Inexact
    <3> QED BY <1>2, <2>3, <3>2, <3>3 DEF MCInv
  <2> QED BY <1>2, <2>1, <2>2, <2>3 DEF MCNext
<1> QED BY <1>1, <1>2, PTL DEF MCSpec

\* When the venue keeps price-time priority, the O(1) shares_ahead of every
\* tracked order is what a walk of its FIFO would count.
THEOREM AheadIsExactInPriorityHolds == MCSpec => []AheadIsExactInPriority
<1>1. MCInv => AheadIsExactInPriority
  <2> SUFFICES ASSUME BookInv(book, TRUE), NEW i \in 1..Len(book.tracked)
               PROVE  book.tracked[i].ahead = SharesBefore(book, book.tracked[i].ref)
    BY DEF MCInv, AheadIsExactInPriority, AheadIsExact
  <2> QED BY InvBoundsAhead
<1> QED BY <1>1, MCInvHolds, PTL

\* The book implements the price-time queue: it starts as an empty one, and
\* each add, execution, cancel, delete, replace, and each event refused or
\* about an unknown order, is a step of a price-time queue or changes none.
THEOREM BookIsPriceTimeQueue == MCSpec => IsPriceTimeQueue
<1>1. MCInit => Venue!Init
  BY DEF MCInit, Init, EmptyBook, Venue!Init, QueueOf
<1>2. ASSUME MCInv, [MCNext]_<<vars, feed>> PROVE [feed = "priority" => Venue!Step]_vars
  <2>1. CASE UNCHANGED vars
    BY <2>1
  <2>2. CASE feed = "priority" /\ PriorityNext
    BY <1>2, <2>2, PriorityIsVenues DEF MCInv
  <2>3. CASE feed = "anything"
    BY <2>3
  <2> QED BY <1>2, <2>1, <2>2, <2>3 DEF MCNext
<1> QED BY <1>1, <1>2, MCInvHolds, PTL DEF MCSpec, IsPriceTimeQueue

\* ... so of PrioritySpec alone, the book refines the abstract queue.
THEOREM PriorityRefinesQueue == PrioritySpec => ImplementsPriceTimeQueue
<1>1. Init => Venue!Init /\ Sane(book)
  <2>1. Init => Venue!Init
    BY DEF Init, EmptyBook, Venue!Init, QueueOf
  <2>2. Init => Sane(book)
    BY EmptyBookInv DEF Init, Sane
  <2> QED BY <2>1, <2>2
<1>2. ASSUME Sane(book), [PriorityNext]_vars PROVE Sane(book)'
  <2>1. CASE PriorityNext
    <3>1. AtHead(book) \in SUBSET Refs
      BY DEF AtHead
    <3>2. BookInv(book', FALSE)
      BY <1>2, <2>1, <3>1, EventInv DEF Sane, PriorityNext
    <3> QED BY <3>2 DEF Sane
  <2>2. CASE UNCHANGED vars
    BY <1>2, <2>2 DEF vars
  <2> QED BY <1>2, <2>1, <2>2
<1>3. ASSUME Sane(book), [PriorityNext]_vars PROVE [Venue!Step]_(QueueOf(book))
  <2>1. CASE PriorityNext
    BY <1>3, <2>1, PriorityIsVenues
  <2>2. CASE UNCHANGED vars
    BY <2>2 DEF vars
  <2> QED BY <1>3, <2>1, <2>2
<1> QED BY <1>1, <1>2, <1>3, PTL DEF PrioritySpec, ImplementsPriceTimeQueue, Venue!Spec

-----------------------------------------------------------------------------
(* The feed of a venue: what is in flight explains, message by message,    *)
(* how the book's queues become the venue's.                               *)

Messages ==
  [type : {"add"}, ref : Refs, at : Level, shares : 1..MaxShares]
    \cup [type : {"execute", "cancel"}, ref : Refs, shares : 1..MaxShares]
    \cup [type : {"delete"}, ref : Refs]
    \cup [type : {"replace"}, ref : Refs, new : Refs, at : Level, shares : 1..MaxShares]

\* m reports a change of the queues q that left the queues r.
ReportsAdd(m, q, r) ==
  /\ m.type = "add" /\ m.ref \in Refs \ RefsIn(q) /\ m.at \in Level /\ m.shares \in 1..MaxShares
  /\ Cardinality(RefsIn(q)) < MaxOrders
  /\ r = Joined(q, m.at, m.ref, m.shares)
ReportsCut(m, q, r) ==
  /\ m.type \in {"execute", "cancel"} /\ m.shares \in 1..MaxShares
  /\ \E l, i : /\ Stands(q, m.ref, l, i)
               /\ m.type = "execute" => i = 1
               /\ r = Cut(q, l, i, m.shares)
ReportsDelete(m, q, r) ==
  m.type = "delete" /\ \E l, i : Stands(q, m.ref, l, i) /\ r = Taken(q, l, i)
ReportsReplace(m, q, r) ==
  /\ m.type = "replace" /\ m.new \in Refs \ (RefsIn(q) \ {m.ref})
  /\ m.at \in Level /\ m.shares \in 1..MaxShares
  /\ \E l, i : /\ Stands(q, m.ref, l, i) /\ m.at[1] = l[1]
               /\ r = Joined(Taken(q, l, i), m.at, m.new, m.shares)
Reports(m, q, r) ==
  ReportsAdd(m, q, r) \/ ReportsCut(m, q, r) \/ ReportsDelete(m, q, r) \/ ReportsReplace(m, q, r)

\* qs are the queues before, between and after the messages of ch.
Explains(qs, ch, from, to) ==
  /\ ch \in Seq(Messages)
  /\ qs \in Seq(Queues) /\ Len(qs) = Len(ch) + 1
  /\ qs[1] = from /\ qs[Len(qs)] = to
  /\ \A k \in 1..Len(ch) : Reports(ch[k], qs[k], qs[k + 1])

LEMMA OneMore ==
  ASSUME NEW qs, NEW ch, NEW from, NEW to, Explains(qs, ch, from, to),
         NEW m \in Messages, NEW r \in Queues, Reports(m, to, r)
  PROVE  Explains(Append(qs, r), Append(ch, m), from, r)
<1>1. /\ ch \in Seq(Messages) /\ qs \in Seq(Queues) /\ Len(qs) = Len(ch) + 1
      /\ qs[1] = from /\ qs[Len(qs)] = to
      /\ \A k \in 1..Len(ch) : Reports(ch[k], qs[k], qs[k + 1])
  BY DEF Explains
<1>2. PICK n \in Nat : n = Len(ch)
  BY <1>1
<1>3. PICK c, s : c = Append(ch, m) /\ s = Append(qs, r)
  OBVIOUS
<1>4. /\ c \in Seq(Messages) /\ Len(c) = n + 1 /\ c[n + 1] = m
      /\ \A k \in 1..n : c[k] = ch[k]
  BY <1>1, <1>2, <1>3
<1>5. /\ s \in Seq(Queues) /\ Len(s) = n + 2 /\ s[n + 2] = r
      /\ \A k \in 1..(n + 1) : s[k] = qs[k]
  BY <1>1, <1>2, <1>3
<1>6. ASSUME NEW k \in 1..Len(c) PROVE Reports(c[k], s[k], s[k + 1])
  <2>1. CASE k \in 1..n
    <3>1. c[k] = ch[k] /\ s[k] = qs[k] /\ s[k + 1] = qs[k + 1]
      BY <1>4, <1>5, <2>1
    <3> QED BY <1>1, <1>2, <2>1, <3>1
  <2>2. CASE k = n + 1
    <3>1. c[k] = m /\ s[k] = to /\ s[k + 1] = r
      BY <1>1, <1>2, <1>4, <1>5, <2>2
    <3> QED BY <3>1
  <2> QED BY <1>4, <2>1, <2>2
<1>7. s[1] = from /\ s[Len(s)] = r /\ Len(s) = Len(c) + 1
  BY <1>1, <1>2, <1>4, <1>5
<1> QED BY <1>3, <1>4, <1>5, <1>6, <1>7 DEF Explains

LEMMA OneLess ==
  ASSUME NEW qs, NEW ch, NEW from, NEW to, Explains(qs, ch, from, to), ch # <<>>
  PROVE  /\ Head(ch) \in Messages /\ Reports(Head(ch), from, qs[2])
         /\ Explains(Tail(qs), Tail(ch), qs[2], to)
<1>1. /\ ch \in Seq(Messages) /\ qs \in Seq(Queues) /\ Len(qs) = Len(ch) + 1
      /\ qs[1] = from /\ qs[Len(qs)] = to
      /\ \A k \in 1..Len(ch) : Reports(ch[k], qs[k], qs[k + 1])
  BY DEF Explains
<1>2. PICK n \in Nat : n + 1 = Len(ch)
  BY <1>1, SMTT(30)
<1>3. PICK c, s : c = Tail(ch) /\ s = Tail(qs)
  OBVIOUS
<1>4. c \in Seq(Messages) /\ Len(c) = n /\ \A k \in 1..n : c[k] = ch[k + 1]
  BY <1>1, <1>2, <1>3
<1>5. s \in Seq(Queues) /\ Len(s) = n + 1 /\ \A k \in 1..(n + 1) : s[k] = qs[k + 1]
  BY <1>1, <1>2, <1>3
<1>6. ASSUME NEW k \in 1..Len(c) PROVE Reports(c[k], s[k], s[k + 1])
  <2>1. c[k] = ch[k + 1] /\ s[k] = qs[k + 1] /\ s[k + 1] = qs[k + 2]
    BY <1>4, <1>5
  <2>2. k + 1 \in 1..Len(ch) /\ (k + 1) + 1 = k + 2
    BY <1>2, <1>4
  <2>3. Reports(ch[k + 1], qs[k + 1], qs[(k + 1) + 1])
    BY <1>1, <2>2
  <2> QED BY <2>1, <2>2, <2>3
<1>7. s[1] = qs[2] /\ s[Len(s)] = to /\ Len(s) = Len(c) + 1
  BY <1>1, <1>2, <1>4, <1>5
<1>8. Explains(s, c, qs[2], to)
  BY <1>4, <1>5, <1>6, <1>7 DEF Explains
<1>9. Head(ch) \in Messages /\ Head(ch) = ch[1] /\ 1 \in 1..Len(ch)
  BY <1>1, <1>2
<1>10. Reports(Head(ch), from, qs[2])
  <2>1. Reports(ch[1], qs[1], qs[1 + 1])
    BY <1>1, <1>9
  <2> QED BY <1>1, <1>9, <2>1
<1> QED BY <1>3, <1>8, <1>9, <1>10

\* Where the venue finds an order, it stands.
LEMMA FloorStands ==
  ASSUME queue \in Queues, NEW ref \in Floor!Resting
  PROVE  Stands(queue, ref, Floor!LevelOf(ref), Floor!PlaceOf(ref))
<1>1. PICK l \in Level : l = Floor!LevelOf(ref) /\ ref \in {queue[l][k].ref : k \in 1..Len(queue[l])}
  BY DEF Floor!Resting, Floor!RefsAt, Floor!LevelOf
<1>2. PICK I : I = {k \in 1..Len(queue[l]) : queue[l][k].ref = ref}
  OBVIOUS
<1>3. I \subseteq Nat /\ I # {}
  BY <1>1, <1>2
<1>4. Min(I) \in I
  BY <1>3, MinOfNaturals
<1>5. Floor!PlaceOf(ref) = Min(I)
  BY <1>1, <1>2, <1>3 DEF Floor!PlaceOf, Floor!SelectInSeq, Floor!Min, Min
<1> QED BY <1>1, <1>2, <1>4, <1>5 DEF Stands

LEMMA Reported ==
  ASSUME NEW m \in Messages, Emit(m), Reports(m, queue, queue'), queue' \in Queues
  PROVE  /\ UNCHANGED <<book, counted, disturbances>> /\ queue' \in Queues
         /\ \A qs, from : Explains(qs, channel, from, queue)
                            => \E ps : Explains(ps, channel', from, queue')
<1>1. channel' = Append(channel, m) /\ UNCHANGED <<book, counted, disturbances>>
  BY DEF Emit
<1>2. ASSUME NEW qs, NEW from, Explains(qs, channel, from, queue)
      PROVE  \E ps : Explains(ps, channel', from, queue')
  <2>1. PICK r \in Queues : r = queue'
    OBVIOUS
  <2>2. Explains(Append(qs, r), Append(channel, m), from, r)
    BY <1>2, <2>1, OneMore
  <2> QED BY <1>1, <2>1, <2>2
<1> QED BY <1>1, <1>2

\* What a step of the venue leaves: its queues, and one more message.
Venues ==
  /\ UNCHANGED <<book, counted, disturbances>> /\ queue' \in Queues
  /\ \A qs, from : Explains(qs, channel, from, queue)
                     => \E ps : Explains(ps, channel', from, queue')

LEMMA VenueAdds ==
  ASSUME queue \in Queues, NEW ref \in Refs, NEW l \in Level, NEW n \in 1..MaxShares,
         VenueAdd(ref, l, n)
  PROVE  Venues
<1>1. PICK m : m = [type |-> "add", ref |-> ref, at |-> l, shares |-> n]
  OBVIOUS
<1>2. m \in Messages /\ m.type = "add" /\ m.ref = ref /\ m.at = l /\ m.shares = n
  BY <1>1 DEF Messages
<1>3. Emit(m) /\ ref \notin RefsIn(queue) /\ Cardinality(RefsIn(queue)) < MaxOrders
  BY <1>1, FloorResting DEF VenueAdd, Floor!Add
<1>4. queue' = Joined(queue, l, ref, n)
  BY DEF VenueAdd, Floor!Add, Joined
<1>5. queue' \in Queues
  <2>1. PICK k \in Nat \ {0} : k = n
    OBVIOUS
  <2>2. Joined(queue, l, ref, k) \in Queues
    BY JoinedQueue
  <2> QED BY <1>4, <2>1, <2>2
<1>6. Reports(m, queue, queue')
  BY <1>2, <1>3, <1>4 DEF Reports, ReportsAdd
<1> QED BY <1>2, <1>3, <1>5, <1>6, Reported DEF Venues

LEMMA CutQueue ==
  ASSUME NEW q \in Queues, NEW l \in Level, NEW i \in 1..Len(q[l]), NEW n \in Nat
  PROVE  Cut(q, l, i, n) \in Queues
<1>1. q[l][i].qty \in Nat
  <2>1. PICK S : S = [ref : Refs, qty : Nat \ {0}]
    OBVIOUS
  <2>2. q \in [Level -> Seq(S)]
    BY <2>1 DEF Queues
  <2>3. q[l] \in Seq(S)
    BY <2>2
  <2>4. q[l][i] \in S
    BY <2>3
  <2> QED BY <2>1, <2>4
<1>2. CASE n < q[l][i].qty
  BY <1>2, CutPart
<1>3. CASE n >= q[l][i].qty
  BY <1>3, CutWhole, TakenQueue
<1> QED BY <1>1, <1>2, <1>3

LEMMA VenueCuts ==
  ASSUME queue \in Queues, NEW ref \in Refs, NEW n \in 1..MaxShares,
         VenueExecute(ref, n) \/ VenueCancel(ref, n)
  PROVE  Venues
<1>1. ref \in Floor!Resting
  BY DEF VenueExecute, VenueCancel, Floor!Execute, Floor!Cancel
<1>2. PICK l, i : l = Floor!LevelOf(ref) /\ i = Floor!PlaceOf(ref)
  OBVIOUS
<1>3. Stands(queue, ref, l, i)
  BY <1>1, <1>2, FloorStands
<1>4. queue' = Cut(queue, l, i, n)
  BY <1>2 DEF VenueExecute, VenueCancel, Floor!Execute, Floor!Cancel, Cut
<1>5. queue' \in Queues
  BY <1>3, <1>4, CutQueue DEF Stands
<1>6. CASE VenueExecute(ref, n)
  <2>1. PICK m : m = [type |-> "execute", ref |-> ref, shares |-> n]
    OBVIOUS
  <2>2. m \in Messages /\ m.type = "execute" /\ m.ref = ref /\ m.shares = n
    BY <2>1 DEF Messages
  <2>3. Emit(m) /\ i = 1
    BY <1>2, <1>6, <2>1 DEF VenueExecute, Floor!Execute
  <2>4. Reports(m, queue, queue')
    BY <1>3, <1>4, <2>2, <2>3 DEF Reports, ReportsCut
  <2> QED BY <1>5, <2>2, <2>3, <2>4, Reported DEF Venues
<1>7. CASE VenueCancel(ref, n)
  <2>1. PICK m : m = [type |-> "cancel", ref |-> ref, shares |-> n]
    OBVIOUS
  <2>2. m \in Messages /\ m.type = "cancel" /\ m.ref = ref /\ m.shares = n
    BY <2>1 DEF Messages
  <2>3. Emit(m)
    BY <1>7, <2>1 DEF VenueCancel
  <2>4. Reports(m, queue, queue')
    BY <1>3, <1>4, <2>2 DEF Reports, ReportsCut
  <2> QED BY <1>5, <2>2, <2>3, <2>4, Reported DEF Venues
<1> QED BY <1>6, <1>7

LEMMA VenueDeletes ==
  ASSUME queue \in Queues, NEW ref \in Refs, VenueDelete(ref)
  PROVE  Venues
<1>1. ref \in Floor!Resting
  BY DEF VenueDelete, Floor!Delete
<1>2. PICK l, i : l = Floor!LevelOf(ref) /\ i = Floor!PlaceOf(ref)
  OBVIOUS
<1>3. Stands(queue, ref, l, i)
  BY <1>1, <1>2, FloorStands
<1>4. queue' = Taken(queue, l, i)
  BY <1>2, SameOperators DEF VenueDelete, Floor!Delete, Taken
<1>5. queue' \in Queues
  BY <1>3, <1>4, TakenQueue DEF Stands
<1>6. PICK m : m = [type |-> "delete", ref |-> ref]
  OBVIOUS
<1>7. m \in Messages /\ m.type = "delete" /\ m.ref = ref
  BY <1>6 DEF Messages
<1>8. Emit(m)
  BY <1>6 DEF VenueDelete
<1>9. Reports(m, queue, queue')
  BY <1>3, <1>4, <1>7 DEF Reports, ReportsDelete
<1> QED BY <1>5, <1>7, <1>8, <1>9, Reported DEF Venues

LEMMA VenueReplaces ==
  ASSUME queue \in Queues, NEW ref \in Refs, NEW new \in Refs, NEW at \in Level,
         NEW n \in 1..MaxShares, VenueReplace(ref, new, at, n)
  PROVE  Venues
<1>1. ref \in Floor!Resting /\ new \notin RefsIn(queue) \ {ref}
  BY FloorResting DEF VenueReplace, Floor!Replace
<1>2. PICK l, i : l = Floor!LevelOf(ref) /\ i = Floor!PlaceOf(ref)
  OBVIOUS
<1>3. Stands(queue, ref, l, i)
  BY <1>1, <1>2, FloorStands
<1>4. PICK w : w = Taken(queue, l, i)
  OBVIOUS
<1>5. w = [queue EXCEPT ![l] = Floor!RemoveAt(@, i)]
  BY <1>4, SameOperators DEF Taken
<1>6. at[1] = l[1] /\ queue' = Joined(w, at, new, n)
  BY <1>2, <1>5 DEF VenueReplace, Floor!Replace, Joined
<1>7. w \in Queues
  BY <1>3, <1>4, TakenQueue DEF Stands
<1>8. queue' \in Queues
  <2>1. PICK k \in Nat \ {0} : k = n
    OBVIOUS
  <2>2. Joined(w, at, new, k) \in Queues
    BY <1>7, JoinedQueue
  <2> QED BY <1>6, <2>1, <2>2
<1>9. PICK m : m = [type |-> "replace", ref |-> ref, new |-> new, at |-> at, shares |-> n]
  OBVIOUS
<1>10. m \in Messages /\ m.type = "replace" /\ m.ref = ref /\ m.new = new /\ m.at = at /\ m.shares = n
  BY <1>9 DEF Messages
<1>11. Emit(m)
  BY <1>9 DEF VenueReplace
<1>12. Reports(m, queue, queue')
  BY <1>1, <1>3, <1>4, <1>6, <1>10 DEF Reports, ReportsReplace
<1> QED BY <1>8, <1>10, <1>11, <1>12, Reported DEF Venues

\* Who is in a queue once an order has joined it, or left it.
LEMMA RefsAfter ==
  ASSUME NEW q \in Queues, NEW l \in Level
  PROVE  /\ \A ref \in Refs, n \in Nat \ {0} : RefsIn(Joined(q, l, ref, n)) \subseteq RefsIn(q) \cup {ref}
         /\ \A i \in 1..Len(q[l]) : RefsIn(Taken(q, l, i)) \subseteq RefsIn(q)
         /\ \A i \in 1..Len(q[l]), n \in Nat : RefsIn(Cut(q, l, i, n)) \subseteq RefsIn(q)
<1>0. PICK N \in Nat : N = Len(q[l])
  <2>1. PICK S : S = [ref : Refs, qty : Nat \ {0}]
    OBVIOUS
  <2>2. q \in [Level -> Seq(S)]
    BY <2>1 DEF Queues
  <2>3. q[l] \in Seq(S)
    BY <2>2
  <2> QED BY <2>3
<1>1. ASSUME NEW ref \in Refs, NEW n \in Nat \ {0}, NEW x \in RefsIn(Joined(q, l, ref, n))
      PROVE  x \in RefsIn(q) \cup {ref}
  <2>1. PICK r : r = Joined(q, l, ref, n)
    OBVIOUS
  <2>2. /\ \A m \in Level : m # l => r[m] = q[m]
        /\ Len(r[l]) = N + 1 /\ \A i \in 1..N : r[l][i] = q[l][i]
        /\ r[l][N + 1] = [ref |-> ref, qty |-> n]
    BY <1>0, <2>1, JoinedQueue
  <2>3. PICK m \in Level : \E k \in 1..Len(r[m]) : r[m][k].ref = x
    BY <1>1, <2>1 DEF RefsIn
  <2>8. PICK k \in 1..Len(r[m]) : r[m][k].ref = x
    BY <2>3
  <2>4. r[l][N + 1].ref = ref
    BY <2>2
  <2>5. CASE m = l /\ k = N + 1
    BY <2>8, <2>4, <2>5
  <2>6. CASE m = l /\ k # N + 1
    <3>1. k \in 1..N
      BY <2>2, <2>6
    <3>2. q[l][k].ref = x
      BY <2>2, <2>8, <2>6, <3>1
    <3> QED BY <1>0, <3>1, <3>2 DEF RefsIn
  <2>7. CASE m # l
    <3>1. q[m][k].ref = x /\ k \in 1..Len(q[m])
      BY <2>2, <2>8, <2>7
    <3> QED BY <3>1 DEF RefsIn
  <2> QED BY <2>5, <2>6, <2>7
<1>2. ASSUME NEW i \in 1..Len(q[l]), NEW x \in RefsIn(Taken(q, l, i))
      PROVE  x \in RefsIn(q)
  <2>1. PICK r : r = Taken(q, l, i)
    OBVIOUS
  <2>2. /\ \A m \in Level : m # l => r[m] = q[m]
        /\ Len(r[l]) = N - 1
        /\ \A j \in 1..(N - 1) : r[l][j] = IF j < i THEN q[l][j] ELSE q[l][j + 1]
    BY <1>0, <2>1, TakenQueue
  <2>3. PICK m \in Level : \E k \in 1..Len(r[m]) : r[m][k].ref = x
    BY <1>2, <2>1 DEF RefsIn
  <2>8. PICK k \in 1..Len(r[m]) : r[m][k].ref = x
    BY <2>3
  <2>4. CASE m = l
    <3>1. k \in 1..(N - 1)
      BY <2>2, <2>4
    <3>2. PICK j \in 1..N : r[l][k] = q[l][j]
      BY <2>2, <3>1
    <3> QED BY <1>0, <2>8, <2>4, <3>2 DEF RefsIn
  <2>5. CASE m # l
    <3>1. q[m][k].ref = x /\ k \in 1..Len(q[m])
      BY <2>2, <2>8, <2>5
    <3> QED BY <3>1 DEF RefsIn
  <2> QED BY <2>4, <2>5
<1>3. ASSUME NEW i \in 1..Len(q[l]), NEW n \in Nat, NEW x \in RefsIn(Cut(q, l, i, n))
      PROVE  x \in RefsIn(q)
  <2>1. CASE n >= q[l][i].qty
    <3>1. Cut(q, l, i, n) = Taken(q, l, i)
      BY <2>1, CutWhole
    <3> QED BY <1>2, <1>3, <3>1
  <2>2. CASE n < q[l][i].qty
    <3>1. PICK r : r = Cut(q, l, i, n)
      OBVIOUS
    <3>2. /\ \A m \in Level : m # l => r[m] = q[m]
          /\ Len(r[l]) = N /\ \A j \in 1..N : r[l][j].ref = q[l][j].ref
      BY <1>0, <2>2, <3>1, CutPart
    <3>3. PICK m \in Level : \E k \in 1..Len(r[m]) : r[m][k].ref = x
      BY <1>3, <3>1 DEF RefsIn
    <3>5. PICK k \in 1..Len(r[m]) : r[m][k].ref = x
      BY <3>3
    <3>4. q[m][k].ref = x /\ k \in 1..Len(q[m])
      BY <1>0, <3>2, <3>5
    <3> QED BY <3>4 DEF RefsIn
  <2>3. q[l][i].qty \in Nat
    <3>1. PICK S : S = [ref : Refs, qty : Nat \ {0}]
      OBVIOUS
    <3>2. q \in [Level -> Seq(S)]
      BY <3>1 DEF Queues
    <3>3. q[l] \in Seq(S)
      BY <3>2
    <3>4. q[l][i] \in S
      BY <3>3
    <3> QED BY <3>1, <3>4
  <2> QED BY <2>1, <2>2, <2>3
<1> QED BY <1>1, <1>2, <1>3

\* The book is a sound feed's: exact, and within its capacity.
Sound(b) == BookInv(b, TRUE) /\ Cardinality(Live(b)) <= MaxOrders

LEMMA SoundIsSane ==
  ASSUME NEW b, Sound(b)
  PROVE  Sane(b) /\ IsFiniteSet(Live(b)) /\ Cardinality(Live(b)) \in Nat
<1>1. BookInv(b, TRUE)
  BY DEF Sound
<1>2. Sane(b)
  BY <1>1, Inexact
<1>3. IsFiniteSet(Live(b))
  BY <1>2 DEF Sane, BookInv, CountIsLive
<1> QED BY <1>2, <1>3, FS_CardinalityType

LEMMA PriorityKeepsExact ==
  ASSUME BookInv(book, TRUE), PriorityNext
  PROVE  BookInv(book', TRUE)
<1>1. AtHead(book) \in SUBSET Refs
  BY DEF AtHead
<1> QED BY <1>1, EventInv DEF PriorityNext

\* An order stands in the book's queues only where PlaceOf finds it.
LEMMA StandsOnce ==
  ASSUME Sane(book), NEW q, q = QueueOf(book), NEW ref, NEW l, NEW i, Stands(q, ref, l, i)
  PROVE  ref \in Live(book) /\ l = book.orders[ref].at /\ i = PlaceOf(book, ref)
<1>1. q \in Queues /\ Distinct(q) /\ RefsIn(q) = Live(book)
  BY BookQueue, BookQueueDistinct
<1>2. ref \in Live(book)
  BY <1>1 DEF Stands, RefsIn
<1>3. Stands(q, ref, book.orders[ref].at, PlaceOf(book, ref))
  BY <1>2, BookQueuePlace
<1> QED BY <1>1, <1>2, <1>3 DEF Distinct, Stands

Anomalies == {"unknownRef", "duplicateRef", "outOfBand"}

\* What the participant has when it applies a message about its own queues.
Applied(r) ==
  QueueOf(book') = r /\ Sound(book') /\ counted' \cap Anomalies = {}

\* The capacity carries over: the orders are those of the queues.
LEMMA AppliedWithin ==
  ASSUME Sound(book), PriorityNext, NEW r, QueueOf(book') = r,
         IsFiniteSet(RefsIn(r)), Cardinality(RefsIn(r)) <= MaxOrders,
         counted' \cap Anomalies = {}
  PROVE  Applied(r)
<1>1. BookInv(book', TRUE)
  BY PriorityKeepsExact DEF Sound
<1>2. Sane(book')
  BY <1>1, Inexact
<1>3. RefsIn(r) = Live(book')
  BY <1>2, BookQueueDistinct
<1> QED BY <1>1, <1>3 DEF Applied, Sound

LEMMA DeliverAdd ==
  ASSUME Sound(book), NEW m, NEW r, ReportsAdd(m, QueueOf(book), r),
         OnAdd(m.ref, m.at[1], m.shares, m.at[2])
  PROVE  Applied(r)
<1>1. PICK ref, l, n, q : ref = m.ref /\ l = m.at /\ n = m.shares /\ q = QueueOf(book)
  OBVIOUS
<1>2. Sane(book) /\ IsFiniteSet(Live(book)) /\ Cardinality(Live(book)) \in Nat
  BY SoundIsSane
<1>3. q \in Queues /\ RefsIn(q) = Live(book)
  BY <1>1, <1>2, BookQueue, BookQueueDistinct
<1>4. /\ ref \in Refs \ Live(book) /\ l \in Level /\ n \in 1..MaxShares
      /\ Cardinality(Live(book)) < MaxOrders /\ r = Joined(q, l, ref, n)
  BY <1>1, <1>3 DEF ReportsAdd
<1>5. PICK side \in Sides, tick \in Ticks : l = <<side, tick>>
  BY <1>4 DEF Level
<1>6. OnAdd(ref, side, n, tick)
  BY <1>1, <1>5
<1>7. n \in Nat \ {0} /\ n \in 0..MaxShares /\ tick \in -1..Ladder
  BY <1>4, <1>5, L3BookAssumption DEF Ticks
<1>8. InsertFault(book, ref, n, tick) = "none"
  <2>1. ~(n <= 0) /\ ~(Cardinality(Live(book)) >= MaxOrders)
    BY <1>2, <1>4, <1>7, L3BookAssumption
  <2> QED BY <1>4, <1>5, <2>1 DEF InsertFault
<1>9. book' = Inserted(book, ref, side, n, tick) /\ counted' = {"add"}
  BY <1>6, <1>8 DEF OnAdd
<1>10. PriorityNext
  BY <1>4, <1>5, <1>6, <1>7 DEF PriorityNext, Event
<1>11. QueueOf(book') = r
  <2>1. QueueOf(Inserted(book, ref, side, n, tick)) = Joined(QueueOf(book), <<side, tick>>, ref, n)
    BY <1>2, <1>4, <1>5, <1>7, InsertedQueue
  <2> QED BY <1>1, <1>4, <1>5, <1>9, <2>1
<1>12. IsFiniteSet(RefsIn(r)) /\ Cardinality(RefsIn(r)) <= MaxOrders
  <2>1. PICK S : S = Live(book) \cup {ref}
    OBVIOUS
  <2>2. IsFiniteSet(S) /\ Cardinality(S) = Cardinality(Live(book)) + 1
    BY <1>2, <1>4, <2>1, FS_AddElement
  <2>3. RefsIn(r) \subseteq S
    BY <1>3, <1>4, <1>7, <2>1, RefsAfter
  <2>4. IsFiniteSet(RefsIn(r)) /\ Cardinality(RefsIn(r)) <= Cardinality(S)
    BY <2>2, <2>3, FS_Subset
  <2>5. Cardinality(RefsIn(r)) \in Nat
    BY <2>4, FS_CardinalityType
  <2> QED BY <1>2, <1>4, <2>2, <2>4, <2>5, L3BookAssumption
<1>13. counted' \cap Anomalies = {}
  BY <1>9 DEF Anomalies
<1> QED BY <1>10, <1>11, <1>12, <1>13, AppliedWithin

\* A message that adds nobody keeps the book within its capacity.
LEMMA FewerRefs ==
  ASSUME Sound(book), NEW r, RefsIn(r) \subseteq Live(book)
  PROVE  IsFiniteSet(RefsIn(r)) /\ Cardinality(RefsIn(r)) <= MaxOrders
<1>1. IsFiniteSet(Live(book)) /\ Cardinality(Live(book)) \in Nat
  BY SoundIsSane
<1>2. IsFiniteSet(RefsIn(r)) /\ Cardinality(RefsIn(r)) <= Cardinality(Live(book))
  BY <1>1, FS_Subset
<1>3. Cardinality(RefsIn(r)) \in Nat
  BY <1>2, FS_CardinalityType
<1> QED BY <1>1, <1>2, <1>3, L3BookAssumption DEF Sound

LEMMA DeliverCut ==
  ASSUME Sound(book), NEW m, NEW r, ReportsCut(m, QueueOf(book), r),
         \/ m.type = "execute" /\ OnExecute(m.ref, m.shares)
         \/ m.type = "cancel" /\ OnCancel(m.ref, m.shares)
  PROVE  Applied(r)
<1>1. PICK ref, n, q : ref = m.ref /\ n = m.shares /\ q = QueueOf(book)
  OBVIOUS
<1>2. Sane(book)
  BY SoundIsSane
<1>3. PICK l, i : /\ Stands(q, ref, l, i) /\ n \in 1..MaxShares
                  /\ m.type = "execute" => i = 1
                  /\ r = Cut(q, l, i, n)
  BY <1>1 DEF ReportsCut
<1>4. ref \in Live(book) /\ l = book.orders[ref].at /\ i = PlaceOf(book, ref)
  BY <1>1, <1>2, <1>3, StandsOnce
<1>5. n \in Nat /\ n \in 0..MaxShares /\ ref \in Refs /\ q \in Queues /\ RefsIn(q) = Live(book)
  <2>1. q \in Queues
    BY <1>1, <1>2, BookQueue
  <2>2. RefsIn(q) = Live(book)
    BY <1>1, <1>2, BookQueueDistinct
  <2>3. n \in Nat /\ n \in 0..MaxShares
    BY <1>3
  <2> QED BY <1>4, <2>1, <2>2, <2>3 DEF Live
<1>6. \A bySeq \in BOOLEAN : QueueOf(Reduced(book, ref, n, bySeq)) = r
  BY <1>1, <1>2, <1>3, <1>4, <1>5, ReducedQueue
<1>7. ~UnknownRef(ref)
  BY <1>4 DEF UnknownRef
<1>8. RefsIn(r) \subseteq Live(book)
  BY <1>3, <1>5, RefsAfter DEF Stands
<1>9. IsFiniteSet(RefsIn(r)) /\ Cardinality(RefsIn(r)) <= MaxOrders
  BY <1>8, FewerRefs
<1>10. CASE m.type = "execute" /\ OnExecute(m.ref, m.shares)
  <2>1. OnExecute(ref, n) /\ ref \in AtHead(book)
    BY <1>1, <1>3, <1>4, <1>5, <1>10 DEF AtHead
  <2>2. book' = Reduced(book, ref, n, FALSE) /\ counted' = {"execute"}
    BY <1>7, <2>1 DEF OnExecute
  <2>3. QueueOf(book') = r
    BY <1>6, <2>2
  <2>4. PriorityNext
    BY <1>5, <2>1 DEF PriorityNext, Event
  <2>5. counted' \cap Anomalies = {}
    BY <2>2 DEF Anomalies
  <2> QED BY <1>9, <2>3, <2>4, <2>5, AppliedWithin
<1>11. CASE m.type = "cancel" /\ OnCancel(m.ref, m.shares)
  <2>1. OnCancel(ref, n)
    BY <1>1, <1>11
  <2>2. book' = Reduced(book, ref, n, TRUE) /\ counted' = {"cancel"}
    BY <1>7, <2>1 DEF OnCancel
  <2>3. QueueOf(book') = r
    BY <1>6, <2>2
  <2>4. PriorityNext
    BY <1>5, <2>1 DEF PriorityNext, Event
  <2>5. counted' \cap Anomalies = {}
    BY <2>2 DEF Anomalies
  <2> QED BY <1>9, <2>3, <2>4, <2>5, AppliedWithin
<1> QED BY <1>10, <1>11

LEMMA DeliverDelete ==
  ASSUME Sound(book), NEW m, NEW r, ReportsDelete(m, QueueOf(book), r), OnDelete(m.ref)
  PROVE  Applied(r)
<1>1. PICK ref, q : ref = m.ref /\ q = QueueOf(book)
  OBVIOUS
<1>2. Sane(book)
  BY SoundIsSane
<1>3. PICK l, i : Stands(q, ref, l, i) /\ r = Taken(q, l, i)
  BY <1>1 DEF ReportsDelete
<1>4. ref \in Live(book) /\ l = book.orders[ref].at /\ i = PlaceOf(book, ref)
  BY <1>1, <1>2, <1>3, StandsOnce
<1>5. q \in Queues /\ RefsIn(q) = Live(book) /\ ref \in Refs
  BY <1>1, <1>2, <1>4, BookQueue, BookQueueDistinct DEF Live
<1>6. OnDelete(ref) /\ ~UnknownRef(ref)
  BY <1>1, <1>4 DEF UnknownRef
<1>7. book' = RemovedWhole(book, ref) /\ counted' = {"delete"}
  BY <1>6 DEF OnDelete
<1>8. QueueOf(book') = r
  BY <1>1, <1>2, <1>3, <1>4, <1>7, RemovedWholeQueue
<1>9. PriorityNext
  BY <1>5, <1>6 DEF PriorityNext, Event
<1>10. RefsIn(r) \subseteq Live(book)
  BY <1>3, <1>5, RefsAfter DEF Stands
<1>11. IsFiniteSet(RefsIn(r)) /\ Cardinality(RefsIn(r)) <= MaxOrders
  BY <1>10, FewerRefs
<1>12. counted' \cap Anomalies = {}
  BY <1>7 DEF Anomalies
<1> QED BY <1>8, <1>9, <1>11, <1>12, AppliedWithin

LEMMA DeliverReplace ==
  ASSUME Sound(book), NEW m, NEW r, ReportsReplace(m, QueueOf(book), r),
         OnReplace(m.ref, m.new, m.shares, m.at[2])
  PROVE  Applied(r)
<1>1. PICK ref, new, at, n, q :
        ref = m.ref /\ new = m.new /\ at = m.at /\ n = m.shares /\ q = QueueOf(book)
  OBVIOUS
<1>2. Sane(book) /\ IsFiniteSet(Live(book)) /\ Cardinality(Live(book)) \in Nat
  BY SoundIsSane
<1>3. PICK l, i : /\ Stands(q, ref, l, i) /\ at[1] = l[1]
                  /\ r = Joined(Taken(q, l, i), at, new, n)
  BY <1>1 DEF ReportsReplace
<1>4. new \in Refs \ (RefsIn(q) \ {ref}) /\ at \in Level /\ n \in 1..MaxShares
  BY <1>1 DEF ReportsReplace
<1>5. ref \in Live(book) /\ l = book.orders[ref].at /\ i = PlaceOf(book, ref)
  BY <1>1, <1>2, <1>3, StandsOnce
<1>6. q \in Queues /\ RefsIn(q) = Live(book) /\ ref \in Refs
  BY <1>1, <1>2, <1>5, BookQueue, BookQueueDistinct DEF Live
<1>7. PICK side \in Sides, tick \in Ticks : at = <<side, tick>>
  BY <1>4 DEF Level
<1>8. n \in Nat \ {0} /\ n \in 0..MaxShares /\ tick \in -1..Ladder /\ side = l[1]
  BY <1>3, <1>4, <1>7, L3BookAssumption DEF Ticks
<1>9. PICK c : c = RemovedWhole(book, ref)
  OBVIOUS
<1>10. PICK w : w = Taken(q, l, i)
  OBVIOUS
<1>11. Sane(c) /\ Live(c) = Live(book) \ {ref} /\ QueueOf(c) = w
  BY <1>1, <1>2, <1>5, <1>9, <1>10, RemovedWholeQueue
<1>12. /\ IsFiniteSet(Live(c)) /\ Cardinality(Live(c)) \in Nat
       /\ Cardinality(Live(c)) + 1 = Cardinality(Live(book))
  <2>1. IsFiniteSet(Live(c)) /\ Cardinality(Live(c)) = Cardinality(Live(book)) - 1
    BY <1>2, <1>5, <1>11, FS_RemoveElement
  <2>2. Cardinality(Live(c)) \in Nat
    BY <2>1, FS_CardinalityType
  <2> QED BY <1>2, <2>1, <2>2
<1>13. new \in Refs \ Live(c)
  BY <1>4, <1>6, <1>11
<1>14. InsertFault(c, new, n, tick) = "none"
  <2>1. Cardinality(Live(book)) <= MaxOrders
    BY DEF Sound
  <2>2. ~(n <= 0) /\ ~(Cardinality(Live(c)) >= MaxOrders)
    BY <1>2, <1>8, <1>12, <2>1, L3BookAssumption
  <2> QED BY <1>7, <1>13, <2>2 DEF InsertFault
<1>15. OnReplace(ref, new, n, tick) /\ ~UnknownRef(ref)
  BY <1>1, <1>5, <1>7 DEF UnknownRef
<1>16. book' = Inserted(c, new, side, n, tick) /\ counted' = {"replace"}
  BY <1>5, <1>8, <1>9, <1>14, <1>15 DEF OnReplace
<1>17. QueueOf(book') = r
  <2>1. QueueOf(Inserted(c, new, side, n, tick)) = Joined(QueueOf(c), <<side, tick>>, new, n)
    BY <1>8, <1>11, <1>13, InsertedQueue
  <2> QED BY <1>3, <1>7, <1>10, <1>11, <1>16, <2>1
<1>18. PriorityNext
  BY <1>4, <1>6, <1>8, <1>15 DEF PriorityNext, Event
<1>19. IsFiniteSet(RefsIn(r)) /\ Cardinality(RefsIn(r)) <= MaxOrders
  <2>1. PICK S : S = Live(c) \cup {new}
    OBVIOUS
  <2>2. IsFiniteSet(S) /\ Cardinality(S) = Cardinality(Live(c)) + 1
    BY <1>12, <1>13, <2>1, FS_AddElement
  <2>3. RefsIn(w) = Live(c) /\ w \in Queues
    BY <1>11, BookQueue, BookQueueDistinct
  <2>4. RefsIn(r) \subseteq S
    BY <1>3, <1>4, <1>8, <1>10, <2>1, <2>3, RefsAfter
  <2>5. IsFiniteSet(RefsIn(r)) /\ Cardinality(RefsIn(r)) <= Cardinality(S)
    BY <2>2, <2>4, FS_Subset
  <2>6. Cardinality(RefsIn(r)) \in Nat
    BY <2>5, FS_CardinalityType
  <2>7. Cardinality(Live(book)) <= MaxOrders
    BY DEF Sound
  <2> QED BY <1>2, <1>12, <2>2, <2>5, <2>6, <2>7, L3BookAssumption
<1>20. counted' \cap Anomalies = {}
  BY <1>16 DEF Anomalies
<1> QED BY <1>17, <1>18, <1>19, <1>20, AppliedWithin

\* A message applied to the queues it is about leaves what it reports, and
\* nothing to complain of.
LEMMA Delivered ==
  ASSUME Sound(book), NEW m, NEW r, Reports(m, QueueOf(book), r), OnMessage(m)
  PROVE  Applied(r)
<1>1. CASE ReportsAdd(m, QueueOf(book), r)
  <2>1. OnAdd(m.ref, m.at[1], m.shares, m.at[2])
    BY <1>1 DEF ReportsAdd, OnMessage
  <2> QED BY <1>1, <2>1, DeliverAdd
<1>2. CASE ReportsCut(m, QueueOf(book), r)
  <2>1. m.type = "execute" \/ m.type = "cancel"
    BY <1>2 DEF ReportsCut
  <2>2. m.type = "execute" => OnExecute(m.ref, m.shares)
    BY DEF OnMessage
  <2>3. m.type = "cancel" => OnCancel(m.ref, m.shares)
    BY DEF OnMessage
  <2> QED BY <1>2, <2>1, <2>2, <2>3, DeliverCut
<1>3. CASE ReportsDelete(m, QueueOf(book), r)
  <2>1. OnDelete(m.ref)
    BY <1>3 DEF ReportsDelete, OnMessage
  <2> QED BY <1>3, <2>1, DeliverDelete
<1>4. CASE ReportsReplace(m, QueueOf(book), r)
  <2>1. OnReplace(m.ref, m.new, m.shares, m.at[2])
    BY <1>4 DEF ReportsReplace, OnMessage
  <2> QED BY <1>4, <2>1, DeliverReplace
<1> QED BY <1>1, <1>2, <1>3, <1>4 DEF Reports

\* What is in flight explains the venue's queues from the book's, as long as
\* nothing was lost or replayed.
FeedInv ==
  /\ disturbances \in Nat /\ queue \in Queues
  /\ disturbances = 0 =>
       /\ Sound(book) /\ counted \cap Anomalies = {}
       /\ \E qs : Explains(qs, channel, QueueOf(book), queue)

LEMMA FeedInitInv == FeedInit => FeedInv
<1> SUFFICES ASSUME FeedInit PROVE FeedInv
  OBVIOUS
<1>1. book = EmptyBook /\ counted = {} /\ queue = [l \in Level |-> <<>>] /\ channel = <<>> /\ disturbances = 0
  BY DEF FeedInit, Init, Floor!Init
<1>2. BookInv(book, TRUE)
  BY <1>1, EmptyBookInv
<1>3. queue \in Queues
  BY <1>1 DEF Queues
<1>4. QueueOf(book) = queue
  BY <1>1 DEF QueueOf, EmptyBook
<1>5. Live(book) = {}
  BY <1>1 DEF Live, EmptyBook
<1>6. Sound(book)
  <2>1. Cardinality(Live(book)) = 0
    BY <1>5, FS_EmptySet
  <2>2. 0 <= MaxOrders
    BY L3BookAssumption
  <2> QED BY <1>2, <2>1, <2>2, Zenon DEF Sound
<1>7. Explains(<<queue>>, channel, queue, queue)
  <2>1. PICK s : s = <<queue>>
    OBVIOUS
  <2>2. s \in Seq(Queues) /\ Len(s) = 1 /\ s[1] = queue
    BY <1>3, <2>1
  <2>3. channel \in Seq(Messages) /\ Len(channel) = 0
    BY <1>1
  <2>4. Explains(s, channel, queue, queue)
    BY <2>2, <2>3 DEF Explains
  <2> QED BY <2>1, <2>4
<1> QED BY <1>1, <1>3, <1>4, <1>6, <1>7 DEF FeedInv, Anomalies

LEMMA VenueKeepsFeed ==
  ASSUME FeedInv, Venues
  PROVE  FeedInv'
<1>1. /\ book' = book /\ counted' = counted /\ disturbances' = disturbances /\ queue' \in Queues
      /\ \A qs, from : Explains(qs, channel, from, queue)
                         => \E ps : Explains(ps, channel', from, queue')
  BY DEF Venues
<1>2. ASSUME disturbances = 0
      PROVE  /\ Sound(book) /\ counted \cap Anomalies = {}
             /\ \E ps : Explains(ps, channel', QueueOf(book), queue')
  <2>1. PICK qs : Explains(qs, channel, QueueOf(book), queue)
    BY <1>2 DEF FeedInv
  <2>2. Sound(book) /\ counted \cap Anomalies = {}
    BY <1>2 DEF FeedInv
  <2> QED BY <1>1, <2>1, <2>2
<1>3. disturbances \in Nat
  BY DEF FeedInv
<1> QED BY <1>1, <1>2, <1>3 DEF FeedInv

LEMMA DeliverKeepsFeed ==
  ASSUME FeedInv, Deliver
  PROVE  FeedInv'
<1>1. channel # <<>> /\ OnMessage(Head(channel)) /\ channel' = Tail(channel)
      /\ queue' = queue /\ disturbances' = disturbances
  BY DEF Deliver
<1>2. ASSUME disturbances = 0
      PROVE  /\ Sound(book') /\ counted' \cap Anomalies = {}
             /\ \E ps : Explains(ps, channel', QueueOf(book'), queue)
  <2>1. PICK qs : Explains(qs, channel, QueueOf(book), queue)
    BY <1>2 DEF FeedInv
  <2>2. PICK m, r : m = Head(channel) /\ r = qs[2]
    OBVIOUS
  <2>3. Reports(m, QueueOf(book), r) /\ Explains(Tail(qs), Tail(channel), r, queue)
    BY <1>1, <2>1, <2>2, OneLess
  <2>4. Sound(book)
    BY <1>2 DEF FeedInv
  <2>5. Applied(r)
    BY <1>1, <2>2, <2>3, <2>4, Delivered
  <2>6. QueueOf(book') = r /\ Sound(book') /\ counted' \cap Anomalies = {}
    BY <2>5 DEF Applied
  <2> QED BY <1>1, <2>3, <2>6
<1>3. disturbances \in Nat /\ queue \in Queues
  BY DEF FeedInv
<1> QED BY <1>1, <1>2, <1>3 DEF FeedInv

LEMMA TrackKeepsFeed ==
  ASSUME FeedInv, NEW ref \in Refs, FeedTrack(ref)
  PROVE  FeedInv'
<1>1. /\ Track(ref) \/ Untrack(ref)
      /\ queue' = queue /\ channel' = channel /\ disturbances' = disturbances
  BY DEF FeedTrack
<1>2. ASSUME disturbances = 0
      PROVE  /\ Sound(book') /\ counted' \cap Anomalies = {}
             /\ \E ps : Explains(ps, channel, QueueOf(book'), queue)
  <2>1. PICK qs : Explains(qs, channel, QueueOf(book), queue)
    BY <1>2 DEF FeedInv
  <2>2. Sound(book)
    BY <1>2 DEF FeedInv
  <2>3. Sane(book)
    BY <2>2, SoundIsSane
  <2>4. book'.fifo = book.fifo /\ book'.orders = book.orders
    BY <1>1, <2>3, SaneFacts DEF Track, Untrack, Untracked, Book
  <2>5. QueueOf(book') = QueueOf(book) /\ Live(book') = Live(book)
    BY <2>4, SameFifos DEF Live
  <2>6. BookInv(book', TRUE)
    <3>1. PriorityNext
      BY <1>1 DEF PriorityNext, Event
    <3> QED BY <2>2, <3>1, PriorityKeepsExact DEF Sound
  <2>7. counted' = {}
    BY <1>1 DEF Track, Untrack
  <2> QED BY <2>1, <2>2, <2>5, <2>6, <2>7 DEF Sound
<1>3. disturbances \in Nat /\ queue \in Queues
  BY DEF FeedInv
<1> QED BY <1>1, <1>2, <1>3 DEF FeedInv

LEMMA FeedStepInv ==
  ASSUME FeedInv, [FeedNext]_feedVars
  PROVE  FeedInv'
<1>1. queue \in Queues /\ disturbances \in Nat
  BY DEF FeedInv
<1>2. ASSUME NEW ref \in Refs, NEW n \in 1..MaxShares,
             \/ \E l \in Level : VenueAdd(ref, l, n)
             \/ VenueExecute(ref, n)
             \/ VenueCancel(ref, n)
             \/ \E new \in Refs, l \in Level : VenueReplace(ref, new, l, n)
      PROVE  FeedInv'
  <2>1. Venues
    BY <1>1, <1>2, VenueAdds, VenueCuts, VenueReplaces
  <2> QED BY <2>1, VenueKeepsFeed
<1>3. ASSUME NEW ref \in Refs, VenueDelete(ref) PROVE FeedInv'
  BY <1>1, <1>3, VenueDeletes, VenueKeepsFeed
<1>4. ASSUME NEW ref \in Refs, FeedTrack(ref) PROVE FeedInv'
  BY <1>4, TrackKeepsFeed
<1>5. CASE Deliver
  BY <1>5, DeliverKeepsFeed
<1>6. CASE Replay \/ Lose
  <2>1. disturbances' = disturbances + 1 /\ queue' = queue
    BY <1>6 DEF Replay, Lose
  <2>2. disturbances' \in Nat /\ disturbances' # 0
    BY <1>1, <2>1
  <2> QED BY <1>1, <2>1, <2>2 DEF FeedInv
<1>7. CASE UNCHANGED feedVars
  BY <1>7 DEF FeedInv, feedVars
<1> QED BY <1>2, <1>3, <1>4, <1>5, <1>6, <1>7 DEF FeedNext

LEMMA FeedInvHolds == FeedSpec => []FeedInv
<1> QED BY FeedInitInv, FeedStepInv, PTL DEF FeedSpec

\* On a feed without a gap or a replay no event is about an unknown order, a
\* duplicate or an order the book has no room for: the tallies are a symptom.
THEOREM AnomalyMeansDisturbanceHolds == FeedSpec => []AnomalyMeansDisturbance
<1>1. FeedInv => AnomalyMeansDisturbance
  BY DEF FeedInv, AnomalyMeansDisturbance, Anomalies
<1> QED BY <1>1, FeedInvHolds, PTL

\* The shares before an order at the venue are those before it in a book that
\* has the venue's queues.
LEMMA SameSharesBefore ==
  ASSUME Sane(book), QueueOf(book) = queue, NEW ref \in Live(book)
  PROVE  Floor!SharesBefore(ref) = SharesBefore(book, ref)
<1>1. PICK l, i : l \in Level /\ l = book.orders[ref].at /\ i = PlaceOf(book, ref)
  BY SaneOrder DEF Node
<1>2. queue \in Queues /\ Distinct(queue) /\ Stands(queue, ref, l, i)
  BY <1>1, BookQueue, BookQueueDistinct, BookQueuePlace
<1>3. Floor!LevelOf(ref) = l /\ Floor!PlaceOf(ref) = i
  BY <1>2, FloorPlace
<1>4. PICK n \in Nat :
        /\ n = Len(queue[l]) /\ n = Len(book.fifo[l])
        /\ \A k \in 1..n : queue[l][k].qty = book.orders[book.fifo[l][k]].qty
  <2>1. /\ \A m \in Level : Len(queue[m]) = Len(book.fifo[m]) /\ Len(queue[m]) \in Nat
        /\ \A m \in Level : \A k \in 1..Len(queue[m]) :
             queue[m][k].qty = book.orders[book.fifo[m][k]].qty
    BY BookQueue
  <2> QED BY <1>1, <2>1
<1>5. BookInv(book, FALSE)
  BY DEF Sane
<1>6. PICK p : RunningTotals(book, l, p, FALSE)
  BY <1>1, <1>5 DEF BookInv, TotalsKept
<1> DEFINE D(g) == g = [k \in 0..n |-> IF k = 0 THEN 0 ELSE g[k - 1] + queue[l][k].qty]
<1>7. /\ p \in [0..n -> Nat] /\ p[0] = 0
      /\ \A k \in 1..n : p[k] = p[k - 1] + queue[l][k].qty
  BY <1>4, <1>6 DEF RunningTotals
<1>8. D(p)
  BY <1>7
<1>9. D(CHOOSE g : D(g))
  BY <1>8
<1>10. Floor!SharesBefore(ref) = (CHOOSE g : D(g))[i - 1]
  BY <1>3, <1>4 DEF Floor!SharesBefore
<1>11. PICK s : s = CHOOSE g : D(g)
  OBVIOUS
<1>12. D(s)
  BY <1>9, <1>11
<1> DEFINE T == {k \in 0..n : s[k] # p[k]}
<1>13. T = {}
  <2> SUFFICES ASSUME T # {} PROVE FALSE
    OBVIOUS
  <2>1. PICK x \in T : \A y \in T : x <= y
    <3>1. T \subseteq Nat
      OBVIOUS
    <3> HIDE DEF T
    <3> QED BY <3>1, LeastElement
  <2>2. x # 0
    BY <1>7, <1>12, <2>1
  <2>3. x - 1 \in 0..n /\ x - 1 \notin T
    BY <2>1, <2>2
  <2>4. s[x - 1] = p[x - 1] /\ x \in 1..n /\ s[x] # p[x]
    BY <2>1, <2>2, <2>3
  <2>5. s[x] = s[x - 1] + queue[l][x].qty
    BY <1>12, <2>2, <2>4
  <2> QED BY <1>7, <2>4, <2>5
<1>14. i - 1 \in 0..n
  BY <1>2, <1>4 DEF Stands
<1>15. s[i - 1] = p[i - 1]
  BY <1>13, <1>14
<1>16. SharesBefore(book, ref) = p[i - 1]
  <2>1. \A exact \in BOOLEAN : BookInv(book, exact) /\ RunningTotals(book, book.orders[ref].at, p, exact)
          => SharesBefore(book, ref) = p[PlaceOf(book, ref) - 1]
    BY SharesBeforeIsTotal
  <2> QED BY <1>1, <1>5, <1>6, <2>1
<1> QED BY <1>10, <1>11, <1>15, <1>16

\* A participant that has applied all of an undisturbed feed has the venue's
\* queues, order by order, and every tracked order's true place in them.
THEOREM CaughtUpHolds == FeedSpec => []CaughtUp
<1>1. FeedInv => CaughtUp
  <2> SUFFICES ASSUME FeedInv, channel = <<>>, disturbances = 0
               PROVE  /\ QueueOf(book) = queue
                      /\ \A i \in 1..Len(book.tracked) :
                           book.tracked[i].ahead = Floor!SharesBefore(book.tracked[i].ref)
    BY DEF CaughtUp, CaughtUpBookIsVenues, CaughtUpAheadIsTrue
  <2>1. PICK qs : Explains(qs, channel, QueueOf(book), queue)
    BY DEF FeedInv
  <2>2. QueueOf(book) = queue
    BY <2>1 DEF Explains
  <2>3. BookInv(book, TRUE) /\ Sane(book)
    BY SoundIsSane DEF FeedInv, Sound
  <2>4. ASSUME NEW i \in 1..Len(book.tracked)
        PROVE  book.tracked[i].ahead = Floor!SharesBefore(book.tracked[i].ref)
    <3>1. book.tracked[i].ahead = SharesBefore(book, book.tracked[i].ref)
      BY <2>3, InvBoundsAhead
    <3>2. book.tracked[i].ref \in Live(book)
      BY <2>3 DEF BookInv, RowsLive
    <3> QED BY <2>2, <2>3, <3>1, <3>2, SameSharesBefore
  <2> QED BY <2>2, <2>4
<1> QED BY <1>1, FeedInvHolds, PTL
=============================================================================
