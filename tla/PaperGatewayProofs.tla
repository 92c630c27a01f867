-------------------------- MODULE PaperGatewayProofs --------------------------
(* Theorems of PaperGateway: whatever listeners do, no order trades its    *)
(* shares twice or beyond its limit, and cash, positions and the cost they *)
(* carry are those of the fills; with listeners that submit at most, what  *)
(* rests is right.                                                         *)
EXTENDS PaperGateway, CommonLemmas

OrderRec == [sym : Symbols, side : Sides, qty : Nat, limit : Nat, status : Status]
FillRec == [id : Nat, price : Nat, qty : Nat]
LoopRec == [at : {"quote"}, sym : Symbols, bid : Nat, ask : Nat,
            list : Nat, i : Nat \ {0}, kept : Seq(Nat)]
Frame == {Listener} \cup LoopRec
Quotes == [bid : Nat, ask : Nat]

\* What _orders and the heap hold, of values rather than of the state: the
\* lists hold ids of orders, and so do the calls under way, each of which
\* iterates a list that is there.
Ids(os, list) == list \in Seq(Nat) /\ \A j \in DOMAIN list : list[j] \in DOMAIN os
Lists(os, h) ==
  /\ h \in [lists : Seq(Seq(Nat)), resting : Nat] /\ h.resting \in DOMAIN h.lists
  /\ \A n \in DOMAIN h.lists : Ids(os, h.lists[n])
Calls(os, h, s) ==
  /\ s \in Seq(Frame)
  /\ \A k \in DOMAIN s : s[k].at = "quote" => s[k].list \in DOMAIN h.lists /\ Ids(os, s[k].kept)
Told(os, fs) == fs \in Seq(FillRec) /\ \A k \in DOMAIN fs : fs[k].id \in DOMAIN os

Typed ==
  /\ orders \in Seq(OrderRec)
  /\ quotes \in [Symbols -> Quotes]
  /\ Lists(orders, heap)
  /\ Calls(orders, heap, stack)
  /\ Told(orders, fills)

\* A fill that traded shares used up its order, no other traded them, and it
\* was within the order's limit.
Trades(os, fs) ==
  /\ \A k \in DOMAIN fs : fs[k].qty > 0 => os[fs[k].id].qty = 0
  /\ \A j, k \in DOMAIN fs : fs[j].qty > 0 /\ fs[k].qty > 0 /\ fs[j].id = fs[k].id => j = k
  /\ \A k \in DOMAIN fs :
       LET o == os[fs[k].id] IN
       o.limit # Market =>
         IF o.side = "BUY" THEN fs[k].price <= o.limit ELSE fs[k].price >= o.limit

Inv == Typed /\ Trades(orders, fills)

-----------------------------------------------------------------------------
(* The pieces actions are made of.                                         *)

\* An order that _fill is done with.
Done(o) == [o EXCEPT !.qty = 0, !.status = "FILLED"]

LEMMA DoneIs ==
  ASSUME NEW o \in OrderRec
  PROVE  /\ Done(o) \in OrderRec /\ Done(o).qty = 0 /\ Done(o).status = "FILLED"
         /\ Done(o).sym = o.sym /\ Done(o).side = o.side /\ Done(o).limit = o.limit
BY DEF Done, OrderRec, Status

\* Orders only ever get more, or change in place.
LEMMA MoreOrders ==
  ASSUME NEW os, NEW more, DOMAIN os \subseteq DOMAIN more, NEW h, NEW s, NEW fs,
         Lists(os, h), Calls(os, h, s), Told(os, fs)
  PROVE  Lists(more, h) /\ Calls(more, h, s) /\ Told(more, fs)
BY DEF Lists, Calls, Told, Ids

\* Calls s can be returned to with lists h.
LEMMA Returning ==
  ASSUME NEW os, NEW h, NEW s, Returns(s, h), Lists(os, h), Calls(os, h, s)
  PROVE  Lists(os, heap') /\ Calls(os, heap', stack')
<1>1. CASE s = <<>>
  <2>1. heap' = [lists |-> <<h.lists[h.resting]>>, resting |-> 1] /\ stack' = <<>>
    BY <1>1 DEF Returns
  <2>2. h.lists[h.resting] \in Seq(Nat) /\ Ids(os, h.lists[h.resting])
    BY DEF Lists
  <2> QED BY <2>1, <2>2 DEF Lists, Calls
<1>2. CASE s # <<>>
  BY <1>2 DEF Returns
<1> QED BY <1>1, <1>2

\* Calls s with a listener started on top.
LEMMA Calling ==
  ASSUME NEW os, NEW h, NEW s, Calls(os, h, s)
  PROVE  Calls(os, h, Append(s, Listener)) /\ Append(s, Listener) # <<>>
BY DEF Calls, Frame, Listener

\* What _fill does to a book of orders os whose order id was not told of yet.
LEMMA Filling ==
  ASSUME NEW os \in Seq(OrderRec), NEW id \in DOMAIN os, NEW price \in Nat, NEW below,
         Fill(os, id, price, below), Lists(os, heap), Calls(os, heap, below), Told(os, fills)
  PROVE  /\ orders' \in Seq(OrderRec) /\ DOMAIN orders' = DOMAIN os
         /\ Lists(orders', heap') /\ Calls(orders', heap', stack') /\ Told(orders', fills')
<1>1. os[id] \in OrderRec
  OBVIOUS
<1>2. CASE DividesByZero(acct, os[id])
  <2>1. orders' = os /\ fills' = fills /\ Returns(<<>>, heap)
    BY <1>2 DEF Fill
  <2>2. Calls(os, heap, <<>>)
    BY DEF Calls
  <2> QED BY <2>1, <2>2, Returning
<1>3. CASE ~DividesByZero(acct, os[id])
  <2>1. /\ orders' = [os EXCEPT ![id] = Done(os[id])]
        /\ fills' = Append(fills, [id |-> id, price |-> price, qty |-> os[id].qty])
        /\ Returns(Append(below, Listener), heap)
    BY <1>3 DEF Fill, Done
  <2>2. orders' \in Seq(OrderRec) /\ DOMAIN orders' = DOMAIN os
    BY <1>1, <2>1, DoneIs
  <2>3. Lists(os, heap') /\ Calls(os, heap', stack')
    BY <2>1, Calling, Returning
  <2>4. Told(os, fills')
    <3>1. [id |-> id, price |-> price, qty |-> os[id].qty] \in FillRec
      BY <1>1 DEF FillRec, OrderRec
    <3>2. /\ fills' \in Seq(FillRec) /\ DOMAIN fills' = 1..(Len(fills) + 1)
          /\ fills'[Len(fills) + 1].id = id /\ Len(fills) \in Nat
          /\ \A k \in 1..Len(fills) : fills'[k] = fills[k] /\ fills[k].id \in DOMAIN os
      BY <2>1, <3>1 DEF Told
    <3> QED BY <3>2, SMTT(30) DEF Told
  <2> QED BY <2>2, <2>3, <2>4, MoreOrders
<1> QED BY <1>2, <1>3

\* _fill at a price within the limit keeps the fills right.
LEMMA FillingTrades ==
  ASSUME NEW os \in Seq(OrderRec), NEW id \in DOMAIN os, NEW price \in Nat, NEW below,
         Fill(os, id, price, below), Told(os, fills), Trades(os, fills),
         os[id].limit # Market =>
           IF os[id].side = "BUY" THEN price <= os[id].limit ELSE price >= os[id].limit
  PROVE  Trades(orders', fills')
<1>1. os[id] \in OrderRec
  OBVIOUS
<1>2. CASE DividesByZero(acct, os[id])
  BY <1>2 DEF Fill
<1>3. CASE ~DividesByZero(acct, os[id])
  <2> DEFINE new == [id |-> id, price |-> price, qty |-> os[id].qty]
  <2>1. /\ orders' = [os EXCEPT ![id] = Done(os[id])]
        /\ fills' = Append(fills, new)
    BY <1>3 DEF Fill, Done
  <2>2. /\ \A n \in DOMAIN os : /\ orders'[n].limit = os[n].limit /\ orders'[n].side = os[n].side
                                /\ n # id => orders'[n] = os[n]
        /\ orders'[id].qty = 0
    BY <1>1, <2>1, DoneIs
  <2>3. /\ DOMAIN fills' = 1..(Len(fills) + 1) /\ Len(fills) \in Nat
        /\ DOMAIN fills = 1..Len(fills)
        /\ \A k \in 1..Len(fills) : fills'[k] = fills[k]
        /\ fills'[Len(fills) + 1] = new
        /\ \A k \in 1..Len(fills) : fills[k] \in FillRec /\ fills[k].id \in DOMAIN os
    BY <2>1 DEF Told
  <2>4. \A k \in DOMAIN fills' : fills'[k].qty > 0 => orders'[fills'[k].id].qty = 0
    BY <2>2, <2>3 DEF Trades
  <2>5. ASSUME NEW j \in DOMAIN fills', NEW k \in DOMAIN fills',
               fills'[j].qty > 0, fills'[k].qty > 0, fills'[j].id = fills'[k].id, j # k
        PROVE  FALSE
    <3>1. \A n \in 1..Len(fills) : fills[n].qty > 0 /\ new.qty > 0 => fills[n].id # id
      <4>1. \A n \in 1..Len(fills) : fills[n].qty > 0 => os[fills[n].id].qty = 0
        BY <2>3 DEF Trades
      <4>2. new.qty > 0 => os[id].qty # 0
        BY <1>1 DEF OrderRec
      <4> HIDE DEF new
      <4> QED BY <4>1, <4>2, Zenon
    <3> QED BY <2>3, <2>5, <3>1 DEF Trades
  <2>6. ASSUME NEW k \in DOMAIN fills'
        PROVE  LET o == orders'[fills'[k].id] IN
               o.limit # Market =>
                 IF o.side = "BUY" THEN fills'[k].price <= o.limit ELSE fills'[k].price >= o.limit
    BY <2>2, <2>3, SMTT(30) DEF Trades
  <2> QED BY <2>4, <2>5, <2>6 DEF Trades
<1> QED BY <1>2, <1>3

\* The trades of orders stay right when others are registered.
LEMMA MoreTrades ==
  ASSUME NEW os, NEW more, NEW fs, Told(os, fs), Trades(os, fs),
         \A n \in DOMAIN os : /\ more[n].qty = os[n].qty /\ more[n].limit = os[n].limit
                              /\ more[n].side = os[n].side
  PROVE  Trades(more, fs)
BY DEF Told, Trades

\* An order is registered under the next id.
LEMMA Registering ==
  ASSUME NEW sym \in Symbols, NEW side \in Sides, NEW qty \in Nat, NEW limit \in Nat,
         NEW status \in Status, NEW more, more = Registered(sym, side, qty, limit, status),
         orders \in Seq(OrderRec)
  PROVE  /\ more \in Seq(OrderRec) /\ DOMAIN more = 1..NewId /\ DOMAIN orders = 1..(NewId - 1)
         /\ NewId \in DOMAIN more /\ NewId \in Nat \ {0} /\ NewId \notin DOMAIN orders
         /\ DOMAIN orders \subseteq DOMAIN more
         /\ \A n \in DOMAIN orders : more[n] = orders[n]
         /\ more[NewId] = [sym |-> sym, side |-> side, qty |-> qty, limit |-> limit, status |-> status]
BY DEF Registered, NewId, OrderRec

\* on_quote gives its own list to every loop: the list object it builds takes
\* a place no call iterates.
LEMMA Rebinding ==
  ASSUME NEW os, NEW s, NEW kept, Lists(os, heap), Calls(os, heap, s), Ids(os, kept)
  PROVE  Lists(os, Rebound(s, kept)) /\ Calls(os, Rebound(s, kept), s)
<1> DEFINE L == Len(heap.lists)
           Free == {h \in 1..(L + 1) : h \notin Iterated(s)}
           n == CHOOSE h \in 1..(L + 1) : h \notin Iterated(s) /\ 1..(h - 1) \subseteq Iterated(s)
           head == [h \in 1..n |-> IF h = n THEN kept ELSE heap.lists[h]]
           tail == SubSeq(heap.lists, n + 1, L)
<1>1. L \in Nat /\ heap.lists \in Seq(Seq(Nat)) /\ DOMAIN heap.lists = 1..L
  BY DEF Lists
<1>2. Iterated(s) \subseteq 1..L
  BY <1>1 DEF Iterated, Calls
<1>3. n \in 1..(L + 1) /\ n \notin Iterated(s)
  <2>1. L + 1 \in Free
    BY <1>1, <1>2
  <2>2. Free \subseteq Nat
    BY <1>1
  <2>3. PICK h \in Free : \A g \in Free : h <= g
    <3> HIDE DEF Free
    <3> QED BY <2>1, <2>2, LeastElement
  <2>4. 1..(h - 1) \subseteq Iterated(s)
    BY <1>1, <2>3
  <2> QED BY <2>3, <2>4
<1> HIDE DEF n
<1>4. kept \in Seq(Nat)
  BY DEF Ids
<1>5. head \in Seq(Seq(Nat)) /\ Len(head) = n
  BY <1>1, <1>3, <1>4
<1>6. /\ tail \in Seq(Seq(Nat)) /\ Len(tail) = IF n <= L THEN L - n ELSE 0
      /\ \A j \in 1..(L - n) : tail[j] = heap.lists[n + j]
  BY <1>1, <1>3
<1>7. Rebound(s, kept) = [lists |-> head \o tail, resting |-> n]
  BY DEF Rebound, n
<1>8. \A h \in DOMAIN (head \o tail) : Ids(os, (head \o tail)[h])
  <2>1. \A h \in 1..L : Ids(os, heap.lists[h])
    BY <1>1 DEF Lists
  <2>2. ASSUME NEW h \in 1..Len(head \o tail) PROVE Ids(os, (head \o tail)[h])
    <3>1. CASE h <= n
      <4>1. (head \o tail)[h] = head[h]
        BY <1>3, <1>5, <1>6, <3>1
      <4> QED BY <1>1, <1>3, <2>1, <3>1, <4>1
    <3>2. CASE h > n
      <4> HIDE DEF head, tail
      <4>1. Len(head \o tail) = n + Len(tail) /\ Len(tail) \in Nat
        BY <1>5, <1>6, ConcatProperties, LenProperties, Zenon
      <4>2. h - n \in 1..Len(tail) /\ n <= L
        BY <1>1, <1>3, <1>6, <3>2, <4>1
      <4>3. (head \o tail)[h] = tail[h - n]
        BY <1>3, <1>5, <1>6, <3>2, <4>1, SMTT(30)
      <4>4. h - n \in 1..(L - n) /\ n + (h - n) \in 1..L
        BY <1>1, <1>3, <1>6, <4>2
      <4> QED BY <1>6, <2>1, <4>3, <4>4
    <3> QED BY <1>3, <3>1, <3>2
  <2>3. head \o tail \in Seq(Seq(Nat))
    BY <1>5, <1>6
  <2> HIDE DEF head, tail
  <2>4. DOMAIN (head \o tail) = 1..Len(head \o tail)
    BY <2>3
  <2> QED BY <2>2, <2>4
<1>9. /\ head \o tail \in Seq(Seq(Nat))
      /\ 1..L \subseteq DOMAIN (head \o tail) /\ n \in DOMAIN (head \o tail)
  BY <1>1, <1>3, <1>5, <1>6
<1> HIDE DEF head, tail
<1>10. Lists(os, Rebound(s, kept))
  BY <1>3, <1>7, <1>8, <1>9 DEF Lists
<1>11. Calls(os, Rebound(s, kept), s)
  BY <1>1, <1>7, <1>9 DEF Calls
<1> QED BY <1>10, <1>11

-----------------------------------------------------------------------------
(* The steps.                                                              *)

\* What the innermost loop holds.
LEMMA InnermostLoop ==
  ASSUME Typed, Running("quote")
  PROVE  LET loop == Last(stack) IN
         /\ loop \in LoopRec /\ loop.list \in DOMAIN heap.lists /\ Ids(orders, loop.kept)
         /\ Ids(orders, heap.lists[loop.list])
         /\ Front(stack) \in Seq(Frame) /\ Calls(orders, heap, Front(stack))
<1>1. stack \in Seq(Frame) /\ stack # <<>> /\ Last(stack).at = "quote"
  BY DEF Typed, Calls, Running, Idle
<1>2. /\ Len(stack) \in Nat \ {0} /\ Last(stack) = stack[Len(stack)] /\ Last(stack) \in Frame
      /\ Front(stack) \in Seq(Frame) /\ Len(Front(stack)) = Len(stack) - 1
      /\ \A k \in 1..(Len(stack) - 1) : Front(stack)[k] = stack[k]
  BY <1>1, LastAndFront
<1>3. Last(stack) \in LoopRec
  BY <1>1, <1>2 DEF Frame, Listener
<1>4. DOMAIN stack = 1..Len(stack)
  BY <1>1
<1>5. Last(stack).list \in DOMAIN heap.lists /\ Ids(orders, Last(stack).kept)
  BY <1>1, <1>2, <1>4 DEF Typed, Calls
<1>6. Ids(orders, heap.lists[Last(stack).list])
  BY <1>5 DEF Typed, Lists
<1>7. Calls(orders, heap, Front(stack))
  <2>1. DOMAIN Front(stack) = 1..(Len(stack) - 1)
    BY <1>2
  <2>2. \A k \in DOMAIN Front(stack) : k \in DOMAIN stack /\ Front(stack)[k] = stack[k]
    BY <1>2, <1>4, <2>1
  <2> QED BY <1>2, <2>2 DEF Typed, Calls
<1> QED BY <1>2, <1>3, <1>5, <1>6, <1>7

\* ... and still does when it comes to a list element.
LEMMA LoopMoves ==
  ASSUME Typed, Running("quote"), NEW next \in LoopRec,
         next.list = Last(stack).list, Ids(orders, next.kept)
  PROVE  Calls(orders, heap, Append(Front(stack), next))
<1>1. Front(stack) \in Seq(Frame) /\ Calls(orders, heap, Front(stack))
  BY InnermostLoop
<1>2. next \in Frame /\ next.list \in DOMAIN heap.lists
  BY InnermostLoop DEF Frame
<1> DEFINE s == Append(Front(stack), next)
           n == Len(Front(stack))
<1>3. /\ s \in Seq(Frame) /\ DOMAIN s = 1..(n + 1) /\ n \in Nat /\ DOMAIN Front(stack) = 1..n
      /\ s[n + 1] = next /\ \A k \in 1..n : s[k] = Front(stack)[k]
  BY <1>1, <1>2
<1> QED BY <1>1, <1>2, <1>3 DEF Calls

\* An order is kept.
LEMMA OneMoreKept ==
  ASSUME NEW loop \in LoopRec, Ids(orders, loop.kept), NEW id \in DOMAIN orders, id \in Nat
  PROVE  /\ Kept(loop, id) \in LoopRec /\ Kept(loop, id).list = loop.list
         /\ Kept(loop, id).kept = Append(loop.kept, id) /\ Kept(loop, id).i = loop.i + 1
         /\ Kept(loop, id).sym = loop.sym /\ Kept(loop, id).at = "quote"
         /\ Kept(loop, id).bid = loop.bid /\ Kept(loop, id).ask = loop.ask
         /\ Ids(orders, Kept(loop, id).kept)
<1>1. loop.kept \in Seq(Nat) /\ loop.i \in Nat \ {0}
  BY DEF LoopRec
<1>2. /\ Append(loop.kept, id) \in Seq(Nat)
      /\ DOMAIN Append(loop.kept, id) = 1..(Len(loop.kept) + 1)
      /\ DOMAIN loop.kept = 1..Len(loop.kept) /\ Len(loop.kept) \in Nat
      /\ Append(loop.kept, id)[Len(loop.kept) + 1] = id
      /\ \A j \in 1..Len(loop.kept) : Append(loop.kept, id)[j] = loop.kept[j]
  BY <1>1
<1>3. PICK n \in Nat \ {0}, q \in Seq(Nat) : n = loop.i + 1 /\ q = Append(loop.kept, id)
  <2>1. loop.i + 1 \in Nat \ {0}
    BY <1>1
  <2> QED BY <1>2, <2>1, Zenon
<1>4. Kept(loop, id) = [loop EXCEPT !.i = n, !.kept = q]
  BY <1>3 DEF Kept
<1>5. /\ Kept(loop, id) \in LoopRec /\ Kept(loop, id).list = loop.list
      /\ Kept(loop, id).kept = Append(loop.kept, id) /\ Kept(loop, id).i = loop.i + 1
      /\ Kept(loop, id).sym = loop.sym /\ Kept(loop, id).at = "quote"
      /\ Kept(loop, id).bid = loop.bid /\ Kept(loop, id).ask = loop.ask
  BY <1>3, <1>4 DEF LoopRec
<1>6. Ids(orders, Append(loop.kept, id))
  BY <1>2, SMTT(30) DEF Ids
<1> QED BY <1>5, <1>6

LEMMA QuoteStarts ==
  ASSUME Inv, NEW sym \in Symbols, NEW bid \in Prices, NEW ask \in Prices, OnQuote(sym, bid, ask)
  PROVE  Inv'
<1> USE DEF Inv
<1>1. bid \in Nat /\ ask \in Nat
  BY PaperGatewayAssumption
<1>2. quotes' \in [Symbols -> Quotes]
  BY <1>1 DEF OnQuote, Typed, Quotes
<1>3. Loop(sym, bid, ask) \in LoopRec /\ Loop(sym, bid, ask).list = heap.resting
      /\ Loop(sym, bid, ask).kept = <<>>
  BY <1>1 DEF Loop, LoopRec, Typed, Lists
<1>4. Calls(orders, heap, stack')
  <2> DEFINE n == Len(stack)
  <2>1. stack' = Append(stack, Loop(sym, bid, ask)) /\ stack \in Seq(Frame)
    BY DEF OnQuote, Typed, Calls
  <2>2. /\ stack' \in Seq(Frame) /\ DOMAIN stack' = 1..(n + 1) /\ n \in Nat /\ DOMAIN stack = 1..n
        /\ stack'[n + 1] = Loop(sym, bid, ask) /\ \A k \in 1..n : stack'[k] = stack[k]
    BY <1>3, <2>1 DEF Frame
  <2>3. heap.resting \in DOMAIN heap.lists /\ Ids(orders, <<>>)
    BY DEF Typed, Lists, Ids
  <2> QED BY <1>3, <2>2, <2>3 DEF Typed, Calls
<1> QED BY <1>2, <1>4 DEF OnQuote, Typed

LEMMA QuoteVisits ==
  ASSUME Inv, VisitResting
  PROVE  Inv'
<1> DEFINE loop == Last(stack)
           list == heap.lists[loop.list]
           id == list[loop.i]
           o == orders[id]
           below == Append(Front(stack), Passed(loop))
<1>1. /\ loop \in LoopRec /\ loop.list \in DOMAIN heap.lists /\ Ids(orders, loop.kept)
      /\ Ids(orders, list)
  BY InnermostLoop DEF Inv, VisitResting
<1>2. id \in DOMAIN orders /\ o \in OrderRec /\ orders \in Seq(OrderRec) /\ id \in Nat
  <2>1. loop.i \in DOMAIN list
    BY <1>1 DEF VisitResting, LoopRec, Ids
  <2>2. id \in DOMAIN orders /\ id \in Nat
    BY <1>1, <2>1 DEF Ids
  <2> HIDE DEF id
  <2> QED BY <2>2 DEF Inv, Typed
<1>3. CASE o.sym = loop.sym /\ Crosses(loop, o.side, o.limit)
  <2>1. Fill(orders, id, BestOf(loop, o), below) /\ UNCHANGED <<quotes, rejected>>
    BY <1>3 DEF VisitResting
  <2>2. /\ BestOf(loop, o) \in Nat
        /\ IF o.side = "BUY" THEN BestOf(loop, o) <= o.limit ELSE BestOf(loop, o) >= o.limit
    <3> HIDE DEF loop, o
    <3> QED BY <1>1, <1>2, <1>3, SMTT(30) DEF BestOf, LoopRec, OrderRec, Sides
  <2>3. Passed(loop) \in LoopRec /\ Passed(loop).list = loop.list /\ Passed(loop).kept = loop.kept
    <3> HIDE DEF loop
    <3> QED BY <1>1 DEF Passed, LoopRec
  <2>4. Calls(orders, heap, below)
    BY <1>1, <2>3, LoopMoves DEF Inv, VisitResting
  <2> HIDE DEF loop, o, id, below
  <2>5. /\ orders' \in Seq(OrderRec) /\ Lists(orders', heap') /\ Calls(orders', heap', stack')
        /\ Told(orders', fills')
    BY <1>2, <2>1, <2>2, <2>4, Filling DEF Inv, Typed
  <2>6. Trades(orders', fills')
    BY <1>2, <2>1, <2>2, FillingTrades DEF Inv, Typed, o
  <2> QED BY <2>1, <2>5, <2>6 DEF Inv, Typed
<1>4. CASE ~(o.sym = loop.sym /\ Crosses(loop, o.side, o.limit))
  <2>1. stack' = Append(Front(stack), Kept(loop, id)) /\ UNCHANGED <<orders, heap, acct, fills, quotes, rejected>>
    BY <1>4 DEF VisitResting
  <2>2. Kept(loop, id) \in LoopRec /\ Kept(loop, id).list = loop.list
        /\ Ids(orders, Kept(loop, id).kept)
    BY <1>1, <1>2, OneMoreKept
  <2>3. Calls(orders, heap, stack')
    BY <2>1, <2>2, LoopMoves DEF Inv, VisitResting
  <2> QED BY <2>1, <2>3 DEF Inv, Typed
<1> QED BY <1>3, <1>4

LEMMA QuoteFinishes ==
  ASSUME Inv, FinishQuote
  PROVE  Inv'
<1> DEFINE s == Front(stack)
           kept == Last(stack).kept
<1>1. Ids(orders, kept) /\ Calls(orders, heap, s) /\ Lists(orders, heap)
  BY InnermostLoop DEF Inv, FinishQuote, Typed
<1>2. Returns(s, Rebound(s, kept)) /\ UNCHANGED <<orders, quotes, acct, rejected, fills>>
  BY DEF FinishQuote
<1> HIDE DEF s, kept
<1>3. Lists(orders, Rebound(s, kept)) /\ Calls(orders, Rebound(s, kept), s)
  BY <1>1, Rebinding
<1>4. Lists(orders, heap') /\ Calls(orders, heap', stack')
  BY <1>2, <1>3, Returning
<1> QED BY <1>2, <1>4 DEF Inv, Typed

\* The three ends of a submission.
LEMMA Refuses ==
  ASSUME Inv, NEW sym \in Symbols, NEW side \in Sides, NEW qty \in Nat, NEW limit \in Nat,
         Reject(sym, side, qty, limit)
  PROVE  Inv'
<1>1. /\ orders' \in Seq(OrderRec) /\ DOMAIN orders \subseteq DOMAIN orders'
      /\ \A n \in DOMAIN orders : orders'[n] = orders[n]
  <2> DEFINE os == Registered(sym, side, qty, limit, "REJECTED")
  <2>1. orders' = os
    BY DEF Reject
  <2>2. "REJECTED" \in Status
    BY DEF Status
  <2>3. orders \in Seq(OrderRec)
    BY DEF Inv, Typed
  <2>4. /\ os \in Seq(OrderRec) /\ NewId \in DOMAIN os /\ NewId \in Nat \ {0}
        /\ DOMAIN orders \subseteq DOMAIN os /\ \A n \in DOMAIN orders : os[n] = orders[n]
        /\ os[NewId] = [sym |-> sym, side |-> side, qty |-> qty, limit |-> limit, status |-> "REJECTED"]
    BY <2>2, <2>3, Registering
  <2> QED BY <2>1, <2>4
<1>2. UNCHANGED <<quotes, heap, stack, fills>>
  BY DEF Reject
<1>3. Lists(orders', heap) /\ Calls(orders', heap, stack) /\ Told(orders', fills)
  BY <1>1, MoreOrders DEF Inv, Typed
<1>4. Trades(orders', fills)
  BY <1>1, MoreTrades DEF Inv, Typed
<1> QED BY <1>1, <1>2, <1>3, <1>4 DEF Inv, Typed

LEMMA Rests ==
  ASSUME Inv, NEW sym \in Symbols, NEW side \in Sides, NEW qty \in Nat, NEW limit \in Nat,
         Rest(sym, side, qty, limit)
  PROVE  Inv'
<1>1. /\ orders' \in Seq(OrderRec) /\ DOMAIN orders \subseteq DOMAIN orders'
      /\ \A n \in DOMAIN orders : orders'[n] = orders[n]
      /\ NewId \in DOMAIN orders' /\ NewId \in Nat
  <2> DEFINE os == Registered(sym, side, qty, limit, "NEW")
  <2>1. orders' = os
    BY DEF Rest
  <2>2. "NEW" \in Status
    BY DEF Status
  <2>3. orders \in Seq(OrderRec)
    BY DEF Inv, Typed
  <2>4. /\ os \in Seq(OrderRec) /\ NewId \in DOMAIN os /\ NewId \in Nat \ {0}
        /\ DOMAIN orders \subseteq DOMAIN os /\ \A n \in DOMAIN orders : os[n] = orders[n]
        /\ os[NewId] = [sym |-> sym, side |-> side, qty |-> qty, limit |-> limit, status |-> "NEW"]
    BY <2>2, <2>3, Registering
  <2> QED BY <2>1, <2>4
<1>2. UNCHANGED <<quotes, stack, fills>>
  BY DEF Rest
<1>3. Lists(orders', heap) /\ Calls(orders', heap, stack) /\ Told(orders', fills)
  BY <1>1, MoreOrders DEF Inv, Typed
<1>4. Trades(orders', fills)
  BY <1>1, MoreTrades DEF Inv, Typed
<1> DEFINE r == heap.resting
           longer == Append(heap.lists[r], NewId)
<1>5. r \in DOMAIN heap.lists /\ heap.lists[r] \in Seq(Nat) /\ heap.lists \in Seq(Seq(Nat))
  BY <1>3 DEF Lists, Ids
<1>6. Ids(orders', longer)
  <2>1. /\ longer \in Seq(Nat) /\ DOMAIN longer = 1..(Len(heap.lists[r]) + 1)
        /\ DOMAIN heap.lists[r] = 1..Len(heap.lists[r]) /\ Len(heap.lists[r]) \in Nat
        /\ longer[Len(heap.lists[r]) + 1] = NewId
        /\ \A j \in 1..Len(heap.lists[r]) : longer[j] = heap.lists[r][j]
    BY <1>1, <1>5, SMTT(30)
  <2>2. \A j \in DOMAIN heap.lists[r] : heap.lists[r][j] \in DOMAIN orders'
    BY <1>3, <1>5 DEF Lists, Ids
  <2>3. ASSUME NEW j \in DOMAIN longer PROVE longer[j] \in DOMAIN orders'
    <3>1. CASE j = Len(heap.lists[r]) + 1
      BY <1>1, <2>1, <3>1
    <3>2. CASE j \in 1..Len(heap.lists[r])
      BY <2>1, <2>2, <3>2
    <3> QED BY <2>1, <3>1, <3>2
  <2> QED BY <2>1, <2>3 DEF Ids
<1>7. /\ heap' = [lists |-> [heap.lists EXCEPT ![r] = longer], resting |-> r]
  BY <1>3 DEF Rest, Lists
<1>8. Lists(orders', heap') /\ DOMAIN heap'.lists = DOMAIN heap.lists
  <2>1. heap'.lists = [heap.lists EXCEPT ![r] = longer] /\ heap'.resting = r
    BY <1>7
  <2>2. longer \in Seq(Nat)
    BY <1>6 DEF Ids
  <2> HIDE DEF longer, r
  <2>3. heap'.lists \in Seq(Seq(Nat)) /\ DOMAIN heap'.lists = DOMAIN heap.lists
    BY <1>5, <2>1, <2>2
  <2>4. \A h \in DOMAIN heap.lists : Ids(orders', heap'.lists[h])
    BY <1>3, <1>5, <1>6, <2>1 DEF Lists
  <2> QED BY <1>3, <1>5, <1>7, <2>1, <2>3, <2>4 DEF Lists, r
<1>9. Calls(orders', heap', stack)
  BY <1>3, <1>8 DEF Calls
<1> QED BY <1>1, <1>2, <1>3, <1>4, <1>8, <1>9 DEF Inv, Typed

LEMMA Fills ==
  ASSUME Inv, NEW sym \in Symbols, NEW side \in Sides, NEW qty \in Nat, NEW limit \in Nat,
         FillNew(sym, side, qty, limit),
         limit # Market => Crosses(quotes[sym], side, limit)
  PROVE  Inv'
<1> DEFINE os == Registered(sym, side, qty, limit, "NEW")
           price == Touch(quotes[sym], side)
<1>1. /\ os \in Seq(OrderRec) /\ DOMAIN orders \subseteq DOMAIN os /\ NewId \in DOMAIN os
      /\ \A n \in DOMAIN orders : os[n] = orders[n]
      /\ os[NewId] = [sym |-> sym, side |-> side, qty |-> qty, limit |-> limit, status |-> "NEW"]
  <2>1. "NEW" \in Status
    BY DEF Status
  <2> QED BY <2>1, Registering DEF Inv, Typed
<1>2. price \in Nat
  BY DEF Touch, Inv, Typed, Quotes
<1>3. Fill(os, NewId, price, stack) /\ UNCHANGED <<quotes, rejected>>
  BY DEF FillNew
<1>4. limit # Market => IF side = "BUY" THEN price <= limit ELSE price >= limit
  BY DEF Touch, Crosses
<1> HIDE DEF os, price
<1>5. Lists(os, heap) /\ Calls(os, heap, stack) /\ Told(os, fills)
  BY <1>1, MoreOrders DEF Inv, Typed
<1>6. Trades(os, fills)
  BY <1>1, MoreTrades DEF Inv, Typed
<1>7. /\ orders' \in Seq(OrderRec) /\ Lists(orders', heap') /\ Calls(orders', heap', stack')
      /\ Told(orders', fills')
  BY <1>1, <1>2, <1>3, <1>5, Filling
<1>8. os[NewId].limit = limit /\ os[NewId].side = side
  BY <1>1
<1>9. Trades(orders', fills')
  BY <1>1, <1>2, <1>3, <1>4, <1>5, <1>6, <1>8, FillingTrades
<1> QED BY <1>3, <1>7, <1>9 DEF Inv, Typed

LEMMA Cancels ==
  ASSUME Inv, NEW id \in DOMAIN orders, Cancel(id)
  PROVE  Inv'
<1>1. /\ orders' = [orders EXCEPT ![id].status = "CANCELED"] /\ orders \in Seq(OrderRec)
      /\ UNCHANGED <<quotes, stack, fills>>
  BY DEF Cancel, Inv, Typed
<1>2. /\ orders' \in Seq(OrderRec) /\ DOMAIN orders' = DOMAIN orders
      /\ \A n \in DOMAIN orders : /\ orders'[n].qty = orders[n].qty
                                  /\ orders'[n].limit = orders[n].limit
                                  /\ orders'[n].side = orders[n].side
  <2>1. orders[id] \in OrderRec
    BY <1>1
  <2>2. [orders[id] EXCEPT !.status = "CANCELED"] \in OrderRec
    BY <2>1 DEF OrderRec, Status
  <2> QED BY <1>1, <2>1, <2>2 DEF OrderRec
<1>3. Lists(orders', heap) /\ Calls(orders', heap, stack) /\ Told(orders', fills)
  BY <1>2, MoreOrders DEF Inv, Typed
<1>4. Trades(orders', fills)
  BY <1>2, MoreTrades DEF Inv, Typed
<1> DEFINE r == heap.resting
           shorter == RemoveFirst(heap.lists[r], id)
<1>5. r \in DOMAIN heap.lists /\ Ids(orders', heap.lists[r]) /\ heap.lists \in Seq(Seq(Nat))
  BY <1>3 DEF Lists
<1>6. Ids(orders', shorter)
  <2> DEFINE l == heap.lists[r]
  <2>1. l \in Seq(Nat) /\ \A j \in DOMAIN l : l[j] \in DOMAIN orders'
    BY <1>5 DEF Ids
  <2> HIDE DEF l
  <2>2. CASE ~ \E j \in 1..Len(l) : l[j] = id
    BY <1>5, <2>2 DEF RemoveFirst, l
  <2>3. CASE \E j \in 1..Len(l) : l[j] = id
    <3>1. PICK k \in 1..Len(l) : RemoveFirst(l, id) = RemoveAt(l, k)
      BY <2>1, <2>3, RemoveFirstProps
    <3>2. /\ RemoveAt(l, k) \in Seq(Nat) /\ Len(RemoveAt(l, k)) = Len(l) - 1
          /\ \A j \in 1..(Len(l) - 1) : RemoveAt(l, k)[j] = IF j < k THEN l[j] ELSE l[j + 1]
      BY <2>1, RemoveAtProps
    <3>3. DOMAIN RemoveAt(l, k) = 1..(Len(l) - 1) /\ DOMAIN l = 1..Len(l) /\ Len(l) \in Nat
      BY <2>1, <3>2
    <3>4. \A j \in DOMAIN RemoveAt(l, k) : RemoveAt(l, k)[j] \in DOMAIN orders'
      <4>1. ASSUME NEW j \in 1..(Len(l) - 1) PROVE j \in DOMAIN l /\ j + 1 \in DOMAIN l
        BY <3>3
      <4> QED BY <2>1, <3>2, <3>3, <4>1
    <3> QED BY <3>1, <3>2, <3>4 DEF Ids, l
  <2> QED BY <2>2, <2>3
<1>7. heap' = [lists |-> [heap.lists EXCEPT ![r] = shorter], resting |-> r]
  BY <1>3 DEF Cancel, Lists
<1>8. Lists(orders', heap') /\ DOMAIN heap'.lists = DOMAIN heap.lists
  <2>1. heap'.lists = [heap.lists EXCEPT ![r] = shorter] /\ heap'.resting = r
    BY <1>7
  <2>2. shorter \in Seq(Nat)
    BY <1>6 DEF Ids
  <2> HIDE DEF shorter, r
  <2>3. heap'.lists \in Seq(Seq(Nat)) /\ DOMAIN heap'.lists = DOMAIN heap.lists
    BY <1>5, <2>1, <2>2
  <2>4. \A h \in DOMAIN heap.lists : Ids(orders', heap'.lists[h])
    BY <1>3, <1>5, <1>6, <2>1 DEF Lists
  <2> QED BY <1>3, <1>5, <1>7, <2>1, <2>3, <2>4 DEF Lists, r
<1>9. Calls(orders', heap', stack)
  BY <1>3, <1>8 DEF Calls
<1> QED BY <1>1, <1>2, <1>3, <1>4, <1>8, <1>9 DEF Inv, Typed

LEMMA ListenerEnds ==
  ASSUME Inv, ListenerReturns \/ ListenerRaises
  PROVE  Inv'
<1>1. UNCHANGED <<orders, quotes, acct, rejected, fills>>
  BY DEF ListenerReturns, ListenerRaises
<1>2. Lists(orders, heap) /\ Calls(orders, heap, <<>>)
  BY DEF Inv, Typed, Calls
<1>3. ASSUME ListenerReturns PROVE Calls(orders, heap, Front(stack))
  <2>1. stack \in Seq(Frame) /\ stack # <<>>
    BY <1>3 DEF ListenerReturns, Running, Idle, Inv, Typed, Calls
  <2>2. /\ Front(stack) \in Seq(Frame) /\ Len(Front(stack)) = Len(stack) - 1
        /\ \A k \in 1..(Len(stack) - 1) : Front(stack)[k] = stack[k]
    BY <2>1, LastAndFront
  <2>3. DOMAIN Front(stack) \subseteq DOMAIN stack
        /\ \A k \in DOMAIN Front(stack) : Front(stack)[k] = stack[k]
    BY <2>1, <2>2
  <2> QED BY <2>2, <2>3 DEF Inv, Typed, Calls
<1>4. Lists(orders, heap') /\ Calls(orders, heap', stack')
  BY <1>2, <1>3, Returning DEF ListenerReturns, ListenerRaises
<1> QED BY <1>1, <1>4 DEF Inv, Typed

\* A submission is refused, rests or fills.
LEMMA SubmitsALimit ==
  ASSUME Inv, NEW sym \in Symbols, NEW side \in Sides, NEW qty \in Quantities,
         NEW price \in Prices, NEW ok \in BOOLEAN, SubmitLimit(sym, side, qty, price, ok)
  PROVE  Inv'
<1>1. qty \in Nat /\ price \in Nat
  BY PaperGatewayAssumption
<1>2. \/ Reject(sym, side, qty, price) \/ Rest(sym, side, qty, price)
      \/ FillNew(sym, side, qty, price) /\ Crosses(quotes[sym], side, price)
  BY DEF SubmitLimit
<1> QED BY <1>1, <1>2, Refuses, Rests, Fills

LEMMA SubmitsToMarket ==
  ASSUME Inv, NEW sym \in Symbols, NEW side \in Sides, NEW qty \in Quantities, NEW ok \in BOOLEAN,
         SubmitMarket(sym, side, qty, ok)
  PROVE  Inv'
<1>1. qty \in Nat /\ Market \in Nat
  BY PaperGatewayAssumption DEF Market
<1>2. Reject(sym, side, qty, Market) \/ FillNew(sym, side, qty, Market)
  BY DEF SubmitMarket
<1> QED BY <1>1, <1>2, Refuses, Fills

\* The invariant of any gateway, whatever its listeners call.
THEOREM InvHolds == Spec => []Inv
<1>1. Init => Inv
  <2> SUFFICES ASSUME Init PROVE Inv
    OBVIOUS
  <2>1. orders = <<>> /\ fills = <<>> /\ stack = <<>>
    BY DEF Init
  <2>2. quotes \in [Symbols -> Quotes]
    BY DEF Init, NoQuote, Quotes
  <2>3. Lists(orders, heap)
    <3>1. heap.lists = << <<>> >> /\ heap.resting = 1 /\ heap = [lists |-> << <<>> >>, resting |-> 1]
      BY DEF Init
    <3>2. << <<>> >> \in Seq(Seq(Nat)) /\ DOMAIN << <<>> >> = {1} /\ << <<>> >>[1] = <<>>
      OBVIOUS
    <3>3. Ids(orders, <<>>)
      BY DEF Ids
    <3> QED BY <3>1, <3>2, <3>3 DEF Lists
  <2> QED BY <2>1, <2>2, <2>3 DEF Inv, Typed, Calls, Told, Trades
<1>2. Inv /\ [Next]_vars => Inv'
  <2> SUFFICES ASSUME Inv, [Next]_vars PROVE Inv'
    OBVIOUS
  <2>1. CASE \E s \in Symbols, bid, ask \in Prices : OnQuote(s, bid, ask)
    BY <2>1, QuoteStarts
  <2>2. CASE VisitResting
    BY <2>2, QuoteVisits
  <2>3. CASE FinishQuote
    BY <2>3, QuoteFinishes
  <2>4. CASE \E s \in Symbols, side \in Sides, qty \in Quantities, p \in Prices, ok \in BOOLEAN :
               SubmitLimit(s, side, qty, p, ok)
    BY <2>4, SubmitsALimit
  <2>5. CASE \E s \in Symbols, side \in Sides, qty \in Quantities, ok \in BOOLEAN :
               SubmitMarket(s, side, qty, ok)
    BY <2>5, SubmitsToMarket
  <2>6. CASE \E id \in DOMAIN orders : Cancel(id)
    BY <2>6, Cancels
  <2>7. CASE ListenerReturns \/ ListenerRaises
    BY <2>7, ListenerEnds
  <2>8. CASE UNCHANGED vars
    BY <2>8 DEF vars, Inv, Typed, Lists, Calls, Told, Trades, Ids
  <2> QED BY <2>1, <2>2, <2>3, <2>4, <2>5, <2>6, <2>7, <2>8 DEF Next
<1> QED BY <1>1, <1>2, PTL DEF Spec

\* Whatever a listener does - submit, cancel, quote back or raise, in the middle
\* of on_quote - no order trades its shares twice.
THEOREM SharesTradeOnceHolds == Spec => []SharesTradeOnce
<1>1. Inv => SharesTradeOnce
  <2> SUFFICES ASSUME Inv, NEW id \in DOMAIN orders
               PROVE  Cardinality({k \in FillsOf(id) : fills[k].qty > 0}) <= 1
    BY DEF SharesTradeOnce
  <2> DEFINE traded == {k \in FillsOf(id) : fills[k].qty > 0}
  <2>1. \A j, k \in traded : j = k
    BY DEF Inv, Trades, FillsOf
  <2>2. Cardinality(traded) <= 1
    <3> HIDE DEF traded
    <3>1. CASE traded = {}
      BY <3>1, FS_EmptySet
    <3>2. CASE traded # {}
      <4>1. PICK k : traded = {k}
        BY <2>1, <3>2
      <4> QED BY <4>1, FS_Singleton
    <3> QED BY <3>1, <3>2
  <2> QED BY <2>2
<1> QED BY <1>1, InvHolds, PTL

\* ... and no fill is worse than its order's own limit.
THEOREM LimitsAreHonouredHolds == Spec => []LimitsAreHonoured
<1>1. Inv => LimitsAreHonoured
  BY DEF Inv, Trades, LimitsAreHonoured
<1> QED BY <1>1, InvHolds, PTL

-----------------------------------------------------------------------------
(* Cash and positions are the sums of the fills.                           *)

\* What each fill cost, was charged and moved, for orders os and fills fs.
Cost(os, f) == SignedQty(os[f.id].side, f.price * f.qty)
Moved(os, f, s) == IF os[f.id].sym = s THEN SignedQty(os[f.id].side, f.qty) ELSE 0
Charge(f) == f.price * f.qty * CommissionRate
Costs(os, fs) == [k \in DOMAIN fs |-> Cost(os, fs[k])]
Charges(fs) == [k \in DOMAIN fs |-> Charge(fs[k])]
Moves(os, fs, s) == [k \in DOMAIN fs |-> Moved(os, fs[k], s)]

Account(a) ==
  /\ a = [cash |-> a.cash, realized |-> a.realized, pos |-> a.pos, avg |-> a.avg]
  /\ a.cash \in Int /\ a.pos \in [Symbols -> Int]
Books(a, os, fs) ==
  /\ Account(a)
  /\ a.cash = InitialCash - SeqSum(Costs(os, fs)) - SeqSum(Charges(fs))
  /\ \A s \in Symbols : a.pos[s] = SeqSum(Moves(os, fs, s))

\* They are integers, one for each fill.
LEMMA FillsAreCounted ==
  ASSUME NEW os \in Seq(OrderRec), NEW f \in FillRec, f.id \in DOMAIN os, NEW s
  PROVE  Cost(os, f) \in Int /\ Moved(os, f, s) \in Int /\ Charge(f) \in Int
<1>1. f.price * f.qty \in Nat /\ f.qty \in Nat /\ CommissionRate \in Nat
  BY PaperGatewayAssumption DEF FillRec
<1>2. Charge(f) \in Int
  <2>1. \A a, b \in Nat : a * b \in Int
    OBVIOUS
  <2> QED BY <1>1, <2>1 DEF Charge
<1>3. Cost(os, f) \in Int /\ Moved(os, f, s) \in Int
  <2>1. \A n \in Nat : SignedQty(os[f.id].side, n) \in Int
    BY DEF SignedQty
  <2> QED BY <1>1, <2>1 DEF Cost, Moved
<1> QED BY <1>2, <1>3

LEMMA SumsAreOfIntegers ==
  ASSUME NEW os \in Seq(OrderRec), NEW fs, Told(os, fs), NEW s
  PROVE  Costs(os, fs) \in Seq(Int) /\ Charges(fs) \in Seq(Int) /\ Moves(os, fs, s) \in Seq(Int)
<1>1. DOMAIN fs = 1..Len(fs) /\ Len(fs) \in Nat
  BY DEF Told
<1>2. \A k \in 1..Len(fs) : Cost(os, fs[k]) \in Int /\ Charge(fs[k]) \in Int
                            /\ Moved(os, fs[k], s) \in Int
  BY <1>1, FillsAreCounted DEF Told
<1> QED BY <1>1, <1>2 DEF Costs, Charges, Moves

\* They do not change when orders are registered, used up or cancelled.
LEMMA BooksOfOrders ==
  ASSUME NEW a, NEW os, NEW more, NEW fs, Told(os, fs), Books(a, os, fs),
         \A n \in DOMAIN os : more[n].side = os[n].side /\ more[n].sym = os[n].sym
  PROVE  Books(a, more, fs)
<1>1. \A k \in DOMAIN fs : fs[k].id \in DOMAIN os
  BY DEF Told
<1>2. Costs(more, fs) = Costs(os, fs)
  BY <1>1 DEF Costs, Cost
<1>3. \A s \in Symbols : Moves(more, fs, s) = Moves(os, fs, s)
  BY <1>1 DEF Moves, Moved
<1> QED BY <1>2, <1>3 DEF Books

\* One more fill adds its own part to each.
LEMMA OneMoreFill ==
  ASSUME NEW os \in Seq(OrderRec), NEW fs, Told(os, fs), NEW f \in FillRec, f.id \in DOMAIN os, NEW s
  PROVE  LET more == Append(fs, f) IN
         /\ SeqSum(Costs(os, more)) = SeqSum(Costs(os, fs)) + Cost(os, f)
         /\ SeqSum(Charges(more)) = SeqSum(Charges(fs)) + Charge(f)
         /\ SeqSum(Moves(os, more, s)) = SeqSum(Moves(os, fs, s)) + Moved(os, f, s)
<1> DEFINE more == Append(fs, f)
           n == Len(fs)
<1>1. /\ fs \in Seq(FillRec) /\ DOMAIN fs = 1..n /\ n \in Nat /\ DOMAIN more = 1..(n + 1)
      /\ more[n + 1] = f /\ \A k \in 1..n : more[k] = fs[k]
  BY DEF Told
<1> HIDE DEF more, n
<1>2. Cost(os, f) \in Int /\ Charge(f) \in Int /\ Moved(os, f, s) \in Int
  BY FillsAreCounted
<1>3. Costs(os, fs) \in Seq(Int) /\ Charges(fs) \in Seq(Int) /\ Moves(os, fs, s) \in Seq(Int)
  BY SumsAreOfIntegers
<1>4. Costs(os, more) = Append(Costs(os, fs), Cost(os, f))
  BY <1>1, <1>2, <1>3 DEF Costs
<1>5. Charges(more) = Append(Charges(fs), Charge(f))
  BY <1>1, <1>2, <1>3 DEF Charges
<1>6. Moves(os, more, s) = Append(Moves(os, fs, s), Moved(os, f, s))
  BY <1>1, <1>2, <1>3 DEF Moves
<1> QED BY <1>2, <1>3, <1>4, <1>5, <1>6, SeqSumOfAppend DEF more

\* What _apply_fill does to cash and position, whichever way it goes.
LEMMA Applying ==
  ASSUME NEW a, Account(a), NEW sym \in Symbols, NEW side \in Sides, NEW price \in Nat, NEW qty \in Nat
  PROVE  LET b == Applied(a, sym, side, price, qty) IN
         /\ b.cash = a.cash - SignedQty(side, price * qty) - price * qty * CommissionRate
         /\ b.pos = [a.pos EXCEPT ![sym] = @ + SignedQty(side, qty)]
         /\ b = [cash |-> b.cash, realized |-> b.realized, pos |-> b.pos, avg |-> b.avg]
BY DEF Account, Applied, Settled


\* _fill keeps the books.
LEMMA FillingBooks ==
  ASSUME NEW os \in Seq(OrderRec), NEW id \in DOMAIN os, NEW price \in Nat, NEW below,
         Fill(os, id, price, below), Told(os, fills), Books(acct, os, fills)
  PROVE  Books(acct', orders', fills')
<1>1. os[id] \in OrderRec /\ id \in Nat
  OBVIOUS
<1>2. CASE DividesByZero(acct, os[id])
  BY <1>2 DEF Fill
<1>3. CASE ~DividesByZero(acct, os[id])
  <2> DEFINE o == os[id]
             f == [id |-> id, price |-> price, qty |-> o.qty]
  <2>1. /\ orders' = [os EXCEPT ![id] = Done(o)]
        /\ fills' = Append(fills, f)
        /\ acct' = Applied(acct, o.sym, o.side, price, o.qty)
    BY <1>3 DEF Fill, Done
  <2>2. f \in FillRec /\ f.id = id /\ f.price = price /\ f.qty = o.qty /\ o.sym \in Symbols
        /\ o.side \in Sides /\ o.qty \in Nat
    BY <1>1 DEF FillRec, OrderRec
  <2>3. Told(os, fills')
    <3> HIDE DEF f
    <3>1. /\ fills' \in Seq(FillRec) /\ DOMAIN fills' = 1..(Len(fills) + 1)
          /\ fills'[Len(fills) + 1] = f /\ Len(fills) \in Nat
          /\ \A k \in 1..Len(fills) : fills'[k] = fills[k] /\ fills[k].id \in DOMAIN os
      BY <2>1, <2>2 DEF Told
    <3> QED BY <2>2, <3>1, SMTT(30) DEF Told
  <2>4. \A n \in DOMAIN os : orders'[n].side = os[n].side /\ orders'[n].sym = os[n].sym
    BY <1>1, <2>1, DoneIs
  <2>5. Books(acct', os, fills')
    <3>1. Account(acct)
      BY DEF Books
    <3>2. /\ acct'.cash = acct.cash - SignedQty(o.side, price * o.qty) - price * o.qty * CommissionRate
          /\ acct'.pos = [acct.pos EXCEPT ![o.sym] = @ + SignedQty(o.side, o.qty)]
          /\ acct' = [cash |-> acct'.cash, realized |-> acct'.realized, pos |-> acct'.pos,
                      avg |-> acct'.avg]
      <4> HIDE DEF o
      <4> QED BY <2>1, <2>2, <3>1, Applying
    <3>3. /\ Cost(os, f) = SignedQty(o.side, price * o.qty) /\ Charge(f) = price * o.qty * CommissionRate
          /\ \A s : Moved(os, f, s) = IF o.sym = s THEN SignedQty(o.side, o.qty) ELSE 0
      BY <2>2 DEF Cost, Charge, Moved
    <3> HIDE DEF o, f
    <3>4. /\ Cost(os, f) \in Int /\ Charge(f) \in Int /\ \A s : Moved(os, f, s) \in Int
      BY <1>1, <2>2, FillsAreCounted
    <3>5. /\ SeqSum(Costs(os, fills')) = SeqSum(Costs(os, fills)) + Cost(os, f)
          /\ SeqSum(Charges(fills')) = SeqSum(Charges(fills)) + Charge(f)
          /\ \A s : SeqSum(Moves(os, fills', s)) = SeqSum(Moves(os, fills, s)) + Moved(os, f, s)
      BY <1>1, <2>1, <2>2, OneMoreFill
    <3>6. /\ SeqSum(Costs(os, fills)) \in Int /\ SeqSum(Charges(fills)) \in Int
          /\ \A s : SeqSum(Moves(os, fills, s)) \in Int
      BY SumsAreOfIntegers, SeqSumIsInt
    <3>7. acct'.cash \in Int /\ acct'.cash = InitialCash - SeqSum(Costs(os, fills')) - SeqSum(Charges(fills'))
      <4>1. acct'.cash = acct.cash - Cost(os, f) - Charge(f)
        BY <3>2, <3>3
      <4>2. acct.cash = InitialCash - SeqSum(Costs(os, fills)) - SeqSum(Charges(fills))
        BY DEF Books
      <4> QED BY <3>4, <3>5, <3>6, <4>1, <4>2, PaperGatewayAssumption
    <3>8. ASSUME NEW s \in Symbols
          PROVE  acct'.pos[s] \in Int /\ acct'.pos[s] = SeqSum(Moves(os, fills', s))
      <4>1. acct.pos \in [Symbols -> Int] /\ acct.pos[s] = SeqSum(Moves(os, fills, s))
        BY DEF Books, Account
      <4>2. acct'.pos[s] = acct.pos[s] + Moved(os, f, s)
        <5>1. CASE o.sym = s
          BY <3>2, <3>3, <4>1, <5>1
        <5>2. CASE o.sym # s
          <6>1. acct'.pos[s] = acct.pos[s] /\ Moved(os, f, s) = 0
            BY <3>2, <3>3, <4>1, <5>2
          <6> QED BY <4>1, <6>1
        <5> QED BY <5>1, <5>2
      <4> QED BY <3>4, <3>5, <3>6, <4>1, <4>2
    <3>9. acct'.pos \in [Symbols -> Int]
      <4>1. DOMAIN acct'.pos = Symbols /\ acct'.pos = [s \in Symbols |-> acct'.pos[s]]
        BY <3>1, <3>2 DEF Account
      <4> QED BY <3>8, <4>1
    <3> QED BY <3>2, <3>7, <3>8, <3>9 DEF Books, Account
  <2>6. os \in Seq(OrderRec)
    OBVIOUS
  <2> QED BY <2>3, <2>4, <2>5, BooksOfOrders
<1> QED BY <1>2, <1>3

\* Orders that are registered or cancelled cost nothing.
LEMMA OrderEntryBooks ==
  ASSUME Inv, Books(acct, orders, fills), UNCHANGED <<acct, fills>>,
         \A n \in DOMAIN orders : orders'[n].side = orders[n].side /\ orders'[n].sym = orders[n].sym
  PROVE  Books(acct', orders', fills')
BY BooksOfOrders DEF Inv, Typed

LEMMA VisitBooks ==
  ASSUME Inv, Books(acct, orders, fills), VisitResting
  PROVE  Books(acct', orders', fills')
<1> DEFINE loop == Last(stack)
           id == heap.lists[loop.list][loop.i]
           o == orders[id]
<1>1. /\ loop \in LoopRec /\ Ids(orders, heap.lists[loop.list])
  BY InnermostLoop DEF Inv, VisitResting
<1>2. id \in DOMAIN orders /\ o \in OrderRec /\ orders \in Seq(OrderRec)
  <2>1. loop.i \in DOMAIN heap.lists[loop.list]
    BY <1>1 DEF VisitResting, LoopRec, Ids
  <2>2. id \in DOMAIN orders
    BY <1>1, <2>1 DEF Ids
  <2> HIDE DEF id
  <2> QED BY <2>2 DEF Inv, Typed
<1>3. CASE o.sym = loop.sym /\ Crosses(loop, o.side, o.limit)
  <2>1. Fill(orders, id, BestOf(loop, o), Append(Front(stack), Passed(loop)))
    BY <1>3 DEF VisitResting
  <2>2. BestOf(loop, o) \in Nat
    <3> HIDE DEF loop, o
    <3> QED BY <1>1, <1>2 DEF BestOf, LoopRec, OrderRec
  <2> HIDE DEF loop, o, id
  <2> QED BY <1>2, <2>1, <2>2, FillingBooks DEF Inv, Typed
<1>4. CASE ~(o.sym = loop.sym /\ Crosses(loop, o.side, o.limit))
  BY <1>4 DEF VisitResting
<1> QED BY <1>3, <1>4

LEMMA FillNewBooks ==
  ASSUME Inv, Books(acct, orders, fills), NEW sym \in Symbols, NEW side \in Sides, NEW qty \in Nat,
         NEW limit \in Nat, FillNew(sym, side, qty, limit)
  PROVE  Books(acct', orders', fills')
<1> DEFINE os == Registered(sym, side, qty, limit, "NEW")
           price == Touch(quotes[sym], side)
<1>1. /\ os \in Seq(OrderRec) /\ DOMAIN orders \subseteq DOMAIN os /\ NewId \in DOMAIN os
      /\ \A n \in DOMAIN orders : os[n] = orders[n]
      /\ os[NewId] = [sym |-> sym, side |-> side, qty |-> qty, limit |-> limit, status |-> "NEW"]
  <2>1. "NEW" \in Status
    BY DEF Status
  <2> QED BY <2>1, Registering DEF Inv, Typed
<1>2. price \in Nat
  BY DEF Touch, Inv, Typed, Quotes
<1>3. Fill(os, NewId, price, stack)
  BY DEF FillNew
<1> HIDE DEF os, price
<1>4. Told(os, fills)
  BY <1>1, MoreOrders DEF Inv, Typed
<1>5. Books(acct, os, fills)
  BY <1>1, BooksOfOrders DEF Inv, Typed
<1> QED BY <1>1, <1>2, <1>3, <1>4, <1>5, FillingBooks

LEMMA SubmitBooks ==
  ASSUME Inv, Books(acct, orders, fills), NEW sym \in Symbols, NEW side \in Sides,
         NEW qty \in Quantities, NEW limit \in Nat,
         \/ \E ok \in BOOLEAN : limit \in Prices /\ SubmitLimit(sym, side, qty, limit, ok)
         \/ \E ok \in BOOLEAN : limit = Market /\ SubmitMarket(sym, side, qty, ok)
  PROVE  Books(acct', orders', fills')
<1>1. qty \in Nat /\ orders \in Seq(OrderRec)
  BY PaperGatewayAssumption DEF Inv, Typed
<1>2. CASE FillNew(sym, side, qty, limit)
  BY <1>1, <1>2, FillNewBooks
<1>3. ASSUME NEW status \in {"REJECTED", "NEW"}, UNCHANGED <<acct, fills>>,
             orders' = Registered(sym, side, qty, limit, status)
      PROVE  Books(acct', orders', fills')
  <2>1. status \in Status
    BY DEF Status
  <2> DEFINE os == Registered(sym, side, qty, limit, status)
  <2>2. /\ os \in Seq(OrderRec) /\ NewId \in DOMAIN os /\ NewId \in Nat \ {0}
        /\ DOMAIN orders \subseteq DOMAIN os /\ \A n \in DOMAIN orders : os[n] = orders[n]
        /\ os[NewId] = [sym |-> sym, side |-> side, qty |-> qty, limit |-> limit, status |-> status]
    BY <1>1, <2>1, Registering
  <2> QED BY <1>3, <2>2, OrderEntryBooks
<1> QED BY <1>2, <1>3 DEF SubmitLimit, SubmitMarket, Reject, Rest

THEOREM BooksHold == Spec => []Books(acct, orders, fills)
<1>1. Init => Books(acct, orders, fills)
  <2> SUFFICES ASSUME Init PROVE Books(acct, orders, fills)
    OBVIOUS
  <2>1. fills = <<>> /\ acct.cash = InitialCash /\ acct.pos = [s \in Symbols |-> 0]
        /\ acct = [cash |-> acct.cash, realized |-> acct.realized, pos |-> acct.pos, avg |-> acct.avg]
    BY DEF Init
  <2>2. Costs(orders, fills) = <<>> /\ Charges(fills) = <<>>
        /\ \A s \in Symbols : Moves(orders, fills, s) = <<>>
    BY <2>1 DEF Costs, Charges, Moves
  <2> QED BY <2>1, <2>2, SeqSumOfNothing, PaperGatewayAssumption DEF Books, Account
<1>2. Inv /\ Books(acct, orders, fills) /\ [Next]_vars => Books(acct, orders, fills)'
  <2> SUFFICES ASSUME Inv, Books(acct, orders, fills), [Next]_vars
               PROVE  Books(acct', orders', fills')
    OBVIOUS
  <2>1. CASE VisitResting
    BY <2>1, VisitBooks
  <2>2. CASE \E s \in Symbols, side \in Sides, qty \in Quantities, p \in Prices, ok \in BOOLEAN :
               SubmitLimit(s, side, qty, p, ok)
    BY <2>2, SubmitBooks, PaperGatewayAssumption
  <2>3. CASE \E s \in Symbols, side \in Sides, qty \in Quantities, ok \in BOOLEAN :
               SubmitMarket(s, side, qty, ok)
    <3>1. Market \in Nat
      BY DEF Market
    <3> QED BY <2>3, <3>1, SubmitBooks
  <2>4. CASE \E id \in DOMAIN orders : Cancel(id)
    <3>1. PICK id \in DOMAIN orders : Cancel(id)
      BY <2>4
    <3>2. orders' = [orders EXCEPT ![id].status = "CANCELED"] /\ UNCHANGED <<acct, fills>>
      BY <3>1 DEF Cancel
    <3>3. orders[id] \in OrderRec /\ orders \in Seq(OrderRec)
      BY DEF Inv, Typed
    <3>4. \A n \in DOMAIN orders : orders'[n].side = orders[n].side /\ orders'[n].sym = orders[n].sym
      BY <3>2, <3>3 DEF OrderRec
    <3> QED BY <3>2, <3>4, OrderEntryBooks
  <2>5. CASE UNCHANGED <<orders, acct, fills>>
    BY <2>5
  <2>6. [Next]_vars => \/ UNCHANGED <<orders, acct, fills>>
                       \/ VisitResting
                       \/ \E s \in Symbols, side \in Sides, qty \in Quantities, p \in Prices, ok \in BOOLEAN :
                            SubmitLimit(s, side, qty, p, ok)
                       \/ \E s \in Symbols, side \in Sides, qty \in Quantities, ok \in BOOLEAN :
                            SubmitMarket(s, side, qty, ok)
                       \/ \E id \in DOMAIN orders : Cancel(id)
    BY DEF Next, vars, OnQuote, FinishQuote, ListenerReturns, ListenerRaises
  <2> QED BY <2>1, <2>2, <2>3, <2>4, <2>5, <2>6
<1> QED BY <1>1, <1>2, InvHolds, PTL DEF Spec

\* Cash is the initial cash less what the fills cost and their fees, and a
\* position is what the fills of its symbol traded, whatever a listener does in
\* the middle of a fill.
THEOREM CashAndPositionsHold == Spec => [](CashIsTheFills /\ PositionsAreTheFills)
<1>1. Books(acct, orders, fills) => CashIsTheFills /\ PositionsAreTheFills
  BY DEF Books, CashIsTheFills, PositionsAreTheFills, Spent, Fees, Traded, OfFill,
         Costs, Cost, Charges, Charge, Moves, Moved
<1> QED BY <1>1, BooksHold, PTL

-----------------------------------------------------------------------------
(* What positions cost.                                                    *)

LEMMA GivenAndTaken ==
  ASSUME NEW x, Lowest(x), NEW n \in Int
  PROVE  Plus(Whole(-n), Plus(x, Whole(n))) = x
<1>1. PICK m \in Int : m = -n /\ n + m = 0
  OBVIOUS
<1>2. Lowest(Whole(m)) /\ Lowest(Whole(n))
  BY WholeIs
<1>3. Lowest(Plus(x, Whole(n)))
  BY <1>2, PlusIs
<1>4. Plus(Whole(m), Plus(x, Whole(n))) = Plus(Plus(x, Whole(n)), Whole(m))
  BY <1>2, <1>3, PlusCommutes
<1>5. Plus(Plus(x, Whole(n)), Whole(m)) = Plus(x, Plus(Whole(n), Whole(m)))
  BY <1>2, PlusAssociates
<1>6. Plus(Whole(n), Whole(m)) = Whole(0)
  BY <1>1, PlusOfWholes
<1> QED BY <1>1, <1>4, <1>5, <1>6, PlusNothing

\* A fill that opens or adds: the position's cost takes what the cash gives.
LEMMA OpensAtCost ==
  ASSUME NEW avg, Lowest(avg), NEW pos \in Int, NEW side \in Sides, NEW price \in Nat, NEW qty \in Nat,
         NEW new, new = pos + SignedQty(side, qty),
         Opens(pos, SignedQty(side, qty)), ~(pos = 0 /\ qty = 0)
  PROVE  LET next == Blended(pos, avg, price, qty, new) IN
         /\ Lowest(next)
         /\ Plus(Whole(-SignedQty(side, price * qty)), Times(next, new)) = Times(avg, pos)
<1>1. PICK n \in Nat : n = price * qty /\ (qty = 0 => n = 0)
  <2>1. price * qty \in Nat /\ (qty = 0 => price * qty = 0)
    OBVIOUS
  <2> QED BY <2>1
<1>2. PICK sigma \in {1, -1} :
        /\ pos = Abs(pos) * sigma /\ new = Abs(new) * sigma /\ SignedQty(side, n) = n * sigma
        /\ Abs(pos) \in Nat /\ Abs(new) \in Nat \ {0} /\ new \in Int
  <2>1. CASE pos > 0 \/ (pos = 0 /\ side = "BUY")
    <3>1. /\ new >= 0 /\ new \in Int /\ new # 0 /\ (SignedQty(side, n) = n)
      BY <1>1, <2>1 DEF Opens, Sign, SignedQty, Sides
    <3>2. Abs(pos) = pos /\ Abs(new) = new
      BY <2>1, <3>1 DEF Abs
    <3> QED BY <2>1, <3>1, <3>2
  <2>2. CASE pos < 0 \/ (pos = 0 /\ side = "SELL")
    <3>1. /\ new <= 0 /\ new \in Int /\ new # 0 /\ SignedQty(side, n) = -n
      BY <1>1, <2>2 DEF Opens, Sign, SignedQty, Sides
    <3>2. Abs(pos) = -pos /\ Abs(new) = -new
      BY <2>2, <3>1 DEF Abs
    <3> QED BY <2>2, <3>1, <3>2
  <2> QED BY <2>1, <2>2 DEF Sides
<1>3. sigma \in Int
  OBVIOUS
<1> DEFINE total == Plus(Times(avg, Abs(pos)), Whole(n))
           next == Over(total, Abs(new))
<1>4. Blended(pos, avg, price, qty, new) = next
  BY <1>1 DEF Blended
<1>5. Lowest(Times(avg, Abs(pos))) /\ Lowest(Whole(n)) /\ Lowest(total)
  <2>1. Lowest(Times(avg, Abs(pos))) /\ Lowest(Whole(n))
    BY <1>2, TimesIs, WholeIs
  <2> QED BY <2>1, PlusIs
<1> HIDE DEF total
<1>6. Lowest(next) /\ Times(next, Abs(new)) = total
  BY <1>2, <1>5, TimesOfOver
<1> HIDE DEF next
<1>7. PICK g \in Int : g = SignedQty(side, n) /\ g = n * sigma
  BY <1>2
<1>8. Times(next, new) = Plus(Times(avg, pos), Whole(g))
  <2>1. Times(next, new) = Times(Times(next, Abs(new)), sigma)
    BY <1>2, <1>3, <1>6, TimesOfTimes
  <2>2. Times(total, sigma) = Plus(Times(Times(avg, Abs(pos)), sigma), Times(Whole(n), sigma))
    BY <1>3, <1>5, TimesOfPlus DEF total
  <2>3. Times(Times(avg, Abs(pos)), sigma) = Times(avg, pos)
    BY <1>2, <1>3, TimesOfTimes
  <2>4. Times(Whole(n), sigma) = Whole(g)
    BY <1>3, <1>7, TimesOfWhole
  <2> QED BY <1>6, <2>1, <2>2, <2>3, <2>4
<1>9. Plus(Whole(-g), Times(next, new)) = Times(avg, pos)
  BY <1>7, <1>8, GivenAndTaken, TimesIs
<1> QED BY <1>1, <1>4, <1>6, <1>7, <1>9

\* A fill that reduces, closes or flips: what leaves the position's cost is
\* the cash and the P&L it realizes.
LEMMA ReducesAtCost ==
  ASSUME NEW avg, Lowest(avg), NEW pos \in Int, NEW side \in Sides, NEW price \in Nat, NEW qty \in Nat,
         NEW new, new = pos + SignedQty(side, qty), ~Opens(pos, SignedQty(side, qty))
  PROVE  LET next == Remaining(pos, avg, price, new)
             gain == Realized(pos, avg, price, qty) IN
         /\ Lowest(next) /\ Lowest(gain)
         /\ Plus(Whole(-SignedQty(side, price * qty)), Times(next, new)) = Plus(Times(avg, pos), gain)
<1>1. PICK n \in Nat : n = price * qty
  BY ProductOfNaturals
<1>2. PICK sigma \in {1, -1}, h \in Int :
        /\ sigma = Sign(pos) /\ pos # 0 /\ new = pos - qty * sigma /\ new \in Int
        /\ -SignedQty(side, n) = n * sigma
        /\ h = Sign(pos) * (IF Abs(pos) < qty THEN Abs(pos) ELSE qty)
        /\ (new = 0 \/ Sign(new) # Sign(pos) => h = pos)
        /\ (new # 0 /\ Sign(new) = Sign(pos) => h = qty * sigma)
  <2>1. CASE pos > 0
    <3>1. /\ side = "SELL"
          /\ new = pos - qty /\ new \in Int /\ Sign(pos) = 1 /\ Abs(pos) = pos
          /\ -SignedQty(side, n) = n
      BY <1>1, <2>1 DEF Opens, Sign, SignedQty, Sides, Abs
    <3>2. /\ (new = 0 \/ Sign(new) # 1 => pos <= qty)
          /\ (new # 0 /\ Sign(new) = 1 => pos > qty)
      BY <2>1, <3>1 DEF Sign
    <3>3. PICK h \in Int : h = (IF pos < qty THEN pos ELSE qty) /\ h = 1 * (IF pos < qty THEN pos ELSE qty)
      BY <2>1
    <3> QED BY <2>1, <3>1, <3>2, <3>3
  <2>2. CASE pos < 0
    <3>1. /\ side = "BUY" \/ qty = 0
          /\ new = pos + qty /\ new \in Int /\ Sign(pos) = -1 /\ Abs(pos) = -pos
      BY <1>1, <2>2 DEF Opens, Sign, SignedQty, Sides, Abs
    <3>2. -SignedQty(side, n) = -n
      <4>1. qty = 0 => n = 0
        BY <1>1
      <4> QED BY <3>1, <4>1 DEF SignedQty, Sides
    <3>3. /\ (new = 0 \/ Sign(new) # -1 => -pos <= qty)
          /\ (new # 0 /\ Sign(new) = -1 => -pos > qty)
      BY <2>2, <3>1 DEF Sign
    <3>4. PICK h \in Int : /\ h = -(IF -pos < qty THEN -pos ELSE qty)
                           /\ h = (-1) * (IF -pos < qty THEN -pos ELSE qty)
      BY <2>2
    <3> QED BY <2>2, <3>1, <3>2, <3>3, <3>4
  <2>3. pos # 0
    BY DEF Opens
  <2> QED BY <2>1, <2>2, <2>3
<1>3. sigma \in Int /\ pos - h \in Int /\ -h \in Int
  OBVIOUS
<1>4. PICK c \in Int : c = price * h
  OBVIOUS
<1>5. Lowest(Whole(c)) /\ Lowest(Times(avg, pos)) /\ Lowest(Times(avg, -h))
  BY <1>3, WholeIs, TimesIs
<1> DEFINE next == Remaining(pos, avg, price, new)
           gain == Realized(pos, avg, price, qty)
<1>6. gain = Plus(Whole(c), Times(avg, -h)) /\ Lowest(gain)
  <2>1. gain = Times(Plus(Whole(price), Times(avg, -1)), h)
    BY <1>2 DEF Realized
  <2> HIDE DEF gain
  <2>2. Lowest(Whole(price)) /\ Lowest(Times(avg, -1))
    BY WholeIs, TimesIs
  <2>3. gain = Plus(Times(Whole(price), h), Times(Times(avg, -1), h))
    BY <2>1, <2>2, TimesOfPlus
  <2>4. Times(Whole(price), h) = Whole(c)
    BY <1>4, TimesOfWhole
  <2>5. Times(Times(avg, -1), h) = Times(avg, -h)
    <3>1. (-1) * h = -h
      OBVIOUS
    <3> QED BY <3>1, TimesOfTimes
  <2> QED BY <1>5, <2>3, <2>4, <2>5, PlusIs
<1>7. Plus(Times(avg, pos), gain) = Plus(Whole(c), Times(avg, pos - h))
  <2>1. Plus(Whole(c), Times(avg, -h)) = Plus(Times(avg, -h), Whole(c))
    BY <1>5, PlusCommutes
  <2>2. Plus(Times(avg, pos), Plus(Times(avg, -h), Whole(c)))
          = Plus(Plus(Times(avg, pos), Times(avg, -h)), Whole(c))
    BY <1>5, PlusAssociates
  <2>3. Plus(Times(avg, pos), Times(avg, -h)) = Times(avg, pos - h)
    <3>1. PICK m \in Int : m = -h /\ pos + m = pos - h
      OBVIOUS
    <3> QED BY <3>1, TimesOfSum
  <2>4. Plus(Times(avg, pos - h), Whole(c)) = Plus(Whole(c), Times(avg, pos - h))
    BY <1>3, <1>5, TimesIs, PlusCommutes
  <2> QED BY <1>6, <2>1, <2>2, <2>3, <2>4
<1>8. PICK g \in Int : g = n * sigma /\ g = -SignedQty(side, n)
  BY <1>2, <1>3
<1>9. Lowest(next) /\ Plus(Whole(g), Times(next, new)) = Plus(Whole(c), Times(avg, pos - h))
  <2>1. CASE new = 0
    <3>1. next = Whole(0) /\ h = pos /\ qty * sigma = pos
      BY <1>2, <1>3, <2>1 DEF Remaining
    <3>2. g = c
      <4>1. (price * qty) * sigma = price * (qty * sigma)
        BY <1>3
      <4> QED BY <1>1, <1>4, <1>8, <3>1, <4>1
    <3>3. Times(next, new) = Whole(0) /\ Times(avg, pos - h) = Whole(0) /\ Lowest(next)
      BY <2>1, <3>1, TimesNothing, WholeIs
    <3> QED BY <3>2, <3>3
  <2>2. CASE new # 0 /\ Sign(new) # Sign(pos)
    <3>1. next = Whole(price) /\ h = pos
      BY <1>2, <2>2 DEF Remaining
    <3>2. Times(next, new) = Whole(price * new) /\ Lowest(next)
      BY <1>2, <3>1, TimesOfWhole, WholeIs
    <3>3. PICK m \in Int : m = price * new
      BY <1>2
    <3>4. g + m = c
      <4>1. (price * qty) * sigma + price * (pos - qty * sigma) = price * pos
        BY <1>3
      <4> QED BY <1>1, <1>2, <1>4, <1>8, <3>1, <3>3, <4>1
    <3>5. Plus(Whole(g), Whole(m)) = Whole(c)
      BY <3>4, PlusOfWholes
    <3>6. Times(avg, pos - h) = Whole(0)
      BY <3>1, TimesNothing
    <3> QED BY <1>5, <3>2, <3>3, <3>5, <3>6, PlusNothing
  <2>3. CASE new # 0 /\ Sign(new) = Sign(pos)
    <3>1. next = avg /\ h = qty * sigma /\ new = pos - h
      BY <1>2, <2>3 DEF Remaining
    <3>2. g = c
      <4>1. (price * qty) * sigma = price * (qty * sigma)
        BY <1>3
      <4> QED BY <1>1, <1>4, <1>8, <3>1, <4>1
    <3> QED BY <3>1, <3>2
  <2> QED BY <2>1, <2>2, <2>3
<1> QED BY <1>1, <1>6, <1>7, <1>8, <1>9

\* What the account carries: average costs and realized P&L are fractions in
\* lowest terms, and cash before fees c with the open positions at cost comes
\* to the initial cash and what was realized.
Terms(a) == [s \in Symbols |-> Times(a.avg[s], a.pos[s])]
Priced(a) ==
  /\ Lowest(a.realized)
  /\ a.avg = [s \in Symbols |-> a.avg[s]] /\ \A s \in Symbols : Lowest(a.avg[s])
Carried(a, c) ==
  \A p : AddsUp(p, Symbols, Whole(a.cash + c), Terms(a)) =>
           p[Symbols] = Plus(Whole(InitialCash), a.realized)
Costed(a, fs) == Priced(a) /\ Carried(a, SeqSum(Charges(fs)))

\* What _apply_fill does to them at the fill's symbol, when n comes into the
\* cash: the cost changes by what goes out of it and what is realized.
Realizes(a, b, sym, n, r) ==
  /\ Lowest(r) /\ b.realized = Plus(a.realized, r)
  /\ Plus(Whole(n), Times(b.avg[sym], b.pos[sym])) = Plus(Times(a.avg[sym], a.pos[sym]), r)
Reprices(a, b, sym, n) ==
  /\ Priced(b) /\ \A s \in Symbols \ {sym} : b.avg[s] = a.avg[s]
  /\ \E r : Realizes(a, b, sym, n, r)

LEMMA ApplyingPrices ==
  ASSUME NEW a, Account(a), Priced(a), NEW sym \in Symbols, NEW side \in Sides,
         NEW price \in Nat, NEW qty \in Nat, ~(a.pos[sym] = 0 /\ qty = 0),
         NEW b, b = Applied(a, sym, side, price, qty)
  PROVE  Reprices(a, b, sym, -SignedQty(side, price * qty))
<1>1. PICK pos, avg : pos \in Int /\ pos = a.pos[sym] /\ avg = a.avg[sym] /\ Lowest(avg)
  BY DEF Account, Priced
<1>2. PICK new : new = pos + SignedQty(side, qty)
  OBVIOUS
<1>3. b.pos[sym] = new
  <2>1. b.pos = [a.pos EXCEPT ![sym] = @ + SignedQty(side, qty)] /\ a.pos \in [Symbols -> Int]
    BY Applying DEF Account
  <2> QED BY <1>1, <1>2, <2>1
<1>4. ASSUME NEW next, b.avg = [a.avg EXCEPT ![sym] = next], Lowest(next)
      PROVE  /\ \A s \in Symbols \ {sym} : b.avg[s] = a.avg[s]
             /\ b.avg[sym] = next
             /\ b.avg = [s \in Symbols |-> b.avg[s]] /\ \A s \in Symbols : Lowest(b.avg[s])
  BY <1>4 DEF Priced
<1>5. CASE Opens(pos, SignedQty(side, qty))
  <2> DEFINE next == Blended(pos, avg, price, qty, new)
  <2>1. b.avg = [a.avg EXCEPT ![sym] = next] /\ b.realized = a.realized
    BY <1>1, <1>2, <1>5 DEF Applied, Settled, Account
  <2>2. /\ Lowest(next)
        /\ Plus(Whole(-SignedQty(side, price * qty)), Times(next, new)) = Times(avg, pos)
    BY <1>1, <1>2, <1>5, OpensAtCost, SMTT(30)
  <2> HIDE DEF next
  <2>3. Plus(a.realized, Whole(0)) = a.realized /\ Plus(Times(avg, pos), Whole(0)) = Times(avg, pos)
    BY <1>1, PlusNothing, TimesIs DEF Priced
  <2>4. Lowest(Whole(0))
    BY WholeIs
  <2>5. Priced(b) /\ b.avg[sym] = next /\ \A s \in Symbols \ {sym} : b.avg[s] = a.avg[s]
    BY <1>4, <2>1, <2>2 DEF Priced
  <2>6. Realizes(a, b, sym, -SignedQty(side, price * qty), Whole(0))
    BY <1>1, <1>3, <2>1, <2>2, <2>3, <2>4, <2>5 DEF Realizes
  <2> QED BY <2>5, <2>6 DEF Reprices
<1>6. CASE ~Opens(pos, SignedQty(side, qty))
  <2> DEFINE next == Remaining(pos, avg, price, new)
             gain == Realized(pos, avg, price, qty)
  <2>1. b.avg = [a.avg EXCEPT ![sym] = next] /\ b.realized = Plus(a.realized, gain)
    BY <1>1, <1>2, <1>6 DEF Applied, Settled, Account
  <2>2. /\ Lowest(next) /\ Lowest(gain)
        /\ Plus(Whole(-SignedQty(side, price * qty)), Times(next, new)) = Plus(Times(avg, pos), gain)
    BY <1>1, <1>2, <1>6, ReducesAtCost, SMTT(30)
  <2> HIDE DEF next, gain
  <2>3. Lowest(b.realized)
    BY <2>1, <2>2, PlusIs DEF Priced
  <2>4. Priced(b) /\ b.avg[sym] = next /\ \A s \in Symbols \ {sym} : b.avg[s] = a.avg[s]
    BY <1>4, <2>1, <2>2, <2>3 DEF Priced
  <2>5. Realizes(a, b, sym, -SignedQty(side, price * qty), gain)
    BY <1>1, <1>3, <2>1, <2>2, <2>4 DEF Realizes
  <2> QED BY <2>4, <2>5 DEF Reprices
<1> QED BY <1>5, <1>6

\* ... and so to what the account carries.
LEMMA ApplyingCarries ==
  ASSUME NEW a, Account(a), Priced(a), NEW sym \in Symbols, NEW side \in Sides,
         NEW price \in Nat, NEW qty \in Nat, ~(a.pos[sym] = 0 /\ qty = 0),
         NEW c \in Int, Carried(a, c), NEW d \in Int, d = c + price * qty * CommissionRate,
         NEW b, b = Applied(a, sym, side, price, qty)
  PROVE  Priced(b) /\ Carried(b, d)
<1>1. PICK n \in Nat, g \in Int, fee \in Int :
        n = price * qty /\ g = SignedQty(side, n) /\ fee = price * qty * CommissionRate
  <2>1. price * qty \in Nat /\ price * qty * CommissionRate \in Int
    BY PaperGatewayAssumption, ProductOfNaturals
  <2> QED BY <2>1 DEF SignedQty
<1>2. /\ b.cash = a.cash - g - fee
      /\ b.pos = [a.pos EXCEPT ![sym] = @ + SignedQty(side, qty)]
  BY <1>1, Applying
<1>3. Reprices(a, b, sym, -g)
  BY <1>1, ApplyingPrices
<1>4. PICK r : Realizes(a, b, sym, -g, r)
  BY <1>3 DEF Reprices
<1>5. a.pos \in [Symbols -> Int] /\ b.pos \in [Symbols -> Int]
  <2>1. SignedQty(side, qty) \in Int
    BY DEF SignedQty
  <2> QED BY <1>2, <2>1 DEF Account
<1>6. \A s \in Symbols : Lowest(Terms(a)[s]) /\ Lowest(Terms(b)[s])
  BY <1>3, <1>5, TimesIs DEF Terms, Priced, Reprices
<1>7. \A s \in Symbols \ {sym} : Terms(b)[s] = Terms(a)[s]
  BY <1>2, <1>3, <1>5 DEF Terms, Reprices
<1>8. Plus(Whole(-g), Terms(b)[sym]) = Plus(Terms(a)[sym], r)
  BY <1>4 DEF Terms, Realizes
<1>9. /\ Lowest(Whole(a.cash + c)) /\ Lowest(Whole(-g))
      /\ Whole(b.cash + d) = Plus(Whole(a.cash + c), Whole(-g))
  <2>1. PICK m \in Int, k \in Int : m = a.cash + c /\ k = -g /\ b.cash + d = m + k
    BY <1>1, <1>2 DEF Account
  <2> QED BY <2>1, WholeIs, PlusOfWholes
<1>10. ASSUME NEW q, AddsUp(q, Symbols, Whole(b.cash + d), Terms(b))
       PROVE  q[Symbols] = Plus(Whole(InitialCash), b.realized)
  <2>1. PICK p : AddsUp(p, Symbols, Whole(a.cash + c), Terms(a))
    BY <1>6, <1>9, SumsOfFractionsExist, PaperGatewayAssumption
  <2>2. q[Symbols] = Plus(p[Symbols], r)
    <3>1. Changes(Symbols, sym, Terms(a), Terms(b), Whole(-g), r)
      BY <1>4, <1>6, <1>7, <1>8, <1>9 DEF Changes, Realizes
    <3>2. AddsUp(q, Symbols, Plus(Whole(a.cash + c), Whole(-g)), Terms(b))
      BY <1>9, <1>10
    <3> QED BY <1>9, <2>1, <3>1, <3>2, SumOfFractionsChanges, PaperGatewayAssumption
  <2>3. p[Symbols] = Plus(Whole(InitialCash), a.realized)
    BY <2>1 DEF Carried
  <2>4. Lowest(Whole(InitialCash)) /\ Lowest(a.realized)
    BY WholeIs, PaperGatewayAssumption DEF Priced
  <2> QED BY <1>4, <2>2, <2>3, <2>4, PlusAssociates DEF Realizes
<1> QED BY <1>3, <1>10 DEF Carried, Reprices

\* The account and what was told only ever change by a fill.
LEMMA OnlyFillsPay ==
  ASSUME Inv, [Next]_vars
  PROVE  \/ UNCHANGED <<acct, fills>>
         \/ \E below : \E os \in Seq(OrderRec), price \in Nat :
              \E id \in DOMAIN os : Told(os, fills) /\ Fill(os, id, price, below)
<1>1. CASE VisitResting
  <2> DEFINE loop == Last(stack)
             id == heap.lists[loop.list][loop.i]
             o == orders[id]
  <2>1. /\ loop \in LoopRec /\ Ids(orders, heap.lists[loop.list])
    BY <1>1, InnermostLoop DEF Inv, VisitResting
  <2>2. id \in DOMAIN orders /\ o \in OrderRec /\ orders \in Seq(OrderRec)
    <3>1. loop.i \in DOMAIN heap.lists[loop.list]
      BY <1>1, <2>1 DEF VisitResting, LoopRec, Ids
    <3>2. id \in DOMAIN orders
      BY <2>1, <3>1 DEF Ids
    <3> HIDE DEF id
    <3> QED BY <3>2 DEF Inv, Typed
  <2>3. CASE o.sym = loop.sym /\ Crosses(loop, o.side, o.limit)
    <3>1. Fill(orders, id, BestOf(loop, o), Append(Front(stack), Passed(loop)))
      BY <1>1, <2>3 DEF VisitResting
    <3>2. BestOf(loop, o) \in Nat
      <4> HIDE DEF loop, o
      <4> QED BY <2>1, <2>2 DEF BestOf, LoopRec, OrderRec
    <3> HIDE DEF loop, o, id
    <3> QED BY <2>2, <3>1, <3>2 DEF Inv, Typed
  <2>4. CASE ~(o.sym = loop.sym /\ Crosses(loop, o.side, o.limit))
    BY <1>1, <2>4 DEF VisitResting
  <2> QED BY <2>3, <2>4
<1>2. ASSUME NEW sym \in Symbols, NEW side \in Sides, NEW qty \in Quantities, NEW limit \in Nat,
             FillNew(sym, side, qty, limit)
      PROVE  \E below : \E os \in Seq(OrderRec), price \in Nat :
               \E id \in DOMAIN os : Told(os, fills) /\ Fill(os, id, price, below)
  <2> DEFINE os == Registered(sym, side, qty, limit, "NEW")
             price == Touch(quotes[sym], side)
  <2>1. /\ os \in Seq(OrderRec) /\ DOMAIN orders \subseteq DOMAIN os /\ NewId \in DOMAIN os
    <3>1. "NEW" \in Status /\ qty \in Nat
      BY PaperGatewayAssumption DEF Status
    <3> QED BY <3>1, Registering DEF Inv, Typed
  <2>2. price \in Nat
    BY DEF Touch, Inv, Typed, Quotes
  <2>3. Fill(os, NewId, price, stack)
    BY <1>2 DEF FillNew
  <2> HIDE DEF os, price
  <2>4. Told(os, fills)
    BY <2>1, MoreOrders DEF Inv, Typed
  <2> QED BY <2>1, <2>2, <2>3, <2>4
<1>3. CASE \E s \in Symbols, side \in Sides, qty \in Quantities, p \in Prices, ok \in BOOLEAN :
             SubmitLimit(s, side, qty, p, ok)
  <2>1. PICK s \in Symbols, side \in Sides, qty \in Quantities, p \in Prices, ok \in BOOLEAN :
          SubmitLimit(s, side, qty, p, ok)
    BY <1>3
  <2>2. FillNew(s, side, qty, p) \/ UNCHANGED <<acct, fills>>
    BY <2>1 DEF SubmitLimit, Reject, Rest
  <2> QED BY <1>2, <2>2, PaperGatewayAssumption
<1>4. CASE \E s \in Symbols, side \in Sides, qty \in Quantities, ok \in BOOLEAN :
             SubmitMarket(s, side, qty, ok)
  <2>1. PICK s \in Symbols, side \in Sides, qty \in Quantities, ok \in BOOLEAN :
          SubmitMarket(s, side, qty, ok)
    BY <1>4
  <2>2. FillNew(s, side, qty, Market) \/ UNCHANGED <<acct, fills>>
    BY <2>1 DEF SubmitMarket, Reject
  <2>3. Market \in Nat
    BY DEF Market
  <2> QED BY <1>2, <2>2, <2>3
<1>5. [Next]_vars => \/ UNCHANGED <<acct, fills>>
                     \/ VisitResting
                     \/ \E s \in Symbols, side \in Sides, qty \in Quantities, p \in Prices, ok \in BOOLEAN :
                          SubmitLimit(s, side, qty, p, ok)
                     \/ \E s \in Symbols, side \in Sides, qty \in Quantities, ok \in BOOLEAN :
                          SubmitMarket(s, side, qty, ok)
  BY DEF Next, vars, OnQuote, FinishQuote, ListenerReturns, ListenerRaises, Cancel
<1> QED BY <1>1, <1>3, <1>4, <1>5

\* _fill keeps what the account carries.
LEMMA FillingCosts ==
  ASSUME NEW os \in Seq(OrderRec), NEW id \in DOMAIN os, NEW price \in Nat, NEW below,
         Fill(os, id, price, below), Told(os, fills), Account(acct), Costed(acct, fills)
  PROVE  Costed(acct', fills')
<1>1. CASE DividesByZero(acct, os[id])
  BY <1>1 DEF Fill
<1>2. CASE ~DividesByZero(acct, os[id])
  <2>1. PICK o \in OrderRec : o = os[id]
    OBVIOUS
  <2>2. o.sym \in Symbols /\ o.side \in Sides /\ o.qty \in Nat /\ id \in Nat
    BY DEF OrderRec
  <2>3. PICK f \in FillRec : f = [id |-> id, price |-> price, qty |-> o.qty] /\ f.id = id
    <3>1. PICK f : f = [id |-> id, price |-> price, qty |-> o.qty]
      OBVIOUS
    <3>2. f \in FillRec /\ f.id = id
      BY <2>2, <3>1 DEF FillRec
    <3> QED BY <3>1, <3>2
  <2>4. acct' = Applied(acct, o.sym, o.side, price, o.qty) /\ fills' = Append(fills, f)
    BY <1>2, <2>1, <2>3 DEF Fill
  <2>5. ~(acct.pos[o.sym] = 0 /\ o.qty = 0)
    BY <1>2, <2>1 DEF DividesByZero
  <2>6. PICK c \in Int, d \in Int :
          /\ c = SeqSum(Charges(fills)) /\ d = SeqSum(Charges(fills'))
          /\ d = c + price * o.qty * CommissionRate
    <3>1. SeqSum(Charges(fills)) \in Int
      BY SumsAreOfIntegers, SeqSumIsInt
    <3>2. SeqSum(Charges(fills')) = SeqSum(Charges(fills)) + Charge(f)
      BY <2>3, <2>4, OneMoreFill
    <3>3. Charge(f) = price * o.qty * CommissionRate
      BY <2>3 DEF Charge
    <3>4. Charge(f) \in Int
      BY <2>3, FillsAreCounted
    <3> QED BY <3>1, <3>2, <3>3, <3>4
  <2>7. Priced(acct) /\ Carried(acct, c)
    BY <2>6 DEF Costed
  <2>8. Priced(acct') /\ Carried(acct', d)
    BY <2>2, <2>4, <2>5, <2>6, <2>7, ApplyingCarries
  <2> QED BY <2>6, <2>8 DEF Costed
<1> QED BY <1>1, <1>2

THEOREM CostedHolds == Spec => []Costed(acct, fills)
<1>1. Init => Costed(acct, fills)
  <2> SUFFICES ASSUME Init PROVE Costed(acct, fills)
    OBVIOUS
  <2>1. /\ fills = <<>> /\ acct.cash = InitialCash /\ acct.pos = [s \in Symbols |-> 0]
        /\ acct.realized = Whole(0) /\ acct.avg = [s \in Symbols |-> Whole(0)]
    BY DEF Init
  <2>2. Lowest(Whole(0)) /\ Lowest(Whole(InitialCash)) /\ InitialCash + 0 = InitialCash
    BY WholeIs, PaperGatewayAssumption
  <2>3. Priced(acct)
    BY <2>1, <2>2 DEF Priced
  <2>4. SeqSum(Charges(fills)) = 0
    <3>1. Charges(fills) = <<>>
      BY <2>1 DEF Charges
    <3> QED BY <3>1, SeqSumOfNothing
  <2>5. \A s \in Symbols : Terms(acct)[s] = Whole(0)
    BY <2>1, <2>2, TimesNothing DEF Terms
  <2>6. ASSUME NEW p, AddsUp(p, Symbols, Whole(acct.cash + 0), Terms(acct))
        PROVE  p[Symbols] = Plus(Whole(InitialCash), acct.realized)
    <3>1. p[Symbols] = Whole(InitialCash)
      BY <2>1, <2>2, <2>5, <2>6, SumOfNothings, PaperGatewayAssumption
    <3> QED BY <2>1, <2>2, <3>1, PlusNothing
  <2> QED BY <2>3, <2>4, <2>6 DEF Costed, Carried
<1>2. Inv /\ Books(acct, orders, fills) /\ Costed(acct, fills) /\ [Next]_vars => Costed(acct, fills)'
  <2> SUFFICES ASSUME Inv, Books(acct, orders, fills), Costed(acct, fills), [Next]_vars
               PROVE  Costed(acct', fills')
    OBVIOUS
  <2>1. CASE UNCHANGED <<acct, fills>>
    BY <2>1
  <2>2. CASE \E below : \E os \in Seq(OrderRec), price \in Nat :
               \E id \in DOMAIN os : Told(os, fills) /\ Fill(os, id, price, below)
    BY <2>2, FillingCosts DEF Books
  <2> QED BY <2>1, <2>2, OnlyFillsPay
<1> QED BY <1>1, <1>2, InvHolds, BooksHold, PTL DEF Spec

\* The sum CostIsCarried takes is one that adds up.
LEMMA SumOfCosts ==
  ASSUME Account(acct), Priced(acct), Fees \in Int
  PROVE  \E p : /\ AddsUp(p, Symbols, Whole(acct.cash + Fees), Terms(acct))
                /\ AtCost = p[Symbols]
<1> DEFINE base == Whole(acct.cash + Fees)
           Step(p) == [T \in SUBSET Symbols |->
                         IF T = {} THEN base
                         ELSE Plus(p[T \ {CHOOSE x \in T : TRUE}],
                                   Times(acct.avg[CHOOSE x \in T : TRUE],
                                         acct.pos[CHOOSE x \in T : TRUE]))]
           iter == CHOOSE p : p = Step(p)
<1>1. AtCost = iter[Symbols]
  BY DEF AtCost, FoldSet, MapThenFoldSet
<1>2. \A s \in Symbols : Lowest(Terms(acct)[s])
  BY TimesIs DEF Terms, Priced, Account
<1>3. Lowest(base)
  BY WholeIs DEF Account
<1> HIDE DEF base
<1>4. PICK p : /\ AddsUp(p, Symbols, base, Terms(acct)) /\ DOMAIN p = SUBSET Symbols
               /\ p = [T \in SUBSET Symbols |-> p[T]]
  <2>1. PICK f : f = Terms(acct)
    OBVIOUS
  <2>2. IsFiniteSet(Symbols) /\ \A s \in Symbols : Lowest(f[s])
    BY <1>2, <2>1, PaperGatewayAssumption
  <2>3. \E p : /\ AddsUp(p, Symbols, base, f) /\ DOMAIN p = SUBSET Symbols
               /\ p = [T \in SUBSET Symbols |-> p[T]]
    BY <1>3, <2>2, SumsOfFractionsExist
  <2> QED BY <2>1, <2>3
<1>5. ASSUME NEW T \in SUBSET Symbols, T # {}
      PROVE  Terms(acct)[Elem(T)] = Times(acct.avg[CHOOSE x \in T : TRUE], acct.pos[CHOOSE x \in T : TRUE])
  BY <1>5 DEF Terms, Elem
<1>6. p = Step(p)
  <2>1. ASSUME NEW T \in SUBSET Symbols
        PROVE  p[T] = IF T = {} THEN base
                      ELSE Plus(p[T \ {CHOOSE x \in T : TRUE}],
                                Times(acct.avg[CHOOSE x \in T : TRUE],
                                      acct.pos[CHOOSE x \in T : TRUE]))
    <3>1. CASE T = {}
      BY <1>4, <3>1 DEF AddsUp
    <3>2. CASE T # {}
      <4>1. p[T] = Plus(p[T \ {Elem(T)}], Terms(acct)[Elem(T)])
        BY <1>4, <3>2 DEF AddsUp
      <4> QED BY <1>5, <3>2, <4>1 DEF Elem
    <3> QED BY <3>1, <3>2
  <2>2. [T \in SUBSET Symbols |-> p[T]] = Step(p)
    BY <2>1
  <2> QED BY <1>4, <2>2
<1>7. iter = Step(iter)
  BY <1>6
<1> HIDE DEF iter
<1>8. AddsUp(iter, Symbols, base, Terms(acct))
  BY <1>5, <1>7 DEF AddsUp, Elem
<1> QED BY <1>1, <1>8 DEF base

\* The books balance after every fill, whatever listeners do in the middle of
\* it: cash and positions are those of the fills, and cash with the open
\* positions at their average cost is the initial cash with what was realized,
\* less the fees.
THEOREM AccountBalancesHolds == Spec => []AccountBalances
<1>1. Inv /\ Books(acct, orders, fills) /\ Costed(acct, fills) => CostIsCarried
  <2> SUFFICES ASSUME Inv, Books(acct, orders, fills), Costed(acct, fills) PROVE CostIsCarried
    OBVIOUS
  <2>1. Fees = SeqSum(Charges(fills))
    BY DEF Fees, Charges, Charge
  <2>2. Fees \in Int
    BY <2>1, SumsAreOfIntegers, SeqSumIsInt DEF Inv, Typed
  <2>3. Account(acct) /\ Priced(acct)
    BY DEF Books, Costed
  <2>4. PICK p : /\ AddsUp(p, Symbols, Whole(acct.cash + Fees), Terms(acct))
                 /\ AtCost = p[Symbols]
    BY <2>2, <2>3, SumOfCosts
  <2>5. p[Symbols] = Plus(Whole(InitialCash), acct.realized)
    BY <2>1, <2>4 DEF Costed, Carried
  <2> QED BY <2>4, <2>5 DEF CostIsCarried
<1> QED BY <1>1, InvHolds, BooksHold, CostedHolds, CashAndPositionsHold, PTL DEF AccountBalances

-----------------------------------------------------------------------------
(* What rests, when listeners submit at most.                              *)

\* A list without repetitions, in the order of submission.
Increasing(l) == \A j, k \in DOMAIN l : j < k => l[j] < l[k]

Working(os) == {id \in DOMAIN os : os[id].status = "NEW"}
Uncrossed(os, qs, id) ==
  qs[os[id].sym] # NoQuote => ~Crosses(qs[os[id].sym], os[id].side, os[id].limit)

\* What loop has still to visit of list l.
Ahead(l, loop) == {l[j] : j \in {n \in DOMAIN l : loop.i <= n}}

\* Between quotes the list is the working orders and none is crossed; midway
\* through one they are those kept and those still to be visited, and only the
\* latter may be crossed.
Between(os, qs, l) ==
  /\ ToSet(l) = Working(os)
  /\ \A id \in Working(os) : Uncrossed(os, qs, id)
Midway(os, qs, l, loop) ==
  /\ loop.i <= Len(l) + 1
  /\ qs[loop.sym] = [bid |-> loop.bid, ask |-> loop.ask]
  /\ Increasing(loop.kept)
  /\ \A x \in ToSet(loop.kept), y \in Ahead(l, loop) : x < y
  /\ ToSet(loop.kept) \cup Ahead(l, loop) = Working(os)
  /\ \A id \in Working(os) :
       Uncrossed(os, qs, id) \/ (os[id].sym = loop.sym /\ id \in Ahead(l, loop))

Looping(s) == s # <<>> /\ s[1].at = "quote"
Rested(os, qs, l, s) ==
  /\ Increasing(l)
  /\ Looping(s) => Midway(os, qs, l, s[1])
  /\ ~Looping(s) => Between(os, qs, l)

\* Listeners that do not quote leave one list, and one loop at the bottom.
OneLoop(h, s) ==
  /\ Len(h.lists) = 1 /\ h.resting = 1
  /\ \A k \in DOMAIN s : k > 1 => s[k] = Listener

Reported(os, fs) ==
  /\ \A j, k \in DOMAIN fs : fs[j].id = fs[k].id => j = k
  /\ \A id \in DOMAIN os : os[id].status = "FILLED" <=> \E k \in DOMAIN fs : fs[k].id = id
  /\ \A id \in Working(os) : os[id].qty # 0

RestInv ==
  /\ OneLoop(heap, stack)
  /\ Rested(orders, quotes, heap.lists[1], stack)
  /\ Reported(orders, fills)

\* The working orders of a book are all that matters to it.
LEMMA RestedByWorking ==
  ASSUME NEW os, NEW more, NEW qs, NEW l, NEW s, NEW t, Rested(os, qs, l, s),
         Working(more) = Working(os),
         \A n \in Working(os) : /\ more[n].sym = os[n].sym /\ more[n].side = os[n].side
                                /\ more[n].limit = os[n].limit,
         Looping(t) <=> Looping(s), Looping(s) => t[1] = s[1]
  PROVE  Rested(more, qs, l, t)
BY DEF Rested, Midway, Between, Uncrossed

\* An id larger than those of a list, at its end.
LEMMA Appending ==
  ASSUME NEW l \in Seq(Nat), NEW x \in Nat
  PROVE  /\ ToSet(Append(l, x)) = ToSet(l) \cup {x}
         /\ \A i \in 1..(Len(l) + 1) : \A loop :
              loop.i = i => Ahead(Append(l, x), loop) = Ahead(l, loop) \cup {x}
         /\ Increasing(l) /\ (\A y \in ToSet(l) : y < x) => Increasing(Append(l, x))
<1> DEFINE n == Len(l)
           m == Append(l, x)
<1>1. /\ n \in Nat /\ DOMAIN l = 1..n /\ DOMAIN m = 1..(n + 1) /\ m[n + 1] = x
      /\ \A j \in 1..n : m[j] = l[j] /\ l[j] \in Nat
  OBVIOUS
<1> HIDE DEF n, m
<1>2. ToSet(m) = ToSet(l) \cup {x}
  <2>1. \A j \in 1..(n + 1) : j \in 1..n \/ j = n + 1
    BY <1>1
  <2>2. 1..n \subseteq 1..(n + 1) /\ n + 1 \in 1..(n + 1)
    BY <1>1
  <2> QED BY <1>1, <2>1, <2>2 DEF ToSet
<1>3. ASSUME NEW i \in 1..(n + 1), NEW loop, loop.i = i
      PROVE  Ahead(m, loop) = Ahead(l, loop) \cup {x}
  <2>1. \A j \in 1..(n + 1) : j \in 1..n \/ j = n + 1
    BY <1>1
  <2>2. 1..n \subseteq 1..(n + 1) /\ n + 1 \in 1..(n + 1) /\ loop.i <= n + 1
    BY <1>1, <1>3
  <2> QED BY <1>1, <2>1, <2>2 DEF Ahead
<1>4. ASSUME Increasing(l), \A y \in ToSet(l) : y < x PROVE Increasing(m)
  <2> SUFFICES ASSUME NEW j \in 1..(n + 1), NEW k \in 1..(n + 1), j < k PROVE m[j] < m[k]
    BY <1>1 DEF Increasing
  <2>1. j \in 1..n
    BY <1>1
  <2>2. CASE k \in 1..n
    BY <1>1, <1>4, <2>1, <2>2 DEF Increasing
  <2>3. CASE k = n + 1
    <3>1. l[j] \in ToSet(l)
      BY <1>1, <2>1 DEF ToSet
    <3> QED BY <1>1, <1>4, <2>1, <2>3, <3>1
  <2> QED BY <1>1, <2>2, <2>3
<1> QED BY <1>2, <1>3, <1>4 DEF m, n

\* What is ahead of a loop when it has moved on.
LEMMA MovingOn ==
  ASSUME NEW l \in Seq(Nat), Increasing(l), NEW loop \in LoopRec, NEW next, loop.i <= Len(l),
         next.i = loop.i + 1
  PROVE  /\ Ahead(l, loop) = Ahead(l, next) \cup {l[loop.i]}
         /\ \A y \in Ahead(l, next) : l[loop.i] < y
         /\ l[loop.i] \notin Ahead(l, next) /\ l[loop.i] \in Nat
<1>1. PICK i \in Nat \ {0} : i = loop.i
  BY DEF LoopRec
<1>2. DOMAIN l = 1..Len(l) /\ Len(l) \in Nat /\ \A j \in 1..Len(l) : l[j] \in Nat
  OBVIOUS
<1>3. i \in 1..Len(l) /\ next.i = i + 1
  BY <1>1, <1>2
<1>4. \A j \in 1..Len(l) : i <= j <=> (i + 1 <= j \/ j = i)
  BY <1>1, <1>2
<1>5. Ahead(l, loop) = Ahead(l, next) \cup {l[i]}
  BY <1>1, <1>2, <1>3, <1>4 DEF Ahead
<1>6. \A y \in Ahead(l, next) : l[i] < y
  <2>1. \A j \in 1..Len(l) : i + 1 <= j => i < j
    BY <1>1, <1>2
  <2> QED BY <1>2, <1>3, <2>1 DEF Ahead, Increasing
<1>7. l[i] \notin Ahead(l, next) /\ l[i] \in Nat
  <2>1. l[i] \in Nat /\ ~(l[i] < l[i])
    BY <1>2, <1>3
  <2> QED BY <1>6, <2>1
<1> QED BY <1>1, <1>5, <1>6, <1>7

\* An id taken out of a list.
LEMMA TakingOut ==
  ASSUME NEW l \in Seq(Nat), Increasing(l), NEW x \in ToSet(l)
  PROVE  /\ RemoveFirst(l, x) \in Seq(Nat) /\ Increasing(RemoveFirst(l, x))
         /\ ToSet(RemoveFirst(l, x)) = ToSet(l) \ {x}
<1>1. DOMAIN l = 1..Len(l) /\ Len(l) \in Nat /\ \A j \in 1..Len(l) : l[j] \in Nat
  OBVIOUS
<1>2. \E j \in 1..Len(l) : l[j] = x
  BY <1>1 DEF ToSet
<1>3. PICK k \in 1..Len(l) : l[k] = x /\ RemoveFirst(l, x) = RemoveAt(l, k)
  BY <1>2, RemoveFirstProps
<1> DEFINE r == RemoveAt(l, k)
<1>4. /\ r \in Seq(Nat) /\ Len(r) = Len(l) - 1
      /\ \A j \in 1..(Len(l) - 1) : r[j] = IF j < k THEN l[j] ELSE l[j + 1]
  BY RemoveAtProps
<1> HIDE DEF r
<1>5. DOMAIN r = 1..(Len(l) - 1)
  BY <1>4
<1>6. Increasing(r)
  <2> SUFFICES ASSUME NEW i \in 1..(Len(l) - 1), NEW j \in 1..(Len(l) - 1), i < j PROVE r[i] < r[j]
    BY <1>5 DEF Increasing
  <2>1. /\ i \in 1..Len(l) /\ i + 1 \in 1..Len(l) /\ j \in 1..Len(l) /\ j + 1 \in 1..Len(l)
        /\ i < j + 1 /\ i + 1 < j + 1 /\ k \in Nat /\ i \in Nat /\ j \in Nat
    BY <1>1
  <2>2. r[i] = (IF i < k THEN l[i] ELSE l[i + 1]) /\ r[j] = (IF j < k THEN l[j] ELSE l[j + 1])
    BY <1>4
  <2>3. ~(i < k) => ~(j < k)
    BY <2>1
  <2>4. l[i] < l[j] /\ l[i] < l[j + 1] /\ l[i + 1] < l[j + 1]
    BY <1>1, <2>1 DEF Increasing
  <2> QED BY <2>2, <2>3, <2>4
<1>7. ToSet(r) = ToSet(l) \ {x}
  <2>1. ASSUME NEW j \in 1..(Len(l) - 1) PROVE \E n \in 1..Len(l) : n # k /\ r[j] = l[n]
    <3>1. CASE j < k
      <4>1. j \in 1..Len(l) /\ j # k /\ r[j] = l[j]
        BY <1>1, <1>4, <3>1, SMTT(30)
      <4> QED BY <4>1
    <3>2. CASE ~(j < k)
      <4>1. j + 1 \in 1..Len(l) /\ j + 1 # k /\ r[j] = l[j + 1]
        BY <1>1, <1>4, <3>2
      <4> QED BY <4>1
    <3> QED BY <3>1, <3>2
  <2>2. ASSUME NEW n \in 1..Len(l), n # k PROVE \E j \in 1..(Len(l) - 1) : r[j] = l[n]
    <3>1. CASE n < k
      <4>1. n \in 1..(Len(l) - 1) /\ r[n] = l[n]
        BY <1>1, <1>4, <3>1
      <4> QED BY <4>1
    <3>2. CASE n > k
      <4>1. n - 1 \in 1..(Len(l) - 1) /\ ~(n - 1 < k) /\ (n - 1) + 1 = n
        BY <1>1, <3>2
      <4>2. r[n - 1] = l[n]
        BY <1>4, <4>1
      <4> QED BY <4>1, <4>2
    <3> QED BY <1>1, <2>2, <3>1, <3>2
  <2>3. \A n \in 1..Len(l) : n # k => l[n] # x
    <3> SUFFICES ASSUME NEW n \in 1..Len(l), n # k PROVE l[n] # l[k]
      BY <1>3
    <3>1. n < k \/ k < n
      BY <1>1
    <3>2. l[n] < l[k] \/ l[k] < l[n]
      BY <1>1, <3>1 DEF Increasing
    <3> QED BY <1>1, <3>2
  <2>4. ASSUME NEW y \in ToSet(r) PROVE y \in ToSet(l) /\ y # x
    <3>1. PICK j \in 1..(Len(l) - 1) : y = r[j]
      BY <1>5 DEF ToSet
    <3> QED BY <1>1, <2>1, <2>3, <3>1 DEF ToSet
  <2>5. ASSUME NEW y \in ToSet(l), y # x PROVE y \in ToSet(r)
    <3>1. PICK n \in 1..Len(l) : y = l[n]
      BY <1>1 DEF ToSet
    <3> QED BY <1>3, <1>5, <2>2, <2>5, <3>1 DEF ToSet
  <2> QED BY <2>4, <2>5
<1> QED BY <1>3, <1>4, <1>6, <1>7 DEF r

\* Orders that _fill is done with work no more.
LEMMA DoneWorking ==
  ASSUME NEW os \in Seq(OrderRec), NEW id \in DOMAIN os, NEW more,
         more = [os EXCEPT ![id] = Done(os[id])]
  PROVE  /\ Working(more) = Working(os) \ {id} /\ DOMAIN more = DOMAIN os
         /\ \A n \in DOMAIN os : n # id => more[n] = os[n]
         /\ more[id].status = "FILLED"
<1>1. os[id] \in OrderRec
  OBVIOUS
<1>2. /\ DOMAIN more = DOMAIN os /\ more[id] = Done(os[id])
      /\ \A n \in DOMAIN os : n # id => more[n] = os[n]
  OBVIOUS
<1>3. more[id].status = "FILLED"
  BY <1>1, <1>2, DoneIs
<1> QED BY <1>2, <1>3 DEF Working

\* A working order that is filled is reported, for the first time.
LEMMA ReportingOne ==
  ASSUME NEW os \in Seq(OrderRec), NEW fs, Told(os, fs), Reported(os, fs),
         NEW id \in Working(os), NEW f \in FillRec, f.id = id, NEW more,
         more = [os EXCEPT ![id] = Done(os[id])]
  PROVE  Reported(more, Append(fs, f))
<1> DEFINE n == Len(fs)
           all == Append(fs, f)
<1>1. /\ DOMAIN fs = 1..n /\ n \in Nat /\ DOMAIN all = 1..(n + 1) /\ all[n + 1] = f
      /\ \A k \in 1..n : all[k] = fs[k]
  BY DEF Told
<1> HIDE DEF all, n
<1>2. id \in DOMAIN os /\ os[id].status # "FILLED"
  BY DEF Working
<1>3. \A k \in 1..n : fs[k].id # id
  BY <1>1, <1>2 DEF Reported
<1>4. /\ Working(more) = Working(os) \ {id} /\ DOMAIN more = DOMAIN os
      /\ \A m \in DOMAIN os : m # id => more[m] = os[m]
      /\ more[id].status = "FILLED"
  <2>1. os[id] \in OrderRec /\ DOMAIN os \in SUBSET Nat
    BY <1>2
  <2>2. DOMAIN more = DOMAIN os /\ more[id] = Done(os[id]) /\ \A m \in DOMAIN os : m # id => more[m] = os[m]
    BY <1>2
  <2>3. more[id].status = "FILLED"
    BY <2>1, <2>2, DoneIs
  <2> QED BY <1>2, <2>2, <2>3 DEF Working
<1>5. \A k \in 1..(n + 1) : k \in 1..n \/ k = n + 1
  BY <1>1
<1>6. 1..n \subseteq 1..(n + 1) /\ n + 1 \in 1..(n + 1)
  BY <1>1
<1>7. \A j, k \in DOMAIN all : all[j].id = all[k].id => j = k
  BY <1>1, <1>3, <1>5 DEF Reported
<1>8. ASSUME NEW m \in DOMAIN os
      PROVE  more[m].status = "FILLED" <=> \E k \in DOMAIN all : all[k].id = m
  <2>1. CASE m = id
    BY <1>1, <1>4, <1>6, <2>1
  <2>2. CASE m # id
    <3>1. more[m].status = "FILLED" <=> \E k \in 1..n : fs[k].id = m
      BY <1>1, <1>4, <2>2 DEF Reported
    <3> QED BY <1>1, <1>5, <1>6, <2>2, <3>1
  <2> QED BY <2>1, <2>2
<1>9. \A m \in Working(more) : more[m].qty # 0
  BY <1>4 DEF Reported, Working
<1> QED BY <1>4, <1>7, <1>8, <1>9 DEF Reported, all

\* A new order was not reported.
LEMMA ReportedStill ==
  ASSUME orders \in Seq(OrderRec), Told(orders, fills), Reported(orders, fills),
         NEW sym \in Symbols, NEW side \in Sides, NEW qty \in Nat \ {0}, NEW limit \in Nat,
         NEW status \in {"NEW", "REJECTED"}, NEW more, more = Registered(sym, side, qty, limit, status)
  PROVE  /\ Reported(more, fills)
         /\ Working(more) = IF status = "NEW" THEN Working(orders) \cup {NewId} ELSE Working(orders)
<1>1. status \in Status
  BY DEF Status
<1>2. /\ DOMAIN more = 1..NewId /\ DOMAIN orders = 1..(NewId - 1)
      /\ NewId \in DOMAIN more /\ NewId \in Nat \ {0} /\ NewId \notin DOMAIN orders
      /\ DOMAIN orders \subseteq DOMAIN more
      /\ \A n \in DOMAIN orders : more[n] = orders[n]
      /\ more[NewId] = [sym |-> sym, side |-> side, qty |-> qty, limit |-> limit, status |-> status]
  BY <1>1, Registering
<1>3. DOMAIN more = DOMAIN orders \cup {NewId} /\ more[NewId].status = status /\ more[NewId].qty = qty
  <2>1. ASSUME NEW n \in Nat \ {0} PROVE 1..n = 1..(n - 1) \cup {n}
    OBVIOUS
  <2> QED BY <1>2, <2>1
<1>4. \A k \in DOMAIN fills : fills[k].id \in DOMAIN orders
  BY DEF Told
<1> HIDE DEF NewId
<1>5. Working(more) = IF status = "NEW" THEN Working(orders) \cup {NewId} ELSE Working(orders)
  BY <1>2, <1>3 DEF Working
<1>6. \A id \in DOMAIN more : more[id].status = "FILLED" <=> \E k \in DOMAIN fills : fills[k].id = id
  <2>1. \A id \in DOMAIN orders : more[id].status = "FILLED" <=> \E k \in DOMAIN fills : fills[k].id = id
    BY <1>2 DEF Reported
  <2> QED BY <1>2, <1>3, <1>4, <2>1
<1>7. \A id \in Working(more) : more[id].qty # 0
  BY <1>2, <1>3, <1>5 DEF Reported, Working
<1> QED BY <1>5, <1>6, <1>7 DEF Reported

\* Listeners submit, if they call back at all, and no order is for nothing.
OnlySubmitting == ListenerCalls \subseteq {"submit"} /\ 0 \notin Quantities

\* The one list.
LEMMA TheList ==
  ASSUME Inv, RestInv
  PROVE  /\ Resting = heap.lists[1] /\ Resting \in Seq(Nat) /\ heap.resting = 1
         /\ heap = [lists |-> <<Resting>>, resting |-> 1] /\ DOMAIN heap.lists = {1}
         /\ \A j \in DOMAIN Resting : Resting[j] \in DOMAIN orders
         /\ Rested(orders, quotes, Resting, stack)
<1>1. /\ heap.lists \in Seq(Seq(Nat)) /\ Len(heap.lists) = 1 /\ heap.resting = 1
      /\ heap = [lists |-> heap.lists, resting |-> heap.resting]
      /\ \A n \in DOMAIN heap.lists : Ids(orders, heap.lists[n])
  BY DEF Inv, Typed, Lists, RestInv, OneLoop
<1>2. heap.lists = <<heap.lists[1]>> /\ DOMAIN heap.lists = {1} /\ heap.lists[1] \in Seq(Nat)
  BY <1>1
<1>3. Resting = heap.lists[1]
  BY <1>1 DEF Resting
<1> QED BY <1>1, <1>2, <1>3 DEF Ids, RestInv

\* The one loop.
LEMMA TheLoop ==
  ASSUME Inv, RestInv, Running("quote")
  PROVE  /\ Looping(stack) /\ stack[1] = Last(stack) /\ Front(stack) = <<>> /\ stack = <<Last(stack)>>
         /\ Last(stack) \in LoopRec /\ Ids(orders, Last(stack).kept)
         /\ heap.lists[Last(stack).list] = Resting
<1>1. stack \in Seq(Frame) /\ stack # <<>> /\ Last(stack).at = "quote"
  BY DEF Inv, Typed, Calls, Running, Idle
<1>2. /\ Len(stack) \in Nat \ {0} /\ Last(stack) = stack[Len(stack)]
      /\ Front(stack) \in Seq(Frame) /\ Len(Front(stack)) = Len(stack) - 1
  BY <1>1, LastAndFront
<1>3. Len(stack) = 1
  <2>1. DOMAIN stack = 1..Len(stack)
    BY <1>1
  <2>2. Len(stack) > 1 => Last(stack) = Listener
    BY <1>2, <2>1 DEF RestInv, OneLoop
  <2> QED BY <1>1, <1>2, <2>2 DEF Listener
<1>4. Front(stack) = <<>>
  BY <1>2, <1>3
<1>5. /\ Last(stack) \in LoopRec /\ Last(stack).list \in DOMAIN heap.lists
      /\ Ids(orders, Last(stack).kept)
  BY InnermostLoop DEF Inv
<1>6. heap.lists[Last(stack).list] = Resting
  BY <1>5, TheList
<1>7. stack = <<Last(stack)>> /\ stack[1] = Last(stack)
  BY <1>1, <1>2, <1>3
<1> QED BY <1>1, <1>4, <1>5, <1>6, <1>7 DEF Looping

\* Nothing divides by zero.
LEMMA FillsForGood ==
  ASSUME NEW os \in Seq(OrderRec), NEW id \in DOMAIN os, os[id].qty # 0, NEW price \in Nat, NEW below,
         Fill(os, id, price, below)
  PROVE  /\ orders' = [os EXCEPT ![id] = Done(os[id])]
         /\ fills' = Append(fills, [id |-> id, price |-> price, qty |-> os[id].qty])
         /\ [id |-> id, price |-> price, qty |-> os[id].qty] \in FillRec
         /\ below \in Seq(Frame) => stack' = Append(below, Listener) /\ heap' = heap
<1>1. os[id] \in OrderRec /\ id \in Nat
  OBVIOUS
<1>2. ~DividesByZero(acct, os[id])
  BY DEF DividesByZero
<1>3. below \in Seq(Frame) => Append(below, Listener) # <<>>
  BY DEF Frame
<1> QED BY <1>1, <1>2, <1>3 DEF Fill, Done, Returns, FillRec, OrderRec

\* A listener on top leaves the loop where it is.
LEMMA ListenerOnTop ==
  ASSUME NEW h, NEW s \in Seq(Frame), OneLoop(h, s)
  PROVE  LET t == Append(s, Listener) IN
         OneLoop(h, t) /\ (Looping(t) <=> Looping(s)) /\ (Looping(s) => t[1] = s[1])
<1> DEFINE n == Len(s)
           t == Append(s, Listener)
<1>1. /\ DOMAIN t = 1..(n + 1) /\ n \in Nat /\ DOMAIN s = 1..n /\ t[n + 1] = Listener
      /\ \A k \in 1..n : t[k] = s[k]
      /\ t # <<>> /\ (s = <<>> <=> n = 0)
  BY DEF Frame
<1> HIDE DEF t, n
<1>2. \A k \in DOMAIN t : k > 1 => t[k] = Listener
  BY <1>1 DEF OneLoop
<1>3. (Looping(t) <=> Looping(s)) /\ (Looping(s) => t[1] = s[1])
  <2>1. CASE n = 0
    BY <1>1, <2>1 DEF Looping, Listener
  <2>2. CASE n # 0
    <3>1. 1 \in 1..n
      BY <1>1, <2>2
    <3>2. t[1] = s[1]
      BY <1>1, <3>1
    <3> QED BY <1>1, <2>2, <3>2 DEF Looping
  <2> QED BY <2>1, <2>2
<1> QED BY <1>2, <1>3 DEF OneLoop, t

LEMMA QuoteStartsRight ==
  ASSUME Inv, RestInv, OnlySubmitting, NEW sym \in Symbols, NEW bid \in Prices, NEW ask \in Prices,
         OnQuote(sym, bid, ask)
  PROVE  RestInv'
<1> DEFINE loop == Loop(sym, bid, ask)
<1>1. stack = <<>> /\ stack' = <<loop>> /\ UNCHANGED <<orders, heap, acct, rejected, fills>>
  <2>1. Idle
    BY DEF OnQuote, MayCall, OnlySubmitting
  <2> QED BY <2>1 DEF OnQuote, Idle
<1>2. /\ loop.at = "quote" /\ loop.i = 1 /\ loop.kept = <<>> /\ loop.sym = sym
      /\ loop.bid = bid /\ loop.ask = ask
  BY DEF Loop
<1>3. /\ quotes'[sym] = [bid |-> bid, ask |-> ask]
      /\ \A s \in Symbols : s # sym => quotes'[s] = quotes[s]
  BY DEF OnQuote, Inv, Typed
<1> HIDE DEF loop
<1>4. /\ Resting = heap.lists[1] /\ Resting \in Seq(Nat) /\ Rested(orders, quotes, Resting, stack)
  BY TheList
<1>5. Between(orders, quotes, Resting) /\ Increasing(Resting)
  BY <1>1, <1>4 DEF Rested, Looping
<1>6. Ahead(Resting, loop) = ToSet(Resting)
  <2>1. \A j \in DOMAIN Resting : 1 <= j
    BY <1>4
  <2> QED BY <1>2, <2>1 DEF Ahead, ToSet
<1>7. Midway(orders, quotes', Resting, loop)
  <2>1. loop.i <= Len(Resting) + 1
    BY <1>2, <1>4
  <2>2. ToSet(<<>>) = {} /\ Increasing(<<>>)
    BY DEF ToSet, Increasing
  <2>3. \A id \in Working(orders) : orders[id].sym \in Symbols
    <3>1. \A id \in DOMAIN orders : orders[id] \in OrderRec
      BY DEF Inv, Typed
    <3> QED BY <3>1 DEF Working, OrderRec
  <2>4. \A id \in Working(orders) : orders[id].sym # sym => Uncrossed(orders, quotes', id)
    BY <1>3, <1>5, <2>3 DEF Between, Uncrossed
  <2> QED BY <1>2, <1>3, <1>5, <1>6, <2>1, <2>2, <2>4 DEF Midway, Between
<1>8. OneLoop(heap', stack')
  BY <1>1 DEF OneLoop, RestInv
<1>9. Rested(orders, quotes', Resting, stack')
  BY <1>1, <1>2, <1>5, <1>7 DEF Rested, Looping
<1> QED BY <1>1, <1>4, <1>8, <1>9 DEF RestInv

LEMMA QuoteVisitsRight ==
  ASSUME Inv, RestInv, VisitResting
  PROVE  RestInv'
<1> DEFINE loop == Last(stack)
           id == Resting[loop.i]
           o == orders[id]
<1>1. /\ Looping(stack) /\ stack[1] = loop /\ Front(stack) = <<>> /\ loop \in LoopRec
      /\ Ids(orders, loop.kept) /\ heap.lists[loop.list] = Resting /\ stack = <<loop>>
  BY TheLoop DEF VisitResting
<1>2. /\ Resting = heap.lists[1] /\ Resting \in Seq(Nat) /\ Rested(orders, quotes, Resting, stack)
      /\ \A j \in DOMAIN Resting : Resting[j] \in DOMAIN orders
  BY TheList
<1>3. Midway(orders, quotes, Resting, loop) /\ Increasing(Resting)
  BY <1>1, <1>2 DEF Rested
<1>4. loop.i \in 1..Len(Resting) /\ id \in DOMAIN orders /\ id \in Nat /\ loop.i \in Nat \ {0}
  <2>1. loop.i <= Len(Resting) /\ loop.i \in Nat \ {0}
    BY <1>1 DEF VisitResting, LoopRec
  <2> HIDE DEF loop
  <2> QED BY <1>2, <2>1
<1>5. o \in OrderRec /\ orders \in Seq(OrderRec) /\ o.sym \in Symbols /\ Told(orders, fills)
  <2>1. orders \in Seq(OrderRec) /\ Told(orders, fills)
    BY DEF Inv, Typed
  <2> HIDE DEF id
  <2>2. o \in OrderRec
    BY <1>4, <2>1
  <2>3. o.sym \in Symbols
    <3> HIDE DEF o
    <3> QED BY <2>2 DEF OrderRec
  <2> QED BY <2>1, <2>2, <2>3
<1>6. UNCHANGED quotes
  BY DEF VisitResting
<1>7. IF o.sym = loop.sym /\ Crosses(loop, o.side, o.limit)
      THEN Fill(orders, id, BestOf(loop, o), Append(Front(stack), Passed(loop)))
      ELSE stack' = <<Kept(loop, id)>> /\ UNCHANGED <<orders, heap, acct, fills>>
  BY <1>1 DEF VisitResting
<1>8. /\ Passed(loop) \in LoopRec /\ Passed(loop).list = loop.list /\ Passed(loop).kept = loop.kept
      /\ Passed(loop).i = loop.i + 1 /\ Passed(loop).at = "quote" /\ Passed(loop).sym = loop.sym
      /\ Passed(loop).bid = loop.bid /\ Passed(loop).ask = loop.ask
  <2> HIDE DEF loop
  <2>1. PICK n \in Nat \ {0} : n = loop.i + 1
    BY <1>1, <1>4
  <2>2. Passed(loop) = [loop EXCEPT !.i = n]
    BY <2>1 DEF Passed
  <2> QED BY <1>1, <2>1, <2>2 DEF LoopRec
<1>9. /\ Kept(loop, id).kept = Append(loop.kept, id) /\ Kept(loop, id).i = loop.i + 1
      /\ Kept(loop, id).sym = loop.sym /\ Kept(loop, id).at = "quote"
      /\ Kept(loop, id).bid = loop.bid /\ Kept(loop, id).ask = loop.ask
      /\ loop.kept \in Seq(Nat) /\ loop.i + 1 <= Len(Resting) + 1
  <2>1. loop.kept \in Seq(Nat)
    BY <1>1 DEF LoopRec
  <2>2. loop.i + 1 <= Len(Resting) + 1
    <3> HIDE DEF loop
    <3> QED BY <1>2, <1>4
  <2> QED BY <1>1, <1>4, <2>1, <2>2, OneMoreKept
<1>10. BestOf(loop, o) \in Nat
  <2> HIDE DEF loop, o
  <2> QED BY <1>1, <1>5 DEF BestOf, LoopRec, OrderRec
<1> HIDE DEF loop, id, o
<1>11. ASSUME NEW next, next.i = loop.i + 1
       PROVE  /\ Ahead(Resting, loop) = Ahead(Resting, next) \cup {id}
              /\ (\A y \in Ahead(Resting, next) : id < y) /\ id \notin Ahead(Resting, next)
  <2>1. loop.i <= Len(Resting)
    BY <1>2, <1>4
  <2> QED BY <1>1, <1>2, <1>3, <1>11, <2>1, MovingOn DEF id
<1>12. /\ id \in Working(orders) /\ (\A x \in ToSet(loop.kept) : x < id) /\ id \notin ToSet(loop.kept)
  <2>1. id \in Ahead(Resting, loop)
    BY <1>8, <1>11
  <2>2. id \in Working(orders) /\ \A x \in ToSet(loop.kept) : x < id
    BY <1>3, <2>1 DEF Midway
  <2>3. ~(id < id)
    BY <1>4
  <2> QED BY <2>2, <2>3
<1>13. CASE o.sym = loop.sym /\ Crosses(loop, o.side, o.limit)
  <2> DEFINE next == Passed(loop)
             f == [id |-> id, price |-> BestOf(loop, o), qty |-> o.qty]
  <2>1. o.qty # 0
    BY <1>12 DEF RestInv, Reported, o
  <2>2. Append(<<>>, next) = <<next>> /\ <<next>> \in Seq(Frame) /\ Append(<<next>>, Listener) = <<next, Listener>>
    <3>1. next \in Frame /\ Listener \in Frame
      BY <1>8 DEF Frame
    <3> HIDE DEF next
    <3>2. Append(<<>>, next) = <<next>> /\ <<next>> \in Seq(Frame)
      BY <3>1
    <3> QED BY <3>2, TwoElements
  <2>3. Fill(orders, id, BestOf(loop, o), <<next>>)
    BY <1>1, <1>7, <1>13, <2>2
  <2>4. /\ orders' = [orders EXCEPT ![id] = Done(orders[id])] /\ fills' = Append(fills, f)
        /\ f \in FillRec /\ stack' = <<next, Listener>> /\ heap' = heap
    BY <1>4, <1>5, <1>10, <2>1, <2>2, <2>3, FillsForGood DEF o
  <2>5. Reported(orders', fills')
    <3>1. f.id = id
      OBVIOUS
    <3> HIDE DEF f
    <3> QED BY <1>5, <1>12, <2>4, <3>1, ReportingOne DEF RestInv
  <2>6. /\ Working(orders') = Working(orders) \ {id}
        /\ \A n \in DOMAIN orders : n # id => orders'[n] = orders[n]
    BY <1>4, <1>5, <2>4, DoneWorking
  <2> HIDE DEF next, f
  <2>7. Midway(orders', quotes, Resting, next)
    <3>1. /\ Ahead(Resting, loop) = Ahead(Resting, next) \cup {id} /\ id \notin Ahead(Resting, next)
          /\ next.kept = loop.kept /\ next.sym = loop.sym /\ next.bid = loop.bid /\ next.ask = loop.ask
          /\ next.i <= Len(Resting) + 1
      BY <1>8, <1>9, <1>11 DEF next
    <3>2. ToSet(next.kept) \cup Ahead(Resting, next) = Working(orders')
      BY <1>3, <1>12, <2>6, <3>1 DEF Midway
    <3>3. ASSUME NEW n \in Working(orders')
          PROVE  Uncrossed(orders', quotes, n) \/ (orders'[n].sym = next.sym /\ n \in Ahead(Resting, next))
      <4>1. n \in Working(orders) /\ n # id /\ orders'[n] = orders[n]
        BY <2>6 DEF Working
      <4>2. Uncrossed(orders', quotes, n) <=> Uncrossed(orders, quotes, n)
        BY <4>1 DEF Uncrossed
      <4> QED BY <1>3, <3>1, <4>1, <4>2 DEF Midway
    <3> QED BY <1>3, <3>1, <3>2, <3>3 DEF Midway
  <2>8. Looping(stack') /\ stack'[1] = next /\ \A k \in DOMAIN stack' : k > 1 => stack'[k] = Listener
    <3>1. next.at = "quote"
      BY <1>8 DEF next
    <3> QED BY <2>4, <3>1 DEF Looping
  <2>9. Rested(orders', quotes, Resting, stack')
    BY <1>3, <2>7, <2>8 DEF Rested
  <2>10. OneLoop(heap', stack')
    BY <2>4, <2>8 DEF OneLoop, RestInv
  <2> QED BY <1>2, <1>6, <2>4, <2>5, <2>9, <2>10 DEF RestInv
<1>14. CASE ~(o.sym = loop.sym /\ Crosses(loop, o.side, o.limit))
  <2> DEFINE next == Kept(loop, id)
  <2>1. stack' = <<next>> /\ UNCHANGED <<orders, heap, acct, fills>>
    BY <1>7, <1>14
  <2>2. /\ next.kept = Append(loop.kept, id) /\ next.i = loop.i + 1
        /\ next.sym = loop.sym /\ next.at = "quote"
        /\ next.bid = loop.bid /\ next.ask = loop.ask
    BY <1>9
  <2> HIDE DEF next
  <2>3. /\ Ahead(Resting, loop) = Ahead(Resting, next) \cup {id}
        /\ \A y \in Ahead(Resting, next) : id < y
    BY <1>11, <2>2
  <2>4. ToSet(next.kept) = ToSet(loop.kept) \cup {id} /\ Increasing(next.kept)
    BY <1>3, <1>4, <1>9, <1>12, <2>2, Appending DEF Midway
  <2>5. Uncrossed(orders, quotes, id)
    <3>1. CASE o.sym # loop.sym
      BY <1>3, <1>12, <3>1 DEF Midway, o
    <3>2. CASE o.sym = loop.sym
      <4>1. quotes[o.sym] = [bid |-> loop.bid, ask |-> loop.ask]
        BY <1>3, <3>2 DEF Midway
      <4>2. ~Crosses(loop, o.side, o.limit)
        BY <1>14, <3>2
      <4> QED BY <4>1, <4>2 DEF Uncrossed, Crosses, o
    <3> QED BY <3>1, <3>2
  <2>6. \A x \in ToSet(next.kept), y \in Ahead(Resting, next) : x < y
    BY <1>3, <2>3, <2>4 DEF Midway
  <2>7. ToSet(next.kept) \cup Ahead(Resting, next) = Working(orders)
    BY <1>3, <2>3, <2>4 DEF Midway
  <2>8. \A n \in Working(orders) :
          Uncrossed(orders, quotes, n) \/ (orders[n].sym = next.sym /\ n \in Ahead(Resting, next))
    BY <1>3, <2>2, <2>3, <2>5 DEF Midway
  <2>9. Midway(orders, quotes, Resting, next)
    BY <1>3, <1>9, <2>2, <2>4, <2>6, <2>7, <2>8 DEF Midway
  <2>10. Rested(orders, quotes, Resting, stack') /\ OneLoop(heap', stack')
    BY <1>3, <2>1, <2>2, <2>9 DEF Rested, Looping, OneLoop, RestInv
  <2> QED BY <1>2, <1>6, <2>1, <2>10 DEF RestInv
<1> QED BY <1>13, <1>14

\* Nothing iterates a list when the one loop is over.
LEMMA QuoteFinishesRight ==
  ASSUME Inv, RestInv, FinishQuote
  PROVE  RestInv'
<1> DEFINE loop == Last(stack)
           kept == loop.kept
<1>1. /\ Looping(stack) /\ stack[1] = loop /\ Front(stack) = <<>> /\ loop \in LoopRec
      /\ heap.lists[loop.list] = Resting
  BY TheLoop DEF FinishQuote
<1>2. /\ Resting \in Seq(Nat) /\ Rested(orders, quotes, Resting, stack)
      /\ heap = [lists |-> <<Resting>>, resting |-> 1]
  BY TheList
<1>3. Midway(orders, quotes, Resting, loop) /\ kept \in Seq(Nat)
  BY <1>1, <1>2 DEF Rested, LoopRec
<1>4. loop.i > Len(Resting) /\ UNCHANGED <<orders, quotes, acct, rejected, fills>>
      /\ Returns(<<>>, Rebound(<<>>, kept))
  BY <1>1 DEF FinishQuote
<1>5. Ahead(Resting, loop) = {}
  <2>1. loop.i \in Nat /\ Len(Resting) \in Nat /\ DOMAIN Resting = 1..Len(Resting)
    BY <1>1, <1>2 DEF LoopRec
  <2> HIDE DEF loop
  <2> QED BY <1>4, <2>1 DEF Ahead
<1>6. Rebound(<<>>, kept).lists[1] = kept /\ Rebound(<<>>, kept).resting = 1
  <2>1. Iterated(<<>>) = {}
    BY DEF Iterated
  <2> DEFINE n == CHOOSE h \in 1..(Len(heap.lists) + 1) :
                    h \notin Iterated(<<>>) /\ 1..(h - 1) \subseteq Iterated(<<>>)
  <2>2. heap.lists = <<Resting>> /\ Len(heap.lists) = 1 /\ heap.lists \in Seq(Seq(Nat))
    BY <1>2
  <2>3. n = 1
    <3>1. \A h \in 1..2 : 1..(h - 1) \subseteq {} <=> h = 1
      <4>1. ASSUME NEW h \in 1..2, h # 1 PROVE 1 \in 1..(h - 1)
        <5>1. h - 1 = 1
          BY <4>1
        <5> QED BY <5>1
      <4>2. 1..(1 - 1) = {}
        OBVIOUS
      <4> QED BY <4>1, <4>2
    <3>2. n \in 1..2 /\ 1..(n - 1) \subseteq {}
      <4>1. 1 \in 1..2 /\ 1 \notin {} /\ 1..(1 - 1) \subseteq {}
        OBVIOUS
      <4> QED BY <2>1, <2>2, <4>1
    <3> HIDE DEF n
    <3> QED BY <3>1, <3>2
  <2> DEFINE head == [h \in 1..n |-> IF h = n THEN kept ELSE heap.lists[h]]
             tail == SubSeq(heap.lists, n + 1, Len(heap.lists))
  <2> HIDE DEF n, kept
  <2>4. head \in Seq(Seq(Nat)) /\ Len(head) = 1 /\ head[1] = kept /\ tail \in Seq(Seq(Nat))
    BY <1>3, <2>2, <2>3
  <2> HIDE DEF head, tail
  <2>5. (head \o tail)[1] = kept
    <3>1. 1 \in 1..(Len(head) + Len(tail)) /\ 1 <= Len(head)
      BY <2>4
    <3>2. (head \o tail)[1] = head[1]
      BY <2>4, <3>1, ConcatProperties, Zenon, SMTT(30)
    <3> QED BY <2>4, <3>2
  <2> QED BY <2>3, <2>5 DEF Rebound, head, tail, n
<1> HIDE DEF kept, loop
<1>7. heap' = [lists |-> <<kept>>, resting |-> 1] /\ stack' = <<>>
  BY <1>4, <1>6 DEF Returns
<1>8. heap'.lists[1] = kept /\ OneLoop(heap', stack') /\ ~Looping(stack')
  BY <1>7 DEF OneLoop, Looping
<1>9. Increasing(kept) /\ Between(orders, quotes, kept)
  <2>1. ToSet(kept) = Working(orders)
    BY <1>3, <1>5 DEF Midway, kept
  <2>2. \A id \in Working(orders) : Uncrossed(orders, quotes, id)
    BY <1>3, <1>5 DEF Midway
  <2> QED BY <1>3, <2>1, <2>2 DEF Midway, Between, kept
<1>10. Rested(orders, quotes, kept, stack')
  BY <1>8, <1>9 DEF Rested
<1> QED BY <1>4, <1>8, <1>10 DEF RestInv

\* The three ends of a submission, which may be a listener's.
LEMMA RefusesRight ==
  ASSUME Inv, RestInv, NEW sym \in Symbols, NEW side \in Sides, NEW qty \in Nat \ {0},
         NEW limit \in Nat, Reject(sym, side, qty, limit)
  PROVE  RestInv'
<1>1. orders \in Seq(OrderRec) /\ Told(orders, fills) /\ Reported(orders, fills)
  BY DEF Inv, Typed, RestInv
<1>2. /\ orders' = Registered(sym, side, qty, limit, "REJECTED")
      /\ UNCHANGED <<quotes, heap, stack, fills>>
  BY DEF Reject
<1>3. Reported(orders', fills) /\ Working(orders') = Working(orders)
  BY <1>1, <1>2, ReportedStill
<1>4. \A n \in DOMAIN orders : orders'[n] = orders[n]
  BY <1>1, <1>2 DEF Registered
<1>5. Rested(orders', quotes, heap.lists[1], stack)
  <2>1. Rested(orders, quotes, heap.lists[1], stack)
    BY DEF RestInv
  <2>2. \A n \in Working(orders) : orders'[n] = orders[n]
    BY <1>4 DEF Working
  <2> QED BY <1>3, <2>1, <2>2, RestedByWorking
<1> QED BY <1>2, <1>3, <1>5 DEF RestInv

LEMMA RestsRight ==
  ASSUME Inv, RestInv, NEW sym \in Symbols, NEW side \in Sides, NEW qty \in Nat \ {0},
         NEW limit \in Nat, Rest(sym, side, qty, limit),
         quotes[sym] # NoQuote => ~Crosses(quotes[sym], side, limit)
  PROVE  RestInv'
<1>1. orders \in Seq(OrderRec) /\ Told(orders, fills) /\ Reported(orders, fills)
  BY DEF Inv, Typed, RestInv
<1>2. /\ orders' = Registered(sym, side, qty, limit, "NEW")
      /\ UNCHANGED <<quotes, stack, fills>>
  BY DEF Rest
<1>3. Reported(orders', fills) /\ Working(orders') = Working(orders) \cup {NewId}
  BY <1>1, <1>2, ReportedStill
<1>4. /\ DOMAIN orders = 1..(NewId - 1) /\ NewId \in Nat \ {0}
      /\ \A n \in DOMAIN orders : orders'[n] = orders[n] /\ n < NewId
      /\ orders'[NewId].sym = sym /\ orders'[NewId].side = side /\ orders'[NewId].limit = limit
  BY <1>1, <1>2 DEF Registered, NewId
<1> DEFINE l == Resting
           longer == Append(l, NewId)
<1>5. /\ l = heap.lists[1] /\ l \in Seq(Nat) /\ heap.resting = 1 /\ Rested(orders, quotes, l, stack)
      /\ heap = [lists |-> <<l>>, resting |-> 1]
      /\ \A j \in DOMAIN l : l[j] \in DOMAIN orders
  BY TheList
<1>6. heap' = [lists |-> <<longer>>, resting |-> 1]
  <2>1. heap' = [heap EXCEPT !.lists[1] = longer]
    BY <1>5 DEF Rest
  <2> HIDE DEF longer, l
  <2> QED BY <1>5, <2>1
<1> HIDE DEF NewId
<1>7. /\ ToSet(longer) = ToSet(l) \cup {NewId} /\ (\A y \in ToSet(l) : y < NewId)
      /\ \A i \in 1..(Len(l) + 1) : \A loop : loop.i = i => Ahead(longer, loop) = Ahead(l, loop) \cup {NewId}
      /\ Increasing(longer)
  <2>1. \A y \in ToSet(l) : y < NewId
    BY <1>4, <1>5 DEF ToSet
  <2> HIDE DEF l
  <2>2. Increasing(l)
    BY <1>5 DEF Rested
  <2> QED BY <1>4, <1>5, <2>1, <2>2, Appending
<1>8. Len(longer) = Len(l) + 1 /\ Len(l) \in Nat
  BY <1>5
<1> HIDE DEF l, longer
<1>9. Uncrossed(orders', quotes, NewId) /\ \A n \in Working(orders) :
        (Uncrossed(orders', quotes, n) <=> Uncrossed(orders, quotes, n)) /\ orders'[n].sym = orders[n].sym
  BY <1>4 DEF Uncrossed, Working
<1>10. ASSUME Looping(stack) PROVE Midway(orders', quotes, longer, stack[1])
  <2> DEFINE loop == stack[1]
  <2>1. Midway(orders, quotes, l, loop)
    BY <1>5, <1>10 DEF Rested
  <2>2. loop \in LoopRec /\ Ids(orders, loop.kept)
    <3>1. stack \in Seq(Frame) /\ stack # <<>> /\ loop.at = "quote" /\ Calls(orders, heap, stack)
      BY <1>10 DEF Looping, Inv, Typed, Calls
    <3>2. 1 \in DOMAIN stack
      BY <3>1
    <3> QED BY <3>1, <3>2 DEF Frame, Listener, Calls
  <2>3. loop.i \in Nat \ {0} /\ \A x \in ToSet(loop.kept) : x < NewId
    BY <1>4, <2>2 DEF LoopRec, Ids, ToSet
  <2> HIDE DEF loop
  <2>4. loop.i \in 1..(Len(l) + 1) /\ loop.i <= Len(longer) + 1
    BY <1>8, <2>1, <2>3 DEF Midway
  <2>5. Ahead(longer, loop) = Ahead(l, loop) \cup {NewId}
    BY <1>7, <2>4
  <2>6. \A x \in ToSet(loop.kept), y \in Ahead(longer, loop) : x < y
    BY <2>1, <2>3, <2>5 DEF Midway
  <2>7. ToSet(loop.kept) \cup Ahead(longer, loop) = Working(orders')
    BY <1>3, <2>1, <2>5 DEF Midway
  <2>8. \A n \in Working(orders') :
          Uncrossed(orders', quotes, n) \/ (orders'[n].sym = loop.sym /\ n \in Ahead(longer, loop))
    BY <1>3, <1>9, <2>1, <2>5 DEF Midway
  <2> QED BY <2>1, <2>4, <2>6, <2>7, <2>8 DEF Midway, loop
<1>11. ASSUME ~Looping(stack) PROVE Between(orders', quotes, longer)
  BY <1>3, <1>5, <1>7, <1>9, <1>11 DEF Between, Rested
<1>12. Rested(orders', quotes, longer, stack)
  BY <1>7, <1>10, <1>11 DEF Rested
<1>13. OneLoop(heap', stack) /\ heap'.lists[1] = longer
  BY <1>6 DEF OneLoop, RestInv
<1> QED BY <1>2, <1>3, <1>12, <1>13 DEF RestInv

LEMMA FillsRight ==
  ASSUME Inv, RestInv, NEW sym \in Symbols, NEW side \in Sides, NEW qty \in Nat \ {0},
         NEW limit \in Nat, FillNew(sym, side, qty, limit)
  PROVE  RestInv'
<1> DEFINE os == Registered(sym, side, qty, limit, "NEW")
           price == Touch(quotes[sym], side)
           f == [id |-> NewId, price |-> price, qty |-> os[NewId].qty]
<1>1. /\ orders \in Seq(OrderRec) /\ Told(orders, fills) /\ Reported(orders, fills)
      /\ stack \in Seq(Frame)
  BY DEF Inv, Typed, RestInv, Calls
<1>2. /\ os \in Seq(OrderRec) /\ DOMAIN orders \subseteq DOMAIN os /\ NewId \in DOMAIN os
      /\ NewId \notin DOMAIN orders
      /\ \A n \in DOMAIN orders : os[n] = orders[n]
      /\ os[NewId] = [sym |-> sym, side |-> side, qty |-> qty, limit |-> limit, status |-> "NEW"]
  <2>1. "NEW" \in Status
    BY DEF Status
  <2> QED BY <1>1, <2>1, Registering
<1>3. price \in Nat
  BY DEF Touch, Inv, Typed, Quotes
<1>4. Fill(os, NewId, price, stack) /\ UNCHANGED quotes
  BY DEF FillNew
<1>5. Reported(os, fills) /\ Working(os) = Working(orders) \cup {NewId}
  BY <1>1, ReportedStill
<1> HIDE DEF os, price
<1>6. Told(os, fills)
  BY <1>1, <1>2, MoreOrders DEF Inv, Typed
<1>7. os[NewId].qty # 0
  BY <1>2
<1>8. /\ orders' = [os EXCEPT ![NewId] = Done(os[NewId])] /\ fills' = Append(fills, f)
      /\ f \in FillRec /\ stack' = Append(stack, Listener) /\ heap' = heap
  BY <1>1, <1>2, <1>3, <1>4, <1>7, FillsForGood, SMTT(30)
<1>9. f.id = NewId
  OBVIOUS
<1> HIDE DEF f, NewId
<1>10. Reported(orders', fills')
  <2>1. NewId \in Working(os)
    BY <1>5
  <2> QED BY <1>2, <1>5, <1>6, <1>8, <1>9, <2>1, ReportingOne
<1>11. Working(orders') = Working(orders) /\ \A n \in Working(orders) : orders'[n] = orders[n]
  <2>1. /\ Working(orders') = Working(os) \ {NewId}
        /\ \A n \in DOMAIN os : n # NewId => orders'[n] = os[n]
    BY <1>2, <1>8, DoneWorking
  <2>2. NewId \notin Working(orders)
    BY <1>2 DEF Working
  <2> QED BY <1>2, <1>5, <2>1, <2>2 DEF Working
<1>12. /\ OneLoop(heap, stack') /\ (Looping(stack') <=> Looping(stack))
       /\ (Looping(stack) => stack'[1] = stack[1])
  BY <1>1, <1>8, ListenerOnTop DEF RestInv
<1>13. Rested(orders', quotes, heap.lists[1], stack')
  BY <1>11, <1>12, RestedByWorking DEF RestInv
<1> QED BY <1>4, <1>8, <1>10, <1>12, <1>13 DEF RestInv

\* Between calls the working order that is cancelled is in the list.
LEMMA CancelsRight ==
  ASSUME Inv, RestInv, OnlySubmitting, NEW id \in DOMAIN orders, Cancel(id)
  PROVE  RestInv'
<1>1. /\ stack = <<>> /\ id \in Working(orders) /\ UNCHANGED <<quotes, stack, fills>>
      /\ orders' = [orders EXCEPT ![id].status = "CANCELED"] /\ orders \in Seq(OrderRec)
  <2>1. Idle
    BY DEF Cancel, MayCall, OnlySubmitting
  <2> QED BY <2>1 DEF Cancel, Idle, Working, Inv, Typed
<1> DEFINE l == Resting
           shorter == RemoveFirst(l, id)
<1>2. /\ l = heap.lists[1] /\ l \in Seq(Nat) /\ heap.resting = 1 /\ Rested(orders, quotes, l, stack)
      /\ heap = [lists |-> <<l>>, resting |-> 1]
  BY TheList
<1>3. heap' = [lists |-> <<shorter>>, resting |-> 1]
  <2>1. heap' = [heap EXCEPT !.lists[1] = shorter]
    BY <1>2 DEF Cancel
  <2> HIDE DEF shorter, l
  <2> QED BY <1>2, <2>1
<1> HIDE DEF l
<1>4. Increasing(l) /\ Between(orders, quotes, l)
  BY <1>1, <1>2 DEF Rested, Looping
<1>5. Increasing(shorter) /\ ToSet(shorter) = ToSet(l) \ {id}
  <2>1. id \in ToSet(l)
    BY <1>1, <1>4 DEF Between
  <2> QED BY <1>2, <1>4, <2>1, TakingOut
<1> HIDE DEF shorter
<1>6. /\ DOMAIN orders' = DOMAIN orders
      /\ \A n \in DOMAIN orders :
           /\ orders'[n].sym = orders[n].sym /\ orders'[n].side = orders[n].side
           /\ orders'[n].limit = orders[n].limit /\ orders'[n].qty = orders[n].qty
           /\ orders'[n].status = IF n = id THEN "CANCELED" ELSE orders[n].status
  <2>1. orders[id] \in OrderRec
    BY <1>1
  <2> QED BY <1>1, <2>1 DEF OrderRec
<1>7. Working(orders') = Working(orders) \ {id}
  BY <1>6 DEF Working
<1>8. Between(orders', quotes, shorter)
  BY <1>4, <1>5, <1>6, <1>7 DEF Between, Uncrossed, Working
<1>9. Reported(orders', fills)
  <2>1. orders[id].status = "NEW"
    BY <1>1 DEF Working
  <2> QED BY <1>6, <1>7, <2>1 DEF Reported, RestInv, Working
<1>10. OneLoop(heap', stack) /\ heap'.lists[1] = shorter
  BY <1>1, <1>3 DEF OneLoop
<1>11. Rested(orders', quotes, shorter, stack)
  BY <1>1, <1>5, <1>8 DEF Rested, Looping
<1> QED BY <1>1, <1>9, <1>10, <1>11 DEF RestInv

LEMMA ListenerReturnsRight ==
  ASSUME Inv, RestInv, ListenerReturns
  PROVE  RestInv'
<1>1. stack \in Seq(Frame) /\ stack # <<>> /\ Last(stack).at = "listener"
  BY DEF ListenerReturns, Running, Idle, Inv, Typed, Calls
<1> DEFINE n == Len(stack) - 1
           s == Front(stack)
<1>2. /\ n \in Nat /\ s \in Seq(Frame) /\ Len(s) = n /\ DOMAIN s = 1..n /\ DOMAIN stack = 1..(n + 1)
      /\ \A k \in 1..n : s[k] = stack[k]
      /\ Last(stack) = stack[n + 1]
  BY <1>1, LastAndFront
<1>3. Returns(s, heap) /\ UNCHANGED <<orders, quotes, fills>>
  BY DEF ListenerReturns
<1> HIDE DEF n, s
<1>4. stack' = s /\ heap' = heap
  BY <1>3, TheList DEF Returns
<1>5. (Looping(s) <=> Looping(stack)) /\ (Looping(stack) => s[1] = stack[1])
  <2>1. CASE n = 0
    <3>1. s = <<>> /\ stack[1].at = "listener"
      BY <1>1, <1>2, <2>1
    <3> QED BY <3>1 DEF Looping
  <2>2. CASE n # 0
    <3>1. s # <<>> /\ s[1] = stack[1]
      BY <1>2, <2>2
    <3> QED BY <1>1, <3>1 DEF Looping
  <2> QED BY <2>1, <2>2
<1>6. OneLoop(heap, s)
  <2>1. \A k \in DOMAIN s : k \in DOMAIN stack /\ s[k] = stack[k]
    BY <1>2
  <2> QED BY <2>1 DEF OneLoop, RestInv
<1>7. Rested(orders, quotes, heap.lists[1], s)
  BY <1>5, RestedByWorking DEF RestInv
<1> QED BY <1>3, <1>4, <1>6, <1>7 DEF RestInv

LEMMA SubmitsRight ==
  ASSUME Inv, RestInv, OnlySubmitting, NEW sym \in Symbols, NEW side \in Sides,
         NEW qty \in Quantities, NEW limit \in Nat, NEW ok \in BOOLEAN,
         \/ limit \in Prices /\ SubmitLimit(sym, side, qty, limit, ok)
         \/ limit = Market /\ SubmitMarket(sym, side, qty, ok)
  PROVE  RestInv'
<1>1. qty \in Nat \ {0}
  BY PaperGatewayAssumption DEF OnlySubmitting
<1>2. \/ Reject(sym, side, qty, limit)
      \/ Rest(sym, side, qty, limit) /\ (quotes[sym] # NoQuote => ~Crosses(quotes[sym], side, limit))
      \/ FillNew(sym, side, qty, limit)
  BY DEF SubmitLimit, SubmitMarket
<1> QED BY <1>1, <1>2, RefusesRight, RestsRight, FillsRight

\* When listeners submit at most, and no order is for nothing, on_quote loses,
\* duplicates, reorders and strands no working order, leaves none that the
\* quote crossed, and every order that filled is reported, once.
THEOREM RestingIsRightHolds ==
  ASSUME ListenerCalls \subseteq {"submit"}, 0 \notin Quantities
  PROVE  Spec => []RestingIsRight
<1>1. OnlySubmitting
  BY DEF OnlySubmitting
<1>2. Init => RestInv
  <2> SUFFICES ASSUME Init PROVE RestInv
    OBVIOUS
  <2>1. orders = <<>> /\ fills = <<>> /\ stack = <<>> /\ heap = [lists |-> << <<>> >>, resting |-> 1]
    BY DEF Init
  <2>2. OneLoop(heap, stack) /\ heap.lists[1] = <<>> /\ ~Looping(stack)
    BY <2>1 DEF OneLoop, Looping
  <2>3. Working(orders) = {} /\ ToSet(<<>>) = {} /\ Increasing(<<>>)
    BY <2>1 DEF Working, ToSet, Increasing
  <2> QED BY <2>1, <2>2, <2>3 DEF RestInv, Rested, Between, Reported
<1>3. Inv /\ RestInv /\ [Next]_vars => RestInv'
  <2> SUFFICES ASSUME Inv, RestInv, [Next]_vars PROVE RestInv'
    OBVIOUS
  <2>1. CASE \E s \in Symbols, bid, ask \in Prices : OnQuote(s, bid, ask)
    BY <1>1, <2>1, QuoteStartsRight
  <2>2. CASE VisitResting
    BY <2>2, QuoteVisitsRight
  <2>3. CASE FinishQuote
    BY <2>3, QuoteFinishesRight
  <2>4. CASE \E s \in Symbols, side \in Sides, qty \in Quantities, p \in Prices, ok \in BOOLEAN :
               SubmitLimit(s, side, qty, p, ok)
    BY <1>1, <2>4, SubmitsRight, PaperGatewayAssumption
  <2>5. CASE \E s \in Symbols, side \in Sides, qty \in Quantities, ok \in BOOLEAN :
               SubmitMarket(s, side, qty, ok)
    <3>1. Market \in Nat
      BY DEF Market
    <3> QED BY <1>1, <2>5, <3>1, SubmitsRight
  <2>6. CASE \E id \in DOMAIN orders : Cancel(id)
    BY <1>1, <2>6, CancelsRight
  <2>7. CASE ListenerReturns
    BY <2>7, ListenerReturnsRight
  <2>8. CASE ListenerRaises
    BY <1>1, <2>8 DEF ListenerRaises, OnlySubmitting
  <2>9. CASE UNCHANGED vars
    BY <2>9 DEF vars, RestInv
  <2> QED BY <2>1, <2>2, <2>3, <2>4, <2>5, <2>6, <2>7, <2>8, <2>9 DEF Next
<1>4. Inv /\ RestInv => RestingIsRight
  <2> SUFFICES ASSUME Inv, RestInv PROVE RestingIsRight
    OBVIOUS
  <2>1. Idle => Increasing(Resting) /\ Between(orders, quotes, Resting)
    BY TheList DEF Idle, Rested, Looping
  <2>2. RestingAreTheNewOrders
    BY <2>1 DEF RestingAreTheNewOrders, Between, Increasing, Working
  <2>3. NothingRestsCrossed
    <3> SUFFICES ASSUME Idle, NEW id \in DOMAIN orders, orders[id].status = "NEW",
                        quotes[orders[id].sym] # NoQuote
                 PROVE  IF orders[id].side = "BUY" THEN quotes[orders[id].sym].ask > orders[id].limit
                        ELSE quotes[orders[id].sym].bid < orders[id].limit
      BY DEF NothingRestsCrossed
    <3>1. ~Crosses(quotes[orders[id].sym], orders[id].side, orders[id].limit)
      BY <2>1 DEF Between, Uncrossed, Working
    <3>2. orders[id] \in OrderRec
      BY DEF Inv, Typed
    <3>3. orders[id].limit \in Nat /\ orders[id].sym \in Symbols
      BY <3>2 DEF OrderRec
    <3>4. quotes[orders[id].sym] \in Quotes
      BY <3>3 DEF Inv, Typed
    <3>5. quotes[orders[id].sym].bid \in Nat /\ quotes[orders[id].sym].ask \in Nat
      BY <3>4 DEF Quotes
    <3> QED BY <3>1, <3>3, <3>5 DEF Crosses
  <2>4. FilledIsReportedOnce
    <3> SUFFICES ASSUME NEW id \in DOMAIN orders
                 PROVE  Cardinality(FillsOf(id)) = IF orders[id].status = "FILLED" THEN 1 ELSE 0
      BY DEF FilledIsReportedOnce
    <3>1. CASE orders[id].status = "FILLED"
      <4>1. PICK k \in DOMAIN fills : fills[k].id = id
        BY <3>1 DEF RestInv, Reported
      <4>2. FillsOf(id) = {k}
        BY <4>1 DEF FillsOf, RestInv, Reported
      <4> QED BY <3>1, <4>2, FS_Singleton
    <3>2. CASE orders[id].status # "FILLED"
      <4>1. FillsOf(id) = {}
        BY <3>2 DEF FillsOf, RestInv, Reported
      <4> QED BY <3>2, <4>1, FS_EmptySet
    <3> QED BY <3>1, <3>2
  <2> QED BY <2>2, <2>3, <2>4 DEF RestingIsRight
<1> QED BY <1>2, <1>3, <1>4, InvHolds, PTL DEF Spec
=============================================================================
