--------------------------- MODULE BacktestProofs ---------------------------
(* Theorems of Backtest: for every series, strategy, execution model, cash *)
(* and risk setting, cash is never overdrawn, one parent order is worked   *)
(* at a time, and the iceberg's count follows the engine's (from Inv); the *)
(* books and the trade list tell the fills, and no order trades on the     *)
(* past (from BooksInv, which adds the ledger to Inv).                     *)
EXTENDS Backtest, CommonLemmas

\* The three invariants and the type, of an engine record rather than of the
\* state: the engine's helpers keep them one after the other.
Typed(r) ==
  /\ r \in Engine
  /\ r.entry <= Len(r.parents) /\ r.exit <= Len(r.parents)
  /\ r.firstEntry \in NoBar..i /\ r.signalBar \in NoBar..i
  /\ r.iceberg.visible <= r.iceberg.remaining

OneParent(r) ==
  /\ (r.exit # NoParent) <=> (r.pendingExit > 0)
  /\ r.pendingExit \in {0, r.position}
  /\ r.pendingEntry > 0 => r.entry # NoParent /\ r.exit = NoParent

Slices(r) ==
  (model.display # {} /\ r.pendingEntry + r.pendingExit > 0) =>
    /\ r.iceberg.remaining = r.pendingEntry + r.pendingExit
    /\ r.iceberg.visible > 0

Sound(r) == Typed(r) /\ r.cash >= 0 /\ OneParent(r) /\ Slices(r)

\* What the helpers read besides the record.
Here == model \in Models /\ bar \in Bars /\ i \in Nat

Inv == TypeOK /\ Sound(run)

-----------------------------------------------------------------------------
(* Arithmetic.                                                             *)

\* A product of positive numbers is positive.
LEMMA Positive ==
  ASSUME NEW a \in Nat \ {0}, NEW b \in Nat \ {0}
  PROVE  a * b \in Nat \ {0}
OBVIOUS

\* What a floor division affords can be paid for.
LEMMA Affords ==
  ASSUME NEW cash \in Nat, NEW p \in Nat \ {0}, NEW q \in Nat, q <= cash \div p
  PROVE  p * q <= cash
<1>1. PICK d \in Nat : d = cash \div p /\ p * d <= cash
  <2>1. cash \div p \in Nat /\ p * (cash \div p) <= cash
    OBVIOUS
  <2> QED BY <2>1
<1>2. PICK e \in Nat : d = q + e
  <2>1. d - q \in Nat /\ d = q + (d - q) BY <1>1
  <2> QED BY <2>1
<1>3. p * d = p * q + p * e /\ p * e \in Nat /\ p * q \in Nat
  BY <1>2
<1> QED BY <1>1, <1>3

\* Prices and what is charged for them are positive.
LEMMA PricesPositive ==
  ASSUME Here
  PROVE  /\ FillPrice \in Nat \ {0} /\ bar.close \in Nat \ {0}
         /\ Reference = FillPrice
         /\ \A price \in Nat \ {0} : AllIn("BUY", price) \in Nat \ {0}
         /\ \A price \in Nat \ {0} : AllIn("SELL", price) \in Nat \ {0}
<1>1. /\ bar.open \in Nat \ {0} /\ bar.close \in Nat \ {0}
  BY BacktestAssumption DEF Here
<1>2. PICK c \in 0..99 : c = model.cost
  BY BacktestAssumption DEF Here
<1>3. ASSUME NEW price \in Nat \ {0}
      PROVE AllIn("BUY", price) \in Nat \ {0} /\ AllIn("SELL", price) \in Nat \ {0}
  <2>1. 100 + 1 * c \in Nat \ {0} /\ 100 + (-1) * c \in Nat \ {0} BY <1>2
  <2>2. AllIn("BUY", price) = price * (100 + 1 * c)
    BY <1>2 DEF AllIn, Sign
  <2>3. AllIn("SELL", price) = price * (100 + (-1) * c)
    BY <1>2 DEF AllIn, Sign
  <2> QED BY <2>1, <2>2, <2>3, Positive
<1> QED BY <1>1, <1>3 DEF FillPrice, Reference

\* An execution model fills no more than it was asked for and no more than
\* the iceberg shows.
LEMMA ExecutesWithin ==
  ASSUME Here, NEW r \in Engine, NEW side \in {"BUY", "SELL"}, NEW asked \in Int
  PROVE  LET qty == Executed(r, side, asked) IN
         /\ qty \in Nat
         /\ qty > 0 => qty <= asked
         /\ model.display # {} => qty <= r.iceberg.visible
<1>1. /\ bar.volume \in Nat /\ model.share \in Nat /\ r.iceberg.visible \in Nat
  BY BacktestAssumption DEF Here, Engine
<1>2. PICK cap \in Nat : cap = (bar.volume * model.share) \div 100
  <2>1. PICK n \in Nat : n = bar.volume * model.share BY <1>1
  <2>2. n \div 100 \in Nat BY <2>1
  <2> QED BY <2>1, <2>2
<1>3. Capacity(r, asked) \in Int
  BY <1>1, <1>2 DEF Capacity, Lesser
<1>4. Capacity(r, asked) <= asked
  BY <1>1, <1>2 DEF Capacity, Lesser
<1>5. model.display # {} => Capacity(r, asked) <= r.iceberg.visible
  BY <1>1, <1>2 DEF Capacity, Lesser
<1> QED BY <1>1, <1>3, <1>4, <1>5 DEF Executed

-----------------------------------------------------------------------------
(* The helpers, from the inside out.                                       *)

\* A slice filled: the iceberg counts down, and shows something while it has.
LEMMA IcebergCounts ==
  ASSUME NEW ice \in [remaining : Nat, visible : Nat], ice.visible <= ice.remaining,
         NEW qty \in Nat, qty <= ice.visible, NEW draw \in Nat \ {0}
  PROVE  LET after == IcebergFilled(ice, qty, draw) IN
         /\ after \in [remaining : Nat, visible : Nat]
         /\ after.visible <= after.remaining
         /\ after.remaining = ice.remaining - qty
         /\ after.remaining > 0 => after.visible > 0
BY DEF IcebergFilled, Lesser

\* Recording a fill keeps the list of parents well formed and as long.
LEMMA RecordedKeeps ==
  ASSUME NEW ps \in Seq(Parents), NEW p \in 1..Len(ps), NEW price \in Nat, NEW qty \in Nat,
         i \in Nat
  PROVE  /\ Recorded(ps, p, price, qty) \in Seq(Parents)
         /\ Len(Recorded(ps, p, price, qty)) = Len(ps)
<1> DEFINE fills == Append(ps[p].fills, [price |-> price, qty |-> qty, bar |-> i])
           after == [ps EXCEPT ![p].fills = fills]
<1>1. ps[p] \in Parents
  OBVIOUS
<1>2. fills \in Seq(Fills)
  BY <1>1 DEF Parents, Fills
<1>3. [ps[p] EXCEPT !.fills = fills] \in Parents
  BY <1>1, <1>2 DEF Parents
<1>4. after = [ps EXCEPT ![p] = [ps[p] EXCEPT !.fills = fills]]
  OBVIOUS
<1>5. after \in Seq(Parents) /\ Len(after) = Len(ps)
  BY <1>3, <1>4
<1> QED BY <1>5 DEF Recorded

\* A parent that is named is on the list.
LEMMA OnTheList ==
  ASSUME NEW r, Typed(r)
  PROVE  /\ r.entry # NoParent => r.entry \in 1..Len(r.parents)
         /\ r.exit # NoParent => r.exit \in 1..Len(r.parents)
         /\ r.parents \in Seq(Parents)
BY DEF Typed, Engine, NoParent

\* A slice of the entry filled within the cash and the iceberg.
LEMMA BoughtKeeps ==
  ASSUME Here, NEW r, Sound(r), NEW price \in Nat \ {0}, NEW qty \in Nat \ {0},
         NEW draw \in Nat \ {0},
         qty <= r.pendingEntry, price * qty <= r.cash,
         model.display # {} => qty <= r.iceberg.visible
  PROVE  Sound(Filled(Bought(r, price, qty), qty, draw))
<1> DEFINE b == Bought(r, price, qty)
           f == Filled(b, qty, draw)
<1>0. Typed(r) /\ r.cash >= 0 /\ OneParent(r) /\ Slices(r)
  BY DEF Sound
<1>1. PICK cost \in Nat : cost = price * qty /\ cost <= r.cash
  OBVIOUS
<1>2. /\ r.pendingEntry \in Nat /\ r.pendingExit = 0 /\ r.position \in Nat
      /\ r.entry # NoParent /\ r.exit = NoParent /\ r.cash \in Int
  <2>1. /\ r.pendingEntry \in Nat /\ r.pendingExit \in Nat /\ r.position \in Nat
        /\ r.cash \in Int
    BY <1>0 DEF Typed, Engine
  <2> QED BY <1>0, <2>1 DEF OneParent
<1>3. PICK ps \in Seq(Parents) : /\ ps = Recorded(r.parents, r.entry, price, qty)
                                 /\ Len(ps) = Len(r.parents)
  <2>1. r.entry \in 1..Len(r.parents) /\ r.parents \in Seq(Parents)
    BY <1>0, <1>2, OnTheList
  <2> QED BY <2>1, RecordedKeeps DEF Here
<1>4. /\ b \in Engine
      /\ b.cash = r.cash - cost /\ b.pendingEntry = r.pendingEntry - qty
      /\ b.position = r.position + qty /\ b.pendingExit = r.pendingExit
      /\ b.parents = ps /\ b.entry = r.entry /\ b.exit = r.exit
      /\ b.firstEntry \in NoBar..i /\ b.signalBar = r.signalBar /\ b.iceberg = r.iceberg
  <2>1. PICK first \in NoBar..i : first = IF r.firstEntry = NoBar THEN i ELSE r.firstEntry
    BY <1>0 DEF Typed, Here, NoBar
  <2>2. b = [r EXCEPT !.cash = @ - cost, !.entryCost = @ + cost, !.position = @ + qty,
                      !.totalEntry = @ + qty, !.pendingEntry = @ - qty, !.parents = ps,
                      !.firstEntry = first]
    BY <1>1, <1>3, <2>1 DEF Bought
  <2>3. r.pendingEntry - qty \in Nat /\ first \in Int
    BY <1>2, <2>1 DEF Here, NoBar
  <2>4. /\ r \in Engine /\ r.firstEntry \in NoBar..i /\ r.signalBar \in NoBar..i
    BY <1>0 DEF Typed
  <2>5. /\ r.cash - cost \in Int /\ r.entryCost + cost \in Nat /\ r.position + qty \in Nat
        /\ r.totalEntry + qty \in Nat
    <3>1. r.cash \in Int /\ r.entryCost \in Nat /\ r.position \in Nat /\ r.totalEntry \in Nat
      BY <2>4 DEF Engine
    <3>2. /\ \A m \in Int, n \in Nat : m - n \in Int
          /\ \A m, n \in Nat : m + n \in Nat
      OBVIOUS
    <3>3. cost \in Nat /\ qty \in Nat
      BY <1>1
    <3> QED BY <3>1, <3>2, <3>3, Zenon
  <2> HIDE DEF b
  <2>6. b \in Engine
    BY <1>3, <2>2, <2>3, <2>4, <2>5 DEF Engine
  <2> QED BY <2>1, <2>2, <2>4, <2>6 DEF Engine
<1> SUFFICES Sound(f) OBVIOUS
<1> HIDE DEF b, f
<1>5. CASE model.display = {}
  <2>1. f = b BY <1>5 DEF f, Filled
  <2>2. Typed(b) BY <1>0, <1>3, <1>4 DEF Typed
  <2>3. OneParent(b) BY <1>2, <1>4 DEF OneParent, NoParent
  <2>4. b.cash >= 0 BY <1>1, <1>2, <1>4
  <2>5. Slices(b) BY <1>5 DEF Slices
  <2>6. Sound(b) BY <2>2, <2>3, <2>4, <2>5 DEF Sound
  <2> QED BY <2>1, <2>6
<1>6. CASE model.display # {}
  <2>1. PICK ice \in [remaining : Nat, visible : Nat] :
          /\ ice = IcebergFilled(b.iceberg, qty, draw)
          /\ ice.visible <= ice.remaining
          /\ ice.remaining = r.iceberg.remaining - qty
          /\ ice.remaining > 0 => ice.visible > 0
    BY <1>4, <1>6, IcebergCounts DEF Sound, Typed, Engine
  <2>2. f = [b EXCEPT !.iceberg = ice]
    BY <1>4, <1>6, <2>1 DEF f, Filled, Engine
  <2>3. /\ f \in Engine /\ f.iceberg = ice
        /\ f.cash = b.cash /\ f.pendingEntry = b.pendingEntry
        /\ f.position = b.position /\ f.pendingExit = b.pendingExit
        /\ f.parents = b.parents /\ f.entry = b.entry /\ f.exit = b.exit
        /\ f.firstEntry = b.firstEntry /\ f.signalBar = b.signalBar
    BY <1>4, <2>2 DEF Engine
  <2>4. r.iceberg.remaining = r.pendingEntry
    BY <1>2, <1>6 DEF Sound, Slices
  <2>5. Slices(f)
    BY <1>2, <1>4, <2>1, <2>3, <2>4 DEF Slices
  <2>6. OneParent(f)
    BY <1>2, <1>4, <2>3 DEF OneParent, NoParent
  <2>7. Typed(f) BY <1>0, <1>3, <1>4, <2>1, <2>3 DEF Typed
  <2>8. f.cash >= 0 BY <1>1, <1>2, <1>4, <2>3
  <2> QED BY <2>5, <2>6, <2>7, <2>8 DEF Sound
<1> QED BY <1>5, <1>6

\* Working the entry keeps everything: what is asked for can be paid for.
LEMMA WorkEntryKeeps ==
  ASSUME Here, NEW r, Sound(r), NEW draw \in Nat \ {0}
  PROVE  Sound(WorkEntry(r, draw))
<1> DEFINE asked == Lesser(r.pendingEntry, Affordable(r, Reference))
           qty == Executed(r, "BUY", asked)
           price == AllIn("BUY", FillPrice)
<1>1. price \in Nat \ {0} /\ Reference = FillPrice
  BY PricesPositive
<1>2. r \in Engine /\ r.cash \in Nat /\ r.pendingEntry \in Nat
  BY DEF Sound, Typed, Engine
<1>3. Affordable(r, Reference) \in Int /\ Affordable(r, Reference) = r.cash \div price
  BY <1>1, <1>2 DEF Affordable
<1>4. /\ asked \in Int /\ asked <= r.pendingEntry /\ asked <= r.cash \div price
  BY <1>2, <1>3 DEF Lesser
<1>5. /\ qty \in Nat
      /\ qty > 0 => qty <= asked
      /\ model.display # {} => qty <= r.iceberg.visible
  BY <1>2, <1>4, ExecutesWithin
<1>6. CASE qty = 0
  BY <1>6 DEF WorkEntry
<1>7. CASE qty > 0
  <2>1. qty <= r.cash \div price /\ qty <= r.pendingEntry
    BY <1>2, <1>3, <1>4, <1>5, <1>7
  <2>2. price * qty <= r.cash
    BY <1>1, <1>2, <1>5, <2>1, Affords
  <2>3. WorkEntry(r, draw) = Filled(Bought(r, price, qty), qty, draw)
    BY <1>5, <1>7 DEF WorkEntry
  <2>4. qty \in Nat \ {0}
    BY <1>5, <1>7
  <2> HIDE DEF qty, price
  <2> QED BY <1>1, <1>5, <2>1, <2>2, <2>3, <2>4, BoughtKeeps
<1> QED BY <1>5, <1>6, <1>7

\* A sale keeps the record well typed and adds to the cash.
LEMMA SoldFields ==
  ASSUME Here, NEW r, Typed(r), r.cash >= 0, r.exit # NoParent,
         NEW price \in Nat, NEW qty \in Nat, qty <= r.position,
         NEW left \in Nat
  PROVE  LET s == [Sold(r, price, qty) EXCEPT !.pendingExit = left] IN
         /\ Typed(s) /\ s.cash >= 0 /\ s.pendingExit = left
         /\ s.position = r.position - qty /\ s.exit = r.exit
         /\ s.pendingEntry = r.pendingEntry /\ s.entry = r.entry
         /\ s.iceberg = r.iceberg
<1> DEFINE s == [Sold(r, price, qty) EXCEPT !.pendingExit = left]
<1> SUFFICES /\ Typed(s) /\ s.cash >= 0 /\ s.pendingExit = left
             /\ s.position = r.position - qty /\ s.exit = r.exit
             /\ s.pendingEntry = r.pendingEntry /\ s.entry = r.entry
             /\ s.iceberg = r.iceberg
  OBVIOUS
<1>1. PICK proceeds \in Nat : proceeds = price * qty
  OBVIOUS
<1>2. PICK ps \in Seq(Parents) : /\ ps = Recorded(r.parents, r.exit, price, qty)
                                 /\ Len(ps) = Len(r.parents)
  BY OnTheList, RecordedKeeps DEF Here
<1>3. r \in Engine /\ r.cash \in Int /\ r.exitProceeds \in Nat /\ r.position \in Nat
  BY DEF Typed, Engine
<1>4. s = [r EXCEPT !.cash = @ + proceeds, !.exitProceeds = @ + proceeds,
                    !.position = @ - qty, !.pendingExit = left, !.parents = ps]
  BY <1>1, <1>2, <1>3 DEF Sold, Engine
<1> HIDE DEF s
<1>5. /\ r.cash + proceeds \in Int /\ r.cash + proceeds >= 0
      /\ r.exitProceeds + proceeds \in Nat /\ r.position - qty \in Nat
  <2>1. PICK c \in Int : c = r.cash /\ c >= 0
    BY <1>3
  <2>2. PICK e \in Nat : e = r.exitProceeds
    BY <1>3
  <2>3. PICK p \in Nat : p = r.position /\ qty <= p
    BY <1>3
  <2>4. c + proceeds \in Int /\ c + proceeds >= 0
    BY <2>1
  <2>5. e + proceeds \in Nat /\ p - qty \in Nat
    BY <2>3
  <2> QED BY <2>1, <2>2, <2>3, <2>4, <2>5, Zenon
<1>6. s \in Engine
  BY <1>2, <1>3, <1>4, <1>5 DEF Engine
<1>7. /\ s.cash = r.cash + proceeds /\ s.position = r.position - qty
      /\ s.pendingExit = left /\ s.parents = ps
      /\ s.entry = r.entry /\ s.exit = r.exit /\ s.pendingEntry = r.pendingEntry
      /\ s.firstEntry = r.firstEntry /\ s.signalBar = r.signalBar /\ s.iceberg = r.iceberg
  BY <1>3, <1>4 DEF Engine
<1>8. Typed(s)
  BY <1>2, <1>6, <1>7 DEF Typed
<1> QED BY <1>5, <1>7, <1>8

\* A closed round trip leaves nothing in work.
LEMMA CloseKeeps ==
  ASSUME Here, NEW r, Typed(r), r.cash >= 0,
         r.position = 0, r.pendingExit = 0, r.pendingEntry = 0
  PROVE  Sound(CloseRoundTrip(r))
<1> DEFINE c == CloseRoundTrip(r)
<1> SUFFICES Sound(c) OBVIOUS
<1>1. /\ r \in Engine /\ r.firstEntry \in Int /\ r.totalEntry \in Nat
      /\ r.exitProceeds \in Nat /\ r.entryCost \in Nat /\ r.trades \in Seq(Trades)
  BY DEF Typed, Engine
<1>2. r.exitProceeds - r.entryCost \in Int
  BY <1>1
<1>3. PICK trade \in Trades :
        trade = [from |-> r.firstEntry, to |-> i, qty |-> r.totalEntry,
                 pnl |-> r.exitProceeds - r.entryCost]
  BY <1>1, <1>2 DEF Trades, Here
<1>4. PICK ts \in Seq(Trades) : ts = Append(r.trades, trade)
  <2>1. PICK old \in Seq(Trades) : old = r.trades BY <1>1
  <2>2. Append(old, trade) \in Seq(Trades) OBVIOUS
  <2> QED BY <2>1, <2>2
<1>5. c = [r EXCEPT !.entryCost = 0, !.exitProceeds = 0, !.totalEntry = 0,
                    !.firstEntry = NoBar, !.trades = ts,
                    !.entry = NoParent, !.exit = NoParent]
  BY <1>1, <1>3, <1>4 DEF CloseRoundTrip, FreshRoundTrip, Engine
<1> HIDE DEF c
<1>6. c \in Engine
  <2>1. 0 \in Nat /\ NoBar \in Int /\ NoParent \in Nat /\ ts \in Seq(Trades) /\ r \in Engine
    BY <1>1, <1>4 DEF NoBar, NoParent
  <2> QED BY <1>5, <2>1 DEF Engine
<1>7. /\ c.cash = r.cash /\ c.position = r.position /\ c.pendingExit = r.pendingExit
      /\ c.pendingEntry = r.pendingEntry /\ c.entry = NoParent /\ c.exit = NoParent
      /\ c.firstEntry = NoBar /\ c.signalBar = r.signalBar /\ c.iceberg = r.iceberg
      /\ c.parents = r.parents
  BY <1>1, <1>5 DEF Engine
<1>8. Typed(c)
  <2>1. Len(r.parents) \in Nat
    BY <1>1 DEF Engine
  <2> QED BY <1>6, <1>7, <2>1 DEF Typed, NoParent, NoBar, Here
<1>9. OneParent(c) /\ Slices(c) /\ c.cash >= 0
  BY <1>7 DEF OneParent, Slices, NoParent
<1> QED BY <1>8, <1>9 DEF Sound

\* Working an exit keeps everything, closing the round trip when it is done.
LEMMA WorkExitKeeps ==
  ASSUME Here, NEW r, Sound(r), r.exit # NoParent, NEW draw \in Nat \ {0}
  PROVE  Sound(WorkExit(r, draw))
<1> DEFINE qty == Executed(r, "SELL", r.pendingExit)
           price == AllIn("SELL", FillPrice)
           s == Sold(r, price, qty)
           f == Filled(s, qty, draw)
<1>0. Typed(r) /\ r.cash >= 0 /\ OneParent(r) /\ Slices(r)
  BY DEF Sound
<1>1. /\ r \in Engine /\ r.pendingExit \in Nat /\ r.position \in Nat /\ r.pendingEntry \in Nat
  BY <1>0 DEF Typed, Engine
<1>2. r.pendingExit > 0 /\ r.pendingExit = r.position /\ r.pendingEntry = 0
  BY <1>0, <1>1 DEF OneParent
<1>3. /\ qty \in Nat
      /\ qty > 0 => qty <= r.pendingExit
      /\ model.display # {} => qty <= r.iceberg.visible
  BY <1>1, ExecutesWithin
<1>4. price \in Nat
  BY PricesPositive
<1>5. CASE qty = 0
  BY <1>1, <1>2, <1>5 DEF WorkExit
<1>6. CASE qty > 0
  <2>1. PICK left \in Nat : left = r.pendingExit - qty
    BY <1>1, <1>3, <1>6
  <2>2. s = [s EXCEPT !.pendingExit = left]
    BY <1>1, <2>1 DEF Sold, Engine
  <2>3. WorkExit(r, draw) = IF f.position = 0 /\ f.pendingExit = 0
                            THEN CloseRoundTrip(f) ELSE f
    BY <1>3, <1>6 DEF WorkExit
  <2> HIDE DEF qty, price
  <2>4. /\ Typed(s) /\ s.cash >= 0 /\ s.pendingExit = left
        /\ s.position = r.position - qty /\ s.exit = r.exit
        /\ s.pendingEntry = r.pendingEntry /\ s.entry = r.entry
        /\ s.iceberg = r.iceberg
    <3>1. r.exit # NoParent /\ qty <= r.position /\ qty \in Nat /\ left \in Nat
      BY <1>2, <1>3, <1>6, <2>1
    <3> DEFINE t == [Sold(r, price, qty) EXCEPT !.pendingExit = left]
    <3>2. /\ Typed(t) /\ t.cash >= 0 /\ t.pendingExit = left
          /\ t.position = r.position - qty /\ t.exit = r.exit
          /\ t.pendingEntry = r.pendingEntry /\ t.entry = r.entry
          /\ t.iceberg = r.iceberg
      BY <1>0, <1>4, <3>1, SoldFields
    <3>3. s = t BY <2>2
    <3> HIDE DEF s, t
    <3> QED BY <3>2, <3>3
  <2> HIDE DEF s
  <2>5. CASE model.display = {}
    <3>1. f = s BY <2>5 DEF Filled
    <3> HIDE DEF f
    <3>2. CASE left = 0
      <4>1. WorkExit(r, draw) = CloseRoundTrip(s) /\ s.position = 0 /\ s.pendingEntry = 0
        BY <1>2, <2>1, <2>3, <2>4, <3>1, <3>2
      <4> QED BY <2>4, <3>2, <4>1, CloseKeeps
    <3>3. CASE left # 0
      <4>1. WorkExit(r, draw) = s
        BY <2>3, <2>4, <3>1, <3>3
      <4>2. OneParent(s) /\ Slices(s)
        BY <1>1, <1>2, <2>1, <2>4, <2>5, <3>3 DEF OneParent, Slices
      <4> QED BY <2>4, <4>1, <4>2 DEF Sound
    <3> QED BY <3>2, <3>3
  <2>6. CASE model.display # {}
    <3>1. PICK ice \in [remaining : Nat, visible : Nat] :
            /\ ice = IcebergFilled(s.iceberg, qty, draw)
            /\ ice.visible <= ice.remaining
            /\ ice.remaining = r.iceberg.remaining - qty
            /\ ice.remaining > 0 => ice.visible > 0
      <4>1. r.iceberg \in [remaining : Nat, visible : Nat]
            /\ r.iceberg.visible <= r.iceberg.remaining
        BY <1>0 DEF Typed, Engine
      <4> QED BY <1>3, <2>4, <2>6, <4>1, IcebergCounts
    <3>2. s \in Engine
      BY <2>4 DEF Typed
    <3>3. f = [s EXCEPT !.iceberg = ice]
      <4>1. qty # 0 BY <1>3, <1>6
      <4>2. f = [s EXCEPT !.iceberg = IcebergFilled(@, qty, draw)]
        BY <2>6, <4>1, Zenon DEF Filled
      <4>3. [s EXCEPT !.iceberg = IcebergFilled(@, qty, draw)] = [s EXCEPT !.iceberg = ice]
        BY <3>1
      <4> QED BY <4>2, <4>3
    <3> HIDE DEF f
    <3>4. /\ f \in Engine /\ f.iceberg = ice
          /\ f.cash = s.cash /\ f.pendingEntry = s.pendingEntry
          /\ f.position = s.position /\ f.pendingExit = s.pendingExit
          /\ f.parents = s.parents /\ f.entry = s.entry /\ f.exit = s.exit
          /\ f.firstEntry = s.firstEntry /\ f.signalBar = s.signalBar
      BY <3>2, <3>3, <3>1 DEF Engine
    <3>5. Typed(f) /\ f.cash >= 0
      BY <2>4, <3>1, <3>4 DEF Typed
    <3>6. CASE left = 0
      <4>1. /\ WorkExit(r, draw) = CloseRoundTrip(f)
            /\ f.position = 0 /\ f.pendingEntry = 0 /\ f.pendingExit = 0
        BY <1>2, <2>1, <2>3, <2>4, <3>4, <3>6
      <4> QED BY <3>5, <4>1, CloseKeeps
    <3>7. CASE left # 0
      <4>1. WorkExit(r, draw) = f
        BY <2>3, <2>4, <3>4, <3>7
      <4>2. r.iceberg.remaining = r.pendingExit
        BY <1>0, <1>1, <1>2, <2>6 DEF Slices
      <4>3. Slices(f)
        BY <1>2, <2>1, <2>4, <3>1, <3>4, <3>7, <4>2 DEF Slices
      <4>4. OneParent(f)
        BY <1>1, <1>2, <2>1, <2>4, <3>4, <3>7 DEF OneParent
      <4> QED BY <3>5, <4>1, <4>3, <4>4 DEF Sound
    <3> QED BY <3>6, <3>7
  <2> QED BY <2>5, <2>6
<1> QED BY <1>3, <1>5, <1>6

Reasons == {"ENTRY", "SIGNAL", "STOP_LOSS", "TAKE_PROFIT", "END_OF_DATA"}

\* A new parent goes to the end of the list.
LEMMA NewParentKeeps ==
  ASSUME Here, NEW r \in Engine, NEW side \in {"BUY", "SELL"}, NEW reason \in Reasons
  PROVE  /\ NewParent(r, side, reason) \in Seq(Parents)
         /\ Len(NewParent(r, side, reason)) = Len(r.parents) + 1
<1>1. PICK parent \in Parents :
        parent = [side |-> side, signal |-> i, reason |-> reason, fills |-> <<>>]
  <2>1. <<>> \in Seq(Fills) /\ i \in Nat BY DEF Here
  <2> QED BY <2>1 DEF Parents, Reasons
<1>2. PICK ps \in Seq(Parents) : ps = r.parents
  BY DEF Engine
<1>3. Append(ps, parent) \in Seq(Parents) /\ Len(Append(ps, parent)) = Len(ps) + 1
  OBVIOUS
<1> QED BY <1>1, <1>2, <1>3 DEF NewParent

\* Telling the execution model of a parent order cuts the first slice of it.
LEMMA OnParentOrderKeeps ==
  ASSUME Here, NEW r, Typed(r), r.cash >= 0, OneParent(r), NEW qty \in Nat \ {0},
         r.pendingEntry + r.pendingExit = qty, NEW draw \in Nat \ {0}
  PROVE  /\ Sound(OnParentOrder(r, qty, draw))
         /\ OnParentOrder(r, qty, draw).exit = r.exit
<1> DEFINE o == OnParentOrder(r, qty, draw)
<1> SUFFICES Sound(o) /\ o.exit = r.exit OBVIOUS
<1>1. r \in Engine /\ r.iceberg.visible <= r.iceberg.remaining
      /\ r.iceberg \in [remaining : Nat, visible : Nat]
  BY DEF Typed, Engine
<1>2. PICK ice \in [remaining : Nat, visible : Nat] :
        /\ ice = IF model.display = {} THEN r.iceberg
                 ELSE [remaining |-> qty, visible |-> Lesser(draw, qty)]
        /\ ice.visible <= ice.remaining
        /\ model.display # {} => ice.remaining = qty /\ ice.visible > 0
  <2>1. CASE model.display = {} BY <1>1, <2>1
  <2>2. CASE model.display # {}
    <3>1. Lesser(draw, qty) \in Nat /\ 0 < Lesser(draw, qty) /\ Lesser(draw, qty) <= qty
      BY DEF Lesser
    <3> DEFINE cut == [remaining |-> qty, visible |-> Lesser(draw, qty)]
    <3>2. /\ cut \in [remaining : Nat, visible : Nat]
          /\ cut.remaining = qty /\ cut.visible = Lesser(draw, qty)
      BY <3>1
    <3> HIDE DEF cut
    <3>3. cut.visible <= cut.remaining /\ cut.visible > 0 BY <3>1, <3>2
    <3> QED BY <2>2, <3>2, <3>3 DEF cut
  <2> QED BY <2>1, <2>2
<1>3. o = [r EXCEPT !.signalBar = i, !.iceberg = ice]
  BY <1>1, <1>2 DEF OnParentOrder, Engine
<1> HIDE DEF o
<1>4. i \in Int BY DEF Here
<1>5. o \in Engine
  BY <1>1, <1>3, <1>4 DEF Engine
<1>6. /\ o.cash = r.cash /\ o.position = r.position /\ o.pendingExit = r.pendingExit
      /\ o.pendingEntry = r.pendingEntry /\ o.entry = r.entry /\ o.exit = r.exit
      /\ o.firstEntry = r.firstEntry /\ o.signalBar = i /\ o.iceberg = ice
      /\ o.parents = r.parents
  BY <1>1, <1>3 DEF Engine
<1>7. Typed(o)
  BY <1>2, <1>4, <1>5, <1>6 DEF Typed, Here, NoBar
<1>8. OneParent(o) BY <1>6 DEF OneParent
<1>9. Slices(o) BY <1>2, <1>6 DEF Slices
<1> QED BY <1>6, <1>7, <1>8, <1>9 DEF Sound

\* An exit is started for the whole position and ends the entry's work.
LEMMA StartExitKeeps ==
  ASSUME Here, NEW r, Sound(r), r.position > 0, NEW reason \in Reasons,
         NEW draw \in Nat \ {0}
  PROVE  /\ Sound(StartExit(r, reason, draw))
         /\ StartExit(r, reason, draw).exit # NoParent
<1>1. Typed(r) /\ r.cash >= 0 /\ r \in Engine /\ r.position \in Nat \ {0}
  BY DEF Sound, Typed, Engine
<1>2. PICK ps \in Seq(Parents) : /\ ps = NewParent(r, "SELL", reason)
                                 /\ Len(ps) = Len(r.parents) + 1
  BY <1>1, NewParentKeeps
<1>3. PICK n \in Nat \ {0} : n = Len(r.parents) + 1
  <2>1. r.parents \in Seq(Parents) BY <1>1 DEF Engine
  <2>2. Len(r.parents) \in Nat BY <2>1
  <2> QED BY <2>2
<1> DEFINE x == [r EXCEPT !.pendingEntry = 0, !.parents = ps, !.exit = n,
                          !.pendingExit = r.position]
<1>4. StartExit(r, reason, draw) = OnParentOrder(x, r.position, draw)
  BY <1>2, <1>3 DEF StartExit
<1>5. x \in Engine
  <2>1. 0 \in Nat OBVIOUS
  <2> QED BY <1>1, <1>2, <1>3, <2>1 DEF Engine
<1>6. /\ x.cash = r.cash /\ x.position = r.position /\ x.pendingExit = r.position
      /\ x.pendingEntry = 0 /\ x.entry = r.entry /\ x.exit = n
      /\ x.firstEntry = r.firstEntry /\ x.signalBar = r.signalBar
      /\ x.iceberg = r.iceberg /\ x.parents = ps
  BY <1>1 DEF Engine
<1> HIDE DEF x
<1>7. Typed(x)
  <2>1. r.entry \in Nat /\ Len(ps) = n /\ Len(r.parents) <= n
    <3>1. r.parents \in Seq(Parents) /\ r.entry \in Nat BY <1>1 DEF Engine
    <3>2. Len(r.parents) \in Nat BY <3>1
    <3> QED BY <1>2, <1>3, <3>1, <3>2
  <2>2. Len(r.parents) \in Nat /\ r.entry <= Len(r.parents)
    <3>1. r.parents \in Seq(Parents) BY <1>1 DEF Engine
    <3> QED BY <1>1, <3>1 DEF Typed
  <2> QED BY <1>1, <1>5, <1>6, <2>1, <2>2 DEF Typed
<1>8. OneParent(x)
  BY <1>1, <1>3, <1>6 DEF OneParent, NoParent
<1>9. x.pendingEntry + x.pendingExit = r.position
  BY <1>1, <1>6
<1>10. Sound(OnParentOrder(x, r.position, draw))
       /\ OnParentOrder(x, r.position, draw).exit = x.exit
  BY <1>1, <1>6, <1>7, <1>8, <1>9, OnParentOrderKeeps
<1> QED BY <1>3, <1>4, <1>6, <1>10 DEF NoParent

\* An entry is started from flat, with nothing else in work.
LEMMA StartEntryKeeps ==
  ASSUME Here, NEW r, Sound(r), r.position = 0, r.pendingEntry = 0, r.pendingExit = 0,
         NEW qty \in Nat \ {0}, NEW draw \in Nat \ {0}
  PROVE  Sound(StartEntry(r, qty, draw))
<1>1. Typed(r) /\ r.cash >= 0 /\ r \in Engine /\ r.exit = NoParent
  BY DEF Sound, Typed, OneParent
<1>2. PICK ps \in Seq(Parents) : /\ ps = NewParent(r, "BUY", "ENTRY")
                                 /\ Len(ps) = Len(r.parents) + 1
  BY <1>1, NewParentKeeps DEF Reasons
<1>3. PICK n \in Nat \ {0} : n = Len(r.parents) + 1
  <2>1. r.parents \in Seq(Parents) BY <1>1 DEF Engine
  <2>2. Len(r.parents) \in Nat BY <2>1
  <2> QED BY <2>2
<1> DEFINE x == [r EXCEPT !.entryCost = 0, !.exitProceeds = 0, !.totalEntry = 0,
                          !.firstEntry = NoBar, !.parents = ps, !.entry = n,
                          !.pendingEntry = qty]
<1>4. StartEntry(r, qty, draw) = OnParentOrder(x, qty, draw)
  BY <1>1, <1>2, <1>3 DEF StartEntry, FreshRoundTrip, Engine
<1>5. x \in Engine
  <2>1. 0 \in Nat /\ NoBar \in Int /\ qty \in Nat BY DEF NoBar
  <2> QED BY <1>1, <1>2, <1>3, <2>1 DEF Engine
<1>6. /\ x.cash = r.cash /\ x.position = r.position /\ x.pendingExit = r.pendingExit
      /\ x.pendingEntry = qty /\ x.entry = n /\ x.exit = r.exit
      /\ x.firstEntry = NoBar /\ x.signalBar = r.signalBar
      /\ x.iceberg = r.iceberg /\ x.parents = ps
  BY <1>1 DEF Engine
<1> HIDE DEF x
<1>7. Typed(x)
  <2>1. Len(ps) = n BY <1>2, <1>3
  <2>2. NoBar \in NoBar..i BY DEF NoBar, Here
  <2> QED BY <1>1, <1>3, <1>5, <1>6, <2>1, <2>2 DEF Typed, NoParent
<1>8. OneParent(x)
  BY <1>1, <1>3, <1>6 DEF OneParent, NoParent
<1>9. x.pendingEntry + x.pendingExit = qty
  BY <1>6
<1>10. Sound(OnParentOrder(x, qty, draw))
  BY <1>1, <1>6, <1>7, <1>8, <1>9, OnParentOrderKeeps
<1> QED BY <1>4, <1>10

\* The exit the forced close sells through: the one in work, or a new one.
LEMMA ForcedExitKeeps ==
  ASSUME Here, NEW x, Typed(x)
  PROVE  /\ Typed(ForcedExit(x)) /\ ForcedExit(x).exit # NoParent
         /\ ForcedExit(x).cash = x.cash /\ ForcedExit(x).position = x.position
         /\ ForcedExit(x).pendingEntry = x.pendingEntry
<1> DEFINE e == ForcedExit(x)
<1> SUFFICES /\ Typed(e) /\ e.exit # NoParent /\ e.cash = x.cash
             /\ e.position = x.position /\ e.pendingEntry = x.pendingEntry
  OBVIOUS
<1>1. x \in Engine
  BY DEF Typed
<1>2. CASE x.exit # NoParent
  <2>1. e = x BY <1>2 DEF ForcedExit
  <2> QED BY <1>2, <2>1
<1>3. CASE x.exit = NoParent
  <2>1. PICK ps \in Seq(Parents) : /\ ps = NewParent(x, "SELL", "END_OF_DATA")
                                   /\ Len(ps) = Len(x.parents) + 1
    BY <1>1, NewParentKeeps DEF Reasons
  <2>2. x.parents \in Seq(Parents) /\ x.entry \in Nat
    BY <1>1 DEF Engine
  <2>3. PICK n \in Nat : n = Len(x.parents) BY <2>2
  <2>4. e = [x EXCEPT !.parents = ps, !.exit = n + 1]
    BY <1>3, <2>1, <2>3 DEF ForcedExit
  <2> HIDE DEF e
  <2>5. n + 1 \in Nat OBVIOUS
  <2>6. e \in Engine BY <1>1, <2>1, <2>4, <2>5 DEF Engine
  <2>7. /\ e.cash = x.cash /\ e.position = x.position
        /\ e.pendingEntry = x.pendingEntry /\ e.entry = x.entry /\ e.exit = n + 1
        /\ e.firstEntry = x.firstEntry /\ e.signalBar = x.signalBar
        /\ e.iceberg = x.iceberg /\ e.parents = ps
    BY <1>1, <2>4 DEF Engine
  <2>8. e.entry <= Len(e.parents) /\ e.exit <= Len(e.parents)
    BY <2>1, <2>2, <2>3, <2>7 DEF Typed
  <2>9. Typed(e) BY <2>6, <2>7, <2>8 DEF Typed
  <2> QED BY <2>7, <2>9 DEF NoParent
<1> QED BY <1>2, <1>3

\* The end of the data sells what is held and leaves nothing in work.
LEMMA ClosedKeeps ==
  ASSUME Here, NEW r, Sound(r)
  PROVE  Sound(Closed(r))
<1> DEFINE x == [r EXCEPT !.pendingEntry = 0]
<1>1. Typed(r) /\ r.cash >= 0 /\ r \in Engine /\ r.position \in Nat /\ r.pendingExit \in Nat
      /\ OneParent(r) /\ Slices(r) /\ r.pendingEntry \in Nat
  BY DEF Sound, Typed, Engine
<1>2. x \in Engine
  <2>1. 0 \in Nat OBVIOUS
  <2> QED BY <1>1, <2>1 DEF Engine
<1>3. /\ x.cash = r.cash /\ x.position = r.position /\ x.pendingExit = r.pendingExit
      /\ x.pendingEntry = 0 /\ x.entry = r.entry /\ x.exit = r.exit
      /\ x.firstEntry = r.firstEntry /\ x.signalBar = r.signalBar
      /\ x.iceberg = r.iceberg /\ x.parents = r.parents
  BY <1>1 DEF Engine
<1>4. Closed(r) = IF r.position > 0 THEN ForcedSold(x) ELSE x
  BY DEF Closed
<1> HIDE DEF x
<1>5. Typed(x) BY <1>1, <1>2, <1>3 DEF Typed
<1>6. CASE r.position = 0
  <2>1. Closed(r) = x BY <1>4, <1>6
  <2>2. r.pendingExit = 0 BY <1>1, <1>6 DEF OneParent
  <2>3. OneParent(x) BY <1>1, <1>3 DEF OneParent
  <2>4. Slices(x) BY <1>3, <2>2 DEF Slices
  <2> QED BY <1>1, <1>3, <1>5, <2>1, <2>3, <2>4 DEF Sound
<1>7. CASE r.position > 0
  <2> DEFINE e == ForcedExit(x)
             price == AllIn("SELL", bar.close)
             s == [Sold(e, price, e.position) EXCEPT !.pendingExit = 0]
  <2>1. /\ Typed(e) /\ e.exit # NoParent /\ e.cash = x.cash /\ e.position = x.position
        /\ e.pendingEntry = 0
    BY <1>3, <1>5, ForcedExitKeeps
  <2>2. Closed(r) = CloseRoundTrip(s)
    <3>1. ForcedSold(x) = CloseRoundTrip([Sold(e, price, x.position) EXCEPT !.pendingExit = 0])
      BY DEF ForcedSold
    <3> QED BY <1>4, <1>7, <2>1, <3>1
  <2> HIDE DEF e
  <2>3. price \in Nat BY PricesPositive
  <2> HIDE DEF price
  <2>4. e.position \in Nat BY <1>1, <1>3, <2>1
  <2>5. e.cash >= 0 BY <1>1, <1>3, <2>1
  <2>6. 0 \in Nat /\ e.position <= e.position BY <2>4
  <2>7. /\ Typed(s) /\ s.cash >= 0 /\ s.pendingExit = 0
        /\ s.position = e.position - e.position /\ s.pendingEntry = e.pendingEntry
    BY <2>1, <2>3, <2>4, <2>5, <2>6, SoldFields
  <2> HIDE DEF s
  <2>8. s.position = 0 /\ s.pendingEntry = 0 BY <2>1, <2>4, <2>7
  <2> QED BY <2>2, <2>7, <2>8, CloseKeeps
<1> QED BY <1>1, <1>6, <1>7

-----------------------------------------------------------------------------
(* The steps.                                                              *)

\* The tranches drawn are positive.
LEMMA DrawsPositive ==
  ASSUME Here, NEW d \in Draws
  PROVE  d[1] \in Nat \ {0} /\ d[2] \in Nat \ {0}
<1>1. model.display \subseteq Nat \ {0}
  BY BacktestAssumption DEF Here
<1> QED BY <1>1 DEF Draws

\* What the lemmas about the helpers ask for holds at every step.
LEMMA InvHere ==
  ASSUME Inv
  PROVE  Here /\ Sound(run)
BY BacktestAssumption DEF Inv, TypeOK, Here

\* A step of the loop that stays at its bar and keeps the engine sound.
LEMMA SameBar ==
  ASSUME Inv, UNCHANGED <<model, bar, i>>,
         phase' \in {"work", "risk", "signal", "next", "done"},
         NEW r, Sound(r), run' = r
  PROVE  Inv'
<1>1. Sound(run)'
  BY DEF Sound, Typed, OneParent, Slices
<1>2. TypeOK'
  BY <1>1 DEF Inv, TypeOK, Sound, Typed
<1> QED BY <1>1, <1>2 DEF Inv

\* The engine starts flat, with its capital and nothing in work.
LEMMA InvInit == Init => Inv
<1> SUFFICES ASSUME Init PROVE Inv OBVIOUS
<1>1. 100 * Capital \in Nat /\ 100 * Capital \in Int BY BacktestAssumption
<1>2. PICK cash \in Nat : cash = 100 * Capital BY <1>1
<1>3. PICK none \in Seq(Parents) : none = <<>> /\ Len(none) = 0
  <2>1. <<>> \in Seq(Parents) /\ Len(<<>>) = 0 OBVIOUS
  <2> QED BY <2>1, Zenon
<1>4. PICK done \in Seq(Trades) : done = <<>>
  <2>1. <<>> \in Seq(Trades) OBVIOUS
  <2> QED BY <2>1, Zenon
<1>5. run = [cash |-> cash, position |-> 0, pendingEntry |-> 0, pendingExit |-> 0,
             entryCost |-> 0, exitProceeds |-> 0, totalEntry |-> 0, firstEntry |-> -1,
             entry |-> 0, exit |-> 0, parents |-> none, trades |-> done,
             iceberg |-> [remaining |-> 0, visible |-> 0], signalBar |-> -1]
  BY <1>2, <1>3, <1>4 DEF Init, NoBar, NoParent
<1>6. run \in Engine
  <2>1. 0 \in Nat /\ -1 \in Int /\ cash \in Int BY <1>2
  <2> QED BY <1>3, <1>4, <1>5, <2>1 DEF Engine
<1>7. /\ run.cash = cash /\ run.position = 0 /\ run.pendingEntry = 0 /\ run.pendingExit = 0
      /\ run.entry = 0 /\ run.exit = 0 /\ run.firstEntry = -1 /\ run.signalBar = -1
      /\ run.parents = none /\ run.iceberg = [remaining |-> 0, visible |-> 0]
  BY <1>5
<1>8. i = 0 /\ i \in 0..(MaxBars - 1) /\ -1 \in NoBar..i
  BY BacktestAssumption DEF Init, NoBar
<1>9. Typed(run)
  BY <1>3, <1>6, <1>7, <1>8 DEF Typed
<1>10. OneParent(run) /\ Slices(run) /\ run.cash >= 0
  BY <1>2, <1>7 DEF OneParent, Slices, NoParent
<1>11. TypeOK
  BY <1>8, <1>9 DEF Init, TypeOK, Typed
<1> QED BY <1>9, <1>10, <1>11 DEF Inv, Sound

\* Working what is open: an exit in work has its parent.
LEMMA InvWorkOpenParent == Inv /\ WorkOpenParent => Inv'
<1> SUFFICES ASSUME Inv, WorkOpenParent PROVE Inv' OBVIOUS
<1>1. Here /\ Sound(run) BY InvHere
<1>2. PICK d \in Draws :
        run' = IF run.pendingExit > 0 THEN WorkExit(run, d[2])
               ELSE IF run.pendingEntry > 0 THEN WorkEntry(run, d[2])
               ELSE run
  BY DEF WorkOpenParent
<1>3. d[2] \in Nat \ {0} BY <1>1, DrawsPositive
<1>4. run.pendingExit > 0 => run.exit # NoParent
  BY <1>1 DEF Sound, OneParent
<1>5. Sound(IF run.pendingExit > 0 THEN WorkExit(run, d[2])
            ELSE IF run.pendingEntry > 0 THEN WorkEntry(run, d[2])
            ELSE run)
  BY <1>1, <1>3, <1>4, WorkExitKeeps, WorkEntryKeeps
<1>6. UNCHANGED <<model, bar, i>> /\ phase' = "risk"
  BY DEF WorkOpenParent
<1> QED BY <1>2, <1>5, <1>6, SameBar

\* A stop or a target starts an exit and works it on the same bar.
LEMMA InvCheckRiskExits == Inv /\ CheckRiskExits => Inv'
<1> SUFFICES ASSUME Inv, CheckRiskExits PROVE Inv' OBVIOUS
<1>1. Here /\ Sound(run) BY InvHere
<1>2. UNCHANGED <<model, bar, i>> /\ phase' = "signal"
  BY DEF CheckRiskExits
<1>3. CASE AtRisk(run) /\ (StopHit(run) \/ TargetHit(run))
  <2>1. PICK reason \in Reasons :
          reason = IF StopHit(run) THEN "STOP_LOSS" ELSE "TAKE_PROFIT"
    BY DEF Reasons
  <2>2. PICK d \in Draws : run' = WorkExit(StartExit(run, reason, d[1]), d[2])
    BY <1>3, <2>1 DEF CheckRiskExits
  <2>3. run.position > 0 BY <1>3 DEF AtRisk
  <2>4. d[1] \in Nat \ {0} /\ d[2] \in Nat \ {0} BY <1>1, DrawsPositive
  <2>5. Sound(StartExit(run, reason, d[1])) /\ StartExit(run, reason, d[1]).exit # NoParent
    BY <1>1, <2>3, <2>4, StartExitKeeps
  <2>6. Sound(WorkExit(StartExit(run, reason, d[1]), d[2]))
    BY <1>1, <2>4, <2>5, WorkExitKeeps
  <2> QED BY <1>2, <2>2, <2>6, SameBar
<1>4. CASE ~(AtRisk(run) /\ (StopHit(run) \/ TargetHit(run)))
  <2>1. run' = run BY <1>4 DEF CheckRiskExits
  <2> QED BY <1>1, <1>2, <2>1, SameBar
<1> QED BY <1>3, <1>4

\* A signal starts an entry from flat, starts an exit, or cancels an entry.
LEMMA InvOnSignal == Inv /\ OnSignal => Inv'
<1> SUFFICES ASSUME Inv, OnSignal PROVE Inv' OBVIOUS
<1>1. Here /\ Sound(run) BY InvHere
<1>2. UNCHANGED <<model, bar, i>> /\ phase' = "next"
  BY DEF OnSignal
<1>3. CASE BuySignal
  <2> DEFINE qty == Affordable(run, bar.close)
  <2>1. qty \in Nat \ {0}
    <3>1. bar.close \in Nat \ {0} BY <1>1, PricesPositive
    <3>2. AllIn("BUY", bar.close) \in Nat \ {0} BY <1>1, <3>1, PricesPositive
    <3>3. PICK p \in Nat \ {0} : p = AllIn("BUY", bar.close) BY <3>2
    <3>4. run.cash \in Nat BY <1>1 DEF Sound, Typed, Engine
    <3>5. run.cash \div p \in Int BY <3>3, <3>4
    <3> QED BY <1>3, <3>3, <3>5 DEF BuySignal, Affordable
  <2>2. PICK d \in Draws : run' = WorkEntry(StartEntry(run, qty, d[1]), d[2])
    BY <1>3 DEF BuySignal
  <2> HIDE DEF qty
  <2>3. d[1] \in Nat \ {0} /\ d[2] \in Nat \ {0} BY <1>1, DrawsPositive
  <2>4. run.position = 0 /\ run.pendingEntry = 0 /\ run.pendingExit = 0
    BY <1>3 DEF BuySignal
  <2>5. Sound(StartEntry(run, qty, d[1]))
    BY <1>1, <2>1, <2>3, <2>4, StartEntryKeeps
  <2>6. Sound(WorkEntry(StartEntry(run, qty, d[1]), d[2]))
    BY <1>1, <2>3, <2>5, WorkEntryKeeps
  <2> QED BY <1>2, <2>2, <2>6, SameBar
<1>4. CASE run.position > 0 /\ \E d \in Draws :
             run' = WorkExit(StartExit(run, "SIGNAL", d[1]), d[2])
  <2>1. PICK d \in Draws : run' = WorkExit(StartExit(run, "SIGNAL", d[1]), d[2])
    BY <1>4
  <2>2. d[1] \in Nat \ {0} /\ d[2] \in Nat \ {0} BY <1>1, DrawsPositive
  <2>3. /\ Sound(StartExit(run, "SIGNAL", d[1]))
        /\ StartExit(run, "SIGNAL", d[1]).exit # NoParent
    BY <1>1, <1>4, <2>2, StartExitKeeps DEF Reasons
  <2>4. Sound(WorkExit(StartExit(run, "SIGNAL", d[1]), d[2]))
    BY <1>1, <2>2, <2>3, WorkExitKeeps
  <2> QED BY <1>2, <2>1, <2>4, SameBar
<1>5. CASE run.pendingExit = 0 /\ run' = [run EXCEPT !.pendingEntry = 0, !.entry = NoParent]
  <2> DEFINE x == [run EXCEPT !.pendingEntry = 0, !.entry = NoParent]
  <2>1. run \in Engine /\ Typed(run) BY <1>1 DEF Sound, Typed
  <2>2. x \in Engine
    <3>1. 0 \in Nat /\ NoParent \in Nat BY DEF NoParent
    <3> QED BY <2>1, <3>1 DEF Engine
  <2>3. /\ x.cash = run.cash /\ x.position = run.position /\ x.pendingExit = run.pendingExit
        /\ x.pendingEntry = 0 /\ x.entry = NoParent /\ x.exit = run.exit
        /\ x.firstEntry = run.firstEntry /\ x.signalBar = run.signalBar
        /\ x.iceberg = run.iceberg /\ x.parents = run.parents
    BY <2>1 DEF Engine
  <2>4. Len(run.parents) \in Nat
    <3>1. run.parents \in Seq(Parents) BY <2>1 DEF Engine
    <3> QED BY <3>1
  <2> HIDE DEF x
  <2>5. Typed(x) BY <2>1, <2>2, <2>3, <2>4 DEF Typed, NoParent
  <2>6. OneParent(x) BY <1>1, <2>3 DEF Sound, OneParent
  <2>7. Slices(x) BY <1>5, <2>3 DEF Slices
  <2>8. Sound(x) BY <1>1, <2>3, <2>5, <2>6, <2>7 DEF Sound
  <2>9. run' = x BY <1>5 DEF x
  <2> QED BY <1>2, <2>8, <2>9, SameBar
<1>6. CASE NoSignal
  <2>1. run' = run BY <1>6 DEF NoSignal
  <2> QED BY <1>1, <1>2, <2>1, SameBar
<1> QED BY <1>3, <1>4, <1>5, <1>6 DEF OnSignal, SellSignal

\* The next bar changes neither the engine nor the model.
LEMMA InvNextBar == Inv /\ NextBar => Inv'
<1> SUFFICES ASSUME Inv, NextBar PROVE Inv' OBVIOUS
<1>1. /\ i \in 0..(MaxBars - 1) /\ i + 1 < MaxBars /\ i' = i + 1 /\ MaxBars \in Nat
      /\ bar' \in Bars /\ phase' = "work" /\ model' = model /\ run' = run
  BY BacktestAssumption DEF Inv, TypeOK, NextBar
<1>2. i' \in 0..(MaxBars - 1) /\ NoBar..i \subseteq NoBar..(i')
  BY <1>1 DEF NoBar
<1>3. Sound(run)'
  BY <1>1, <1>2 DEF Inv, Sound, Typed, OneParent, Slices
<1>4. TypeOK'
  BY <1>1, <1>2, <1>3 DEF Inv, TypeOK, Sound, Typed
<1> QED BY <1>3, <1>4 DEF Inv

\* The forced close ends the run flat.
LEMMA InvForceClose == Inv /\ ForceClose => Inv'
<1> SUFFICES ASSUME Inv, ForceClose PROVE Inv' OBVIOUS
<1>1. Here /\ Sound(run) BY InvHere
<1>2. Sound(Closed(run)) BY <1>1, ClosedKeeps
<1> QED BY <1>2, SameBar DEF ForceClose

\* A stutter changes nothing.
LEMMA InvUnchanged == Inv /\ UNCHANGED vars => Inv'
BY DEF vars, Inv, TypeOK, Sound, Typed, OneParent, Slices

\* Every step of every run keeps the engine sound: the inductive invariant.
THEOREM BacktestInvHolds == Spec => []Inv
<1>1. Inv /\ [Next]_vars => Inv'
  BY InvWorkOpenParent, InvCheckRiskExits, InvOnSignal, InvNextBar, InvForceClose,
     InvUnchanged DEF Next
<1> QED BY InvInit, <1>1, PTL DEF Spec

\* No count goes below zero and every parent in work is on the list.
THEOREM BacktestTypeCorrect == Spec => []TypeOK
<1>1. Inv => TypeOK BY DEF Inv
<1> QED BY BacktestInvHolds, <1>1, PTL

\* Long-only without margin (execution_aware_backtester.py, _work_entry): no
\* fill, at any price gap and any cost of the model, overdraws the cash.
THEOREM CashCorrect == Spec => []NeverOverdrawn
<1>1. Inv => NeverOverdrawn BY DEF Inv, Sound, NeverOverdrawn
<1> QED BY BacktestInvHolds, <1>1, PTL

\* An exit is for the whole position, has ended the entry's work and is worked
\* until flat (_start_exit, _work_exit).
THEOREM OneParentCorrect == Spec => []OneParentAtATime
<1>1. Inv => OneParentAtATime BY DEF Inv, Sound, OneParent, OneParentAtATime
<1> QED BY BacktestInvHolds, <1>1, PTL

\* What the iceberg has left to show is what the engine has left to fill.
THEOREM SlicesCorrect == Spec => []SlicesFollowTheParent
<1>1. Inv => SlicesFollowTheParent BY DEF Inv, Sound, Slices, SlicesFollowTheParent
<1> QED BY BacktestInvHolds, <1>1, PTL

-----------------------------------------------------------------------------
(* The ledger: what the parents' fills add up to, and the trades made of   *)
(* them.                                                                   *)

\* Of the places of a list, the largest comes last and no other with it.
LEMMA RankOfLargest ==
  ASSUME NEW S, S \subseteq Nat, IsFiniteSet(S), NEW m \in S, \A q \in S : q <= m
  PROVE  /\ Rank(m, S) = Cardinality(S) /\ Cardinality(S) \in Nat \ {0}
         /\ \A p \in S : Rank(p, S) = Cardinality(S) => p = m
<1>1. {q \in S : q <= m} = S
  OBVIOUS
<1>2. Cardinality(S \ {m}) = Cardinality(S) - 1 /\ IsFiniteSet(S \ {m})
      /\ Cardinality(S) \in Nat /\ Cardinality(S \ {m}) \in Nat
  BY FS_RemoveElement, FS_CardinalityType
<1>3. ASSUME NEW p \in S, p # m PROVE Rank(p, S) <= Cardinality(S) - 1
  <2>1. {q \in S : q <= p} \subseteq S \ {m}
    BY <1>3
  <2> QED BY <1>2, <2>1, FS_Subset DEF Rank
<1>4. \A p \in S : Rank(p, S) = Cardinality(S) => p = m
  <2> DEFINE c == Cardinality(S)
  <2>1. c \in Nat /\ ~(c <= c - 1)
    BY <1>2
  <2> QED BY <1>3, <2>1
<1> QED BY <1>1, <1>2, <1>4 DEF Rank

\* A rank is one of as many as there are places.
LEMMA RankWithin ==
  ASSUME NEW S, S \subseteq Nat, IsFiniteSet(S), NEW p \in S
  PROVE  Rank(p, S) \in Nat \ {0} /\ Rank(p, S) <= Cardinality(S) /\ Cardinality(S) \in Nat
<1> DEFINE upTo == {q \in S : q <= p}
<1>1. upTo \subseteq S /\ p \in upTo
  OBVIOUS
<1> HIDE DEF upTo
<1>2. IsFiniteSet(upTo) /\ Cardinality(upTo) <= Cardinality(S) /\ Cardinality(upTo) \in Nat
      /\ Cardinality(S) \in Nat
  BY <1>1, FS_Subset, FS_CardinalityType
<1>3. Cardinality(upTo) # 0
  BY <1>1, <1>2, FS_EmptySet
<1> QED BY <1>2, <1>3 DEF Rank, upTo

\* A larger place leaves the ranks as they were.
LEMMA RankAdding ==
  ASSUME NEW S, S \subseteq Nat, IsFiniteSet(S), NEW n \in Nat, \A q \in S : q < n
  PROVE  /\ Cardinality(S \cup {n}) = Cardinality(S) + 1 /\ IsFiniteSet(S \cup {n})
         /\ \A p \in S : Rank(p, S \cup {n}) = Rank(p, S)
<1>1. n \notin S
  OBVIOUS
<1>2. Cardinality(S \cup {n}) = Cardinality(S) + 1 /\ IsFiniteSet(S \cup {n})
  BY <1>1, FS_AddElement
<1>3. ASSUME NEW p \in S PROVE Rank(p, S \cup {n}) = Rank(p, S)
  <2>1. {q \in S \cup {n} : q <= p} = {q \in S : q <= p}
    <3>1. p \in Nat /\ p < n
      OBVIOUS
    <3>2. ~(n <= p)
      BY <3>1
    <3> QED BY <3>2
  <2> QED BY <2>1 DEF Rank
<1> QED BY <1>2, <1>3

\* The entries that filled and the exits, of a list of parents; what each
\* parent brought in and took away.
Buys(ps) == {p \in DOMAIN ps : ps[p].side = "BUY" /\ ps[p].fills # <<>>}
Sells(ps) == {p \in DOMAIN ps : ps[p].side = "SELL"}
Flows(ps) == [p \in DOMAIN ps |-> -Sign(ps[p].side) * Notional(ps[p])]
Moves(ps) == [p \in DOMAIN ps |-> -Sign(ps[p].side) * Qty(ps[p])]
Qtys(fs) == [k \in DOMAIN fs |-> fs[k].qty]
Notionals(fs) == [k \in DOMAIN fs |-> fs[k].price * fs[k].qty]

LEMMA PlacesAreFinite ==
  ASSUME NEW ps \in Seq(Parents)
  PROVE  /\ Buys(ps) \subseteq Nat /\ IsFiniteSet(Buys(ps)) /\ Cardinality(Buys(ps)) \in Nat
         /\ Sells(ps) \subseteq Nat /\ IsFiniteSet(Sells(ps)) /\ Cardinality(Sells(ps)) \in Nat
<1>1. DOMAIN ps = 1..Len(ps) /\ Len(ps) \in Nat
  OBVIOUS
<1>2. IsFiniteSet(1..Len(ps))
  BY <1>1, FS_Interval
<1>3. Buys(ps) \subseteq 1..Len(ps) /\ Sells(ps) \subseteq 1..Len(ps)
  BY <1>1 DEF Buys, Sells
<1>4. 1..Len(ps) \subseteq Nat
  BY <1>1
<1> QED BY <1>2, <1>3, <1>4, FS_Subset, FS_CardinalityType

\* What a parent's fills add up to is a number, and another fill adds to it.
LEMMA FillsAddUp ==
  ASSUME NEW fs \in Seq(Fills)
  PROVE  /\ Qtys(fs) \in Seq(Int) /\ Notionals(fs) \in Seq(Int)
         /\ SeqSum(Qtys(fs)) \in Int /\ SeqSum(Notionals(fs)) \in Int
<1>1. DOMAIN fs = 1..Len(fs) /\ Len(fs) \in Nat
  OBVIOUS
<1>2. ASSUME NEW k \in 1..Len(fs) PROVE fs[k].qty \in Int /\ fs[k].price * fs[k].qty \in Int
  <2>1. fs[k] \in Fills
    BY <1>1
  <2>2. fs[k].qty \in Nat /\ fs[k].price \in Nat
    BY <2>1 DEF Fills
  <2>3. \A a, b \in Nat : a * b \in Int
    OBVIOUS
  <2> QED BY <2>2, <2>3
<1>3. Qtys(fs) \in Seq(Int) /\ Notionals(fs) \in Seq(Int)
  BY <1>1, <1>2 DEF Qtys, Notionals
<1> QED BY <1>3, SeqSumIsInt

LEMMA AnotherFill ==
  ASSUME NEW fs \in Seq(Fills), NEW f \in Fills
  PROVE  /\ SeqSum(Qtys(Append(fs, f))) = SeqSum(Qtys(fs)) + f.qty
         /\ SeqSum(Notionals(Append(fs, f))) = SeqSum(Notionals(fs)) + f.price * f.qty
<1> DEFINE more == Append(fs, f)
           n == Len(fs)
<1>1. /\ DOMAIN fs = 1..n /\ n \in Nat /\ DOMAIN more = 1..(n + 1)
      /\ more[n + 1] = f /\ \A k \in 1..n : more[k] = fs[k]
  OBVIOUS
<1>2. f.qty \in Int /\ f.price * f.qty \in Int
  <2>1. f.qty \in Nat /\ f.price \in Nat
    BY DEF Fills
  <2>2. \A a, b \in Nat : a * b \in Int
    OBVIOUS
  <2> QED BY <2>1, <2>2
<1> HIDE DEF more, n
<1>3. Qtys(fs) \in Seq(Int) /\ Notionals(fs) \in Seq(Int)
  BY FillsAddUp
<1>4. Qtys(more) = Append(Qtys(fs), f.qty)
  BY <1>1, <1>2, <1>3 DEF Qtys
<1>5. Notionals(more) = Append(Notionals(fs), f.price * f.qty)
  BY <1>1, <1>2, <1>3 DEF Notionals
<1> QED BY <1>2, <1>3, <1>4, <1>5, SeqSumOfAppend DEF more

\* A parent's sums, and the sums of the parents.
LEMMA ParentsAddUp ==
  ASSUME NEW ps \in Seq(Parents)
  PROVE  /\ \A p \in DOMAIN ps :
              /\ ps[p] \in Parents /\ Sign(ps[p].side) \in {1, -1}
              /\ Qty(ps[p]) = SeqSum(Qtys(ps[p].fills)) /\ Qty(ps[p]) \in Int
              /\ Notional(ps[p]) = SeqSum(Notionals(ps[p].fills)) /\ Notional(ps[p]) \in Int
         /\ Flows(ps) \in Seq(Int) /\ Moves(ps) \in Seq(Int)
         /\ SeqSum(Flows(ps)) \in Int /\ SeqSum(Moves(ps)) \in Int
<1>1. DOMAIN ps = 1..Len(ps) /\ Len(ps) \in Nat
  OBVIOUS
<1>2. ASSUME NEW p \in DOMAIN ps
      PROVE  /\ ps[p] \in Parents /\ Sign(ps[p].side) \in {1, -1}
             /\ Qty(ps[p]) = SeqSum(Qtys(ps[p].fills)) /\ Qty(ps[p]) \in Int
             /\ Notional(ps[p]) = SeqSum(Notionals(ps[p].fills)) /\ Notional(ps[p]) \in Int
  <2>1. ps[p] \in Parents
    OBVIOUS
  <2>2. ps[p].fills \in Seq(Fills)
    BY <2>1 DEF Parents
  <2>3. Qty(ps[p]) = SeqSum(Qtys(ps[p].fills)) /\ Notional(ps[p]) = SeqSum(Notionals(ps[p].fills))
    BY DEF Qty, Qtys, Notional, Notionals
  <2> QED BY <2>1, <2>2, <2>3, FillsAddUp DEF Sign
<1>3. ASSUME NEW p \in 1..Len(ps)
      PROVE  -Sign(ps[p].side) * Notional(ps[p]) \in Int /\ -Sign(ps[p].side) * Qty(ps[p]) \in Int
  <2>1. \A n \in Int, s \in {1, -1} : -s * n \in Int
    OBVIOUS
  <2> QED BY <1>1, <1>2, <2>1
<1>4. Flows(ps) \in Seq(Int) /\ Moves(ps) \in Seq(Int)
  BY <1>1, <1>3 DEF Flows, Moves
<1> QED BY <1>2, <1>4, SeqSumIsInt

\* A new parent has no fills yet and moves nothing.
LEMMA NewParentTells ==
  ASSUME NEW ps \in Seq(Parents), NEW parent \in Parents, parent.fills = <<>>
  PROVE  LET more == Append(ps, parent) n == Len(ps) + 1 IN
         /\ n \in Nat /\ DOMAIN ps = 1..(n - 1) /\ DOMAIN more = 1..n /\ more[n] = parent
         /\ Len(more) = n /\ \A p \in DOMAIN ps : more[p] = ps[p] /\ p < n /\ p \in DOMAIN more
         /\ Buys(more) = Buys(ps)
         /\ Sells(more) = IF parent.side = "SELL" THEN Sells(ps) \cup {n} ELSE Sells(ps)
         /\ Qty(parent) = 0 /\ Notional(parent) = 0
         /\ SeqSum(Flows(more)) = SeqSum(Flows(ps)) /\ SeqSum(Moves(more)) = SeqSum(Moves(ps))
<1> DEFINE more == Append(ps, parent)
           n == Len(ps) + 1
<1>1. /\ n \in Nat /\ DOMAIN ps = 1..(n - 1) /\ DOMAIN more = 1..n /\ more[n] = parent
      /\ Len(more) = n /\ more \in Seq(Parents) /\ Len(ps) = n - 1
      /\ \A p \in DOMAIN ps : more[p] = ps[p] /\ p < n /\ p \in DOMAIN more
  OBVIOUS
<1> HIDE DEF more, n
<1>2. \A p \in 1..n : p \in 1..(n - 1) \/ p = n
  BY <1>1
<1>3. n \in 1..n
  <2>1. n - 1 \in Nat
    <3>1. Len(ps) \in Nat
      OBVIOUS
    <3> QED BY <1>1, <3>1
  <2> QED BY <1>1, <2>1
<1>4. Buys(more) = Buys(ps)
  BY <1>1, <1>2 DEF Buys
<1>5. Sells(more) = IF parent.side = "SELL" THEN Sells(ps) \cup {n} ELSE Sells(ps)
  BY <1>1, <1>2, <1>3 DEF Sells
<1>6. Qty(parent) = 0 /\ Notional(parent) = 0
  <2>1. Qtys(<<>>) = <<>> /\ Notionals(<<>>) = <<>>
    BY DEF Qtys, Notionals
  <2>2. Qty(parent) = SeqSum(Qtys(<<>>)) /\ Notional(parent) = SeqSum(Notionals(<<>>))
    BY DEF Qty, Qtys, Notional, Notionals
  <2> QED BY <2>1, <2>2, SeqSumOfNothing
<1>7. Flows(ps) \in Seq(Int) /\ Moves(ps) \in Seq(Int)
      /\ SeqSum(Flows(ps)) \in Int /\ SeqSum(Moves(ps)) \in Int
  BY ParentsAddUp
<1>8. -Sign(parent.side) * 0 = 0
  <2>1. Sign(parent.side) \in {1, -1}
    BY DEF Sign
  <2>2. \A s \in {1, -1} : -s * 0 = 0
    OBVIOUS
  <2> QED BY <2>1, <2>2
<1>9. Flows(more) = Append(Flows(ps), 0)
  BY <1>1, <1>2, <1>3, <1>6, <1>7, <1>8 DEF Flows
<1>10. Moves(more) = Append(Moves(ps), 0)
  BY <1>1, <1>2, <1>3, <1>6, <1>7, <1>8 DEF Moves
<1>11. SeqSum(Flows(more)) = SeqSum(Flows(ps)) /\ SeqSum(Moves(more)) = SeqSum(Moves(ps))
  <2>1. 0 \in Int
    OBVIOUS
  <2>2. /\ SeqSum(Append(Flows(ps), 0)) = SeqSum(Flows(ps)) + 0
        /\ SeqSum(Append(Moves(ps), 0)) = SeqSum(Moves(ps)) + 0
    BY <1>7, <2>1, SeqSumOfAppend
  <2> QED BY <1>7, <1>9, <1>10, <2>2
<1> QED BY <1>1, <1>4, <1>5, <1>6, <1>11 DEF more, n

\* A recorded fill: the parent keeps its order and its earlier fills, and
\* their sums move by the fill.
FillIsRecorded(after, ps, p, price, qty) ==
  /\ after \in Seq(Parents) /\ Len(after) = Len(ps) /\ DOMAIN after = DOMAIN ps
  /\ \A q \in DOMAIN ps : q # p => after[q] = ps[q]
  /\ after[p].side = ps[p].side /\ after[p].signal = ps[p].signal
  /\ after[p].reason = ps[p].reason
  /\ \A q \in DOMAIN ps : after[q].side = ps[q].side
  /\ Qty(after[p]) = Qty(ps[p]) + qty
  /\ Notional(after[p]) = Notional(ps[p]) + price * qty
  /\ after[p].fills # <<>> /\ after[p].fills[Len(after[p].fills)].bar = i
  /\ after[p].fills[1].bar = IF ps[p].fills = <<>> THEN i ELSE ps[p].fills[1].bar
  /\ \A k \in DOMAIN after[p].fills :
     \/ k \in DOMAIN ps[p].fills /\ after[p].fills[k] = ps[p].fills[k]
     \/ after[p].fills[k].bar = i

LEMMA RecordTells ==
  ASSUME i \in Nat, NEW ps \in Seq(Parents), NEW p \in 1..Len(ps),
         NEW price \in Nat, NEW qty \in Nat, NEW after, after = Recorded(ps, p, price, qty)
  PROVE  FillIsRecorded(after, ps, p, price, qty)
<1> DEFINE fill == [price |-> price, qty |-> qty, bar |-> i]
           fs == ps[p].fills
           more == Append(fs, fill)
           parent == [ps[p] EXCEPT !.fills = more]
<1>1. ps[p] \in Parents /\ fs \in Seq(Fills)
  <2>1. ps[p] \in Parents
    OBVIOUS
  <2> QED BY <2>1 DEF Parents
<1>2. fill \in Fills /\ fill.qty = qty /\ fill.price = price /\ fill.bar = i
  BY DEF Fills
<1>3. after = [ps EXCEPT ![p] = parent]
  BY DEF Recorded
<1> HIDE DEF fill
<1>4. /\ more \in Seq(Fills) /\ more # <<>> /\ more[Len(more)] = fill
      /\ more[1] = IF fs = <<>> THEN fill ELSE fs[1]
      /\ \A k \in DOMAIN more : (k \in DOMAIN fs /\ more[k] = fs[k]) \/ more[k] = fill
  <2> HIDE DEF fs
  <2>1. more \in Seq(Fills) /\ Len(more) = Len(fs) + 1 /\ Len(fs) \in Nat
        /\ more[Len(fs) + 1] = fill /\ \A k \in 1..Len(fs) : more[k] = fs[k]
    BY <1>1, <1>2
  <2>2. DOMAIN more = 1..(Len(fs) + 1) /\ DOMAIN fs = 1..Len(fs)
    BY <1>1, <2>1
  <2>3. fs = <<>> <=> Len(fs) = 0
    BY <1>1
  <2>4. more # <<>> /\ more[Len(more)] = fill
    <3>1. Len(<<>>) = 0
      OBVIOUS
    <3> HIDE DEF more
    <3> QED BY <2>1, <3>1
  <2>5. more[1] = IF fs = <<>> THEN fill ELSE fs[1]
    <3> HIDE DEF more
    <3> QED BY <2>1, <2>3
  <2>6. \A k \in DOMAIN more : (k \in DOMAIN fs /\ more[k] = fs[k]) \/ more[k] = fill
    <3> HIDE DEF more
    <3> QED BY <2>1, <2>2
  <2> QED BY <2>1, <2>4, <2>5, <2>6
<1>5. /\ SeqSum(Qtys(more)) = SeqSum(Qtys(fs)) + qty
      /\ SeqSum(Notionals(more)) = SeqSum(Notionals(fs)) + price * qty
  BY <1>1, <1>2, AnotherFill
<1> HIDE DEF more, fs
<1>6. /\ parent \in Parents /\ parent.fills = more /\ parent.side = ps[p].side
      /\ parent.signal = ps[p].signal /\ parent.reason = ps[p].reason
  BY <1>1, <1>4 DEF Parents
<1> HIDE DEF parent
<1>7. /\ after \in Seq(Parents) /\ Len(after) = Len(ps) /\ DOMAIN after = DOMAIN ps
      /\ \A q \in DOMAIN ps : after[q] = IF q = p THEN parent ELSE ps[q]
      /\ after[p] = parent
  <2>1. DOMAIN ps = 1..Len(ps)
    OBVIOUS
  <2> QED BY <1>3, <1>6, <2>1
<1>8. /\ \A x : Qty(x) = SeqSum(Qtys(x.fills)) /\ Notional(x) = SeqSum(Notionals(x.fills))
  BY DEF Qty, Qtys, Notional, Notionals
<1>9. Qty(parent) = Qty(ps[p]) + qty /\ Notional(parent) = Notional(ps[p]) + price * qty
  BY <1>5, <1>6, <1>8, Zenon DEF fs
<1> QED BY <1>2, <1>4, <1>6, <1>7, <1>9, SMTT(30) DEF fs, FillIsRecorded

\* What the list makes of it.
FillIsAdded(after, ps, p, price, qty) ==
  /\ Buys(after) = IF ps[p].side = "BUY" THEN Buys(ps) \cup {p} ELSE Buys(ps)
  /\ Sells(after) = Sells(ps)
  /\ SeqSum(Flows(after)) = SeqSum(Flows(ps)) - Sign(ps[p].side) * (price * qty)
  /\ SeqSum(Moves(after)) = SeqSum(Moves(ps)) - Sign(ps[p].side) * qty

LEMMA RecordAddsUp ==
  ASSUME i \in Nat, NEW ps \in Seq(Parents), NEW p \in 1..Len(ps),
         NEW price \in Nat, NEW qty \in Nat, NEW after, after = Recorded(ps, p, price, qty)
  PROVE  FillIsAdded(after, ps, p, price, qty)
<1>0. PICK s : s = Sign(ps[p].side)
  OBVIOUS
<1>1. /\ after \in Seq(Parents) /\ Len(after) = Len(ps) /\ DOMAIN after = DOMAIN ps
      /\ \A q \in DOMAIN ps : q # p => after[q] = ps[q]
      /\ \A q \in DOMAIN ps : after[q].side = ps[q].side
      /\ after[p].fills # <<>>
      /\ Qty(after[p]) = Qty(ps[p]) + qty
      /\ Notional(after[p]) = Notional(ps[p]) + price * qty
  <2>1. FillIsRecorded(after, ps, p, price, qty)
    BY RecordTells
  <2> QED BY <2>1 DEF FillIsRecorded
<1>2. DOMAIN ps = 1..Len(ps) /\ p \in DOMAIN ps
  OBVIOUS
<1>3. Buys(after) = IF ps[p].side = "BUY" THEN Buys(ps) \cup {p} ELSE Buys(ps)
  BY <1>1, <1>2 DEF Buys
<1>4. Sells(after) = Sells(ps)
  BY <1>1, <1>2 DEF Sells
<1>5. /\ s \in {1, -1} /\ Qty(ps[p]) \in Int /\ Notional(ps[p]) \in Int
      /\ Flows(ps) \in Seq(Int) /\ Moves(ps) \in Seq(Int)
      /\ SeqSum(Flows(ps)) \in Int /\ SeqSum(Moves(ps)) \in Int
  BY <1>0, <1>2, ParentsAddUp
<1>6. PICK cost \in Nat : cost = price * qty
  OBVIOUS
<1>7. PICK q0 \in Int : q0 = Qty(ps[p])
  BY <1>5
<1>8. PICK n0 \in Int : n0 = Notional(ps[p])
  BY <1>5
<1>9. Flows(after) = [Flows(ps) EXCEPT ![p] = -s * (n0 + cost)] /\ Flows(ps)[p] = -s * n0
      /\ p \in 1..Len(Flows(ps))
  <2>1. Flows(after) = [q \in DOMAIN ps |-> IF q = p THEN -s * (n0 + cost) ELSE Flows(ps)[q]]
    BY <1>0, <1>1, <1>2, <1>6, <1>8 DEF Flows
  <2>2. DOMAIN Flows(ps) = DOMAIN ps /\ Flows(ps) = [q \in DOMAIN ps |-> Flows(ps)[q]]
    BY DEF Flows
  <2>3. Flows(ps)[p] = -s * n0
    BY <1>0, <1>2, <1>8 DEF Flows
  <2>4. DOMAIN Flows(ps) = 1..Len(Flows(ps))
    BY <1>5
  <2> QED BY <1>2, <2>1, <2>2, <2>3, <2>4
<1>10. Moves(after) = [Moves(ps) EXCEPT ![p] = -s * (q0 + qty)] /\ Moves(ps)[p] = -s * q0
       /\ p \in 1..Len(Moves(ps))
  <2>1. Moves(after) = [q \in DOMAIN ps |-> IF q = p THEN -s * (q0 + qty) ELSE Moves(ps)[q]]
    BY <1>0, <1>1, <1>2, <1>7 DEF Moves
  <2>2. DOMAIN Moves(ps) = DOMAIN ps /\ Moves(ps) = [q \in DOMAIN ps |-> Moves(ps)[q]]
    BY DEF Moves
  <2>3. Moves(ps)[p] = -s * q0
    BY <1>0, <1>2, <1>7 DEF Moves
  <2>4. DOMAIN Moves(ps) = 1..Len(Moves(ps))
    BY <1>5
  <2> QED BY <1>2, <2>1, <2>2, <2>3, <2>4
<1>11. -s * (n0 + cost) \in Int /\ -s * (q0 + qty) \in Int
  BY <1>5
<1>12. SeqSum(Flows(after)) = SeqSum(Flows(ps)) - (-s * n0) + (-s * (n0 + cost))
  <2> DEFINE x == -s * (n0 + cost)
  <2>1. x \in Int BY <1>11
  <2> HIDE DEF x
  <2>2. SeqSum([Flows(ps) EXCEPT ![p] = x]) = SeqSum(Flows(ps)) - Flows(ps)[p] + x
    BY <1>5, <1>9, <2>1, SeqSumOfChange
  <2> QED BY <1>9, <2>2, Zenon DEF x
<1>13. SeqSum(Moves(after)) = SeqSum(Moves(ps)) - (-s * q0) + (-s * (q0 + qty))
  <2> DEFINE x == -s * (q0 + qty)
  <2>1. x \in Int BY <1>11
  <2> HIDE DEF x
  <2>2. SeqSum([Moves(ps) EXCEPT ![p] = x]) = SeqSum(Moves(ps)) - Moves(ps)[p] + x
    BY <1>5, <1>10, <2>1, SeqSumOfChange
  <2> QED BY <1>10, <2>2, Zenon DEF x
<1>14. \A total \in Int : /\ total - (-s * n0) + (-s * (n0 + cost)) = total - s * cost
                          /\ total - (-s * q0) + (-s * (q0 + qty)) = total - s * qty
  <2>1. CASE s = 1 BY <2>1
  <2>2. CASE s = -1 BY <2>2
  <2> QED BY <1>5, <2>1, <2>2
<1> QED BY <1>0, <1>3, <1>4, <1>5, <1>6, <1>12, <1>13, <1>14 DEF FillIsAdded

-----------------------------------------------------------------------------
(* The ledger of an engine record, and the moves that keep it.             *)

\* The cash and the position are what the fills moved.
Balanced(r) ==
  /\ r.cash = 100 * Capital + SeqSum(Flows(r.parents))
  /\ r.position = -SeqSum(Moves(r.parents))

\* A position is the last filled entry's: its parent tells the accumulators.
InTrade(r) ==
  /\ r.entry \in Buys(r.parents) /\ \A p \in Buys(r.parents) : p <= r.entry
  /\ Qty(r.parents[r.entry]) = r.totalEntry /\ Notional(r.parents[r.entry]) = r.entryCost
  /\ r.parents[r.entry].fills[1].bar = r.firstEntry
  /\ Cardinality(Buys(r.parents)) = Len(r.trades) + 1

\* Without one, every filled entry has its trade and the last may wait.
Flat(r) ==
  /\ r.entryCost = 0 /\ r.totalEntry = 0 /\ r.firstEntry = NoBar
  /\ Cardinality(Buys(r.parents)) = Len(r.trades)
  /\ r.entry # NoParent => /\ r.entry = Len(r.parents)
                           /\ r.parents[r.entry].side = "BUY"
                           /\ r.parents[r.entry].fills = <<>>

\* The exit in work is the last parent and has sold what is gone.
Exiting(r) ==
  /\ r.exit = Len(r.parents) /\ r.parents[r.exit].side = "SELL"
  /\ Qty(r.parents[r.exit]) = r.totalEntry - r.position
  /\ Notional(r.parents[r.exit]) = r.exitProceeds
  /\ Cardinality(Sells(r.parents)) = Len(r.trades) + 1

\* Without one nothing of the position is gone.
Unsold(r) ==
  /\ r.exitProceeds = 0 /\ r.position = r.totalEntry
  /\ Cardinality(Sells(r.parents)) = Len(r.trades)

Told(r) ==
  /\ IF r.position > 0 \/ r.exit # NoParent THEN InTrade(r) ELSE Flat(r)
  /\ IF r.exit # NoParent THEN Exiting(r) ELSE Unsold(r)

\* A trade tells its entry and its exit.
TradeTells(trade, entry, exit) ==
  /\ trade.qty = Qty(entry) /\ trade.qty = Qty(exit)
  /\ trade.pnl = Notional(exit) - Notional(entry)
  /\ trade.from = entry.fills[1].bar
  /\ trade.to = exit.fills[Len(exit.fills)].bar

\* The entry and the exit of one rank make the trade of that rank, and a stop
\* or a target was signalled after the entry's first fill.
Pair(ps, ts, p, q) ==
  Rank(p, Buys(ps)) = Rank(q, Sells(ps)) =>
    /\ Rank(p, Buys(ps)) \in DOMAIN ts => TradeTells(ts[Rank(p, Buys(ps))], ps[p], ps[q])
    /\ ps[q].reason \in {"STOP_LOSS", "TAKE_PROFIT"} => ps[q].signal > ps[p].fills[1].bar
Matched(r) ==
  \A p \in Buys(r.parents), q \in Sells(r.parents) : Pair(r.parents, r.trades, p, q)

Ledger(r) == Balanced(r) /\ Told(r) /\ Matched(r)

\* What a step must leave alone to leave the ledger alone.
SameAccount(r, s) ==
  /\ s.cash = r.cash /\ s.position = r.position /\ s.entryCost = r.entryCost
  /\ s.exitProceeds = r.exitProceeds /\ s.totalEntry = r.totalEntry
  /\ s.firstEntry = r.firstEntry /\ s.exit = r.exit
  /\ s.parents = r.parents /\ s.trades = r.trades

LEMMA LedgerKept ==
  ASSUME NEW r, NEW s, Ledger(r), SameAccount(r, s),
         s.entry = r.entry \/ (s.entry = NoParent /\ r.position = 0 /\ r.exit = NoParent)
  PROVE  Ledger(s)
<1>1. Balanced(s)
  BY DEF Ledger, Balanced, SameAccount
<1>2. Matched(s)
  BY DEF Ledger, Matched, SameAccount
<1>3. CASE s.entry = r.entry
  <2>1. /\ InTrade(r) => InTrade(s)
        /\ Flat(r) => Flat(s)
        /\ Exiting(r) => Exiting(s)
        /\ Unsold(r) => Unsold(s)
    BY <1>3 DEF InTrade, Flat, Exiting, Unsold, SameAccount
  <2>2. Told(s)
    BY <2>1 DEF Ledger, Told, SameAccount
  <2> QED BY <1>1, <1>2, <2>2 DEF Ledger
<1>4. CASE s.entry = NoParent /\ r.position = 0 /\ r.exit = NoParent
  <2>1. Flat(r) => Flat(s)
    BY <1>4 DEF Flat, SameAccount
  <2>2. Unsold(r) => Unsold(s)
    BY DEF Unsold, SameAccount
  <2>3. Told(s)
    BY <1>4, <2>1, <2>2 DEF Ledger, Told, SameAccount
  <2> QED BY <1>1, <1>2, <2>3 DEF Ledger
<1> QED BY <1>3, <1>4

\* A new entry, from flat.
LEMMA NewEntryTells ==
  ASSUME Here, NEW r, Typed(r), Ledger(r), r.position = 0, r.exit = NoParent,
         NEW s, s.cash = r.cash, s.position = 0, s.entryCost = 0, s.exitProceeds = 0,
         s.totalEntry = 0, s.firstEntry = NoBar, s.parents = NewParent(r, "BUY", "ENTRY"),
         s.entry = Len(r.parents) + 1, s.exit = NoParent, s.trades = r.trades
  PROVE  Ledger(s)
<1> DEFINE ps == r.parents
           parent == [side |-> "BUY", signal |-> i, reason |-> "ENTRY", fills |-> <<>>]
           n == Len(ps) + 1
           more == Append(ps, parent)
<1>1. ps \in Seq(Parents)
  BY DEF Typed, Engine
<1>2. parent \in Parents /\ parent.fills = <<>> /\ parent.side = "BUY"
  <2>1. <<>> \in Seq(Fills) /\ i \in Nat BY DEF Here
  <2> QED BY <2>1 DEF Parents
<1>3. s.parents = more
  BY DEF NewParent
<1> HIDE DEF parent
<1>4. /\ n \in Nat /\ DOMAIN ps = 1..(n - 1) /\ more[n] = parent
      /\ Len(more) = n /\ \A p \in DOMAIN ps : more[p] = ps[p]
      /\ Buys(more) = Buys(ps)
      /\ Sells(more) = Sells(ps)
      /\ SeqSum(Flows(more)) = SeqSum(Flows(ps)) /\ SeqSum(Moves(more)) = SeqSum(Moves(ps))
  BY <1>1, <1>2, NewParentTells
<1> HIDE DEF more, n, ps
<1>5. Balanced(s)
  BY <1>3, <1>4 DEF Ledger, Balanced, ps
<1>6. Flat(s) /\ Unsold(s)
  <2>1. Flat(r) /\ Unsold(r)
    BY DEF Ledger, Told
  <2> QED BY <1>2, <1>3, <1>4, <2>1 DEF Flat, Unsold, n, ps
<1>7. Matched(s)
  <2>1. ASSUME NEW p \in Buys(ps), NEW q \in Sells(ps) PROVE Pair(more, s.trades, p, q)
    <3>1. Pair(ps, s.trades, p, q)
      BY DEF Ledger, Matched, ps
    <3>2. more[p] = ps[p] /\ more[q] = ps[q]
      BY <1>4 DEF Buys, Sells
    <3> QED BY <1>4, <3>1, <3>2 DEF Pair
  <2> QED BY <1>3, <1>4, <2>1 DEF Matched
<1>8. Told(s)
  BY <1>6 DEF Told
<1> QED BY <1>5, <1>7, <1>8 DEF Ledger

\* A new exit, of a position: the last filled entry's is the exit of its rank.
LEMMA NewExitTells ==
  ASSUME Here, NEW r, Typed(r), Ledger(r), r.position > 0, r.exit = NoParent,
         NEW reason \in Reasons,
         reason \in {"STOP_LOSS", "TAKE_PROFIT"} => i > r.firstEntry,
         NEW s, s.cash = r.cash, s.position = r.position, s.entryCost = r.entryCost,
         s.exitProceeds = r.exitProceeds, s.totalEntry = r.totalEntry,
         s.firstEntry = r.firstEntry, s.parents = NewParent(r, "SELL", reason),
         s.entry = r.entry, s.exit = Len(r.parents) + 1, s.trades = r.trades
  PROVE  Ledger(s)
<1> DEFINE ps == r.parents
           parent == [side |-> "SELL", signal |-> i, reason |-> reason, fills |-> <<>>]
           n == Len(ps) + 1
           more == Append(ps, parent)
<1>1. ps \in Seq(Parents) /\ r.trades \in Seq(Trades)
  BY DEF Typed, Engine
<1>2. /\ parent \in Parents /\ parent.fills = <<>> /\ parent.side = "SELL"
      /\ parent.signal = i /\ parent.reason = reason
  <2>1. <<>> \in Seq(Fills) /\ i \in Nat BY DEF Here
  <2> QED BY <2>1 DEF Parents, Reasons
<1>3. s.parents = more
  BY DEF NewParent
<1> HIDE DEF parent
<1>4. /\ n \in Nat /\ DOMAIN ps = 1..(n - 1) /\ more[n] = parent
      /\ Len(more) = n /\ \A p \in DOMAIN ps : more[p] = ps[p] /\ p < n
      /\ Buys(more) = Buys(ps)
      /\ Sells(more) = Sells(ps) \cup {n}
      /\ Qty(parent) = 0 /\ Notional(parent) = 0
      /\ SeqSum(Flows(more)) = SeqSum(Flows(ps)) /\ SeqSum(Moves(more)) = SeqSum(Moves(ps))
  BY <1>1, <1>2, NewParentTells
<1> HIDE DEF more, n
<1>5. InTrade(r) /\ Unsold(r)
  BY DEF Ledger, Told
<1>6. /\ Buys(ps) \subseteq Nat /\ IsFiniteSet(Buys(ps))
      /\ Sells(ps) \subseteq Nat /\ IsFiniteSet(Sells(ps)) /\ \A q \in Sells(ps) : q < n
      /\ Cardinality(Sells(ps)) = Len(r.trades) /\ Cardinality(Buys(ps)) = Len(r.trades) + 1
      /\ Len(r.trades) \in Nat /\ DOMAIN r.trades = 1..Len(r.trades)
  <2>1. \A q \in Sells(ps) : q < n
    BY <1>4 DEF Sells
  <2>2. /\ Buys(ps) \subseteq Nat /\ IsFiniteSet(Buys(ps))
        /\ Sells(ps) \subseteq Nat /\ IsFiniteSet(Sells(ps))
    BY <1>1, PlacesAreFinite
  <2>3. Len(r.trades) \in Nat /\ DOMAIN r.trades = 1..Len(r.trades)
    BY <1>1
  <2> QED BY <1>5, <2>1, <2>2, <2>3 DEF Unsold, InTrade
<1>7. /\ Cardinality(Sells(more)) = Len(r.trades) + 1
      /\ \A q \in Sells(ps) : Rank(q, Sells(more)) = Rank(q, Sells(ps))
      /\ Rank(n, Sells(more)) = Len(r.trades) + 1
  <2>1. /\ Cardinality(Sells(ps) \cup {n}) = Cardinality(Sells(ps)) + 1
        /\ IsFiniteSet(Sells(ps) \cup {n})
        /\ \A q \in Sells(ps) : Rank(q, Sells(ps) \cup {n}) = Rank(q, Sells(ps))
    BY <1>4, <1>6, RankAdding
  <2>2. /\ Sells(more) \subseteq Nat /\ IsFiniteSet(Sells(more)) /\ n \in Sells(more)
        /\ \A q \in Sells(more) : q <= n
    BY <1>4, <1>6, <2>1
  <2>3. Rank(n, Sells(more)) = Cardinality(Sells(more))
    BY <2>2, RankOfLargest
  <2> QED BY <1>4, <1>6, <2>1, <2>3
<1>8. \A p \in Buys(ps) : Rank(p, Buys(ps)) = Len(r.trades) + 1 => p = r.entry
  <2>1. r.entry \in Buys(ps) /\ \A p \in Buys(ps) : p <= r.entry
    BY <1>5 DEF InTrade
  <2>2. \A p \in Buys(ps) : Rank(p, Buys(ps)) = Cardinality(Buys(ps)) => p = r.entry
    BY <1>6, <2>1, RankOfLargest
  <2> QED BY <1>6, <2>2
<1>9. Balanced(s)
  BY <1>3, <1>4 DEF Ledger, Balanced
<1>10. InTrade(s)
  <2>1. r.entry \in DOMAIN ps /\ more[r.entry] = ps[r.entry]
    BY <1>4, <1>5 DEF InTrade, Buys
  <2> QED BY <1>3, <1>4, <1>5, <2>1 DEF InTrade
<1>11. Exiting(s)
  <2>1. r.position \in Nat /\ r.totalEntry - r.position = 0
    BY <1>5 DEF Unsold, Typed, Engine
  <2>2. s.exit = Len(s.parents) /\ s.parents[s.exit] = parent
    BY <1>3, <1>4 DEF n
  <2> QED BY <1>2, <1>3, <1>4, <1>5, <1>7, <2>1, <2>2 DEF Exiting, Unsold
<1>12. Matched(s)
  <2>1. ASSUME NEW p \in Buys(ps), NEW q \in Sells(ps) PROVE Pair(more, s.trades, p, q)
    <3>1. Pair(ps, s.trades, p, q)
      BY DEF Ledger, Matched
    <3>2. more[p] = ps[p] /\ more[q] = ps[q]
      BY <1>4 DEF Buys, Sells
    <3> QED BY <1>4, <1>7, <3>1, <3>2 DEF Pair
  <2>2. ASSUME NEW p \in Buys(ps) PROVE Pair(more, s.trades, p, n)
    <3>1. SUFFICES ASSUME Rank(p, Buys(ps)) = Len(r.trades) + 1
                   PROVE  Pair(more, s.trades, p, n)
      BY <1>4, <1>7 DEF Pair
    <3>2. p = r.entry
      BY <1>8, <3>1
    <3>3. more[p] = ps[p] /\ ps[p].fills[1].bar = r.firstEntry
      BY <1>4, <1>5, <3>2 DEF InTrade, Buys
    <3>4. Rank(p, Buys(more)) \notin DOMAIN s.trades
      BY <1>4, <1>6, <3>1
    <3> QED BY <1>2, <1>4, <3>3, <3>4 DEF Pair
  <2> QED BY <1>3, <1>4, <2>1, <2>2 DEF Matched
<1>13. Told(s)
  <2>1. s.exit # NoParent
    BY <1>4 DEF NoParent, n
  <2> QED BY <1>10, <1>11, <2>1 DEF Told
<1> QED BY <1>9, <1>12, <1>13 DEF Ledger

\* Shares bought: the entry, filled for the first time or again, tells them.
LEMMA BoughtTells ==
  ASSUME Here, NEW r, Typed(r), Ledger(r), r.entry # NoParent, r.exit = NoParent,
         NEW price \in Nat, NEW qty \in Nat \ {0},
         NEW s, s.cash = r.cash - price * qty, s.position = r.position + qty,
         s.entryCost = r.entryCost + price * qty, s.exitProceeds = r.exitProceeds,
         s.totalEntry = r.totalEntry + qty,
         s.firstEntry = IF r.firstEntry = NoBar THEN i ELSE r.firstEntry,
         s.parents = Recorded(r.parents, r.entry, price, qty),
         s.entry = r.entry, s.exit = NoParent, s.trades = r.trades
  PROVE  Ledger(s)
<1>1. PICK ps \in Seq(Parents), n \in Nat \ {0} :
        ps = r.parents /\ n = r.entry /\ n \in 1..Len(ps) /\ DOMAIN ps = 1..Len(ps)
  <2>1. /\ r.entry \in 1..Len(r.parents) /\ r.parents \in Seq(Parents)
    BY OnTheList
  <2>2. r.entry \in Nat \ {0} /\ DOMAIN r.parents = 1..Len(r.parents)
    BY <2>1
  <2> QED BY <2>1, <2>2
<1>t. /\ r.trades \in Seq(Trades) /\ r.firstEntry \in NoBar..i /\ i \in Nat
      /\ r.cash \in Int /\ r.position \in Nat /\ r.entryCost \in Nat /\ r.totalEntry \in Nat
  BY DEF Typed, Engine, Here
<1> DEFINE after == s.parents
           buys == Buys(after)
<1>a. after = Recorded(ps, n, price, qty)
  BY <1>1
<1> HIDE DEF after, buys
<1>2. PICK cost \in Nat : cost = price * qty
  OBVIOUS
<1>3. Unsold(r) /\ (r.position > 0 => InTrade(r)) /\ (r.position = 0 => Flat(r))
  BY <1>t DEF Ledger, Told
<1>4. ps[n].side = "BUY"
  BY <1>1, <1>t, <1>3 DEF InTrade, Flat, Buys
<1>5. /\ after \in Seq(Parents) /\ Len(after) = Len(ps) /\ DOMAIN after = DOMAIN ps
      /\ \A q \in DOMAIN ps : q # n => after[q] = ps[q]
      /\ Qty(after[n]) = Qty(ps[n]) + qty /\ Notional(after[n]) = Notional(ps[n]) + cost
      /\ after[n].fills[1].bar = IF ps[n].fills = <<>> THEN i ELSE ps[n].fills[1].bar
  <2>1. qty \in Nat
    OBVIOUS
  <2>2. FillIsRecorded(after, ps, n, price, qty)
    BY <1>1, <1>t, <1>a, <2>1, RecordTells
  <2> QED BY <1>1, <1>2, <2>2 DEF FillIsRecorded
<1>6. /\ buys = Buys(ps) \cup {n} /\ Sells(after) = Sells(ps)
      /\ SeqSum(Flows(after)) = SeqSum(Flows(ps)) - cost
      /\ SeqSum(Moves(after)) = SeqSum(Moves(ps)) - qty
  <2>1. Sign(ps[n].side) = 1
    BY <1>4 DEF Sign
  <2>2. 1 * cost = cost /\ 1 * qty = qty /\ qty \in Nat
    OBVIOUS
  <2>3. FillIsAdded(after, ps, n, price, qty)
    BY <1>1, <1>t, <1>a, <2>2, RecordAddsUp
  <2> QED BY <1>2, <1>4, <2>1, <2>2, <2>3 DEF buys, FillIsAdded
<1>7. SeqSum(Flows(ps)) \in Int /\ SeqSum(Moves(ps)) \in Int /\ 100 * Capital \in Int
      /\ Qty(ps[n]) \in Int /\ Notional(ps[n]) \in Int
  BY <1>1, ParentsAddUp, BacktestAssumption
<1>8. Balanced(s)
  <2>1. r.cash = 100 * Capital + SeqSum(Flows(ps)) /\ r.position = -SeqSum(Moves(ps))
    BY <1>1 DEF Ledger, Balanced
  <2> DEFINE f == SeqSum(Flows(ps)) m == SeqSum(Moves(ps)) c == 100 * Capital
  <2> HIDE DEF f, m, c
  <2>2. (c + f) - cost = c + (f - cost) /\ -m + qty = -(m - qty)
    BY <1>7 DEF f, m, c
  <2> QED BY <1>2, <1>6, <2>1, <2>2 DEF Balanced, after, f, m, c
<1>9. /\ n \in buys /\ \A p \in buys : p <= n
      /\ Cardinality(buys) = Len(r.trades) + 1 /\ Len(r.trades) \in Nat
      /\ buys \subseteq Nat /\ IsFiniteSet(buys)
      /\ \A p \in Buys(ps) : Rank(p, buys) = Rank(p, Buys(ps))
      /\ Qty(ps[n]) = r.totalEntry /\ Notional(ps[n]) = r.entryCost
      /\ (IF ps[n].fills = <<>> THEN i ELSE ps[n].fills[1].bar) =
           (IF r.firstEntry = NoBar THEN i ELSE r.firstEntry)
  <2>0. /\ Buys(ps) \subseteq Nat /\ IsFiniteSet(Buys(ps)) /\ Len(r.trades) \in Nat /\ n \in Nat
    <3>1. Buys(ps) \subseteq Nat /\ IsFiniteSet(Buys(ps))
      BY <1>1, PlacesAreFinite
    <3>2. Len(r.trades) \in Nat
      BY <1>t
    <3> QED BY <1>1, <3>1, <3>2
  <2>1. CASE r.position > 0
    <3>1. InTrade(r)
      BY <1>3, <2>1
    <3>2. buys = Buys(ps)
      BY <1>1, <1>6, <3>1 DEF InTrade
    <3>3. ps[n].fills # <<>> /\ (r.firstEntry = NoBar => ps[n].fills[1].bar = NoBar)
      BY <1>1, <3>1 DEF InTrade, Buys
    <3>4. ps[n].fills[1].bar \in Nat
      <4>1. ps[n].fills \in Seq(Fills)
        <5>1. ps[n] \in Parents
          BY <1>1
        <5> QED BY <5>1 DEF Parents
      <4>2. ps[n].fills[1] \in Fills
        BY <3>3, <4>1
      <4> QED BY <4>2 DEF Fills
    <3>5. r.firstEntry # NoBar
      BY <3>3, <3>4 DEF NoBar
    <3> QED BY <1>1, <2>0, <3>1, <3>2, <3>3, <3>5 DEF InTrade
  <2>2. CASE r.position = 0
    <3>1. Flat(r) /\ n = Len(ps) /\ ps[n].fills = <<>>
      BY <1>1, <1>3, <2>2 DEF Flat
    <3>2. \A p \in Buys(ps) : p < n
      <4>1. \A p \in Buys(ps) : p \in 1..n /\ p # n
        BY <1>1, <3>1 DEF Buys
      <4> QED BY <4>1, <2>0
    <3>3. /\ Cardinality(buys) = Cardinality(Buys(ps)) + 1 /\ IsFiniteSet(buys)
          /\ \A p \in Buys(ps) : Rank(p, buys) = Rank(p, Buys(ps))
      BY <1>6, <2>0, <3>2, RankAdding
    <3>4. Qty(ps[n]) = 0 /\ Notional(ps[n]) = 0
      <4>1. Qtys(<<>>) = <<>> /\ Notionals(<<>>) = <<>>
        BY DEF Qtys, Notionals
      <4>2. Qty(ps[n]) = SeqSum(Qtys(<<>>)) /\ Notional(ps[n]) = SeqSum(Notionals(<<>>))
        BY <3>1 DEF Qty, Qtys, Notional, Notionals
      <4> QED BY <4>1, <4>2, SeqSumOfNothing
    <3>5. n \in buys /\ buys \subseteq Nat /\ \A p \in buys : p <= n
      BY <1>6, <2>0, <3>2
    <3> QED BY <1>1, <2>0, <3>1, <3>3, <3>4, <3>5 DEF Flat
  <2> QED BY <1>t, <2>1, <2>2, SMTT(30)
<1>10. InTrade(s)
  BY <1>1, <1>2, <1>5, <1>9 DEF InTrade, after, buys
<1>11. Unsold(s)
  BY <1>1, <1>t, <1>3, <1>6 DEF Unsold, after
<1>12. Matched(s)
  <2>1. ASSUME NEW p \in buys, NEW q \in Sells(ps) PROVE Pair(after, r.trades, p, q)
    <3>0. /\ Sells(ps) \subseteq Nat /\ IsFiniteSet(Sells(ps))
          /\ Cardinality(Sells(ps)) = Len(r.trades)
      BY <1>1, <1>3, PlacesAreFinite DEF Unsold
    <3>1. Rank(q, Sells(ps)) <= Len(r.trades) /\ Rank(q, Sells(ps)) \in Nat
      BY <3>0, RankWithin
    <3>2. CASE p = n
      <4>1. Rank(p, buys) = Len(r.trades) + 1
        BY <1>9, <3>2, RankOfLargest
      <4>2. Rank(p, buys) # Rank(q, Sells(ps))
        BY <1>9, <3>1, <4>1
      <4> QED BY <1>6, <4>2 DEF Pair, buys
    <3>3. CASE p # n
      <4>1. p \in Buys(ps) /\ Rank(p, buys) = Rank(p, Buys(ps))
        BY <1>6, <1>9, <3>3
      <4>2. Pair(ps, r.trades, p, q)
        BY <1>1, <4>1 DEF Ledger, Matched
      <4>3. q # n /\ after[p] = ps[p] /\ after[q] = ps[q]
        BY <1>4, <1>5, <3>3, <4>1 DEF Buys, Sells
      <4> QED BY <1>6, <4>1, <4>2, <4>3 DEF Pair, buys
    <3> QED BY <3>2, <3>3
  <2> QED BY <1>6, <2>1 DEF Matched, after, buys
<1>13. Told(s)
  <2>1. s.position > 0
    <3>1. r.position \in Nat
      BY <1>t
    <3>2. r.position + qty > 0
      BY <3>1
    <3> QED BY <3>2
  <2> QED BY <1>10, <1>11, <2>1 DEF Told
<1> QED BY <1>8, <1>12, <1>13 DEF Ledger

\* Shares sold: the exit in work tells them, and the trade is not made yet.
LEMMA SoldTells ==
  ASSUME Here, NEW r, Typed(r), Ledger(r), r.exit # NoParent,
         NEW price \in Nat, NEW qty \in Nat,
         NEW s, s.cash = r.cash + price * qty, s.position = r.position - qty,
         s.entryCost = r.entryCost, s.exitProceeds = r.exitProceeds + price * qty,
         s.totalEntry = r.totalEntry, s.firstEntry = r.firstEntry,
         s.parents = Recorded(r.parents, r.exit, price, qty),
         s.entry = r.entry, s.exit = r.exit, s.trades = r.trades
  PROVE  Ledger(s) /\ s.parents[s.exit].fills[Len(s.parents[s.exit].fills)].bar = i
<1>1. PICK ps \in Seq(Parents), n \in Nat \ {0} :
        ps = r.parents /\ n = r.exit /\ n \in 1..Len(ps) /\ DOMAIN ps = 1..Len(ps)
  <2>1. /\ r.exit \in 1..Len(r.parents) /\ r.parents \in Seq(Parents)
    BY OnTheList
  <2>2. r.exit \in Nat \ {0} /\ DOMAIN r.parents = 1..Len(r.parents)
    BY <2>1
  <2> QED BY <2>1, <2>2
<1>t. /\ r.trades \in Seq(Trades) /\ i \in Nat /\ r.cash \in Int /\ r.position \in Nat
      /\ r.exitProceeds \in Nat /\ r.totalEntry \in Nat
  BY DEF Typed, Engine, Here
<1> DEFINE after == s.parents
<1>a. after = Recorded(ps, n, price, qty)
  BY <1>1
<1> HIDE DEF after
<1>2. PICK cost \in Nat : cost = price * qty
  OBVIOUS
<1>3. InTrade(r) /\ Exiting(r)
  BY DEF Ledger, Told
<1>4. ps[n].side = "SELL" /\ n \in Sells(ps)
  BY <1>1, <1>3 DEF Exiting, Sells
<1>5. FillIsRecorded(after, ps, n, price, qty)
  BY <1>1, <1>t, <1>a, RecordTells
<1>6. /\ Buys(after) = Buys(ps) /\ Sells(after) = Sells(ps)
      /\ SeqSum(Flows(after)) = SeqSum(Flows(ps)) + cost
      /\ SeqSum(Moves(after)) = SeqSum(Moves(ps)) + qty
  <2>1. Sign(ps[n].side) = -1
    BY <1>4 DEF Sign
  <2>2. FillIsAdded(after, ps, n, price, qty)
    BY <1>1, <1>t, <1>a, RecordAddsUp
  <2>3. SeqSum(Flows(ps)) \in Int /\ SeqSum(Moves(ps)) \in Int
    BY ParentsAddUp
  <2>4. \A x \in Int : x - (-1) * cost = x + cost /\ x - (-1) * qty = x + qty
    OBVIOUS
  <2> QED BY <1>2, <1>4, <2>1, <2>2, <2>3, <2>4 DEF FillIsAdded
<1>7. SeqSum(Flows(ps)) \in Int /\ SeqSum(Moves(ps)) \in Int /\ 100 * Capital \in Int
      /\ Qty(ps[n]) \in Int /\ Notional(ps[n]) \in Int
  BY <1>1, ParentsAddUp, BacktestAssumption, SMTT(30)
<1>8. Balanced(s)
  <2>1. r.cash = 100 * Capital + SeqSum(Flows(ps)) /\ r.position = -SeqSum(Moves(ps))
    BY <1>1 DEF Ledger, Balanced
  <2> DEFINE f == SeqSum(Flows(ps)) m == SeqSum(Moves(ps)) c == 100 * Capital
  <2> HIDE DEF f, m, c
  <2>2. (c + f) + cost = c + (f + cost) /\ -m - qty = -(m + qty)
    BY <1>7 DEF f, m, c
  <2> QED BY <1>2, <1>6, <2>1, <2>2 DEF Balanced, after, f, m, c
<1>9. InTrade(s)
  <2>1. r.entry \in DOMAIN ps /\ r.entry # n
    BY <1>1, <1>3, <1>4 DEF InTrade, Buys
  <2>2. after[r.entry] = ps[r.entry]
    BY <1>5, <2>1 DEF FillIsRecorded
  <2> QED BY <1>1, <1>3, <1>6, <2>2 DEF InTrade, after
<1>10. Exiting(s)
  <2>1. /\ Qty(after[n]) = Qty(ps[n]) + qty /\ Notional(after[n]) = Notional(ps[n]) + cost
        /\ Len(after) = Len(ps) /\ after[n].side = "SELL"
    BY <1>2, <1>4, <1>5 DEF FillIsRecorded
  <2>2. Qty(ps[n]) = r.totalEntry - r.position /\ Notional(ps[n]) = r.exitProceeds
    BY <1>1, <1>3 DEF Exiting
  <2>3. (r.totalEntry - r.position) + qty = r.totalEntry - (r.position - qty)
    BY <1>t
  <2> QED BY <1>1, <1>2, <1>3, <1>6, <2>1, <2>2, <2>3 DEF Exiting, after
<1>11. Matched(s)
  <2>1. ASSUME NEW p \in Buys(ps), NEW q \in Sells(ps) PROVE Pair(after, r.trades, p, q)
    <3>0. /\ Sells(ps) \subseteq Nat /\ IsFiniteSet(Sells(ps)) /\ Len(r.trades) \in Nat
          /\ Cardinality(Sells(ps)) = Len(r.trades) + 1 /\ \A x \in Sells(ps) : x <= n
          /\ DOMAIN r.trades = 1..Len(r.trades)
      <4>1. Sells(ps) \subseteq 1..n
        BY <1>1, <1>3 DEF Exiting, Sells
      <4>2. Sells(ps) \subseteq Nat /\ IsFiniteSet(Sells(ps))
        BY PlacesAreFinite
      <4>3. Len(r.trades) \in Nat /\ DOMAIN r.trades = 1..Len(r.trades)
        BY <1>t
      <4>4. Cardinality(Sells(ps)) = Len(r.trades) + 1
        BY <1>1, <1>3 DEF Exiting
      <4>5. \A x \in Sells(ps) : x <= n
        BY <1>1, <4>1
      <4> QED BY <4>2, <4>3, <4>4, <4>5
    <3>1. Pair(ps, r.trades, p, q)
      BY <1>1 DEF Ledger, Matched
    <3>2. p # n /\ after[p] = ps[p] /\ q \in DOMAIN ps
      BY <1>4, <1>5 DEF Buys, Sells, FillIsRecorded
    <3>3. CASE q = n
      <4>1. Rank(q, Sells(ps)) = Len(r.trades) + 1
        BY <1>4, <3>0, <3>3, RankOfLargest
      <4>2. Rank(q, Sells(ps)) \notin DOMAIN r.trades
        BY <3>0, <4>1
      <4>3. after[q].reason = ps[q].reason /\ after[q].signal = ps[q].signal
        BY <1>5, <3>3 DEF FillIsRecorded
      <4> QED BY <1>6, <3>1, <3>2, <4>2, <4>3 DEF Pair
    <3>4. CASE q # n
      <4>1. after[q] = ps[q]
        BY <1>5, <3>2, <3>4 DEF FillIsRecorded
      <4> QED BY <1>6, <3>1, <3>2, <4>1 DEF Pair
    <3> QED BY <3>3, <3>4
  <2> QED BY <1>6, <2>1 DEF Matched, after
<1>12. Told(s)
  BY <1>9, <1>10 DEF Told
<1>13. after[n].fills[Len(after[n].fills)].bar = i
  BY <1>5 DEF FillIsRecorded
<1> QED BY <1>1, <1>8, <1>11, <1>12, <1>13 DEF Ledger, after

\* A round trip closed: its trade tells the last entry and the last exit.
LEMMA ClosedTells ==
  ASSUME Here, NEW r, Ledger(r), r.exit # NoParent, r.position = 0,
         r.parents \in Seq(Parents), r.trades \in Seq(Trades), r.exit \in 1..Len(r.parents),
         r.totalEntry \in Nat,
         r.parents[r.exit].fills[Len(r.parents[r.exit].fills)].bar = i,
         NEW s, s.cash = r.cash, s.position = 0, s.entryCost = 0, s.exitProceeds = 0,
         s.totalEntry = 0, s.firstEntry = NoBar, s.parents = r.parents,
         s.entry = NoParent, s.exit = NoParent,
         s.trades = Append(r.trades, [from |-> r.firstEntry, to |-> i, qty |-> r.totalEntry,
                                      pnl |-> r.exitProceeds - r.entryCost])
  PROVE  Ledger(s)
<1> DEFINE ps == r.parents
           ts == r.trades
           trade == [from |-> r.firstEntry, to |-> i, qty |-> r.totalEntry,
                     pnl |-> r.exitProceeds - r.entryCost]
           more == Append(ts, trade)
<1>1. /\ ps \in Seq(Parents) /\ ts \in Seq(Trades) /\ r.exit \in 1..Len(ps)
      /\ r.totalEntry \in Nat
  OBVIOUS
<1>2. InTrade(r) /\ Exiting(r)
  BY DEF Ledger, Told
<1>3. TradeTells(trade, ps[r.entry], ps[r.exit])
  <2>1. /\ trade.from = r.firstEntry /\ trade.to = i /\ trade.qty = r.totalEntry
        /\ trade.pnl = r.exitProceeds - r.entryCost
    OBVIOUS
  <2> HIDE DEF trade
  <2>2. r.totalEntry - r.position = r.totalEntry
    BY <1>1
  <2> QED BY <1>2, <2>1, <2>2 DEF TradeTells, InTrade, Exiting
<1> HIDE DEF trade
<1>4. /\ Len(ts) \in Nat /\ DOMAIN ts = 1..Len(ts) /\ Len(more) = Len(ts) + 1
      /\ DOMAIN more = 1..(Len(ts) + 1) /\ more[Len(ts) + 1] = trade
      /\ \A k \in 1..Len(ts) : more[k] = ts[k]
  <2>1. PICK old \in Seq(Trades) : old = ts BY <1>1
  <2>2. /\ Len(old) \in Nat /\ DOMAIN old = 1..Len(old) /\ Len(Append(old, trade)) = Len(old) + 1
        /\ DOMAIN Append(old, trade) = 1..(Len(old) + 1)
        /\ Append(old, trade)[Len(old) + 1] = trade
        /\ \A k \in 1..Len(old) : Append(old, trade)[k] = old[k]
    OBVIOUS
  <2> QED BY <2>1, <2>2
<1>5. s.trades = more
  BY DEF trade
<1> HIDE DEF more
<1>6. /\ Buys(ps) \subseteq Nat /\ IsFiniteSet(Buys(ps))
      /\ Sells(ps) \subseteq Nat /\ IsFiniteSet(Sells(ps))
      /\ Cardinality(Buys(ps)) = Len(ts) + 1 /\ Cardinality(Sells(ps)) = Len(ts) + 1
  BY <1>1, <1>2, PlacesAreFinite DEF InTrade, Exiting
<1>7. \A p \in Buys(ps) : Rank(p, Buys(ps)) = Len(ts) + 1 => p = r.entry
  <2>1. r.entry \in Buys(ps) /\ \A p \in Buys(ps) : p <= r.entry
    BY <1>2 DEF InTrade
  <2>2. \A p \in Buys(ps) : Rank(p, Buys(ps)) = Cardinality(Buys(ps)) => p = r.entry
    BY <1>6, <2>1, RankOfLargest
  <2> QED BY <1>6, <2>2
<1>8. \A q \in Sells(ps) : Rank(q, Sells(ps)) = Len(ts) + 1 => q = r.exit
  <2>1. r.exit \in Sells(ps) /\ \A q \in Sells(ps) : q <= r.exit
    <3>1. DOMAIN ps = 1..Len(ps) /\ r.exit = Len(ps)
      BY <1>1, <1>2 DEF Exiting
    <3>2. r.exit \in Sells(ps)
      BY <1>1, <1>2, <3>1 DEF Exiting, Sells
    <3>3. \A q \in Sells(ps) : q \in 1..r.exit
      BY <3>1 DEF Sells
    <3> QED BY <3>2, <3>3
  <2>2. \A q \in Sells(ps) : Rank(q, Sells(ps)) = Cardinality(Sells(ps)) => q = r.exit
    BY <1>6, <2>1, RankOfLargest
  <2> QED BY <1>6, <2>2
<1>9. Balanced(s)
  BY DEF Ledger, Balanced
<1>10. Flat(s) /\ Unsold(s)
  BY <1>4, <1>5, <1>6 DEF Flat, Unsold
<1>11. Matched(s)
  <2>1. ASSUME NEW p \in Buys(ps), NEW q \in Sells(ps) PROVE Pair(ps, more, p, q)
    <3> DEFINE k == Rank(p, Buys(ps))
    <3>1. Pair(ps, ts, p, q)
      BY DEF Ledger, Matched
    <3>2. SUFFICES ASSUME k = Rank(q, Sells(ps)) PROVE Pair(ps, more, p, q)
      BY DEF Pair
    <3>3. CASE k = Len(ts) + 1
      <4>1. p = r.entry /\ q = r.exit
        BY <1>7, <1>8, <3>2, <3>3
      <4>2. TradeTells(more[k], ps[p], ps[q])
        BY <1>3, <1>4, <3>3, <4>1
      <4> QED BY <3>1, <4>2 DEF Pair
    <3>4. CASE k # Len(ts) + 1
      <4>1. k \in DOMAIN more => k \in DOMAIN ts /\ more[k] = ts[k]
        BY <1>4, <3>4
      <4> QED BY <3>1, <4>1 DEF Pair
    <3> QED BY <3>3, <3>4
  <2> QED BY <1>5, <2>1 DEF Matched
<1>12. Told(s)
  BY <1>10 DEF Told
<1> QED BY <1>9, <1>11, <1>12 DEF Ledger

\* Under last look every fill of a parent comes after its signal's bar, and the
\* parent in work is the one the execution model's bar is of.
Late(parent) == \A k \in DOMAIN parent.fills : parent.fills[k].bar > parent.signal

Timed(r) ==
  model.inner = "lastlook" =>
    /\ \A p \in DOMAIN r.parents : Late(r.parents[p])
    /\ r.exit # NoParent => r.parents[r.exit].signal = r.signalBar
    /\ r.exit = NoParent /\ r.pendingEntry > 0 => r.parents[r.entry].signal = r.signalBar

Books(r) == Ledger(r) /\ Timed(r)

-----------------------------------------------------------------------------
(* The helpers keep the books.                                             *)

\* The fields of what the helpers make.
LEMMA BoughtFields ==
  ASSUME NEW r \in Engine, NEW price, NEW qty, NEW draw, NEW f,
         f = Filled(Bought(r, price, qty), qty, draw)
  PROVE  /\ f.cash = r.cash - price * qty /\ f.position = r.position + qty
         /\ f.entryCost = r.entryCost + price * qty /\ f.exitProceeds = r.exitProceeds
         /\ f.totalEntry = r.totalEntry + qty
         /\ f.firstEntry = IF r.firstEntry = NoBar THEN i ELSE r.firstEntry
         /\ f.parents = Recorded(r.parents, r.entry, price, qty)
         /\ f.entry = r.entry /\ f.exit = r.exit /\ f.trades = r.trades
         /\ f.signalBar = r.signalBar /\ f.pendingEntry = r.pendingEntry - qty
BY DEF Engine, Filled, Bought

Fields == {"cash", "position", "pendingEntry", "pendingExit", "entryCost", "exitProceeds",
           "totalEntry", "firstEntry", "entry", "exit", "parents", "trades", "iceberg",
           "signalBar"}

LEMMA SoldFilledFields ==
  ASSUME NEW r \in Engine, NEW price, NEW qty, NEW draw, NEW f,
         f = Filled(Sold(r, price, qty), qty, draw)
  PROVE  /\ f.cash = r.cash + price * qty /\ f.position = r.position - qty
         /\ f.entryCost = r.entryCost /\ f.exitProceeds = r.exitProceeds + price * qty
         /\ f.totalEntry = r.totalEntry /\ f.firstEntry = r.firstEntry
         /\ f.parents = Recorded(r.parents, r.exit, price, qty)
         /\ f.entry = r.entry /\ f.exit = r.exit /\ f.trades = r.trades
         /\ f.signalBar = r.signalBar /\ f.pendingEntry = r.pendingEntry
         /\ f.pendingExit = r.pendingExit - qty /\ DOMAIN f = Fields
BY DEF Engine, Filled, Sold, Fields

LEMMA ClosedFields ==
  ASSUME NEW r, DOMAIN r = Fields,
         NEW s, s = CloseRoundTrip(r)
  PROVE  /\ s.cash = r.cash /\ s.position = r.position /\ s.entryCost = 0
         /\ s.exitProceeds = 0 /\ s.totalEntry = 0 /\ s.firstEntry = NoBar
         /\ s.parents = r.parents /\ s.entry = NoParent /\ s.exit = NoParent
         /\ s.pendingEntry = r.pendingEntry
         /\ s.trades = Append(r.trades, [from |-> r.firstEntry, to |-> i, qty |-> r.totalEntry,
                                         pnl |-> r.exitProceeds - r.entryCost])
BY DEF CloseRoundTrip, FreshRoundTrip, Fields

\* Under last look nothing is filled on the signal's own bar.
LEMMA HeldOnItsBar ==
  ASSUME Here, NEW r, Typed(r), NEW side, NEW asked, Executed(r, side, asked) # 0,
         model.inner = "lastlook"
  PROVE  i > r.signalBar
<1>1. Accepts(r, side)
  BY DEF Executed
<1>2. i # r.signalBar
  BY <1>1 DEF Accepts
<1> QED BY <1>2 DEF Typed, Here, NoBar

\* A fill on this bar leaves every parent late that was, but the one it is of,
\* and that one too if its signal came before this bar.
LEMMA FillIsLate ==
  ASSUME i \in Nat, NEW ps, NEW n \in DOMAIN ps, NEW after, NEW price, NEW qty,
         FillIsRecorded(after, ps, n, price, qty), \A p \in DOMAIN ps : Late(ps[p])
  PROVE  /\ \A p \in DOMAIN after : p # n => Late(after[p])
         /\ i > ps[n].signal => Late(after[n])
         /\ after[n].signal = ps[n].signal
<1>1. \A p \in DOMAIN after : p # n => Late(after[p])
  BY DEF FillIsRecorded
<1>2. ASSUME i > ps[n].signal PROVE Late(after[n])
  BY <1>2 DEF FillIsRecorded, Late
<1> QED BY <1>1, <1>2 DEF FillIsRecorded

\* Working the entry.
LEMMA WorkEntryTells ==
  ASSUME Here, NEW r, Sound(r), Books(r), NEW draw \in Nat \ {0}
  PROVE  Books(WorkEntry(r, draw))
<1> DEFINE asked == Lesser(r.pendingEntry, Affordable(r, Reference))
           qty == Executed(r, "BUY", asked)
           price == AllIn("BUY", FillPrice)
           f == Filled(Bought(r, price, qty), qty, draw)
<1>1. price \in Nat \ {0} /\ Reference = FillPrice
  BY PricesPositive
<1>2. r \in Engine /\ r.cash \in Nat /\ r.pendingEntry \in Nat /\ Typed(r) /\ OneParent(r)
  BY DEF Sound, Typed, Engine
<1>3. asked \in Int /\ asked <= r.pendingEntry
  <2>1. r.cash \div price \in Int
    BY <1>1, <1>2
  <2>2. Affordable(r, Reference) = r.cash \div price
    BY <1>1 DEF Affordable
  <2> HIDE DEF price
  <2> QED BY <1>2, <2>1, <2>2 DEF Lesser
<1> HIDE DEF asked
<1>4. qty \in Nat /\ (qty > 0 => qty <= asked)
  BY <1>2, <1>3, ExecutesWithin
<1>5. CASE qty = 0
  <2>1. WorkEntry(r, draw) = r
    BY <1>5 DEF WorkEntry, asked
  <2> QED BY <2>1
<1>6. CASE qty # 0
  <2>1. WorkEntry(r, draw) = f
    BY <1>6 DEF WorkEntry, asked
  <2>2. model.inner = "lastlook" => i > r.signalBar
    BY <1>2, <1>6, HeldOnItsBar
  <2> HIDE DEF qty, price, f
  <2>3. qty \in Nat \ {0} /\ price \in Nat
    BY <1>1, <1>4, <1>6
  <2>4. r.pendingEntry > 0
    BY <1>2, <1>3, <1>4, <2>3
  <2>5. r.entry # NoParent /\ r.exit = NoParent
    BY <1>2, <2>4 DEF OneParent
  <2>6. /\ f.cash = r.cash - price * qty /\ f.position = r.position + qty
        /\ f.entryCost = r.entryCost + price * qty /\ f.exitProceeds = r.exitProceeds
        /\ f.totalEntry = r.totalEntry + qty
        /\ f.firstEntry = IF r.firstEntry = NoBar THEN i ELSE r.firstEntry
        /\ f.parents = Recorded(r.parents, r.entry, price, qty)
        /\ f.entry = r.entry /\ f.exit = r.exit /\ f.trades = r.trades
        /\ f.signalBar = r.signalBar
    BY <1>2, BoughtFields DEF f
  <2>7. Ledger(f)
    BY <1>2, <2>3, <2>5, <2>6, BoughtTells DEF Books
  <2>8. Timed(f)
    <3>1. SUFFICES ASSUME model.inner = "lastlook" PROVE Timed(f)
      BY DEF Timed
    <3>2. PICK ps \in Seq(Parents), n \in Nat :
            ps = r.parents /\ n = r.entry /\ n \in 1..Len(ps) /\ n \in DOMAIN ps
      <4>1. /\ r.entry \in 1..Len(r.parents) /\ r.parents \in Seq(Parents)
        BY <1>2, <2>5, OnTheList
      <4>2. r.entry \in Nat /\ r.entry \in DOMAIN r.parents
        BY <4>1
      <4> QED BY <4>1, <4>2
    <3> DEFINE after == f.parents
    <3>3. after = Recorded(ps, n, price, qty) /\ i \in Nat /\ qty \in Nat
      BY <2>3, <2>6, <3>2 DEF Here
    <3> HIDE DEF after
    <3>4. FillIsRecorded(after, ps, n, price, qty)
      BY <2>3, <3>2, <3>3, RecordTells
    <3>5. (\A p \in DOMAIN ps : Late(ps[p])) /\ ps[n].signal = r.signalBar
      BY <2>4, <2>5, <3>1, <3>2 DEF Books, Timed
    <3>6. /\ \A p \in DOMAIN after : p # n => Late(after[p])
          /\ Late(after[n]) /\ after[n].signal = ps[n].signal
      BY <2>2, <3>1, <3>2, <3>3, <3>4, <3>5, FillIsLate
    <3> QED BY <2>5, <2>6, <3>2, <3>5, <3>6 DEF Timed, after
  <2> QED BY <2>1, <2>7, <2>8 DEF Books
<1> QED BY <1>5, <1>6

\* Working an exit, and closing the round trip when it is done.
LEMMA WorkExitTells ==
  ASSUME Here, NEW r, Sound(r), Books(r), r.exit # NoParent, NEW draw \in Nat \ {0}
  PROVE  Books(WorkExit(r, draw))
<1> DEFINE qty == Executed(r, "SELL", r.pendingExit)
           price == AllIn("SELL", FillPrice)
           f == Filled(Sold(r, price, qty), qty, draw)
<1>1. price \in Nat
  BY PricesPositive
<1>2. /\ r \in Engine /\ r.pendingExit \in Nat /\ Typed(r) /\ OneParent(r)
      /\ r.position \in Nat /\ r.totalEntry \in Nat /\ r.trades \in Seq(Trades)
  BY DEF Sound, Typed, Engine
<1>3. r.pendingExit > 0 /\ r.pendingExit = r.position
  BY <1>2 DEF OneParent
<1>4. /\ qty \in Nat
      /\ qty > 0 => qty <= r.pendingExit
      /\ model.display # {} => qty <= r.iceberg.visible
  <2>1. r \in Engine /\ r.pendingExit \in Int
    BY <1>2
  <2> QED BY <2>1, ExecutesWithin
<1>5. CASE qty = 0
  <2>1. WorkExit(r, draw) = r
    BY <1>2, <1>3, <1>5 DEF WorkExit
  <2> QED BY <2>1
<1>6. CASE qty # 0
  <2>1. WorkExit(r, draw) = IF f.position = 0 /\ f.pendingExit = 0
                            THEN CloseRoundTrip(f) ELSE f
    BY <1>6 DEF WorkExit
  <2>2. model.inner = "lastlook" => i > r.signalBar
    BY <1>2, <1>6, HeldOnItsBar
  <2> HIDE DEF qty, price, f
  <2>3. /\ f.cash = r.cash + price * qty /\ f.position = r.position - qty
        /\ f.entryCost = r.entryCost /\ f.exitProceeds = r.exitProceeds + price * qty
        /\ f.totalEntry = r.totalEntry /\ f.firstEntry = r.firstEntry
        /\ f.parents = Recorded(r.parents, r.exit, price, qty)
        /\ f.entry = r.entry /\ f.exit = r.exit /\ f.trades = r.trades
        /\ f.signalBar = r.signalBar /\ f.pendingEntry = r.pendingEntry
        /\ f.pendingExit = r.pendingExit - qty /\ DOMAIN f = Fields
    BY <1>2, SoldFilledFields DEF f
  <2>4. Ledger(f) /\ f.parents[f.exit].fills[Len(f.parents[f.exit].fills)].bar = i
    <3>1. Typed(r) /\ Ledger(r) /\ price \in Nat /\ qty \in Nat
      BY <1>1, <1>2, <1>4 DEF Books
    <3> QED BY <2>3, <3>1, SoldTells
  <2>5. PICK ps \in Seq(Parents), n \in Nat :
          ps = r.parents /\ n = r.exit /\ n \in 1..Len(ps) /\ n \in DOMAIN ps
    <3>1. /\ r.exit \in 1..Len(r.parents) /\ r.parents \in Seq(Parents)
      BY <1>2, OnTheList
    <3>2. r.exit \in Nat /\ r.exit \in DOMAIN r.parents
      BY <3>1
    <3> QED BY <3>1, <3>2
  <2> DEFINE after == f.parents
  <2>6. after = Recorded(ps, n, price, qty) /\ i \in Nat
    BY <2>3, <2>5 DEF Here
  <2> HIDE DEF after
  <2>7. FillIsRecorded(after, ps, n, price, qty)
    BY <1>1, <1>4, <2>5, <2>6, RecordTells
  <2>8. Timed(f)
    <3>1. SUFFICES ASSUME model.inner = "lastlook" PROVE Timed(f)
      BY DEF Timed
    <3>2. (\A p \in DOMAIN ps : Late(ps[p])) /\ ps[n].signal = r.signalBar
      BY <2>5, <3>1 DEF Books, Timed
    <3>3. /\ \A p \in DOMAIN after : p # n => Late(after[p])
          /\ Late(after[n]) /\ after[n].signal = ps[n].signal
      BY <2>2, <2>5, <2>6, <2>7, <3>1, <3>2, FillIsLate
    <3> QED BY <2>3, <2>5, <3>2, <3>3 DEF Timed, after
  <2>9. CASE f.position = 0 /\ f.pendingExit = 0
    <3> DEFINE c == CloseRoundTrip(f)
    <3>1. WorkExit(r, draw) = c
      BY <2>1, <2>9
    <3>2. /\ c.cash = f.cash /\ c.position = f.position /\ c.entryCost = 0
          /\ c.exitProceeds = 0 /\ c.totalEntry = 0 /\ c.firstEntry = NoBar
          /\ c.parents = f.parents /\ c.entry = NoParent /\ c.exit = NoParent
          /\ c.pendingEntry = f.pendingEntry
          /\ c.trades = Append(f.trades, [from |-> f.firstEntry, to |-> i, qty |-> f.totalEntry,
                                          pnl |-> f.exitProceeds - f.entryCost])
      BY <2>3, ClosedFields
    <3> HIDE DEF c
    <3>3. f.parents \in Seq(Parents) /\ f.exit \in 1..Len(f.parents)
      BY <2>3, <2>5, <2>7 DEF FillIsRecorded, after
    <3>4. Ledger(c)
      BY <1>2, <2>3, <2>4, <2>9, <3>2, <3>3, ClosedTells
    <3>5. c.pendingEntry = 0
      BY <1>2, <2>3, <3>2, SMTT(30) DEF OneParent, Typed, Engine
    <3>6. Timed(c)
      BY <2>8, <3>2, <3>5 DEF Timed
    <3> QED BY <3>1, <3>4, <3>6 DEF Books
  <2>10. CASE ~(f.position = 0 /\ f.pendingExit = 0)
    <3>1. WorkExit(r, draw) = f
      BY <2>1, <2>10
    <3> QED BY <2>4, <2>8, <3>1 DEF Books
  <2> QED BY <2>9, <2>10
<1> QED BY <1>5, <1>6

\* A new parent has no fill that could be early.
LEMMA NewIsLate ==
  ASSUME NEW ps \in Seq(Parents), NEW parent, parent.fills = <<>>,
         \A p \in DOMAIN ps : Late(ps[p])
  PROVE  /\ Len(ps) + 1 \in Nat \ {0} /\ Append(ps, parent)[Len(ps) + 1] = parent
         /\ \A p \in DOMAIN Append(ps, parent) : Late(Append(ps, parent)[p])
<1> DEFINE n == Len(ps) + 1
           more == Append(ps, parent)
<1>1. /\ n \in Nat \ {0} /\ more[n] = parent /\ DOMAIN more = 1..n /\ DOMAIN ps = 1..(n - 1)
      /\ \A p \in 1..(n - 1) : more[p] = ps[p]
  OBVIOUS
<1> HIDE DEF n, more
<1>2. \A p \in 1..n : p = n \/ p \in 1..(n - 1)
  BY <1>1
<1>3. Late(parent)
  BY DEF Late
<1> QED BY <1>1, <1>2, <1>3 DEF n, more

\* An exit started, on the bar after the entry's first fill if it is a stop's or
\* a target's.
LEMMA StartExitTells ==
  ASSUME Here, NEW r, Sound(r), Books(r), r.position > 0, r.exit = NoParent,
         NEW reason \in Reasons,
         reason \in {"STOP_LOSS", "TAKE_PROFIT"} => i > r.firstEntry,
         NEW draw \in Nat \ {0}
  PROVE  Books(StartExit(r, reason, draw))
<1> DEFINE o == StartExit(r, reason, draw)
<1>1. r \in Engine /\ Typed(r)
  BY DEF Sound, Typed
<1>2. /\ o.cash = r.cash /\ o.position = r.position /\ o.entryCost = r.entryCost
      /\ o.exitProceeds = r.exitProceeds /\ o.totalEntry = r.totalEntry
      /\ o.firstEntry = r.firstEntry /\ o.parents = NewParent(r, "SELL", reason)
      /\ o.entry = r.entry /\ o.exit = Len(r.parents) + 1 /\ o.trades = r.trades
      /\ o.signalBar = i
  BY <1>1 DEF StartExit, OnParentOrder, Engine
<1> HIDE DEF o
<1>3. Ledger(o)
  BY <1>1, <1>2, NewExitTells DEF Books
<1>4. Timed(o)
  <2>1. SUFFICES ASSUME model.inner = "lastlook" PROVE Timed(o)
    BY DEF Timed
  <2> DEFINE parent == [side |-> "SELL", signal |-> i, reason |-> reason, fills |-> <<>>]
             n == Len(r.parents) + 1
  <2>2. parent.signal = i /\ parent.fills = <<>> /\ r.parents \in Seq(Parents)
    BY <1>1 DEF Engine
  <2>3. o.parents = Append(r.parents, parent)
    BY <1>2 DEF NewParent
  <2>4. \A p \in DOMAIN r.parents : Late(r.parents[p])
    BY <2>1 DEF Books, Timed
  <2> HIDE DEF parent
  <2>5. /\ n \in Nat \ {0} /\ Append(r.parents, parent)[n] = parent
        /\ \A p \in DOMAIN Append(r.parents, parent) : Late(Append(r.parents, parent)[p])
    BY <2>2, <2>4, NewIsLate
  <2> HIDE DEF n
  <2>7. \A p \in DOMAIN o.parents : Late(o.parents[p])
    BY <2>3, <2>5
  <2>8. o.exit = n /\ n # NoParent
    BY <1>2, <2>5 DEF n, NoParent
  <2> QED BY <1>2, <2>2, <2>3, <2>5, <2>7, <2>8 DEF Timed
<1> QED BY <1>3, <1>4 DEF Books, o

\* An entry started, from flat.
LEMMA StartEntryTells ==
  ASSUME Here, NEW r, Sound(r), Books(r),
         r.position = 0, r.pendingEntry = 0, r.pendingExit = 0,
         NEW qty \in Nat \ {0}, NEW draw \in Nat \ {0}
  PROVE  Books(StartEntry(r, qty, draw))
<1> DEFINE o == StartEntry(r, qty, draw)
<1>1. r \in Engine /\ Typed(r) /\ r.exit = NoParent
  BY DEF Sound, Typed, OneParent
<1>2. /\ o.cash = r.cash /\ o.position = r.position /\ o.entryCost = 0
      /\ o.exitProceeds = 0 /\ o.totalEntry = 0
      /\ o.firstEntry = NoBar /\ o.parents = NewParent(r, "BUY", "ENTRY")
      /\ o.entry = Len(r.parents) + 1 /\ o.exit = r.exit /\ o.trades = r.trades
      /\ o.signalBar = i
  BY <1>1 DEF StartEntry, FreshRoundTrip, OnParentOrder, Engine
<1> HIDE DEF o
<1>3. Ledger(o)
  BY <1>1, <1>2, NewEntryTells DEF Books
<1>4. Timed(o)
  <2>1. SUFFICES ASSUME model.inner = "lastlook" PROVE Timed(o)
    BY DEF Timed
  <2> DEFINE parent == [side |-> "BUY", signal |-> i, reason |-> "ENTRY", fills |-> <<>>]
             n == Len(r.parents) + 1
  <2>2. parent.signal = i /\ parent.fills = <<>> /\ r.parents \in Seq(Parents)
    BY <1>1 DEF Engine
  <2>3. o.parents = Append(r.parents, parent)
    BY <1>2 DEF NewParent
  <2>4. \A p \in DOMAIN r.parents : Late(r.parents[p])
    BY <2>1 DEF Books, Timed
  <2> HIDE DEF parent
  <2>5. /\ n \in Nat \ {0} /\ Append(r.parents, parent)[n] = parent
        /\ \A p \in DOMAIN Append(r.parents, parent) : Late(Append(r.parents, parent)[p])
    BY <2>2, <2>4, NewIsLate
  <2> HIDE DEF n
  <2>7. \A p \in DOMAIN o.parents : Late(o.parents[p])
    BY <2>3, <2>5
  <2>8. o.entry = n
    BY <1>2 DEF n
  <2> QED BY <1>1, <1>2, <2>2, <2>3, <2>5, <2>7, <2>8 DEF Timed
<1> QED BY <1>3, <1>4 DEF Books, o

\* The forced close tells the last trade, and only its own fill may be on the
\* bar of its signal.
Settled(r) ==
  /\ r.position = 0 /\ r.pendingExit = 0
  /\ model.inner = "lastlook" =>
       \A p \in DOMAIN r.parents : p # Len(r.parents) => Late(r.parents[p])

LEMMA ForcedExitTells ==
  ASSUME Here, NEW x, Typed(x), Ledger(x), x.position > 0
  PROVE  /\ Ledger(ForcedExit(x))
         /\ (\A p \in DOMAIN x.parents : Late(x.parents[p])) =>
              \A p \in DOMAIN ForcedExit(x).parents : Late(ForcedExit(x).parents[p])
<1> DEFINE e == ForcedExit(x)
<1>1. x \in Engine
  BY DEF Typed
<1>2. CASE x.exit # NoParent
  <2>1. e = x BY <1>2 DEF ForcedExit
  <2> QED BY <2>1
<1>3. CASE x.exit = NoParent
  <2> DEFINE parent == [side |-> "SELL", signal |-> i, reason |-> "END_OF_DATA", fills |-> <<>>]
  <2>1. /\ e.cash = x.cash /\ e.position = x.position /\ e.entryCost = x.entryCost
        /\ e.exitProceeds = x.exitProceeds /\ e.totalEntry = x.totalEntry
        /\ e.firstEntry = x.firstEntry /\ e.parents = NewParent(x, "SELL", "END_OF_DATA")
        /\ e.entry = x.entry /\ e.exit = Len(x.parents) + 1 /\ e.trades = x.trades
    BY <1>1, <1>3 DEF ForcedExit, Engine
  <2> HIDE DEF e
  <2>2. Ledger(e)
    <3>1. "END_OF_DATA" \in Reasons /\ "END_OF_DATA" \notin {"STOP_LOSS", "TAKE_PROFIT"}
      BY DEF Reasons
    <3> QED BY <1>3, <2>1, <3>1, NewExitTells
  <2>3. e.parents = Append(x.parents, parent) /\ parent.fills = <<>> /\ x.parents \in Seq(Parents)
    BY <1>1, <2>1 DEF NewParent, Engine
  <2> HIDE DEF parent
  <2> QED BY <2>2, <2>3, NewIsLate DEF e
<1> QED BY <1>2, <1>3

LEMMA ClosedBooks ==
  ASSUME Here, NEW r, Sound(r), Books(r)
  PROVE  Ledger(Closed(r)) /\ Settled(Closed(r))
<1> DEFINE x == [r EXCEPT !.pendingEntry = 0]
           c == Closed(r)
<1>1. Typed(r) /\ r \in Engine /\ r.position \in Nat /\ OneParent(r)
  BY DEF Sound, Typed, Engine
<1>2. x \in Engine
  <2>1. 0 \in Nat OBVIOUS
  <2> QED BY <1>1, <2>1 DEF Engine
<1>3. /\ x.cash = r.cash /\ x.position = r.position /\ x.pendingExit = r.pendingExit
      /\ x.entryCost = r.entryCost /\ x.exitProceeds = r.exitProceeds
      /\ x.totalEntry = r.totalEntry /\ x.trades = r.trades
      /\ x.pendingEntry = 0 /\ x.entry = r.entry /\ x.exit = r.exit
      /\ x.firstEntry = r.firstEntry /\ x.signalBar = r.signalBar
      /\ x.iceberg = r.iceberg /\ x.parents = r.parents
  BY <1>1 DEF Engine
<1>4. c = IF r.position > 0 THEN ForcedSold(x) ELSE x
  BY DEF Closed
<1>5. c.pendingExit \in {0, c.position}
  <2>1. Sound(Closed(r)) BY ClosedKeeps
  <2> QED BY <2>1 DEF Sound, OneParent
<1> HIDE DEF x, c
<1>6. Typed(x) BY <1>1, <1>2, <1>3 DEF Typed
<1>7. Ledger(x)
  BY <1>3, LedgerKept DEF Books, SameAccount
<1>8. model.inner = "lastlook" => \A p \in DOMAIN x.parents : Late(x.parents[p])
  BY <1>3 DEF Books, Timed
<1>9. CASE r.position = 0
  <2>1. c = x BY <1>4, <1>9
  <2>2. c.position = 0 BY <1>3, <1>9, <2>1
  <2> QED BY <1>5, <1>7, <1>8, <2>1, <2>2 DEF Settled, c
<1>10. CASE r.position > 0
  <2> DEFINE e == ForcedExit(x)
             price == AllIn("SELL", bar.close)
             s == [Sold(e, price, e.position) EXCEPT !.pendingExit = 0]
  <2>1. Typed(e) /\ e.exit # NoParent /\ e.position = x.position
    BY <1>6, ForcedExitKeeps
  <2>2. /\ Ledger(e)
        /\ model.inner = "lastlook" => \A p \in DOMAIN e.parents : Late(e.parents[p])
    BY <1>3, <1>6, <1>7, <1>8, <1>10, ForcedExitTells
  <2>3. c = CloseRoundTrip(s)
    <3>1. ForcedSold(x) = CloseRoundTrip([Sold(e, price, x.position) EXCEPT !.pendingExit = 0])
      BY DEF ForcedSold
    <3> QED BY <1>4, <1>10, <2>1, <3>1
  <2> HIDE DEF e
  <2>4. price \in Nat BY PricesPositive
  <2> HIDE DEF price
  <2>5. e \in Engine /\ e.position \in Nat /\ e.trades \in Seq(Trades) /\ e.totalEntry \in Nat
    BY <2>1 DEF Typed, Engine
  <2>6. /\ s.cash = e.cash + price * e.position /\ s.position = e.position - e.position
        /\ s.entryCost = e.entryCost /\ s.exitProceeds = e.exitProceeds + price * e.position
        /\ s.totalEntry = e.totalEntry /\ s.firstEntry = e.firstEntry
        /\ s.parents = Recorded(e.parents, e.exit, price, e.position)
        /\ s.entry = e.entry /\ s.exit = e.exit /\ s.trades = e.trades
        /\ DOMAIN s = Fields
    BY <2>5 DEF Engine, Sold, Fields
  <2> HIDE DEF s
  <2>7. Ledger(s) /\ s.parents[s.exit].fills[Len(s.parents[s.exit].fills)].bar = i
    BY <2>1, <2>2, <2>4, <2>5, <2>6, SoldTells
  <2>8. PICK ps \in Seq(Parents), n \in Nat :
          ps = e.parents /\ n = e.exit /\ n \in 1..Len(ps) /\ n \in DOMAIN ps
    <3>1. /\ e.exit \in 1..Len(e.parents) /\ e.parents \in Seq(Parents)
      BY <2>1, OnTheList
    <3>2. e.exit \in Nat /\ e.exit \in DOMAIN e.parents
      BY <3>1
    <3> QED BY <3>1, <3>2
  <2> DEFINE after == s.parents
  <2>9. after = Recorded(ps, n, price, e.position) /\ i \in Nat
    BY <2>6, <2>8 DEF Here
  <2> HIDE DEF after
  <2>10. FillIsRecorded(after, ps, n, price, e.position)
    BY <2>4, <2>5, <2>8, <2>9, RecordTells
  <2>11. /\ c.cash = s.cash /\ c.position = s.position /\ c.entryCost = 0
         /\ c.exitProceeds = 0 /\ c.totalEntry = 0 /\ c.firstEntry = NoBar
         /\ c.parents = s.parents /\ c.entry = NoParent /\ c.exit = NoParent
         /\ c.trades = Append(s.trades, [from |-> s.firstEntry, to |-> i, qty |-> s.totalEntry,
                                         pnl |-> s.exitProceeds - s.entryCost])
    BY <2>3, <2>6, ClosedFields
  <2>12. s.position = 0 /\ s.parents \in Seq(Parents) /\ s.exit \in 1..Len(s.parents)
    <3>1. after \in Seq(Parents) /\ Len(after) = Len(ps)
      BY <2>10 DEF FillIsRecorded
    <3>2. s.position = 0 /\ s.exit = n
      BY <2>5, <2>6, <2>8
    <3>3. n \in 1..Len(ps)
      BY <2>8
    <3> QED BY <3>1, <3>2, <3>3 DEF after
  <2>13. Ledger(c)
    BY <2>1, <2>5, <2>6, <2>7, <2>11, <2>12, ClosedTells
  <2>14. n = Len(after)
    BY <2>1, <2>2, <2>8, <2>10 DEF Ledger, Told, Exiting, FillIsRecorded
  <2>15. ASSUME model.inner = "lastlook"
         PROVE  \A p \in DOMAIN after : p # n => Late(after[p])
    <3>1. \A p \in DOMAIN ps : Late(ps[p])
      BY <2>2, <2>8, <2>15
    <3> QED BY <2>8, <2>9, <2>10, <3>1, FillIsLate
  <2>16. Settled(c)
    <3>1. c.parents = after BY <2>11 DEF after
    <3> QED BY <1>5, <2>11, <2>12, <2>14, <2>15, <3>1 DEF Settled
  <2> QED BY <2>13, <2>16 DEF c
<1> QED BY <1>1, <1>9, <1>10

-----------------------------------------------------------------------------
(* The steps keep the books.                                               *)

BooksInv ==
  /\ Inv /\ Ledger(run)
  /\ phase # "done" => Timed(run)
  /\ phase = "done" => Settled(run)

\* A step of the loop, up to the forced close.
LEMMA BooksStep ==
  ASSUME Inv', model' = model, phase' # "done", NEW r, Books(r), run' = r
  PROVE  BooksInv'
<1>1. Ledger(run)'
  BY DEF Books, Ledger, Balanced, Told, InTrade, Flat, Exiting, Unsold, Matched
<1>2. Timed(run)'
  BY DEF Books, Timed
<1> QED BY <1>1, <1>2 DEF BooksInv

\* Before the forced close, the books are what the lemmas ask for.
LEMMA BooksHere ==
  ASSUME BooksInv, phase # "done"
  PROVE  Here /\ Sound(run) /\ Books(run)
BY InvHere DEF BooksInv, Books

LEMMA BooksInit == Init => BooksInv
<1> SUFFICES ASSUME Init PROVE BooksInv OBVIOUS
<1>1. Inv BY InvInit
<1>2. /\ run.cash = 100 * Capital /\ run.position = 0 /\ run.entryCost = 0
      /\ run.exitProceeds = 0 /\ run.totalEntry = 0 /\ run.firstEntry = NoBar
      /\ run.entry = NoParent /\ run.exit = NoParent /\ run.parents = <<>>
      /\ run.trades = <<>> /\ run.pendingEntry = 0
  BY DEF Init
<1>3. Buys(<<>>) = {} /\ Sells(<<>>) = {} /\ Flows(<<>>) = <<>> /\ Moves(<<>>) = <<>>
  BY DEF Buys, Sells, Flows, Moves
<1>4. Balanced(run)
  <2>1. 100 * Capital \in Int BY BacktestAssumption
  <2> QED BY <1>2, <1>3, <2>1, SeqSumOfNothing DEF Balanced
<1>5. Cardinality({}) = 0 /\ Len(<<>>) = 0
  BY FS_EmptySet
<1>6. Flat(run) /\ Unsold(run)
  BY <1>2, <1>3, <1>5 DEF Flat, Unsold
<1>7. Told(run)
  BY <1>2, <1>6 DEF Told
<1>8. Matched(run)
  BY <1>2, <1>3 DEF Matched
<1>9. Timed(run)
  <2>1. DOMAIN run.parents = {} BY <1>2
  <2> QED BY <1>2, <2>1 DEF Timed
<1>10. phase # "done" BY DEF Init
<1> QED BY <1>1, <1>4, <1>7, <1>8, <1>9, <1>10 DEF BooksInv, Ledger

LEMMA BooksWorkOpenParent == BooksInv /\ WorkOpenParent => BooksInv'
<1> SUFFICES ASSUME BooksInv, WorkOpenParent PROVE BooksInv' OBVIOUS
<1>1. phase # "done" /\ phase' # "done" /\ model' = model
  BY DEF WorkOpenParent
<1>2. Here /\ Sound(run) /\ Books(run) BY <1>1, BooksHere
<1>3. Inv' BY InvWorkOpenParent DEF BooksInv
<1>4. PICK d \in Draws :
        run' = IF run.pendingExit > 0 THEN WorkExit(run, d[2])
               ELSE IF run.pendingEntry > 0 THEN WorkEntry(run, d[2])
               ELSE run
  BY DEF WorkOpenParent
<1>5. d[2] \in Nat \ {0} BY <1>2, DrawsPositive
<1>6. run.pendingExit > 0 => run.exit # NoParent
  BY <1>2 DEF Sound, OneParent
<1>7. Books(IF run.pendingExit > 0 THEN WorkExit(run, d[2])
            ELSE IF run.pendingEntry > 0 THEN WorkEntry(run, d[2])
            ELSE run)
  BY <1>2, <1>5, <1>6, WorkExitTells, WorkEntryTells
<1> QED BY <1>1, <1>3, <1>4, <1>7, BooksStep

LEMMA BooksCheckRiskExits == BooksInv /\ CheckRiskExits => BooksInv'
<1> SUFFICES ASSUME BooksInv, CheckRiskExits PROVE BooksInv' OBVIOUS
<1>1. phase # "done" /\ phase' # "done" /\ model' = model
  BY DEF CheckRiskExits
<1>2. Here /\ Sound(run) /\ Books(run) BY <1>1, BooksHere
<1>3. Inv' BY InvCheckRiskExits DEF BooksInv
<1>4. CASE AtRisk(run) /\ (StopHit(run) \/ TargetHit(run))
  <2>1. PICK reason \in Reasons :
          reason = IF StopHit(run) THEN "STOP_LOSS" ELSE "TAKE_PROFIT"
    BY DEF Reasons
  <2>2. PICK d \in Draws : run' = WorkExit(StartExit(run, reason, d[1]), d[2])
    BY <1>4, <2>1 DEF CheckRiskExits
  <2>3. run.position > 0 /\ run.pendingExit = 0 /\ i > run.firstEntry
    BY <1>4 DEF AtRisk
  <2>4. run.exit = NoParent
    BY <1>2, <2>3 DEF Sound, OneParent
  <2>5. d[1] \in Nat \ {0} /\ d[2] \in Nat \ {0} BY <1>2, DrawsPositive
  <2>6. Sound(StartExit(run, reason, d[1])) /\ StartExit(run, reason, d[1]).exit # NoParent
    BY <1>2, <2>3, <2>5, StartExitKeeps
  <2>7. Books(StartExit(run, reason, d[1]))
    BY <1>2, <2>3, <2>4, <2>5, StartExitTells
  <2>8. Books(WorkExit(StartExit(run, reason, d[1]), d[2]))
    BY <1>2, <2>5, <2>6, <2>7, WorkExitTells
  <2> QED BY <1>1, <1>3, <2>2, <2>8, BooksStep
<1>5. CASE ~(AtRisk(run) /\ (StopHit(run) \/ TargetHit(run)))
  <2>1. run' = run BY <1>5 DEF CheckRiskExits
  <2> QED BY <1>1, <1>2, <1>3, <2>1, BooksStep
<1> QED BY <1>4, <1>5

LEMMA BooksOnSignal == BooksInv /\ OnSignal => BooksInv'
<1> SUFFICES ASSUME BooksInv, OnSignal PROVE BooksInv' OBVIOUS
<1>1. phase # "done" /\ phase' # "done" /\ model' = model
  BY DEF OnSignal
<1>2. Here /\ Sound(run) /\ Books(run) BY <1>1, BooksHere
<1>3. Inv' BY InvOnSignal DEF BooksInv
<1>4. CASE BuySignal
  <2> DEFINE qty == Affordable(run, bar.close)
  <2>1. qty \in Nat \ {0}
    <3>1. bar.close \in Nat \ {0} BY <1>2, PricesPositive
    <3>2. AllIn("BUY", bar.close) \in Nat \ {0} BY <1>2, <3>1, PricesPositive
    <3>3. PICK p \in Nat \ {0} : p = AllIn("BUY", bar.close) BY <3>2
    <3>4. run.cash \in Nat BY <1>2 DEF Sound, Typed, Engine
    <3>5. run.cash \div p \in Int BY <3>3, <3>4
    <3> QED BY <1>4, <3>3, <3>5 DEF BuySignal, Affordable
  <2>2. PICK d \in Draws : run' = WorkEntry(StartEntry(run, qty, d[1]), d[2])
    BY <1>4 DEF BuySignal
  <2> HIDE DEF qty
  <2>3. d[1] \in Nat \ {0} /\ d[2] \in Nat \ {0} BY <1>2, DrawsPositive
  <2>4. run.position = 0 /\ run.pendingEntry = 0 /\ run.pendingExit = 0
    BY <1>4 DEF BuySignal
  <2>5. Sound(StartEntry(run, qty, d[1]))
    BY <1>2, <2>1, <2>3, <2>4, StartEntryKeeps
  <2>6. Books(StartEntry(run, qty, d[1]))
    BY <1>2, <2>1, <2>3, <2>4, StartEntryTells
  <2>7. Books(WorkEntry(StartEntry(run, qty, d[1]), d[2]))
    BY <1>2, <2>3, <2>5, <2>6, WorkEntryTells
  <2> QED BY <1>1, <1>3, <2>2, <2>7, BooksStep
<1>5. CASE run.pendingExit = 0 /\ run.position > 0 /\ \E d \in Draws :
             run' = WorkExit(StartExit(run, "SIGNAL", d[1]), d[2])
  <2>1. PICK d \in Draws : run' = WorkExit(StartExit(run, "SIGNAL", d[1]), d[2])
    BY <1>5
  <2>2. d[1] \in Nat \ {0} /\ d[2] \in Nat \ {0} BY <1>2, DrawsPositive
  <2>3. "SIGNAL" \in Reasons /\ "SIGNAL" \notin {"STOP_LOSS", "TAKE_PROFIT"}
    BY DEF Reasons
  <2>4. run.exit = NoParent
    BY <1>2, <1>5 DEF Sound, OneParent
  <2>5. /\ Sound(StartExit(run, "SIGNAL", d[1]))
        /\ StartExit(run, "SIGNAL", d[1]).exit # NoParent
    BY <1>2, <1>5, <2>2, <2>3, StartExitKeeps
  <2>6. Books(StartExit(run, "SIGNAL", d[1]))
    BY <1>2, <1>5, <2>2, <2>3, <2>4, StartExitTells
  <2>7. Books(WorkExit(StartExit(run, "SIGNAL", d[1]), d[2]))
    BY <1>2, <2>2, <2>5, <2>6, WorkExitTells
  <2> QED BY <1>1, <1>3, <2>1, <2>7, BooksStep
<1>6. CASE /\ run.pendingExit = 0 /\ run.position = 0
           /\ run' = [run EXCEPT !.pendingEntry = 0, !.entry = NoParent]
  <2> DEFINE x == [run EXCEPT !.pendingEntry = 0, !.entry = NoParent]
  <2>1. run \in Engine /\ run.exit = NoParent
    BY <1>2, <1>6 DEF Sound, Typed, OneParent
  <2>2. /\ SameAccount(run, x) /\ x.entry = NoParent /\ x.pendingEntry = 0
        /\ x.signalBar = run.signalBar
    BY <2>1 DEF Engine, SameAccount
  <2>3. run' = x
    BY <1>6
  <2> HIDE DEF x
  <2>4. Ledger(x)
    BY <1>2, <1>6, <2>1, <2>2, LedgerKept DEF Books
  <2>5. Timed(x)
    BY <1>2, <2>1, <2>2 DEF Books, Timed, SameAccount
  <2>6. Books(x) BY <2>4, <2>5 DEF Books
  <2> QED BY <1>1, <1>3, <2>3, <2>6, BooksStep
<1>7. CASE NoSignal
  <2>1. run' = run BY <1>7 DEF NoSignal
  <2> QED BY <1>1, <1>2, <1>3, <2>1, BooksStep
<1> QED BY <1>4, <1>5, <1>6, <1>7 DEF OnSignal, SellSignal

LEMMA BooksNextBar == BooksInv /\ NextBar => BooksInv'
<1> SUFFICES ASSUME BooksInv, NextBar PROVE BooksInv' OBVIOUS
<1>1. phase # "done" /\ phase' # "done" /\ model' = model /\ run' = run
  BY DEF NextBar
<1>2. Books(run) BY <1>1, BooksHere
<1>3. Inv' BY InvNextBar DEF BooksInv
<1> QED BY <1>1, <1>2, <1>3, BooksStep

LEMMA BooksForceClose == BooksInv /\ ForceClose => BooksInv'
<1> SUFFICES ASSUME BooksInv, ForceClose PROVE BooksInv' OBVIOUS
<1>1. phase # "done" /\ phase' = "done" /\ model' = model /\ run' = Closed(run)
  BY DEF ForceClose
<1>2. Here /\ Sound(run) /\ Books(run) BY <1>1, BooksHere
<1>3. Inv' BY InvForceClose DEF BooksInv
<1>4. PICK c : c = Closed(run) /\ Ledger(c) /\ Settled(c)
  BY <1>2, ClosedBooks
<1>5. Ledger(run)'
  BY <1>1, <1>4 DEF Ledger, Balanced, Told, InTrade, Flat, Exiting, Unsold, Matched
<1>6. Settled(run)'
  BY <1>1, <1>4 DEF Settled
<1> QED BY <1>1, <1>3, <1>5, <1>6 DEF BooksInv

LEMMA BooksUnchanged == BooksInv /\ UNCHANGED vars => BooksInv'
<1> SUFFICES ASSUME BooksInv, UNCHANGED vars PROVE BooksInv' OBVIOUS
<1>1. Inv' BY InvUnchanged DEF BooksInv
<1>2. Ledger(run)'
  BY DEF vars, BooksInv, Ledger, Balanced, Told, InTrade, Flat, Exiting, Unsold, Matched
<1> QED BY <1>1, <1>2 DEF vars, BooksInv, Timed, Settled

\* Every step of every run keeps the books: the inductive invariant.
THEOREM BooksInvHolds == Spec => []BooksInv
<1>1. BooksInv /\ [Next]_vars => BooksInv'
  BY BooksWorkOpenParent, BooksCheckRiskExits, BooksOnSignal, BooksNextBar, BooksForceClose,
     BooksUnchanged DEF Next
<1> QED BY BooksInit, <1>1, PTL DEF Spec

\* Every fill is in the cash and the position, and in the trade of its rank
\* with the quantities, bars and P&L of its entry and exit (_work_entry,
\* _work_exit, _close_round_trip, the forced close), whatever the series, the
\* signals and the execution model do.
THEOREM FillsAreToldHolds == Spec => []FillsAreTold
<1>1. ASSUME BooksInv PROVE FillsAreTold
  <2>1. Ledger(run) /\ Typed(run) /\ OneParent(run)
    BY <1>1 DEF BooksInv, Inv, Sound
  <2>2. FilledEntries = Buys(run.parents) /\ Exits = Sells(run.parents)
    BY DEF FilledEntries, Exits, Buys, Sells
  <2>3. OfAll(Notional) = SeqSum(Flows(run.parents)) /\ OfAll(Qty) = SeqSum(Moves(run.parents))
    BY DEF OfAll, Flows, Moves
  <2>4. FillsAccountForAll
    BY <2>1, <2>3 DEF FillsAccountForAll, Ledger, Balanced
  <2>5. ASSUME NEW p \in FilledEntries, NEW q \in Exits,
               Rank(p, FilledEntries) = Rank(q, Exits), Rank(p, FilledEntries) \in DOMAIN run.trades
        PROVE  TradeTells(run.trades[Rank(p, FilledEntries)], run.parents[p], run.parents[q])
    BY <2>1, <2>2, <2>5 DEF Ledger, Matched, Pair
  <2>6. run.position \in Nat /\ Len(run.trades) \in Nat /\ run.pendingExit \in Nat
    <3>1. run.trades \in Seq(Trades) /\ run.position \in Nat /\ run.pendingExit \in Nat
      BY <2>1 DEF Typed, Engine
    <3> QED BY <3>1
  <2>7. run.exit # NoParent => run.position > 0
    BY <2>1, <2>6 DEF OneParent
  <2>8. Cardinality(FilledEntries) - Len(run.trades) = (IF run.position > 0 THEN 1 ELSE 0)
    BY <2>1, <2>2, <2>6, <2>7 DEF Ledger, Told, InTrade, Flat
  <2>9. Cardinality(Exits) - Len(run.trades) = (IF run.exit # NoParent THEN 1 ELSE 0)
    BY <2>1, <2>2, <2>6 DEF Ledger, Told, Exiting, Unsold
  <2>10. phase = "done" => run.position = 0 /\ run.pendingExit = 0
    BY <1>1 DEF BooksInv, Settled
  <2>11. TradesTellTheFills
    BY <2>5, <2>8, <2>9, <2>10, Zenon DEF TradesTellTheFills, TradeTells
  <2> QED BY <2>4, <2>11 DEF FillsAreTold
<1> QED BY BooksInvHolds, <1>1, PTL

\* No order trades on the past (LastLookExecution.execute holds the signal's
\* bar; the risk exits skip the bar of the entry's first fill).
THEOREM NoTimeTravelHolds == Spec => []NoTimeTravel
<1>1. ASSUME BooksInv PROVE NoTimeTravel
  <2>1. FilledEntries = Buys(run.parents) /\ Exits = Sells(run.parents)
    BY DEF FilledEntries, Exits, Buys, Sells
  <2>2. ASSUME model.inner = "lastlook", NEW p \in DOMAIN run.parents
        PROVE  Late(run.parents[p]) \/ (phase = "done" /\ p = Len(run.parents))
    BY <1>1, <2>2 DEF BooksInv, Timed, Settled
  <2>3. model.inner = "lastlook" =>
          \A p \in DOMAIN run.parents : \A k \in DOMAIN run.parents[p].fills :
            \/ run.parents[p].fills[k].bar > run.parents[p].signal
            \/ phase = "done" /\ p = Len(run.parents)
    BY <2>2 DEF Late
  <2>4. ASSUME NEW p \in FilledEntries, NEW q \in Exits, Rank(p, FilledEntries) = Rank(q, Exits),
               run.parents[q].reason \in {"STOP_LOSS", "TAKE_PROFIT"}
        PROVE  run.parents[q].signal > run.parents[p].fills[1].bar
    BY <1>1, <2>1, <2>4 DEF BooksInv, Ledger, Matched, Pair
  <2> QED BY <2>3, <2>4 DEF NoTimeTravel
<1> QED BY BooksInvHolds, <1>1, PTL
=============================================================================
