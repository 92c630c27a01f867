------------------------------ MODULE Backtest ------------------------------
(***************************************************************************)
(* The execution-aware backtester of backtest/                             *)
(* execution_aware_backtester.py with the execution models it drives       *)
(* (execution_models.py): orders filled at the close, held and refused by  *)
(* last look, or sliced by an iceberg around either of the two.            *)
(*                                                                         *)
(* A bar of the series takes three steps, as in the engine's loop: work    *)
(* the open parent order, check the risk exits, act on the signal.  The    *)
(* strategy is any: it may signal anything on any bar.                     *)
(*                                                                         *)
(* Prices are integers and rates percentages, so money is exact in         *)
(* hundredths of a price unit.  The model's accept and reject statistics   *)
(* and the equity curve are left out: nothing reads them in the run.       *)
(***************************************************************************)
EXTENDS Integers, Sequences, FiniteSets, Fractions

CONSTANTS
  Bars,        (* what a bar may be: [open, high, low, close, volume]      *)
  MaxBars,     (* bound: length of the series                              *)
  Capital,     (* initial_capital                                          *)
  Models,      (* execution models: [inner, cost, reject, display, share]  *)
  StopLoss,    (* stop_loss_pct in percent, 0 = off                        *)
  TakeProfit   (* take_profit_pct in percent, 0 = off                      *)

ASSUME BacktestAssumption ==
  /\ Bars \subseteq [open : Nat \ {0}, high : Nat \ {0}, low : Nat \ {0},
                     close : Nat \ {0}, volume : Nat]
  /\ MaxBars \in Nat \ {0} /\ Capital \in Nat
  /\ StopLoss \in 0..99 /\ TakeProfit \in Nat
  /\ \A m \in Models :
       /\ m.inner \in {"instant", "lastlook"} /\ m.cost \in 0..99
       /\ m.reject \in Nat              (* basis points                    *)
       /\ m.display \subseteq Nat \ {0} (* tranche sizes, {} = no iceberg  *)
       /\ m.share \in Nat               (* of the volume, 0 = no cap       *)

VARIABLES
  model,  (* _model: which execution model this run uses                   *)
  bar,    (* the bar the loop is at                                        *)
  i,      (* its index                                                     *)
  phase,  (* the next step of the loop: work, risk, signal, next or done   *)
  run     (* the engine's and the model's fields                           *)

vars == <<model, bar, i, phase, run>>

NoParent == 0   (* _entry is None, _exit is None                           *)
NoBar == -1     (* _first_entry_bar = -1                                   *)
Sign(side) == IF side = "BUY" THEN 1 ELSE -1
Lesser(a, b) == IF a < b THEN a ELSE b

-----------------------------------------------------------------------------
(* The execution models.                                                   *)

AllIn(side, price) == price * (100 + Sign(side) * model.cost)

(* Where fills are priced, and where the engine is told that they are.     *)
FillPrice == IF model.inner = "lastlook" THEN bar.open ELSE bar.close
CloseAsReference == bar.close
Reference == IF model.inner = "lastlook" THEN bar.open ELSE bar.close

(* Last look: hold on the signal bar, refuse what ran the taker's way.     *)
Accepts(r, side) ==
  \/ model.inner = "instant"
  \/ /\ i # r.signalBar
     /\ Sign(side) * (bar.close - bar.open) * 10000 <= model.reject * bar.open

Capacity(r, qty) ==
  IF model.display = {} THEN qty
  ELSE Lesser(Lesser(qty, r.iceberg.visible),
              IF model.share = 0 THEN qty ELSE (bar.volume * model.share) \div 100)

Executed(r, side, qty) ==
  IF qty > 0 /\ Capacity(r, qty) > 0 /\ Accepts(r, side) THEN Capacity(r, qty) ELSE 0

(* IcebergOrder.on_fill: a used-up tranche is followed by the drawn one.   *)
IcebergFilled(iceberg, qty, draw) ==
  LET remaining == iceberg.remaining - qty
      visible   == iceberg.visible - qty
  IN  [remaining |-> remaining,
       visible   |-> IF visible = 0 THEN Lesser(draw, remaining) ELSE visible]

(* execute() as far as the model's own state goes.                         *)
Filled(r, qty, draw) ==
  IF model.display = {} \/ qty = 0 THEN r
  ELSE [r EXCEPT !.iceberg = IcebergFilled(@, qty, draw)]

OnParentOrderKeepingSlices(r, qty, draw) ==
  [r EXCEPT !.signalBar = i,
            !.iceberg = IF @.remaining > 0 THEN @
                        ELSE [remaining |-> qty, visible |-> Lesser(draw, qty)]]
OnParentOrderKeepingBar(r, qty, draw) ==
  [r EXCEPT !.iceberg = IF model.display = {} THEN @
                        ELSE [remaining |-> qty, visible |-> Lesser(draw, qty)]]
OnParentOrder(r, qty, draw) ==
  [r EXCEPT !.signalBar = i,
            !.iceberg = IF model.display = {} THEN @
                        ELSE [remaining |-> qty, visible |-> Lesser(draw, qty)]]

(* What the iceberg's random generator may draw for two tranches.          *)
Draws == IF model.display = {} THEN {<<1, 1>>} ELSE model.display \X model.display

-----------------------------------------------------------------------------
(* The engine.                                                             *)

Affordable(r, price) == r.cash \div AllIn("BUY", price)

NewParent(r, side, reason) ==
  Append(r.parents, [side |-> side, signal |-> i, reason |-> reason, fills |-> <<>>])
RecordedPerBar(parents, p, price, qty) ==
  [parents EXCEPT ![p].fills = Append(SelectSeq(@, LAMBDA f : f.bar # i),
                                      [price |-> price, qty |-> qty, bar |-> i])]
Recorded(parents, p, price, qty) ==
  [parents EXCEPT ![p].fills = Append(@, [price |-> price, qty |-> qty, bar |-> i])]

Bought(r, price, qty) ==
  [r EXCEPT !.cash = @ - price * qty,
            !.entryCost = @ + price * qty,
            !.position = @ + qty,
            !.totalEntry = @ + qty,
            !.pendingEntry = @ - qty,
            !.parents = Recorded(@, r.entry, price, qty),
            !.firstEntry = IF @ = NoBar THEN i ELSE @]

WorkEntry(r, draw) ==
  LET qty == Executed(r, "BUY", Lesser(r.pendingEntry, Affordable(r, Reference)))
  IN  IF qty = 0 THEN r ELSE Filled(Bought(r, AllIn("BUY", FillPrice), qty), qty, draw)

Sold(r, price, qty) ==
  [r EXCEPT !.cash = @ + price * qty,
            !.exitProceeds = @ + price * qty,
            !.position = @ - qty,
            !.pendingExit = @ - qty,
            !.parents = Recorded(@, r.exit, price, qty)]

FreshRoundTrip(r) ==
  [r EXCEPT !.entryCost = 0, !.exitProceeds = 0, !.totalEntry = 0, !.firstEntry = NoBar]

CloseRoundTrip(r) ==
  [FreshRoundTrip(r) EXCEPT
     !.trades = Append(@, [from |-> r.firstEntry, to |-> i, qty |-> r.totalEntry,
                           pnl |-> r.exitProceeds - r.entryCost]),
     !.entry = NoParent, !.exit = NoParent]

WorkExit(r, draw) ==
  LET qty  == Executed(r, "SELL", r.pendingExit)
      sold == IF qty = 0 THEN r
              ELSE Filled(Sold(r, AllIn("SELL", FillPrice), qty), qty, draw)
  IN  IF sold.position = 0 /\ sold.pendingExit = 0 THEN CloseRoundTrip(sold) ELSE sold

StartExitKeepingEntry(r, reason, draw) ==
  OnParentOrder([r EXCEPT !.parents = NewParent(r, "SELL", reason),
                          !.exit = Len(r.parents) + 1,
                          !.pendingExit = r.position], r.position, draw)
StartExit(r, reason, draw) ==
  OnParentOrder([r EXCEPT !.pendingEntry = 0,
                          !.parents = NewParent(r, "SELL", reason),
                          !.exit = Len(r.parents) + 1,
                          !.pendingExit = r.position], r.position, draw)

StartEntry(r, qty, draw) ==
  OnParentOrder([FreshRoundTrip(r) EXCEPT
                   !.parents = NewParent(r, "BUY", "ENTRY"),
                   !.entry = Len(r.parents) + 1,
                   !.pendingEntry = qty], qty, draw)

-----------------------------------------------------------------------------
(* 1. Keep working whatever parent order is open.                          *)
WorkOpenParent ==
  /\ phase = "work"
  /\ \E d \in Draws :
       run' = IF run.pendingExit > 0 THEN WorkExit(run, d[2])
              ELSE IF run.pendingEntry > 0 THEN WorkEntry(run, d[2])
              ELSE run
  /\ phase' = "risk"
  /\ UNCHANGED <<model, bar, i>>

(* Against the average all-in entry price, entryCost / totalEntry.         *)
StopHit(r) == /\ StopLoss > 0
              /\ bar.low * r.totalEntry * 10000 <= r.entryCost * (100 - StopLoss)
TargetHit(r) == /\ TakeProfit > 0
                /\ bar.high * r.totalEntry * 10000 >= r.entryCost * (100 + TakeProfit)

AtRiskFromEntry(r) == r.position > 0 /\ r.pendingExit = 0
AtRisk(r) == r.position > 0 /\ r.pendingExit = 0 /\ r.firstEntry # NoBar /\ i > r.firstEntry

(* 2. Intrabar risk exits on the accumulated position.                     *)
CheckRiskExits ==
  /\ phase = "risk"
  /\ IF AtRisk(run) /\ (StopHit(run) \/ TargetHit(run))
     THEN \E d \in Draws :
            run' = WorkExit(StartExit(run, IF StopHit(run) THEN "STOP_LOSS" ELSE "TAKE_PROFIT",
                                      d[1]), d[2])
     ELSE UNCHANGED run
  /\ phase' = "signal"
  /\ UNCHANGED <<model, bar, i>>

(* 3. Strategy signal at the close.                                        *)
BuySignal ==
  /\ run.position = 0 /\ run.pendingEntry = 0 /\ run.pendingExit = 0
  /\ Affordable(run, bar.close) > 0
  /\ \E d \in Draws :
       run' = WorkEntry(StartEntry(run, Affordable(run, bar.close), d[1]), d[2])

SellSignal ==
  /\ run.pendingExit = 0
  /\ \/ /\ run.position > 0
        /\ \E d \in Draws :
             run' = WorkExit(StartExit(run, "SIGNAL", d[1]), d[2])
     \/ /\ run.position = 0 /\ run.pendingEntry > 0
        /\ run' = [run EXCEPT !.pendingEntry = 0, !.entry = NoParent]

(* HOLD, or a signal that finds nothing to do.                             *)
NoSignal == UNCHANGED run

OnSignal ==
  /\ phase = "signal"
  /\ BuySignal \/ SellSignal \/ NoSignal
  /\ phase' = "next"
  /\ UNCHANGED <<model, bar, i>>

NextBar ==
  /\ phase = "next" /\ i + 1 < MaxBars
  /\ bar' \in Bars /\ i' = i + 1
  /\ phase' = "work"
  /\ UNCHANGED <<model, run>>

(* The end of the data: what is held goes at the last close, less costs.   *)
ForcedExit(r) ==
  IF r.exit # NoParent THEN r
  ELSE [r EXCEPT !.parents = NewParent(r, "SELL", "END_OF_DATA"),
                 !.exit = Len(r.parents) + 1]

ForcedSold(r) ==
  LET sold == Sold(ForcedExit(r), AllIn("SELL", bar.close), r.position)
  IN  CloseRoundTrip([sold EXCEPT !.pendingExit = 0])

ClosedUnlessExiting(r) ==
  IF r.position > 0 /\ r.exit = NoParent THEN ForcedSold([r EXCEPT !.pendingEntry = 0])
  ELSE [r EXCEPT !.pendingEntry = 0]
Closed(r) ==
  IF r.position > 0 THEN ForcedSold([r EXCEPT !.pendingEntry = 0])
  ELSE [r EXCEPT !.pendingEntry = 0]

ForceClose ==
  /\ phase = "next"
  /\ run' = Closed(run)
  /\ phase' = "done"
  /\ UNCHANGED <<model, bar, i>>

Init ==
  /\ model \in Models /\ bar \in Bars
  /\ i = 0 /\ phase = "work"
  /\ run = [cash |-> 100 * Capital, position |-> 0, pendingEntry |-> 0, pendingExit |-> 0,
            entryCost |-> 0, exitProceeds |-> 0, totalEntry |-> 0, firstEntry |-> NoBar,
            entry |-> NoParent, exit |-> NoParent, parents |-> <<>>, trades |-> <<>>,
            iceberg |-> [remaining |-> 0, visible |-> 0], signalBar |-> NoBar]

Next == WorkOpenParent \/ CheckRiskExits \/ OnSignal \/ NextBar \/ ForceClose

Spec == Init /\ [][Next]_vars

-----------------------------------------------------------------------------
Fills == [price : Nat, qty : Nat, bar : Nat]
Parents == [side : {"BUY", "SELL"}, signal : Nat, fills : Seq(Fills),
            reason : {"ENTRY", "SIGNAL", "STOP_LOSS", "TAKE_PROFIT", "END_OF_DATA"}]
Trades == [from : Int, to : Nat, qty : Nat, pnl : Int]
Engine ==
  [cash : Int, position : Nat, pendingEntry : Nat, pendingExit : Nat,
   entryCost : Nat, exitProceeds : Nat, totalEntry : Nat, firstEntry : Int,
   entry : Nat, exit : Nat, parents : Seq(Parents), trades : Seq(Trades),
   iceberg : [remaining : Nat, visible : Nat], signalBar : Int]

\* The type of the state: no count goes below zero, the parents in work are on
\* the list and the iceberg shows no more than it has.
TypeOK ==
  /\ model \in Models /\ bar \in Bars /\ i \in 0..(MaxBars - 1)
  /\ phase \in {"work", "risk", "signal", "next", "done"}
  /\ run \in Engine
  /\ run.entry <= Len(run.parents) /\ run.exit <= Len(run.parents)
  /\ run.firstEntry \in NoBar..i /\ run.signalBar \in NoBar..i
  /\ run.iceberg.visible <= run.iceberg.remaining

Qty(parent) == SeqSum([k \in DOMAIN parent.fills |-> parent.fills[k].qty])
Notional(parent) ==
  SeqSum([k \in DOMAIN parent.fills |-> parent.fills[k].price * parent.fills[k].qty])
OfAll(Measure(_)) ==
  SeqSum([p \in DOMAIN run.parents |-> -Sign(run.parents[p].side) * Measure(run.parents[p])])

(* Long-only without margin: however the open gaps away from the close an  *)
(* order was sized at, and whatever costs the model charges, a fill never  *)
(* takes the cash below zero (worst_case_cost_fraction, reference_price).  *)
NeverOverdrawn == run.cash >= 0

(* Cash and position are the fills of the parent orders and nothing else:  *)
(* through partial fills, risk exits, rejects and the forced close.        *)
FillsAccountForAll ==
  /\ run.cash = 100 * Capital + OfAll(Notional)
  /\ run.position = -OfAll(Qty)

(* One parent is worked at a time: an exit is for the whole position, has  *)
(* cancelled the entry's remainder and is worked until flat; an entry in   *)
(* work has a parent to record its fills.                                  *)
OneParentAtATime ==
  /\ (run.exit # NoParent) <=> (run.pendingExit > 0)
  /\ run.pendingExit \in {0, run.position}
  /\ run.pendingEntry > 0 => run.entry # NoParent /\ run.exit = NoParent

(* The iceberg and the engine count the same shares: what is left of the   *)
(* slices is what is left of the parent, so no parent is stranded with a   *)
(* spent iceberg and none is filled beyond its size.                       *)
SlicesFollowTheParent ==
  (model.display # {} /\ run.pendingEntry + run.pendingExit > 0) =>
    /\ run.iceberg.remaining = run.pendingEntry + run.pendingExit
    /\ run.iceberg.visible > 0

(* The places in the list of the parents that bought, of those that sell,  *)
(* and how many of places there are up to p.                               *)
FilledEntries == {p \in DOMAIN run.parents : run.parents[p].side = "BUY" /\ run.parents[p].fills # <<>>}
Exits == {p \in DOMAIN run.parents : run.parents[p].side = "SELL"}
Rank(p, places) == Cardinality({q \in places : q <= p})

(* The trade list tells what was filled: the k-th trade is the k-th filled *)
(* entry sold by the k-th exit, with their quantity, bars and P&L; only    *)
(* the last entry can be without a trade, and none is at the end.          *)
TradesTellTheFills ==
  /\ \A p \in FilledEntries, q \in Exits :
       LET k == Rank(p, FilledEntries) trade == run.trades[k]
           entry == run.parents[p] exit == run.parents[q]
       IN  k = Rank(q, Exits) /\ k \in DOMAIN run.trades =>
             /\ trade.qty = Qty(entry) /\ trade.qty = Qty(exit)
             /\ trade.pnl = Notional(exit) - Notional(entry)
             /\ trade.from = entry.fills[1].bar
             /\ trade.to = exit.fills[Len(exit.fills)].bar
  /\ Cardinality(FilledEntries) - Len(run.trades) = (IF run.position > 0 THEN 1 ELSE 0)
  /\ Cardinality(Exits) - Len(run.trades) = (IF run.exit # NoParent THEN 1 ELSE 0)
  /\ phase = "done" => run.position = 0 /\ run.pendingExit = 0

(* Every fill of a parent is in the cash, the position and the trade list. *)
FillsAreTold == FillsAccountForAll /\ TradesTellTheFills

(* No order trades on the past: under last look a fill comes after its     *)
(* signal's bar (but for the forced close), and a stop or target is taken  *)
(* only on a bar after the first fill of the entry it closes.              *)
NoTimeTravel ==
  /\ model.inner = "lastlook" =>
       \A p \in DOMAIN run.parents : \A k \in DOMAIN run.parents[p].fills :
         \/ run.parents[p].fills[k].bar > run.parents[p].signal
         \/ phase = "done" /\ p = Len(run.parents)
  /\ \A p \in FilledEntries, q \in Exits :
       Rank(p, FilledEntries) = Rank(q, Exits) /\ run.parents[q].reason \in {"STOP_LOSS", "TAKE_PROFIT"} =>
         run.parents[q].signal > run.parents[p].fills[1].bar
=============================================================================
