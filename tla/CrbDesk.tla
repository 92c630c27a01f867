-------------------------------- MODULE CrbDesk --------------------------------
(***************************************************************************)
(* The dealing desk around the central risk book: client flow kept or      *)
(* routed (crb/internalization_engine.py, crb/crb_router.py), the hedging  *)
(* loop (crb/crb_auto_hedger.py on crb/hedge_optimizer.py and              *)
(* crb/crb_hedge_universe.py), and what it earns (crb/crb_pnl_ledger.py).  *)
(*                                                                         *)
(* The caller is the loop of the repository's tests: decide against the    *)
(* book's net, book what is kept, route the rest; check the bands once an  *)
(* interval; book a hedge when it is filled.  Costs are in notional times  *)
(* basis points.  Hedge instruments load one factor each and factors are   *)
(* uncorrelated: then the optimizer's descent is its closed form.          *)
(***************************************************************************)
EXTENDS CentralRiskBook

CONSTANTS
  DeskFlows,       (* what the desks book: <<desk, flow>>                  *)
  Symbols,         (* equities clients trade, at price 1                   *)
  ClientSizes,     (* signed quantities they bring                         *)
  WarehouseLimit,  (* warehouse_limit                                      *)
  HalfSpread,      (* half_spread_bps                                      *)
  Improvement,     (* improvement_share * half_spread_bps                  *)
  DarkVenues,      (* [fill, charge]: expected fill and adverse selection  *)
  Impact,          (* impact_bps                                           *)
  HardLimit, Band, (* exposure limit, and limit * reset_fraction           *)
  Thrift,          (* risk worth less than this is not worth its cost      *)
  Cooldown,        (* cooldown_intervals                                   *)
  HedgeOnly,       (* a factor only a hedge instrument names               *)
  MaxFlows, MaxOffered, MaxTime   (* bounds                                *)

VARIABLES
  engine,   (* [internalized, routed]: notionals                           *)
  ledger,   (* [captured, paid, routing, hedging]                          *)
  hedger,   (* [size, hedged, last, emitted]; size = len(limits), 0 = none *)
  now,      (* the interval                                                *)
  working,  (* hedge orders not filled yet: [factor -> notional]           *)
  offered   (* what clients brought, and by how much it cut |net|: the     *)
            (* yardstick of the ledger, no part of the program             *)

crbVars == <<book, engine, ledger, hedger, now, working, offered>>

Sgn(x) == IF x > 0 THEN 1 ELSE IF x < 0 THEN -1 ELSE 0
Smaller(a, b) == IF a < b THEN a ELSE b
Equity(symbol) == <<"EQ", symbol>>

-----------------------------------------------------------------------------
(* What the constructors check: finite and not negative, a band inside its *)
(* limit; and every factor that is traded has its place among the factors. *)
ASSUME CrbDeskAssumption ==
  /\ Slots \in Nat /\ MaxFinite \in Nat
  /\ {"client", "hedge"} \subseteq Desks
  /\ HedgeOnly \in Factors /\ \A s \in Symbols : Equity(s) \in Factors
  /\ \A b \in DeskFlows :
       /\ b[1] \in Desks /\ b[2].fixing \in Nat
       /\ b[2].legs \in Seq([factor : Factors, amount : Int])
  /\ ClientSizes \subseteq Int
  /\ WarehouseLimit \in Nat /\ HalfSpread \in Nat /\ Improvement \in Nat /\ Impact \in Nat
  /\ IsFiniteSet(DarkVenues) /\ DarkVenues \subseteq [fill : Nat, charge : Nat]
  /\ HardLimit \in Nat /\ Band \in 0..HardLimit /\ Thrift \in Nat /\ Cooldown \in Nat

-----------------------------------------------------------------------------
(* InternalizationEngine.decide: kept = crossed against the inventory plus *)
(* warehoused, and the improvement only the crossed part earns.            *)

RoomUnlimited(net, flow) == Magnitude(flow)
Room(net, flow) ==
  IF Sgn(flow) = -Sgn(net) /\ net # 0 THEN WarehouseLimit
  ELSE Max({0, WarehouseLimit - Magnitude(net)})

Crossed(net, flow) ==
  IF net # 0 /\ Sgn(flow) # Sgn(net) THEN Smaller(Magnitude(flow), Magnitude(net)) ELSE 0

InternalizeImprovingAll(net, flow) ==
  LET kept == Crossed(net, flow)
              + Smaller(Magnitude(flow) - Crossed(net, flow), Room(net, flow))
  IN  [internalized |-> Sgn(flow) * kept, routed |-> flow - Sgn(flow) * kept,
       improvement |-> IF Crossed(net, flow) > 0 THEN Improvement * kept ELSE 0]
Internalize(net, flow) ==
  LET kept == Crossed(net, flow)
              + Smaller(Magnitude(flow) - Crossed(net, flow), Room(net, flow))
  IN  [internalized |-> Sgn(flow) * kept, routed |-> flow - Sgn(flow) * kept,
       improvement |-> Improvement * Crossed(net, flow)]

\* CrbRouter.route: the cheapest dark venues first, while they undercut lit;
\* left is what lit gets, open the venues not asked yet.
LitCost == HalfSpread + Impact
Cheapest(open) == CHOOSE v \in open : \A w \in open : v.charge <= w.charge
Asked(r) ==
  IF r.open = {} THEN r
  ELSE LET v == Cheapest(r.open)
           fill == Smaller(r.left, v.fill)
       IN  [left |-> r.left - fill, cost |-> r.cost + fill * v.charge, open |-> r.open \ {v}]
Asking(notional) ==
  LET r[k \in 0..Cardinality(DarkVenues)] ==
        IF k = 0 THEN [left |-> notional, cost |-> 0,
                       open |-> {v \in DarkVenues : v.charge < LitCost}]
        ELSE Asked(r[k - 1])
  IN  r
Routed(notional) == Asking(notional)[Cardinality(DarkVenues)]
RouteCost(notional) == Routed(notional).cost + Routed(notional).left * LitCost

OnDecision(d) ==
  [ledger EXCEPT !.captured = @ + Magnitude(d.internalized) * HalfSpread - d.improvement,
                 !.paid = @ + d.improvement,
                 !.routing = @ + RouteCost(Magnitude(d.routed))]

ClientFlow(symbol, qty) ==
  LET net == Exposure(book, Equity(symbol))
      d   == Internalize(net, qty)
  IN  /\ book.flows < MaxFlows /\ offered.total + Magnitude(qty) <= MaxOffered
      /\ IF d.internalized = 0 THEN UNCHANGED book
         ELSE BookFlow("client", CashEquity(symbol, d.internalized, 1))
      /\ engine' = [internalized |-> engine.internalized + Magnitude(d.internalized),
                    routed |-> engine.routed + Magnitude(d.routed)]
      /\ ledger' = OnDecision(d)
      /\ offered' = [total |-> offered.total + Magnitude(qty),
                     cut |-> offered.cut + Smaller(Magnitude(qty),
                                                   Max({0, -Sgn(qty) * net}))]
      /\ UNCHANGED <<hedger, now, working>>

-----------------------------------------------------------------------------
(* The hedging loop.                                                       *)

\* CrbAutoHedger(limits): as many limits as the registry has factors now.
SizeHedger ==
  /\ hedger.size = 0 /\ book.names # <<>>
  /\ hedger' = [hedger EXCEPT !.size = Len(book.names)]
  /\ UNCHANGED <<book, engine, ledger, now, working, offered>>

\* The instruments load the equity factors, one each.
Hedgeable(f) == f \in {Equity(s) : s \in Symbols}

Breached == {f \in ToSet(book.names) : Magnitude(Exposure(book, f)) > HardLimit}

\* HedgeOptimizer.hedge on the excess beyond the band, a soft threshold.
HedgeOf(thrift) ==
  [f \in {g \in Breached : Hedgeable(g)} |->
     -Sgn(Exposure(book, f)) * Max({0, Magnitude(Exposure(book, f)) - Band - thrift})]
StillBreached(h) ==
  \E f \in ToSet(book.names) :
    Magnitude(Exposure(book, f) + (IF f \in DOMAIN h THEN h[f] ELSE 0)) > HardLimit
CheapestHedge == HedgeOf(Thrift)
Hedge == IF StillBreached(HedgeOf(Thrift)) THEN HedgeOf(0) ELSE HedgeOf(Thrift)

CoolingNever == FALSE
Cooling == hedger.hedged /\ now - hedger.last < Cooldown

\* check(): raises unless there is a limit for every factor of the book.
Orders == [f \in {g \in DOMAIN Hedge : Hedge[g] # 0} |-> Hedge[f]]
Check ==
  /\ hedger.size > 0 /\ hedger.size = Len(book.names)
  /\ Breached # {} /\ ~Cooling
  /\ DOMAIN Orders # {}
  /\ working' = [f \in DOMAIN working \cup DOMAIN Orders |->
                   (IF f \in DOMAIN working THEN working[f] ELSE 0)
                   + (IF f \in DOMAIN Orders THEN Orders[f] ELSE 0)]
  /\ hedger' = [hedger EXCEPT !.hedged = TRUE, !.last = now, !.emitted = @ + 1]
  /\ UNCHANGED <<book, engine, ledger, now, offered>>

\* The street fills a hedge, whole, and the caller books it.
HedgeFilled(f, cost) ==
  /\ f \in DOMAIN working
  /\ BookFlow("hedge", CashEquity(f[2], working[f], 1))
  /\ working' = Restrict(working, DOMAIN working \ {f})
  /\ ledger' = [ledger EXCEPT !.hedging = @ + Magnitude(working[f]) * cost]
  /\ UNCHANGED <<engine, hedger, now, offered>>

\* Time passes; the street is done with a hedge before its cooldown ends.
Tick ==
  /\ now < MaxTime /\ now' = now + 1
  /\ DOMAIN working # {} => now + 1 - hedger.last < Cooldown
  /\ UNCHANGED <<book, engine, ledger, hedger, working, offered>>

DeskBooks(desk, flow) ==
  /\ book.flows < MaxFlows
  /\ BookFlow(desk, flow)
  /\ UNCHANGED <<engine, ledger, hedger, now, working, offered>>

FixingOccurs(pair, notional) ==
  /\ SettleFixing(pair, notional)
  /\ UNCHANGED <<engine, ledger, hedger, now, working, offered>>

AddInstrument ==
  /\ RegisterFactor(HedgeOnly)
  /\ UNCHANGED <<engine, ledger, hedger, now, working, offered>>

CrbInit ==
  /\ book = NewBook
  /\ engine = [internalized |-> 0, routed |-> 0]
  /\ ledger = [captured |-> 0, paid |-> 0, routing |-> 0, hedging |-> 0]
  /\ hedger = [size |-> 0, hedged |-> FALSE, last |-> 0, emitted |-> 0]
  /\ now = 0 /\ working = <<>> /\ offered = [total |-> 0, cut |-> 0]

CrbNext ==
  \/ \E b \in DeskFlows : DeskBooks(b[1], b[2])
  \/ \E p \in Pairs : \E n \in 1..book.pending[p] : FixingOccurs(p, n)
  \/ \E s \in Symbols, q \in ClientSizes : ClientFlow(s, q)
  \/ SizeHedger \/ AddInstrument \/ Check \/ Tick
  \/ \E f \in DOMAIN working : HedgeFilled(f, 1)

CrbSpec == CrbInit /\ [][CrbNext]_crbVars

-----------------------------------------------------------------------------
(* The ledger adds up to the flow: all that clients brought was kept or    *)
(* routed, what was kept earned the half spread, shared only on the part   *)
(* that shed risk, and routing never cost more than going lit.             *)
LedgerAddsUp ==
  /\ engine.internalized + engine.routed = offered.total
  /\ ledger.captured + ledger.paid = HalfSpread * engine.internalized
  /\ ledger.paid = Improvement * offered.cut
  /\ ledger.routing <= LitCost * engine.routed

(* The arrays, the registry and the fixings keep the ledger of the firm,   *)
(* whatever order factors and desks first appear in, although a desk's     *)
(* array is only as long as the book was when the desk last needed it, and *)
(* a flow with a leg that is not finite leaves nothing behind.             *)
Ledger == INSTANCE RiskLedger WITH
  Flows <- {b[2] : b \in DeskFlows} \cup
           {CashEquity(s, q, 1) : s \in Symbols, q \in -MaxFinite..MaxFinite},
  held <- [d \in Desks |-> [f \in Factors |-> DeskExposure(book, d, f)]],
  net <- [f \in Factors |-> Exposure(book, f)],
  gross <- [f \in Factors |-> GrossExposure(book, f)],
  pending <- book.pending
(* The ledger is a function of book: this is Ledger!Spec, looked at only   *)
(* where book changes.                                                     *)
ImplementsTheLedger == Ledger!Init /\ [][book' # book => [Ledger!Next]_(Ledger!vars)]_book

(* The books of the desk: of money, after every step, and of risk.         *)
KeepsTheLedger == LedgerAddsUp /\ [][LedgerAddsUp']_crbVars /\ ImplementsTheLedger

(* A warehouse limit does not yield to one more trade: client flow never   *)
(* takes a position beyond the limit, nor further beyond it.               *)
WarehouseLimitHolds ==
  [][engine' # engine =>
       \A s \in Symbols :
         Magnitude(Exposure(book', Equity(s)))
           <= Max({WarehouseLimit, Magnitude(Exposure(book, Equity(s)))})]_crbVars

(* A hard limit outranks thrift and hedges do not chase one another: what  *)
(* is sent, with what was sent before and is not filled yet, takes every   *)
(* factor it can hedge inside its limit, and none through zero.            *)
LimitOutranksThrift ==
  [][hedger'.emitted # hedger.emitted =>
       \A f \in DOMAIN working' :
         LET after == Exposure(book, f) + working'[f]
         IN  Magnitude(after) <= HardLimit /\ Sgn(after) # -Sgn(Exposure(book, f))]_crbVars

(* No trade takes a name further over its warehouse limit, and a breach is *)
(* hedged however thrifty the hedger is.                                   *)
LimitsOutrankTrades == WarehouseLimitHolds /\ LimitOutranksThrift
=============================================================================
