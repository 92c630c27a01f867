------------------------------- MODULE DeskMC -------------------------------
(* What the desk trades and how it works it, on small instances: the       *)
(* spread algo, the benchmark basket, the child-order algorithms, the dark *)
(* poolVars, the central risk book, the dealing desk, and what its estimators  *)
(* learn from the market.  They share no state, so a behavior is of one of *)
(* them: part says which.                                                  *)
EXTENDS SpreadExec, CrbDesk, BasketExec, ChildOrders, DarkPool, TLC

VARIABLES
  part,
  shown, best, peg, held, gate, answered, arm, rewards, trades, legs,
  events, curve, saved, learned, season, shock, means, sides, flow, vpin, tape, quotes,
  place, queue, seen, iceberg, cov, lag, kyle, samples

C(b, q, k, r) == [buy |-> b, qty |-> q, benchmark |-> k, rate |-> r]
MCChild == <<C(TRUE, 3, "IMPLEMENTATION_SHORTFALL", 1), C(FALSE, 3, "TWAP", 1),
             C(TRUE, 2, "PARTICIPATION", 2)>>
M(px, al, co, vo, de) ==
  [mid |-> px, alpha |-> al, cost |-> co, vol |-> vo, depth |-> de, curve |-> -1]
MCStates == {M(2, 1, 0, 0, -2), M(1, 1, 0, 1, -2), M(-1, -1, 1, 0, 2)}

Sees(s, f, v, i, d) == [spread |-> s, forecast |-> f, vol |-> v, impact |-> i, depth |-> d]
MCMoments == {Sees(1, 1, 0, 0, 4), Sees(1, 1, 0, 0, 700), Sees(2, 1, 0, 0, 4), Sees(-1, 1, 0, 0, 4),
              Sees(1, -1, 0, 0, 4), Sees(1, 1, -1, 0, 4), Sees(1, 1, 0, 1, 700)}
MCCurve == <<16, 50, 84, 100>>

EurUsd == <<"EUR", "USD">>
MCFactors == {<<"EQ", "A">>, <<"EQGAMMA", "A">>, <<"EQVEGA", "A">>, <<"CCY", "EUR">>,
              <<"CCY", "USD">>, <<"FXPOINTS", EurUsd>>, <<"FXGAMMA", EurUsd>>,
              <<"FXVEGA", EurUsd>>, <<"EQ", "INDEX">>}
MCPairs == {EurUsd}
MCFlows == {<<"cash", CashEquity("A", 4, 1)>>, <<"cash", EquityOption("A", -2, 1, 1, 1, 1)>>,
            <<"fx", FxSwap(EurUsd, 2, 1, 2)>>, <<"fx", Ndf(EurUsd, -2, 1)>>,
            <<"fx", FxOption(EurUsd, -1, 1, 1, 1, 5)>>}
MCClientSizes == {-3, 2}
MCDarkVenues == {[fill |-> 1, charge |-> 1], [fill |-> 1, charge |-> 4]}
MCHedgeOnly == <<"EQ", "INDEX">>

(* Venues that lock, cross and pull a side; a party that owes and is owed; *)
(* legs that touch at one instant, and one that is received first.         *)
Qt(b, n, a, m) == [bid |-> b, bidSize |-> n, ask |-> a, askSize |-> m]
Tr(p, n, m, y) == [party |-> p, notional |-> n, mtm |-> m, tenor |-> y]
Lg(p, x, s, r) == [party |-> p, amount |-> x, pay |-> s, receive |-> r]
Maker == INSTANCE DealingDesk WITH
  Venues <- 1..2, Quotes <- {Qt(10, 1, 12, 2), Qt(11, 3, 0, 0), Qt(8, 2, 10, 1)},
  Offset <- -1, Caps <- [s \in {"bid", "ask"} |-> IF s = "bid" THEN 20 ELSE -1000000], Threshold <- 2,
  Tolerance <- 1, Arms <- 1..3, Rewards <- {0, 50, 100},
  Bonus <- <<<<0>>, <<117>>, <<148, 104>>, <<166, 117, 96>>, <<179, 126, 103, 89>>, <<189, 133, 109, 94>>>>,
  Parties <- {"p", "q"},
  Trades <- {Tr("p", 4, 3, 0), Tr("p", -2, -2, 5), Tr("p", 1, 1, 6), Tr("q", 3, -1, 1)},
  Legs <- {Lg("p", 2, 1, 3), Lg("p", 3, 3, 4), Lg("p", 1, 2, 3), Lg("q", 5, 1, 2), Lg("p", 9, 4, 2)},
  MaxRequests <- 2, MaxPulls <- 6, MaxTrades <- 4

(* Two buckets of a day; quotes that improve, grow, widen and drop a side;  *)
(* prints at, between and through them; readings and returns with gaps.    *)
NoReturn == -1000000
Streams == INSTANCE MarketStreams WITH
  Buckets <- 1..2, DayTypes <- {"regular", "expiry"}, Volumes <- {1, 3}, Shapes <- {<<2, 0>>, <<0, 3>>},
  Readings <- {-1, 0, 1, 4}, Quotes <- {Qt(8, 1, 10, 2), Qt(8, 3, 12, 1), Qt(10, 2, 12, 2), Qt(0, 0, 10, 1)},
  Prices <- {8, 10, 11}, Sizes <- {1, 5}, BucketVolume <- 2, Window <- 2, Tip <- 2, Reserves <- {0, 3},
  MaxLag <- 1, Returns <- {-1, 2, NoReturn} \X {-1, 0, 1},
  Weights <- {<<1, 0>>, <<1, 1>>, <<1, -1>>, <<2, -1>>, <<-1, 3>>}, MaxEvents <- 5, MaxTime <- 2

dealing == <<shown, best, peg, held, gate, answered, arm, rewards, trades, legs>>
streams == <<events, curve, saved, learned, season, shock, means, sides, flow, vpin, tape, quotes,
             place, queue, seen, iceberg, cov, lag, kyle, samples>>

MCInit ==
  /\ part \in {"spread", "basket", "children", "pool", "crb", "making", "exploring", "dealing",
              "sessions", "seasons", "trading", "resting", "sampling"}
  /\ Init /\ BasketInit /\ ChildInit /\ PoolInit /\ CrbInit /\ Maker!Init /\ Streams!Init
  /\ part # "children" => algo = "pov"

MCNext ==
  /\ UNCHANGED part
  /\ \/ /\ UNCHANGED <<dealing, streams>>
        /\ \/ part = "spread" /\ Next /\ UNCHANGED <<basketVars, childVars, poolVars, crbVars>>
           \/ part = "basket" /\ BasketNext /\ UNCHANGED <<vars, childVars, poolVars, crbVars>>
           \/ part = "children" /\ ChildNext /\ UNCHANGED <<vars, basketVars, poolVars, crbVars>>
           \/ part = "pool" /\ PoolNext /\ UNCHANGED <<vars, basketVars, childVars, crbVars>>
           \/ part = "crb" /\ CrbNext /\ UNCHANGED <<vars, basketVars, childVars, poolVars>>
     \/ /\ UNCHANGED <<vars, basketVars, childVars, poolVars, crbVars, streams>>
        /\ \/ part = "making" /\ Maker!Making
           \/ part = "exploring" /\ Maker!Exploring
           \/ part = "dealing" /\ Maker!Dealing /\ (trades' = <<>> \/ legs' = <<>>)
     \/ /\ UNCHANGED <<vars, basketVars, childVars, poolVars, book, engine, ledger, hedger, working, offered, dealing>>
        /\ Streams!Counted
        /\ \/ part = "sessions" /\ Streams!Sessions
           \/ part = "seasons" /\ Streams!Seasons
           \/ part = "trading" /\ Streams!Trading
           \/ part = "resting" /\ Streams!Resting
           \/ part = "sampling" /\ Len(samples) < 4 /\ Streams!Sampling

everything == <<part, vars, basketVars, childVars, poolVars, crbVars, dealing, streams>>

(* The caller's timer keeps deciding, and a child that is offered again    *)
(* and again fills some day; so do the caller and the market of the child- *)
(* order algorithms, and their clock runs.                                 *)
MCSpec ==
  /\ MCInit /\ [][MCNext]_everything
  /\ WF_vars(part = "spread" /\ Decide)
  /\ SF_vars(part = "spread" /\ SomeLeadFills) /\ SF_vars(part = "spread" /\ SomeHedgeFills)
  /\ WF_childVars(part = "children" /\ Poll)
  /\ WF_childVars(part = "children" /\ OthersTrade)
  /\ WF_childVars(part = "children" /\ Elapse)
  /\ SF_childVars(part = "children" /\ SomeFill)

(* Both legs of the spread, and the parent of each child-order algorithm,  *)
(* are filled whole in the end.                                            *)
ParentsAreFinished ==
  /\ part = "spread" => CompletesBothLegs
  /\ part = "children" => FinishesTheParent

(* The maker's composite can be dealt on and its pegs follow it, its last  *)
(* look has one answer for both sides, every arm of its bandit is tried,   *)
(* and netting relieves what it is owed.                                   *)
DealsAreFair ==
  /\ part = "making" => Maker!CompositeCanBeDealt /\ Maker!LastLookIsSymmetric
  /\ part = "exploring" => Maker!ArmsAreTried
  /\ part = "dealing" => Maker!NettingIsRelief
(* What the estimators have learned lies among what the market did, at its *)
(* own hour, on its own kind of day and at its own lag; flow, toxicity and *)
(* places in a queue are those of the tape, however it was cut; and a      *)
(* place in a queue never worsens.                                         *)
StreamsAreLearned ==
  /\ [](/\ part = "sessions" => Streams!FractionIsACurve /\ Streams!ProfileIsLearned
        /\ part = "seasons" => Streams!HoursAreLearned
        /\ part = "trading" => Streams!VpinIsVolumeTime /\ Streams!FlowIsTheTape /\ Streams!SidesFollowThePrice
        /\ part = "resting" => Streams!PlaceIsRight /\ Streams!IcebergsHide
        /\ part = "sampling" => Streams!RiskIsARisk /\ Streams!LagsAreLagged /\ Streams!ImpactIsLearned)
  /\ Streams!PlaceNeverWorsens
=============================================================================
