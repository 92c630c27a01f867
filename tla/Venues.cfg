SPECIFICATION MCSpec
CONSTANTS
  Unit = 5
  PerNano = 3
  Burst = 2
  Slack = 1
  MaxTime = 15
  VenueCount = 3
  MaxTick = 2
  MaxSize = 1
  Rated = {"x", "y", "z", "d"}
  Lit = {"x", "y", "z"}
  Dark = {"d"}
  Unregistered = {"z"}
  PendingRing = 2
  Horizon = 1
  CardUnit = 32
  Prior = 24
  MinFillRate = 12
  MissPenalty = 2
  UrgencyCost = 1
  Base = 10
  DefaultProbe = 5
  DarkShare = 2
  Parents = {3}
  Mids = {0, 10, 12}
  Latencies = {1}
  Quotes <- MCQuotes
  MaxEvents = 3
  SorTime = 2
  Weights <- MCWeights
  Quantities = {0, 1, 4, 5}
  Durations <- MCDurations
  MaxDuration = 100
  HftVenues = {1, 2, 3}
  QuoteSets <- MCSees
  FeeSets <- MCFees
  Limits = {10, 11}
INVARIANTS
  
  WaitingIsEnough
  InsideIsConsolidated
  RoutingIsRight
  FxIsDealtBest
  SplitsAreRight
  WireIsRead
PROPERTIES
  ListenerIsTold
CHECK_DEADLOCK FALSE
