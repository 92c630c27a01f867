SPECIFICATION MCSpec
CONSTANTS
  Child <- MCChild
  Horizon = 2
  States <- MCStates
  MaxNet = 3
  MaxBudget = 6
  MaxVolume = 4
  Qty = 7
  Displays = {0, 2, 3}
  Participation = 50
  MinSlice = 2
  MaxSlice = 3
  DepthFraction = 50
  ForceFrom = 2
  Moments <- MCMoments
  Curve <- MCCurve
  MaxPrinted = 18
  LitPrices = {0, 1, 2}
  OrderSizes = {1, 2, 3}
  MinimumSizes = {0, 2}
  MaxPoolOrders = 3
  Parent = 8
  Num = 3
  Den = 2
  Limit = 2
  ChildMax = 3
  MaxDuplicates = 2
  Desks = {"cash", "fx", "client", "hedge"}
  Factors <- MCFactors
  Pairs <- MCPairs
  Slots = 1
  MaxFinite = 12
  DeskFlows <- MCFlows
  Symbols = {"A"}
  ClientSizes <- MCClientSizes
  WarehouseLimit = 2
  HalfSpread = 2
  Improvement = 1
  DarkVenues <- MCDarkVenues
  Impact = 1
  HardLimit = 3
  Band = 1
  Thrift = 4
  Cooldown = 2
  HedgeOnly <- MCHedgeOnly
  MaxFlows = 2
  MaxOffered = 5
  MaxTime = 2
INVARIANTS
  CapHolds
  HedgeOnlyChases
  NeverAhead
  DealsAreFair
PROPERTIES
  ParentsAreFinished
  
  MinimumsAreHonoured
  KeepsTheLedger
  
  StreamsAreLearned
CHECK_DEADLOCK FALSE
