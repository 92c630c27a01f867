SPECIFICATION FeedSpec
CONSTANTS
  Refs = {r1, r2, r3}
  BadRef = BadRef
  Ladder = 1
  MaxOrders = 3
  MaxTracked = 2
  MaxShares = 2
  MaxSeq = 5
  MaxVenueAdds = 3
  MaxInFlight = 2
  MaxDisturbances = 1
SYMMETRY RefSymmetry
INVARIANTS
  CaughtUp
  AnomalyMeansDisturbance
