SPECIFICATION MCSpec
CONSTANTS
  Refs = {r1, r2, r3}
  BadRef = BadRef
  Ladder = 2
  MaxOrders = 3
  MaxTracked = 2
  MaxShares = 2
  MaxSeq = 3
SYMMETRY RefSymmetry
INVARIANTS
  ViewsAgree
  AheadNeverOverstates
  AheadIsExactInPriority
PROPERTIES
  IsPriceTimeQueue
