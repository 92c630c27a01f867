SPECIFICATION Spec
CONSTANTS
  Symbols = {s1, s2}
  Prices = {1, 2}
  Quantities = {1}
  InitialCash = 10
  CommissionRate = 1
  LogCap = 1
  ListenerCalls = {"submit"}
  MaxOrders = 3
  MaxFills = 3
  MaxDepth = 1
SYMMETRY SymbolSymmetry
INVARIANTS
  RestingIsRight
CONSTRAINT FewFills
