SPECIFICATION Spec
CONSTANTS
  Symbols = {s1}
  Prices = {1, 2}
  Quantities = {1, 2}
  InitialCash = 10
  CommissionRate = 1
  LogCap = 0
  ListenerCalls = {"submit", "cancel", "quote", "raise"}
  MaxOrders = 3
  MaxFills = 2
  MaxDepth = 1
INVARIANTS
  SharesTradeOnce
  LimitsAreHonoured
  AccountBalances
CONSTRAINT FewFills
