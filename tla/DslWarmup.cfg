SPECIFICATION MCSpec
CONSTANTS
  Bars <- SomeBars
  MaxBars = 4
  Capital = 38
  Models <- SomeModels
  StopLoss = 15
  TakeProfit = 15
INVARIANT WarmupSatisfiesNothing
CHECK_DEADLOCK FALSE
