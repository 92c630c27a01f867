SPECIFICATION MCSpec
CONSTANTS
  Bars <- SomeBars
  MaxBars = 4
  Capital = 38
  Models <- SomeModels
  StopLoss = 15
  TakeProfit = 15
INVARIANTS
  NeverOverdrawn
  OneParentAtATime
  SlicesFollowTheParent
  FillsAreTold
  NoTimeTravel
  BooksAddUp
  
  DataIsHonest
  LiveIsBatch
  
CHECK_DEADLOCK FALSE
