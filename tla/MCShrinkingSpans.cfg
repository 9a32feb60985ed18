SPECIFICATION ShrinkingSpec
CHECK_DEADLOCK FALSE
CONSTANTS
  Tests <- MCOneTest
  Extras <- MCExtras
  FirstTarget = 1
  MaxFailures = 2
  Stall = 4
  MaxCalls = 1
  Widest = 3
  MaxChoices = 5
  Keys = {1, 2, 3, 4, 5}
  CachedValues = {"v", "w"}
  MaxSize = 4
  MaxPins = 2
INVARIANTS SpansAreClosed
