SPECIFICATION NumbersSpec
CHECK_DEADLOCK FALSE
CONSTANTS
  Conditions <- AllConditions
  MaxFilters = 1
  MaxTextSteps = 1
INVARIANT
  FilteredAsDocumented
