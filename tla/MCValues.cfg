SPECIFICATION ValuesSpec
CHECK_DEADLOCK FALSE
CONSTANTS
  Conditions <- MCConditions
  MaxFilters = 2
  MaxTextSteps = 2
INVARIANTS
  DrawsWhatIsAsked
  NothingIsFilteredAway
  IntervalsAreCanonical
  CharactersAsDocumented
  FilteredTextIsExact
  IndexIsPlace
  TrivialIsSimplest
  ChildrenAreEnumerated
  TornEntriesLoseTheEnd
