SPECIFICATION EngineSpec
CONSTANTS
  VALID = VALID
  KillMark = KillMark
  NoValue = NoValue
  MaxChoice = 5
  Garbage <- MCGarbage
  ShortLex <- MCShortLex
  Origins <- MCOrigins
  Tests <- MCTests
  MaxExamples = 3
  DesiredSize = 3
  InvalidBase = 1
  InvalidPerValid = 1
  MaxShrinks = 2
INVARIANTS BestIsSaved PinsMatch AllShrunk
PROPERTIES NothingLost RunsEnd GenerationExhausts
CHECK_DEADLOCK FALSE
