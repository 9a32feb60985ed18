SPECIFICATION LimiterSpec
CHECK_DEADLOCK FALSE
CONSTANTS
  Threads = {t1, t2}
  MaxNesting = 2
  Depths <- MCDepths
  Reserve = 10
  OutsideLimits <- MCOutside
  WarningFilters = {FALSE}
  None = None
  random = random
  numpy = numpy
  Generators <- MCGenerators
  Global <- MCGlobal
  Seeds <- MCSeeds
  TestSeed = 0
  MaxUses = 1
  Cases <- MCCases
  Origins <- MCOrigins
  Tests <- MCTests
  MaxRuns = 2
  Procs <- MCProcs
  Keys <- MCKeys
  Values <- MCValues
  Owners <- MCOwners
  CrossDevice <- MCCrossDevice
  Written <- MCWritten
  Refused <- MCRefused
  MaxCalls = 3
  w = w
  p1 = p1
  p2 = p2
  k1 = k1
  k2 = k2
  v1 = v1
  v2 = v2
  Meta = Meta
SYMMETRY Alike
INVARIANTS KeepsFramesFree
