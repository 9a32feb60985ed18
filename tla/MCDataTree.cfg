SPECIFICATION Spec
CONSTANTS
  Kinds <- MCKinds
  Values <- MCValues
  Children <- MCChildren
  Conclusions = {VALID, BUG1}
  Valid = VALID
  Interesting = {BUG1}
  KillMark = KillMark
  NoValue = NoValue
  MaxDraws = 2
  MaxDiscards = 4
  Flakiness = {TRUE, FALSE}
INVARIANTS TreeIsFaithful NovelPrefixesAreNovel SimulationAgrees
PROPERTY ImplementsTrie

CHECK_DEADLOCK FALSE
