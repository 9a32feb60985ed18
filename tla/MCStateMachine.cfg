SPECIFICATION Spec
CONSTANTS
  Rules = {"push", "pop"}
  Initializers = {"start", "again"}
  Conditional = {"push"}
  Bundles = {"a", "b"}
  Objects = {"o", "s"}
  Singletons = {"s"}
  NoObject = "none"
  Targets <- MCTargets
  Arguments <- MCArguments
  Invariants = {"inv"}
  DuringInit = {}
  StepCount = 4
  MinSteps = 0
  MaxResults = 2
INVARIANTS PrintedProgramReplays BundlesKeepResults SomeRuleStaysEnabled

CHECK_DEADLOCK FALSE
