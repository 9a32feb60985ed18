---------------------------- MODULE FeatureFlags ----------------------------
(***************************************************************************)
(* FeatureFlags (strategies/_internal/featureflags.py): which features of  *)
(* a test case are on, decided one by one when somebody asks.              *)
(***************************************************************************)
CONSTANTS
  Features,      \* the names that are asked for
  AtLeastOneOf   \* those of which one has to be on

VARIABLES
  enabled,       \* the names decided on, of __is_disabled
  disabled,      \* and those decided off
  oneof          \* __at_least_one_of

flagVars == <<enabled, disabled, oneof>>

FlagsInit == enabled = {} /\ disabled = {} /\ oneof = AtLeastOneOf

\* Mutant: the last hope may be dashed.
MayDisableLast(f) == f \notin enabled

\* What draw_boolean may answer: the last hope is forced on,
\* and what was decided is forced to be the same.
MayEnable(f)  == oneof = {f} \/ f \notin disabled
MayDisable(f) == oneof # {f} /\ f \notin enabled

Enable(f) ==
  /\ MayEnable(f)
  /\ enabled' = enabled \cup {f}
  /\ disabled' = disabled \ {f}
  /\ oneof' = IF f \in oneof THEN {} ELSE oneof

Disable(f) ==
  /\ MayDisable(f)
  /\ disabled' = disabled \cup {f}
  /\ oneof' = oneof \ {f}
  /\ UNCHANGED enabled

FlagsNext == \E f \in Features : Enable(f) \/ Disable(f)

FlagsSpec == FlagsInit /\ [][FlagsNext]_flagVars

\* The names of which one has to be on are never all decided off,
\* in whatever order they are asked for.
SomeFeatureStaysEnabled == AtLeastOneOf # {} => \E f \in AtLeastOneOf : f \notin disabled
=============================================================================
