------------------------- MODULE MCConjectureRunner -------------------------
(***************************************************************************)
(* Small instances of ConjectureRunner, and of the DataTree of an engine   *)
(* that only generates, for TLC: a behavior is one of the two.             *)
(***************************************************************************)
EXTENDS ConjectureRunner

MCOrigins == {"A", "B"}
MCGarbage == {100}

\* The byte order disagrees with sort_key on the last two choices.
MCShortLex == [e \in (1 .. MaxChoice) \cup MCGarbage |->
                 IF e = MaxChoice THEN MaxChoice - 1
                 ELSE IF e = MaxChoice - 1 THEN MaxChoice ELSE e]

Itself == [c \in 1 .. 5 |-> {c}]

\* The settings of a test: the default ones but for the target phase, and those
\* of a flaky test that searches with targets and reports one bug.
Steady(does, plays) ==
  [does |-> does, plays |-> plays, flaky |-> FALSE,
   phases |-> {"reuse", "generate", "shrink"}, multiple |-> TRUE]
Unsteady(does, plays) ==
  [Steady(does, plays) EXCEPT !.flaky = TRUE, !.phases = @ \cup {"target"}, !.multiple = FALSE]

\* Two bugs; none; and a test that draws differently,
\* so that 2 is short, and 4 is too long.
TwoBugs == <<"VALID", "A", "B", "A", "B">>
NoBug   == <<"VALID", "VALID", "INVALID", "VALID", "VALID">>
Moved   == <<"VALID", "INVALID", "A", "B", "A">>
MovedPlays == [Itself EXCEPT ![2] = {3, 5}, ![4] = {3}]

MCTests ==
  {Steady(TwoBugs, Itself), Steady(Moved, MovedPlays), Steady(NoBug, Itself),
   Unsteady(TwoBugs, Itself), Unsteady(Moved, MovedPlays)}

-----------------------------------------------------------------------------
CONSTANTS VALID, KillMark, NoValue

VARIABLES part, tree, phase, cur, idx, killed, path, flaky, prog

MCTwo == {"two"}

Tree == INSTANCE DataTree WITH
  Kinds <- MCTwo, Values <- {0, 1}, Children <- [k \in MCTwo |-> {0, 1}],
  Conclusions <- {VALID}, Valid <- VALID, Interesting <- {},
  MaxDraws <- 3, MaxDiscards <- 0, Flakiness <- {FALSE}, todo <- path

TreeVars == <<tree, phase, cur, idx, killed, path, flaky, prog>>

EngineInit ==
  /\ Init /\ Tree!Init /\ part \in {"run", "tree"}
  /\ part = "tree" => test = (CHOOSE t \in Tests : TRUE) /\ primary = {} /\ secondary = {}

EngineNext ==
  \/ part = "run" /\ Next /\ UNCHANGED <<part, TreeVars>>
  \/ part = "tree" /\ Tree!GenerateNext /\ UNCHANGED <<part, vars>>

EngineSpec ==
  /\ EngineInit /\ [][EngineNext]_<<part, vars, TreeVars>>
  /\ WF_vars(part = "run" /\ Run) /\ WF_TreeVars(part = "tree" /\ Tree!GenerateNext)

\* Novel prefixes exhaust every finite test function.
GenerationExhausts == part = "tree" => Tree!GenerationExhaustsTheTree
=============================================================================
