---------------------------- MODULE StateMachine ----------------------------
(***************************************************************************)
(* A test case of a RuleBasedStateMachine (stateful.py): initialize rules, *)
(* then rules chosen among those enabled, with values drawn from bundles,  *)
(* until a step count, a coin or an exception stops it; and the program    *)
(* that it prints on the way.                                              *)
(***************************************************************************)
EXTENDS Integers, Sequences, FiniteSets, SequencesExt

CONSTANTS
  Rules,         \* the @rule methods
  Initializers,  \* the @initialize methods
  Conditional,   \* the rules with a precondition of their own
  Bundles,
  Objects,       \* the values that rules return, by identity
  Singletons,    \* those that are printed as themselves
  NoObject,
  Targets,       \* for every rule the bundles it returns to
  Arguments,     \* and the bundles it draws from, in the order of their names
  Invariants,    \* the @invariant methods
  DuringInit,    \* those with check_during_init
  StepCount,     \* stateful_step_count
  MinSteps,      \* _min_steps
  MaxResults     \* bound: a rule returns at most so many values

Methods == Rules \cup Initializers
Argument == [bundle : Bundles, consume : BOOLEAN, reference : BOOLEAN, filtered : BOOLEAN]

ASSUME StateMachineConstants ==
  /\ Rules # {} /\ Rules \cap Initializers = {}
  /\ Conditional \subseteq Rules /\ Singletons \subseteq Objects
  /\ DuringInit \subseteq Invariants
  /\ Targets \in [Methods -> Seq(Bundles)]
  /\ Arguments \in [Methods -> Seq(Argument)]
  /\ StepCount \in Nat \ {0} /\ MinSteps \in Nat /\ MaxResults \in Nat

VARIABLES
  pc,            \* where the run is
  outcome,       \* what the exception, or its absence, says of the test case
  toInit,        \* _initialize_rules_to_run
  stepsRun,      \* steps_run
  untried,       \* the valid rules that this selection has not looked at
  allowed,       \* those that it has found enabled
  rule,          \* the rule of this step
  data,          \* the names drawn for it so far
  bundles,       \* for every bundle its names
  names,         \* names_list
  values,        \* names_to_values
  enabled, disabled, oneof,   \* the feature flags of the rules
  printed,       \* the lines of the program
  calls,         \* history: the calls that were made, with values for names
  consumed       \* history: the names that a consuming argument drew

selection == <<untried, allowed>>
flags     == <<enabled, disabled, oneof>>
machine   == <<toInit, bundles, names, values>>
history   == <<printed, calls, consumed>>
vars == <<pc, outcome, stepsRun, rule, data, selection, flags, machine, history>>

Flags == INSTANCE FeatureFlags WITH Features <- Rules, AtLeastOneOf <- Rules

Init ==
  /\ pc = "check" /\ outcome = "running"
  /\ toInit = Initializers
  /\ stepsRun = 0
  /\ untried = {} /\ allowed = {}
  /\ rule = CHOOSE r \in Rules : TRUE
  /\ data = <<>>
  /\ bundles = [b \in Bundles |-> <<>>]
  /\ names = <<>> /\ values = <<>>
  /\ Flags!FlagsInit
  /\ printed = <<>> /\ calls = <<>> /\ consumed = {}

\* The test case is over, but for its teardown.
Ends(o) == pc' = "teardown" /\ outcome' = o

\* A choice does not fit in the buffer.
Overrun ==
  /\ pc \in {"loop", "filter", "draw"}
  /\ Ends("overrun")
  /\ UNCHANGED <<stepsRun, rule, data, selection, flags, machine, history>>

\* check_invariants: any of them that is checked may fail, or reject.
Checked == {i \in Invariants : toInit = {} \/ i \in DuringInit}

CheckInvariants ==
  /\ pc = "check"
  /\ \/ pc' = "loop" /\ UNCHANGED outcome
     \/ Checked # {} /\ \E o \in {"failed", "invalid"} : Ends(o)
  /\ UNCHANGED <<stepsRun, rule, data, selection, flags, machine, history>>

MustStop   == stepsRun >= StepCount
MustGoOn   == ~MustStop /\ stepsRun <= MinSteps

Stop ==
  /\ pc = "loop"
  /\ ~MustGoOn
  /\ Ends("valid")
  /\ UNCHANGED <<stepsRun, rule, data, selection, flags, machine, history>>

GoOn ==
  /\ pc = "loop"
  /\ ~MustStop
  /\ stepsRun' = stepsRun + 1
  /\ pc' = "select"
  /\ UNCHANGED <<outcome, rule, data, selection, flags, machine, history>>

\* Rule r is the rule of this step; its arguments come next.
Take(r) ==
  /\ pc' = "draw" /\ rule' = r
  /\ data' = <<>> /\ untried' = {} /\ allowed' = {}

SelectInitialize(r) ==
  /\ pc = "select"
  /\ r \in toInit
  /\ Take(r)
  /\ UNCHANGED <<outcome, stepsRun, flags, machine, history>>

\* is_valid, but for the preconditions.
HasBundles(r) == \A i \in DOMAIN Arguments[r] : bundles[Arguments[r][i].bundle] # <<>>

\* RuleStrategy.do_draw: preconditions say what they say of this state, and
\* _rule_is_enabled asks for the flags of the others only.
SelectRules ==
  /\ pc = "select"
  /\ toInit = {}
  /\ \E unmet \in SUBSET Conditional :
       untried' = {r \in Rules \ unmet : HasBundles(r)}
  /\ IF untried' = {} THEN Ends("failed") ELSE pc' = "filter" /\ UNCHANGED outcome
  /\ UNCHANGED <<stepsRun, rule, data, allowed, flags, machine, history>>

\* do_filtered_draw looks at rule r, in an order it draws. One that is enabled it
\* takes, or keeps for a choice among all of them.
LookDisabled(r) ==
  /\ pc = "filter"
  /\ r \in untried
  /\ Flags!Disable(r)
  /\ untried' = untried \ {r}
  /\ UNCHANGED <<pc, outcome, stepsRun, rule, data, allowed, machine, history>>

LookTakes(r) ==
  /\ pc = "filter"
  /\ r \in untried
  /\ Flags!Enable(r)
  /\ Take(r)
  /\ UNCHANGED <<outcome, stepsRun, machine, history>>

LookKeeps(r) ==
  /\ pc = "filter"
  /\ r \in untried
  /\ Flags!Enable(r)
  /\ untried' = untried \ {r}
  /\ allowed' = allowed \cup {r}
  /\ UNCHANGED <<pc, outcome, stepsRun, rule, data, machine, history>>

ChooseAllowed(r) ==
  /\ pc = "filter"
  /\ untried = {} /\ r \in allowed
  /\ Take(r)
  /\ UNCHANGED <<outcome, stepsRun, flags, machine, history>>

NoneAllowed ==
  /\ pc = "filter"
  /\ untried = {} /\ allowed = {}
  /\ Ends("invalid")
  /\ UNCHANGED <<stepsRun, rule, data, selection, flags, machine, history>>

NamesIn(s) == {s[i] : i \in DOMAIN s}

Drawn == Len(data) = Len(Arguments[rule])
Argued == Arguments[rule][Len(data) + 1]

\* Mutant: the position in the reversed list.
PoppedReversed(s, p) == RemoveAt(s, Len(s) + 1 - p)

\* bundle.pop(position)
Popped(s, p) == RemoveAt(s, p)

\* Bundle.do_draw
DrawArgument ==
  /\ pc = "draw" /\ ~Drawn
  /\ LET b == Argued.bundle IN
     \E p \in DOMAIN bundles[b] :
       /\ data' = Append(data, bundles[b][p])
       /\ IF Argued.consume
          THEN /\ bundles' = [bundles EXCEPT ![b] = Popped(@, p)]
               /\ consumed' = consumed \cup {bundles[b][p]}
          ELSE UNCHANGED <<bundles, consumed>>
  /\ UNCHANGED <<pc, outcome, stepsRun, rule, selection, flags, toInit, names, values,
                 printed, calls>>

RejectArgument ==
  /\ pc = "draw" /\ ~Drawn
  /\ bundles[Argued.bundle] = <<>> \/ Argued.filtered
  /\ Ends("invalid")
  /\ UNCHANGED <<stepsRun, rule, data, selection, flags, machine, history>>

Passed == [i \in DOMAIN data |-> values[data[i]]]

\* A term of the program: a name, or a literal.
Name(n)    == [name |-> n, object |-> NoObject]
Literal(o) == [name |-> <<>>, object |-> o]

\* _pretty_print: an object of a bundle goes by the first name it was given.
FirstName(o) == names[SelectInSeq(names, LAMBDA n : values[n] = o)]
PrettyPrint(o) ==
  IF o \in Singletons \/ \A n \in DOMAIN values : values[n] # o
  THEN Literal(o) ELSE Name(FirstName(o))

\* Rule draws references where it can; initialize rules draw values.
DataToPrint ==
  [i \in DOMAIN data |->
     IF rule \in Rules /\ Arguments[rule][i].reference
     THEN Name(data[i]) ELSE PrettyPrint(values[data[i]])]

\* Mutant: names are numbered by what the bundle holds.
CounterOfHeld(b) == Len(bundles[b])

\* names_counters
Counter(b) == Cardinality({i \in DOMAIN names : names[i][1] = b})

\* Mutant: for every result every target.
PlaceByResult(k, m, n) == <<1 + ((k - 1) % m), 1 + (k - 1) \div m>>

\* The target and the result that the k-th new name is for: for every one of m
\* targets, every one of n results.
Place(k, m, n) == <<1 + (k - 1) \div n, 1 + ((k - 1) % n)>>

\* How many elements of A are before k.
Rank(A, k) == Cardinality({j \in A : j < k})

\* _new_name, n results for the targets ts.
NewNames(ts, n) ==
  LET target(k) == ts[Place(k, Len(ts), n)[1]]
      for(b) == {k \in 1 .. Len(ts) * n : target(k) = b}
      name(b, k) == <<b, Counter(b) + Rank(for(b), k)>>
  IN [k \in 1 .. Len(ts) * n |-> name(target(k), k)]

\* The function f, but for what g says.
Updated(f, g) == [x \in DOMAIN f \cup DOMAIN g |-> IF x \in DOMAIN g THEN g[x] ELSE f[x]]

\* What the names new are bound to.
Bound(new, ts, results) ==
  [x \in NamesIn(new) |->
     LET k == CHOOSE i \in DOMAIN new : new[i] = x
     IN results[Place(k, Len(ts), Len(results))[2]]]

\* The names of bundle b in a sequence of names, in their order.
OfBundle(b, s) ==
  LET at == {k \in DOMAIN s : s[k][1] = b}
      ith(i) == CHOOSE k \in at : Rank(at, k) = i - 1
  IN [i \in 1 .. Cardinality(at) |-> s[ith(i)]]

\* _add_results_to_targets
AddResults(results) ==
  LET ts  == Targets[rule]
      new == NewNames(ts, Len(results))
  IN /\ names' = names \o new
     /\ values' = Updated(values, Bound(new, ts, results))
     /\ bundles' = [b \in Bundles |-> bundles[b] \o OfBundle(b, new)]

\* _repr_step: the last names, batched by the number of results. The first batch
\* is assigned what the call returns, the others what the first batch holds.
Batches(ns, n) ==
  LET m    == Len(Targets[rule])
      last == SubSeq(ns, Len(ns) - m * n + 1, Len(ns))
  IN [t \in 1 .. m |-> SubSeq(last, (t - 1) * n + 1, t * n)]

Output(batches) ==
  printed' = Append(printed, [rule |-> rule, args |-> DataToPrint, batches |-> batches])

Called(results) ==
  calls' = Append(calls, [rule |-> rule, args |-> Passed, results |-> results])

\* Mutant: the initialize rule stays.
DrewAgain ==
  /\ pc = "draw" /\ Drawn
  /\ UNCHANGED toInit

\* The rule has been drawn with its arguments; an initialize rule is no longer to run.
Drew ==
  /\ pc = "draw" /\ Drawn
  /\ toInit' = toInit \ {rule}

\* What a rule returns. Without a target that should be nothing.
ExecuteReturns ==
  /\ Drew
  /\ Targets[rule] # <<>>
  /\ \E results \in BoundedSeq(Objects, MaxResults) :
       /\ AddResults(results)
       /\ Output(Batches(names', Len(results)))
       /\ Called(results)
  /\ pc' = "check"
  /\ UNCHANGED <<outcome, stepsRun, rule, data, selection, flags, consumed>>

ExecuteNone ==
  /\ Drew
  /\ Targets[rule] = <<>>
  /\ \/ pc' = "check" /\ UNCHANGED outcome
     \/ Ends("failed")
  /\ Output(<<>>)
  /\ Called(<<>>)
  /\ UNCHANGED <<stepsRun, rule, data, selection, flags, bundles, names, values, consumed>>

\* The rule fails, rejects the test case, or draws too much:
\* it is printed as if it had returned multiple().
ExecuteRaises ==
  /\ Drew
  /\ \E o \in {"failed", "invalid", "overrun"} : Ends(o)
  /\ Output(Batches(names, 0))
  /\ Called(<<>>)
  /\ UNCHANGED <<stepsRun, rule, data, selection, flags, bundles, names, values, consumed>>

\* teardown() runs after everything, and may fail as well.
Teardown ==
  /\ pc = "teardown"
  /\ pc' = "ended"
  /\ outcome' \in {outcome, "failed"}
  /\ UNCHANGED <<stepsRun, rule, data, selection, flags, machine, history>>

Next ==
  \/ Overrun \/ CheckInvariants \/ Stop \/ GoOn
  \/ \E r \in Initializers : SelectInitialize(r)
  \/ SelectRules
  \/ \E r \in Rules : LookDisabled(r) \/ LookTakes(r) \/ LookKeeps(r) \/ ChooseAllowed(r)
  \/ NoneAllowed \/ DrawArgument \/ RejectArgument
  \/ ExecuteReturns \/ ExecuteNone \/ ExecuteRaises \/ Teardown

Spec == Init /\ [][Next]_vars
-----------------------------------------------------------------------------
\* What the properties need of names and terms.
NameSet == Bundles \X Nat
Term == {t \in [name : {<<>>} \cup NameSet, object : Objects \cup {NoObject}] :
           (t.name = <<>>) # (t.object = NoObject)}

\* Every variable keeps its type, and what the machine refers to is there.
TypeOK ==
  /\ pc \in {"check", "loop", "select", "filter", "draw", "teardown", "ended"}
  /\ outcome \in {"running", "valid", "invalid", "overrun", "failed"}
  /\ outcome = "running" <=> pc \notin {"teardown", "ended"}
  /\ toInit \subseteq Initializers
  /\ stepsRun \in 0 .. StepCount
  /\ untried \subseteq Rules /\ allowed \subseteq enabled \ untried
  /\ rule \in Methods
  /\ enabled \subseteq Rules /\ disabled \subseteq Rules /\ oneof \subseteq Rules
  /\ enabled \cap disabled = {}
  /\ NamesIn(names) = DOMAIN values /\ Cardinality(DOMAIN values) = Len(names)
  /\ DOMAIN values \subseteq NameSet
  /\ \A n \in DOMAIN values : values[n] \in Objects
  /\ bundles \in [Bundles -> Seq(DOMAIN values)]
  /\ data \in Seq(DOMAIN values)
  /\ consumed \subseteq DOMAIN values
  /\ Len(printed) = Len(calls) /\ Len(calls) <= stepsRun
  /\ \A i \in DOMAIN printed : printed[i].args \in Seq(Term)

\* Running the printed program: the names that its k-th line binds, and to what.
Binds(k) == UNION {NamesIn(printed[k].batches[t]) : t \in DOMAIN printed[k].batches}
BoundTo(k, n) ==
  calls[k].results[CHOOSE j \in DOMAIN calls[k].results :
    \E t \in DOMAIN printed[k].batches : printed[k].batches[t][j] = n]

\* What its names hold after k lines: what the last of these to bind them says.
Environment(k) ==
  [n \in UNION {Binds(l) : l \in 1 .. k} |-> BoundTo(Max({l \in 1 .. k : n \in Binds(l)}), n)]

\* A term stands for the object o where the names hold env.
Denotes(term, o, env) ==
  IF term.name = <<>> THEN o = term.object
  ELSE term.name \in DOMAIN env /\ o = env[term.name]

\* The program that is printed does what the machine did: its lines call the same
\* rules with the same objects, and in the end its names hold what the machine holds.
PrintedProgramReplays ==
  /\ Len(printed) = Len(calls)
  /\ Environment(Len(printed)) = values
  /\ \A k \in DOMAIN printed :
       /\ printed[k].rule = calls[k].rule
       /\ Len(printed[k].args) = Len(calls[k].args)
       /\ LET env == Environment(k - 1) IN
          \A i \in DOMAIN printed[k].args : Denotes(printed[k].args[i], calls[k].args[i], env)

\* What calls returned to bundle b: the results, by call, target and place; and their order.
Returned(b) ==
  UNION {LET ts == Targets[calls[k].rule]
         IN {k} \X {t \in DOMAIN ts : ts[t] = b} \X DOMAIN calls[k].results : k \in DOMAIN calls}

Before(p, q) ==
  \/ p[1] < q[1]
  \/ p[1] = q[1] /\ p[2] < q[2]
  \/ p[1] = q[1] /\ p[2] = q[2] /\ p[3] < q[3]

Number(R, p) == Cardinality({q \in R : Before(q, p)})

\* A bundle holds what was returned to it, in that order, but for what a consuming
\* argument drew: nothing is lost, and nothing consumed can be drawn again.
BundlesKeepResults ==
  \A b \in Bundles :
    LET R == Returned(b) IN
    /\ \A p \in R : LET n == <<b, Number(R, p)>> IN
         n \in DOMAIN values /\ values[n] = calls[p[1]].results[p[3]]
    /\ NamesIn(bundles[b]) = {<<b, i>> : i \in 0 .. Cardinality(R) - 1} \ consumed
    /\ \A i, j \in DOMAIN bundles[b] : i < j => bundles[b][i][2] < bundles[b][j][2]

\* The rules of a test case are never all disabled, so that a selection finds none
\* only where a rule is not valid.
SomeRuleStaysEnabled == Flags!SomeFeatureStaysEnabled

\* As initialize says, all initialize rules run before any rule, none of them twice.
InitializersComeFirst ==
  \A j \in DOMAIN calls : \A i \in 1 .. j - 1 :
    calls[j].rule \in Initializers =>
      calls[i].rule \in Initializers \ {calls[j].rule}

=============================================================================
