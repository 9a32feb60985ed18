------------------------------ MODULE Drawing -------------------------------
(***************************************************************************)
(* One test case at a time that draws from a strategy: every sequence of   *)
(* choices that the engine, the shrinker or the database may replay, of    *)
(* the right kind for what is drawn or not.                                *)
(***************************************************************************)
EXTENDS Strategies

CONSTANTS Drawn,       \* the strategies
          Openings(_), \* what a prefix may begin with
          Replayed,    \* what the choices of a prefix may be
          MaxChoices   \* bound: the length of a prefix

VARIABLES strategy, prefix

vars == <<strategy, prefix>>

Outcome == DrawFrom(strategy, NewTestCase(prefix, Len(prefix), <<>>))

Init == strategy \in Drawn /\ prefix \in Openings(strategy)

\* for_choices with one choice more, once a test case has asked for it.
NextChoice ==
  /\ Outcome.status = "OVERRUN" /\ Len(prefix) < MaxChoices
  /\ \E c \in Replayed : prefix' = Append(prefix, c)
  /\ UNCHANGED strategy

Next == NextChoice

Spec == Init /\ [][Next]_vars

-----------------------------------------------------------------------------
(***************************************************************************)
(* Properties.                                                             *)
(***************************************************************************)
Replay(choices) == DrawFrom(strategy, NewTestCase(choices, Len(choices), <<>>))

\* What a strategy promises of its values, whatever it takes to draw one.
RECURSIVE Promised(_, _)
Promised(s, v) ==
  LET Elements == v.is = "list" /\ Len(v.of) \in s.min .. s.max
  IN  CASE s.is = "integers" -> v.is = "int" /\ v.n \in s.lo .. s.hi
        [] s.is = "booleans" -> v.is = "bool"
        [] s.is = "just"     -> v = s.value
        [] s.is = "sampled"  -> v \in s.keep /\ v \in ToSet(s.elements)
        [] s.is = "one_of"   -> \E i \in DOMAIN s.of : Promised(s.of[i], v)
        [] s.is = "tuple"    -> v.is = "tuple" /\ \A i \in DOMAIN s.of : Promised(s.of[i], v.of[i])
        [] s.is = "list"     -> Elements /\ \A i \in DOMAIN v.of : Promised(s.of, v.of[i])
        [] s.is = "unique"   -> /\ Elements /\ IsInjective(v.of)
                                /\ \A i \in DOMAIN v.of : Promised(s.of, v.of[i])
        [] s.is = "unique_sampled" -> Elements /\ IsInjective(v.of) /\ ToSet(v.of) \subseteq s.keep
        [] s.is = "dict"     ->
             LET keys == {p[1] : p \in v.of}
             IN  /\ Cardinality(keys) = Cardinality(v.of) /\ ToSet(s.keys) \subseteq keys
                 /\ \A p \in v.of : IF p[1] \in ToSet(s.keys) THEN Promised(s.mapping[p[1]], p[2])
                                    ELSE Promised(s.optional[p[1]], p[2])
        [] s.is = "filtered" -> v \in s.accepts /\ Promised(s.of, v)
        [] s.is = "mapped"   -> \E u \in DOMAIN s.pack : s.pack[u] = v /\ Promised(s.of, u)
        [] s.is = "flatmapped" -> \E u \in DOMAIN s.expand :
                                    Promised(s.of, u) /\ Promised(s.expand[u], v)
        [] s.is = "recursive" -> Promised(s.of, v)
        [] OTHER -> TRUE

\* Every value drawn is one that the strategy promises, also after rejections, forced
\* booleans and choices that do not fit; and where a list gives up for want of unique
\* elements, the test case is invalid before the assertion of its size can fail.
DrawnAsPromised ==
  \A drawn \in {Outcome} :
    /\ drawn.raised = "none" => Promised(strategy, drawn.last)
    /\ drawn.raised # "AssertionError"

\* The choices that were recorded draw the same value again, in the same spans, and
\* none of them is misaligned: so they can be kept in the database and shrunk.
RecordedChoicesReplay ==
  \A drawn \in {Outcome} : ~Frozen(drawn) /\ drawn.raised = "none" =>
    \A again \in {Replay(ChoicesOf(drawn.nodes))} :
      /\ again.last = drawn.last /\ again.nodes = drawn.nodes
      /\ again.trail = drawn.trail /\ ~again.misaligned

\* What a strategy says are the choices of a value it drew are choices that draw
\* that value, all of them and nothing else, and so does a hole with the value.
InvertsRoundTrip ==
  \A drawn \in {Outcome} : drawn.raised = "none" =>
    \A inverse \in {Invert(strategy, drawn.last)} : inverse.ok =>
      \A again \in {Replay(inverse.choices)},
         hole \in {DrawFrom(strategy, NewTestCase(<<Hole(drawn.last)>>, NoLimit, <<>>))} :
        /\ again.raised = "none" /\ again.last = drawn.last
        /\ ChoicesOf(again.nodes) = inverse.choices /\ ~again.misaligned
        /\ hole.raised = "none" /\ hole.last = drawn.last /\ hole.nodes = again.nodes

\* "class many" in internal/conjecture/utils.py: it "handles starting and stopping
\* spans in the right place".
SpansAreClosed == \A drawn \in {Outcome} : drawn.raised = "none" => drawn.depth = 0
=============================================================================
