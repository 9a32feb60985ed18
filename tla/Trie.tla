-------------------------------- MODULE Trie --------------------------------
(***************************************************************************)
(* What a DataTree promises (internal/conjecture/datatree.py): a memory of *)
(* a test function as a decision tree, and a claim that it is complete.    *)
(*                                                                         *)
(* A position is the sequence of values drawn so far, with KillMark where  *)
(* a branch was killed.  What the test does next at a position is a step:  *)
(* a draw (of a kind, forced or not), a kill, or a conclusion.             *)
(***************************************************************************)
EXTENDS Integers, Sequences, SequencesExt

CONSTANTS
  Kinds,         \* a choice type with its constraints
  Values,        \* the values drawn
  Children,      \* Children[k]: the values a draw of kind k can produce
  Conclusions,   \* how a test case can end
  KillMark,      \* stands in a position for "killed here"
  NoValue        \* the value of a draw that was not forced

\* What the constants must be; DataTree assumes it of its own.
TrieConstants ==
  /\ Children \in [Kinds -> SUBSET Values]
  /\ KillMark \notin Values
  /\ NoValue \notin Values

VARIABLES
  known,         \* known[p]: the step recorded at position p
  done           \* whether the tree claims to be exhausted

Positions == Seq(Values \cup {KillMark})

Draw(k, f)  == [op |-> "draw", kind |-> k, forced |-> f]
Kill        == [op |-> "kill"]
Conclude(c) == [op |-> "conclude", as |-> c]

Steps ==
  {Draw(k, f) : k \in Kinds, f \in Values \cup {NoValue}} \cup
  {Kill} \cup {Conclude(c) : c \in Conclusions}

\* The transitions a step allows.
Allowed(s) ==
  CASE s.op = "draw" -> IF s.forced = NoValue THEN Children[s.kind] ELSE {s.forced}
    [] s.op = "kill" -> {KillMark}
    [] OTHER         -> {}

\* Positions the known steps lead to at which nothing is known yet.
Edge(m) ==
  ({<<>>} \cup UNION {{Append(p, v) : v \in Allowed(m[p])} : p \in DOMAIN m})
    \ DOMAIN m

\* Those worth exploring: not behind a kill.
Frontier(m) == {p \in Edge(m) : KillMark \notin Range(p)}

Init ==
  /\ known = <<>>
  /\ done = FALSE

\* Records step s at position p.
Learn(p, s) ==
  known' = [q \in DOMAIN known \cup {p} |-> IF q = p THEN s ELSE known[q]]

\* Mutant: what is known can be recorded differently.
NextRewrites ==
  /\ \/ UNCHANGED known
     \/ \E p \in Edge(known) \cup DOMAIN known, s \in Steps : Learn(p, s)
  /\ \/ UNCHANGED done
     \/ done' = TRUE /\ Frontier(known') = {}

\* A step is recorded at most once and never rewritten, one at a time, and the
\* claim of completeness is made only when it is true.
Next ==
  /\ \/ UNCHANGED known
     \/ \E p \in Edge(known), s \in Steps : Learn(p, s)
  /\ \/ UNCHANGED done
     \/ done' = TRUE /\ Frontier(known') = {}

Spec == Init /\ [][Next]_<<known, done>>

\* An exhausted tree leaves nothing to explore, and stays so.
DoneMeansExplored == done => Frontier(known) = {}
=============================================================================
