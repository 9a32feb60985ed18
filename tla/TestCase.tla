------------------------------ MODULE TestCase ------------------------------
(***************************************************************************)
(* ConjectureData of internal/conjecture/data.py: one test case while it   *)
(* draws choices, and the spans that are replayed from its trail when it   *)
(* is over.                                                                *)
(*                                                                         *)
(* A test case is a record d that every operation returns changed.  An     *)
(* exception on its way up is d.raised: until somebody catches it, every   *)
(* operation but StopSpan, which is called from finally clauses, is the    *)
(* identity.  A test case is frozen once it has a status.                  *)
(*                                                                         *)
(* A choice is a type and a number; a boolean is 0 or 1.  What the         *)
(* provider would answer beyond the prefix is given as a sequence too.     *)
(***************************************************************************)
EXTENDS Integers, Sequences, FiniteSets, SequencesExt

NoForce == -1      \* forced=None
NoLimit == 1000    \* max_choices=None
MaxDepth == 100    \* data.MAX_DEPTH

IntC(n)  == [type |-> "integer", value |-> n]
BoolC(n) == [type |-> "boolean", value |-> n]
Hole(v) == [type |-> "hole", value |-> v]

IntegerIn(lo, hi) == [type |-> "integer", lo |-> lo, hi |-> hi]
Boolean == [type |-> "boolean", lo |-> 0, hi |-> 1]

\* choice_permitted, and choice_from_index(0): shrink_towards is 0, clamped.
Permitted(c, con) == c.type = con.type /\ c.value \in con.lo .. con.hi
Simplest(con) == IF con.lo > 0 THEN con.lo ELSE IF con.hi < 0 THEN con.hi ELSE 0

Frozen(d) == d.status # "running"

StopSpan(d, discard) ==
  IF Frozen(d) THEN d
  ELSE [d EXCEPT !.depth = @ - 1,
                 !.trail = Append(@, [op |-> "stop", discard |-> discard]),
                 !.discards = @ \/ discard]

StartSpan(d, label) ==
  IF d.raised # "none" THEN d
  ELSE [d EXCEPT !.depth = @ + 1, !.trail = Append(@, [op |-> "start", label |-> label])]

\* record_value_for_span: only values that are immutable and atomic are kept.
SpanCount(d) == Len(SelectSeq(d.trail, LAMBDA t : t.op = "start"))
RecordValue(d, span) ==
  IF d.raised = "none" /\ d.last.is \in {"int", "bool"}
  THEN [d EXCEPT !.values = @ \cup {[span |-> span, of |-> d.last]}] ELSE d

\* freeze: close every span that is still open, so that they form a tree.
Freeze(d, status) ==
  LET closed == [i \in 1 .. d.depth + 1 |-> [op |-> "stop", discard |-> FALSE]]
  IN  IF Frozen(d) THEN d
      ELSE [d EXCEPT !.trail = @ \o closed, !.depth = -1, !.status = status]

\* conclude_test: mark_overrun, mark_invalid, mark_interesting.
Conclude(d, status) ==
  IF d.raised # "none" THEN d ELSE [Freeze(d, status) EXCEPT !.raised = "StopTest"]

Raise(d, exception) == IF d.raised # "none" THEN d ELSE [d EXCEPT !.raised = exception]
Catch(d) == [d EXCEPT !.raised = "none"]

\* A new test case that replays prefix, draws at most max choices in all and goes
\* on with the answers of the provider in extra.
NewTestCase(prefix, max, extra) ==
  StartSpan([prefix |-> prefix, index |-> 0, max |-> max, extra |-> extra,
             nodes |-> <<>>, trail |-> <<>>, depth |-> -1, discards |-> FALSE,
             status |-> "running", raised |-> "none", misaligned |-> FALSE,
             marker |-> 0, last |-> 0, values |-> {}], "TOP")

\* What the provider draws beyond the prefix: some permitted value.
Provided(d, con) ==
  LET i == Len(d.nodes) - Len(d.prefix) + 1
      n == IF i \in DOMAIN d.extra THEN d.extra[i] ELSE 0
  IN  con.lo + (n % (con.hi - con.lo + 1))

\* What a choice is: forced, taken from the prefix, or drawn by the provider.
Chosen(d, con, forced, popped) ==
  IF forced # NoForce THEN forced
  ELSE IF ~popped THEN Provided(d, con)
  ELSE IF Permitted(d.prefix[d.index + 1], con) THEN d.prefix[d.index + 1].value
  ELSE Simplest(con)

Drew(d, con, forced, popped, value) ==
  IF d.raised # "none" THEN d
  ELSE IF Len(d.nodes) = d.max THEN Conclude(d, "OVERRUN")
  ELSE [d EXCEPT !.index = IF popped THEN @ + 1 ELSE @,
                 !.misaligned = @ \/ (popped /\ ~Permitted(d.prefix[d.index + 1], con)),
                 !.nodes = Append(@, [type |-> con.type, value |-> value, lo |-> con.lo,
                                      hi |-> con.hi, forced |-> forced # NoForce]),
                 !.trail = Append(@, [op |-> "choice"]),
                 !.last = value]

DrewNext(d, con, forced, popped) == Drew(d, con, forced, popped, Chosen(d, con, forced, popped))

\* Mutant: a forced choice leaves the prefix where it is.
DrawForcedApart(d, con, forced) ==
  DrewNext(d, con, forced, d.index < Len(d.prefix) /\ forced = NoForce)

\* _draw and _pop_choice.  A choice of the prefix that does not fit what is drawn
\* here is replaced by the simplest one.
Draw(d, con, forced) == DrewNext(d, con, forced, d.index < Len(d.prefix))

\* data.choice(values): which of n.
DrawIndex(d, n, forced) == Draw(d, IntegerIn(0, n - 1), forced)

-----------------------------------------------------------------------------
(***************************************************************************)
(* Spans: what SpanProperty.run and its subclasses recover from the trail. *)
(* Nodes, and spans, are numbered from 1: a span holds the nodes after     *)
(* start up to end; the parent of the outermost span is 0.                 *)
(***************************************************************************)
SpansOf(trail) ==
  LET Step(acc, t) ==
        CASE t.op = "choice" -> [acc EXCEPT !.count = @ + 1]
          [] t.op = "start" ->
               [acc EXCEPT
                  !.stack = Append(@, Len(acc.spans) + 1),
                  !.spans = Append(@, [label |-> t.label, start |-> acc.count, end |-> 0,
                              parent |-> IF acc.stack = <<>> THEN 0 ELSE Last(acc.stack),
                              depth |-> Len(acc.stack), discarded |-> FALSE])]
          [] t.op = "stop" ->
               [acc EXCEPT
                  !.stack = Front(@),
                  !.spans[Last(acc.stack)].end = acc.count,
                  !.spans[Last(acc.stack)].discarded = t.discard]
  IN  FoldLeft(Step, [spans |-> <<>>, stack |-> <<>>, count |-> 0], trail).spans

\* Spans.children, in order.
Children(spans, i) == SelectSeq([j \in 1 .. Len(spans) |-> j], LAMBDA j : spans[j].parent = i)

ChoiceCount(span) == span.end - span.start

\* The nodes, and the choices, of a finished test case.
ChoicesOf(nodes) == [i \in DOMAIN nodes |-> [type |-> nodes[i].type, value |-> nodes[i].value]]

\* as_result
ResultOf(d) ==
  IF d.status = "OVERRUN" THEN [status |-> "OVERRUN"]
  ELSE [status |-> d.status, nodes |-> d.nodes, spans |-> SpansOf(d.trail),
        discards |-> d.discards, values |-> d.values]
=============================================================================
