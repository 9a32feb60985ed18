----------------------------- MODULE Strategies -----------------------------
(***************************************************************************)
(* The strategies of strategies/_internal: how each of them draws a value  *)
(* from a test case (do_draw), and how it encodes a value as the choices   *)
(* that would draw it (_invert).                                           *)
(*                                                                         *)
(* A strategy is a record that says which class it is and what it was      *)
(* built from.  Filters and maps are given by the values they accept, a    *)
(* flatmap by the strategy it expands each value to.                       *)
(***************************************************************************)
EXTENDS TestCase

Value(is, n) == [is |-> is, n |-> n]
Listing(is, of) == [is |-> is, of |-> of]

RECURSIVE DrawFrom(_, _), DrawList(_, _, _), DrawUniqueList(_, _, _),
          DrawUniqueSampled(_, _, _, _), DrawOptional(_, _, _, _), DrawRecursive(_, _, _),
          Invert(_, _)

Yield(d, v) == IF d.raised # "none" THEN d ELSE [d EXCEPT !.last = v]

\* cu.many
NewMany(d, s) == [d |-> d, min |-> s.min, max |-> s.max, count |-> 0, rejections |-> 0,
                  drawn |-> FALSE, stop |-> FALSE, more |-> TRUE]

OpenOne(m) == StartSpan(IF m.drawn THEN StopSpan(m.d, FALSE) ELSE m.d, "ONE_FROM_MANY")

\* Mutant: one more than max_size.
CoinPastMax(m, d) ==
  IF m.min = m.max THEN d
  ELSE Draw(d, Boolean, IF m.stop THEN 0 ELSE IF m.count < m.min THEN 1
                        ELSE IF m.count > m.max THEN 0 ELSE NoForce)

\* Whether there is one more: a biased boolean unless the size is fixed.
Coin(m, d) ==
  IF m.min = m.max THEN d
  ELSE Draw(d, Boolean, IF m.stop THEN 0 ELSE IF m.count < m.min THEN 1
                        ELSE IF m.count >= m.max THEN 0 ELSE NoForce)

Decided(m, d) ==
  IF m.d.raised # "none" THEN [m EXCEPT !.more = FALSE]
  ELSE IF (IF m.min = m.max THEN m.count < m.min ELSE d.raised = "none" /\ d.last = 1)
  THEN [m EXCEPT !.d = d, !.drawn = TRUE, !.count = @ + 1, !.more = TRUE]
  ELSE [m EXCEPT !.d = IF d.raised = "none" THEN StopSpan(d, FALSE) ELSE d,
                 !.drawn = TRUE, !.more = FALSE]

\* many.more
More(m) == Decided(m, Coin(m, OpenOne(m)))

\* many.reject
TooMany(n) ==
  IF n.rejections <= (IF 2 * n.count > 3 THEN 2 * n.count ELSE 3) THEN n
  ELSE IF n.count < n.min THEN [n EXCEPT !.d = Conclude(@, "INVALID")]
  ELSE [n EXCEPT !.stop = TRUE]
Reject(m) == TooMany([m EXCEPT !.count = @ - 1, !.rejections = @ + 1])

Going(m) == m.more /\ m.d.raised = "none"

ListStep(s, n, of) ==
  LET e == DrawFrom(s.of, n.d)
  IN  IF Going(n) THEN DrawList(s, [n EXCEPT !.d = e], Append(of, e.last))
      ELSE Yield(n.d, Listing("list", of))
DrawList(s, m, of) == ListStep(s, More(m), of)

\* FilteredStrategy.do_filtered_draw: three attempts, the failed ones discarded.
FilteredDraw(s, d, Accepts(_)) ==
  LET Kept(e) == IF e.raised # "none" THEN [d |-> e, done |-> TRUE]
                 ELSE [d |-> StopSpan(e, ~Accepts(e.last)), done |-> Accepts(e.last)]
      Attempt(acc, i) ==
        IF acc.done THEN acc ELSE Kept(DrawFrom(s, StartSpan(acc.d, "FILTERED")))
  IN  FoldLeft(Attempt, [d |-> d, done |-> FALSE], <<1, 2, 3>>)

DrawFiltered(s, d) ==
  LET Settled(r) == IF r.done THEN r.d ELSE Conclude(r.d, "INVALID")
  IN  Settled(FilteredDraw(s.of, d, LAMBDA v : v \in s.accepts))

UniqueStep(s, n, r, of) ==
  IF ~Going(n) THEN Yield(n.d, Listing("list", of))
  ELSE IF r.done THEN DrawUniqueList(s, [n EXCEPT !.d = r.d], Append(of, r.d.last))
  ELSE DrawUniqueList(s, Reject([n EXCEPT !.d = r.d]), of)
UniqueFrom(s, n, of) ==
  UniqueStep(s, n, FilteredDraw(s.of, n.d, LAMBDA v : \A i \in DOMAIN of : of[i] # v), of)
DrawUniqueList(s, m, of) == UniqueFrom(s, More(m), of)

\* UniqueSampledListStrategy draws from the pool of elements not drawn yet, and asserts
\* that it drew enough of them; an exception on its way up goes before that.
Unpooled(s, d, of) ==
  Yield(IF Len(of) \in s.min .. s.max THEN d ELSE Raise(d, "AssertionError"), Listing("list", of))
UniqueSampledStep(s, n, e, pool, of) ==
  LET v == pool[e.last + 1]
      rest == RemoveAt(pool, e.last + 1)
  IN  IF e.raised # "none" THEN e
      ELSE IF v \in s.keep /\ \A i \in DOMAIN of : of[i] # v
           THEN DrawUniqueSampled(s, [n EXCEPT !.d = e], rest, Append(of, v))
           ELSE DrawUniqueSampled(s, Reject([n EXCEPT !.d = e]), rest, of)
UniqueSampledFrom(s, n, pool, of) ==
  IF ~Going(n) THEN Unpooled(s, n.d, of)
  ELSE UniqueSampledStep(s, n, DrawIndex(n.d, Len(pool), NoForce), pool, of)
DrawUniqueSampled(s, m, pool, of) ==
  IF pool = <<>> THEN Unpooled(s, m.d, of) ELSE UniqueSampledFrom(s, More(m), pool, of)

DrawTuple(s, d) ==
  LET Next(acc, e) == LET r == DrawFrom(e, acc.d)
                      IN  [d |-> r, of |-> Append(acc.of, r.last)]
      Settled(all) == Yield(all.d, Listing("tuple", all.of))
  IN  Settled(FoldLeft(Next, [d |-> d, of |-> <<>>], s.of))

\* cu.fisher_yates_shuffle of n things
DrawShuffle(d, n) ==
  FoldLeft(LAMBDA e, i : Draw(e, IntegerIn(i - 1, n - 1), NoForce),
           d, [i \in 1 .. n - 1 |-> i])

\* FixedDictStrategy: the fixed keys, then a selection of the optional ones, each
\* picked by its index in a list that pops by swapping with the last.
PopSwapped(seq, j) == Front([seq EXCEPT ![j] = Last(seq)])

OptionalStep(s, n, e, remaining, pairs) ==
  LET key == remaining[e.last + 1]
      f == DrawFrom(s.optional[key], e)
  IN  IF ~Going(n) \/ e.raised # "none"
      THEN Yield(DrawShuffle(IF Going(n) THEN e ELSE n.d, Cardinality(pairs)),
                 Listing("dict", pairs))
      ELSE DrawOptional(s, [n EXCEPT !.d = f], PopSwapped(remaining, e.last + 1),
                        pairs \cup {<<key, f.last>>})
OptionalFrom(s, n, remaining, pairs) ==
  OptionalStep(s, n, DrawIndex(n.d, Len(remaining), NoForce), remaining, pairs)
DrawOptional(s, m, remaining, pairs) == OptionalFrom(s, More(m), remaining, pairs)

FixedThenOptional(s, fixed) ==
  DrawOptional(s, NewMany(fixed.d, [min |-> 0, max |-> Len(s.options)]), s.options, fixed.pairs)

DrawFixedDict(s, d) ==
  LET Next(acc, key) == LET r == DrawFrom(s.mapping[key], acc.d)
                        IN  [d |-> r, pairs |-> acc.pairs \cup {<<key, r.last>>}]
  IN  FixedThenOptional(s, FoldLeft(Next, [d |-> d, pairs |-> {}], s.keys))

\* SampledFromStrategy.do_filtered_draw: three attempts, then a speculative index
\* among the elements that may be good, then a choice of those that are.
Tried(s, acc, e) ==
  IF e.raised # "none" THEN [acc EXCEPT !.d = e]
  ELSE IF s.elements[e.last + 1] \in s.keep THEN [acc EXCEPT !.d = e, !.pick = e.last + 1]
  ELSE [acc EXCEPT !.d = e, !.bad = @ \cup {e.last + 1}]

PickedFrom(s, allowed, e) ==
  IF e.raised # "none" THEN e
  ELSE Yield(DrawIndex(e, Len(s.elements), allowed[e.last + 1] - 1), s.elements[allowed[e.last + 1]])

Guessed(s, allowed, e) ==
  IF e.raised # "none" THEN e
  ELSE IF allowed = <<>> THEN Conclude(e, "INVALID")
  ELSE PickedFrom(s, allowed, IF e.last < Len(allowed) THEN e ELSE DrawIndex(e, Len(allowed), NoForce))

Speculated(s, tried) ==
  LET n == Len(s.elements)
  IN  IF tried.d.raised # "none" THEN tried.d
      ELSE IF tried.pick # 0 THEN Yield(tried.d, s.elements[tried.pick])
      ELSE IF Cardinality(tried.bad) = n THEN Conclude(tried.d, "INVALID")
      ELSE Guessed(s, SelectSeq([i \in 1 .. n |-> i], LAMBDA i : s.elements[i] \in s.keep),
                   DrawIndex(tried.d, n - Cardinality(tried.bad), NoForce))

DrawSampled(s, d) ==
  LET Attempt(acc, i) ==
        IF acc.pick # 0 \/ acc.d.raised # "none" THEN acc
        ELSE Tried(s, acc, DrawIndex(acc.d, Len(s.elements), NoForce))
  IN  Speculated(s, FoldLeft(Attempt, [d |-> d, pick |-> 0, bad |-> {}], <<1, 2, 3>>))

DrawOneOf(s, d) ==
  LET i == DrawFrom([is |-> "index", label |-> "sampled_from", n |-> Len(s.of)], d)
  IN  IF Len(s.of) = 1 THEN DrawFrom(s.of[1], d)
      ELSE IF i.raised # "none" THEN i ELSE DrawFrom(s.of[i.last + 1], i)

\* MappedStrategy: pack may reject a value (UnsatisfiedAssumption) three times.
Packed(s, e) ==
  IF e.raised = "none" /\ e.last \notin DOMAIN s.pack THEN Raise(e, "UnsatisfiedAssumption") ELSE e
Mapped(s, f) ==
  IF f.raised = "none" THEN [d |-> Yield(StopSpan(f, FALSE), s.pack[f.last]), done |-> TRUE]
  ELSE IF f.raised = "UnsatisfiedAssumption" THEN [d |-> StopSpan(Catch(f), TRUE), done |-> FALSE]
  ELSE [d |-> f, done |-> TRUE]

DrawMapped(s, d) ==
  LET Attempt(acc, i) ==
        IF acc.done THEN acc
        ELSE Mapped(s, Packed(s, DrawFrom(s.of, StartSpan(acc.d, "MAPPED"))))
      Settled(r) == IF r.done THEN r.d ELSE Raise(r.d, "UnsatisfiedAssumption")
  IN  Settled(FoldLeft(Attempt, [d |-> d, done |-> FALSE], <<1, 2, 3>>))

DrawFlatMapped(s, d) ==
  LET base == DrawFrom(s.of, d)
  IN  IF base.raised # "none" THEN base ELSE DrawFrom(s.expand[base.last], base)

\* RecursiveStrategy and its LimitedStrategy: draw again as long as a draw needs
\* more than max_leaves, and at most five times for having less than min_leaves.
DrawLimited(s, d) ==
  IF d.marker <= 0 THEN Raise(d, "LimitReached")
  ELSE DrawFrom(s.of, [d EXCEPT !.marker = @ - 1])

Leafy(s, e, retries) ==
  IF e.raised = "LimitReached" THEN DrawRecursive(s, Catch(e), retries)
  ELSE IF e.raised # "none" \/ s.max_leaves - e.marker >= s.min_leaves THEN e
  ELSE IF retries + 1 < 5 THEN DrawRecursive(s, e, retries + 1)
  ELSE Conclude(e, "INVALID")
DrawRecursive(s, d, retries) ==
  Leafy(s, DrawFrom(s.of, [d EXCEPT !.marker = s.max_leaves]), retries)

DoDraw(s, d) ==
  CASE s.is = "integers"  -> LET e == Draw(d, IntegerIn(s.lo, s.hi), NoForce)
                             IN  Yield(e, Value("int", e.last))
    [] s.is = "booleans"  -> LET e == Draw(d, Boolean, NoForce) IN Yield(e, Value("bool", e.last))
    [] s.is = "index"     -> DrawIndex(d, s.n, NoForce)
    [] s.is = "just"      -> Yield(d, s.value)
    [] s.is = "nothing"   -> Conclude(d, "INVALID")
    [] s.is = "sampled"   -> DrawSampled(s, d)
    [] s.is = "one_of"    -> DrawOneOf(s, d)
    [] s.is = "tuple"     -> DrawTuple(s, d)
    [] s.is = "list"      -> DrawList(s, NewMany(d, s), <<>>)
    [] s.is = "unique"    -> DrawUniqueList(s, NewMany(d, s), <<>>)
    [] s.is = "unique_sampled" -> DrawUniqueSampled(s, NewMany(d, s), s.elements, <<>>)
    [] s.is = "dict"      -> DrawFixedDict(s, d)
    [] s.is = "filtered"  -> DrawFiltered(s, d)
    [] s.is = "mapped"    -> DrawMapped(s, d)
    [] s.is = "flatmapped" -> DrawFlatMapped(s, d)
    [] s.is = "limited"   -> DrawLimited(s, d)
    [] s.is = "recursive" -> DrawRecursive(s, d, 0)

\* ConjectureData.draw: a strategy that meets a hole in the prefix fills it with
\* its own encoding of the hole's value, and then draws in a span of its own.
Filled(d, inverse) ==
  IF ~inverse.ok THEN d
  ELSE [d EXCEPT !.prefix = SubSeq(@, 1, d.index) \o inverse.choices \o SubSeq(@, d.index + 2, Len(@))]

FillHole(s, d) ==
  IF d.index < Len(d.prefix) /\ d.prefix[d.index + 1].type = "hole"
  THEN Filled(d, Invert(s, d.prefix[d.index + 1].value)) ELSE d

EndDraw(s, d, drawn) ==
  StopSpan(IF s.is = "index" THEN drawn ELSE RecordValue(drawn, SpanCount(d) + 1), FALSE)

DrawFrom(s, d) ==
  IF d.raised # "none" THEN d
  ELSE IF d.depth >= MaxDepth THEN Conclude(d, "INVALID")
  ELSE EndDraw(s, d, DoDraw(s, StartSpan(FillHole(s, d), s.label)))

-----------------------------------------------------------------------------
(***************************************************************************)
(* The choices from which a strategy would draw a value, if it has any     *)
(* (CannotInvert otherwise).                                               *)
(***************************************************************************)
Cannot == [ok |-> FALSE, choices |-> <<>>]
Can(choices) == [ok |-> TRUE, choices |-> choices]
Then(a, b) == IF a.ok /\ b.ok THEN Can(a.choices \o b.choices) ELSE Cannot
InOrder(inverses) == FoldLeft(Then, Can(<<>>), inverses)

\* cu.invert_many: the booleans around the elements of a collection.
MoreChoice(s) == Can(IF s.min = s.max THEN <<>> ELSE <<BoolC(1)>>)
DoneChoice(s) == Can(IF s.min = s.max THEN <<>> ELSE <<BoolC(0)>>)

Fits(s, v, is) == v.is = is /\ Len(v.of) \in s.min .. s.max

InvertList(s, v) ==
  IF ~Fits(s, v, "list") THEN Cannot
  ELSE Then(InOrder([i \in DOMAIN v.of |-> Then(MoreChoice(s), Invert(s.of, v.of[i]))]),
            DoneChoice(s))

InvertUniqueList(s, v) ==
  IF v.is = "list" /\ IsInjective(v.of) THEN InvertList(s, v) ELSE Cannot

\* Mutant: the indices count all the elements.
InvertFromAll(s, v) ==
  LET At(target) == CHOOSE j \in DOMAIN s.elements : s.elements[j] = target
      Each(target) == IF target \in ToSet(s.elements) THEN Can(<<BoolC(1), IntC(At(target) - 1)>>)
                      ELSE Cannot
  IN  IF ~Fits(s, v, "list") THEN Cannot
      ELSE Then(InOrder([i \in DOMAIN v.of |-> Each(v.of[i])]), DoneChoice(s))

\* Each index counts what remains of the pool; an empty pool ends the list.
InvertUniqueSampled(s, v) ==
  LET Took(acc, j) ==
        IF j = 0 \/ ~acc.r.ok THEN [acc EXCEPT !.r = Cannot]
        ELSE [r |-> InOrder(<<acc.r, MoreChoice(s), Can(<<IntC(j - 1)>>)>>),
              pool |-> RemoveAt(acc.pool, j)]
      Next(acc, target) ==
        Took(acc, IF target \in s.keep THEN SelectInSeq(acc.pool, LAMBDA e : e = target) ELSE 0)
      Settled(all) == IF all.pool = <<>> THEN all.r ELSE Then(all.r, DoneChoice(s))
  IN  IF Fits(s, v, "list")
      THEN Settled(FoldLeft(Next, [r |-> Can(<<>>), pool |-> s.elements], v.of)) ELSE Cannot

InvertTuple(s, v) ==
  IF v.is = "tuple" /\ Len(v.of) = Len(s.of)
  THEN InOrder([i \in DOMAIN v.of |-> Invert(s.of[i], v.of[i])]) ELSE Cannot

\* The fixed values, the optional ones by swapping with the last, and the choices
\* of a shuffle that changes nothing.
InvertFixedDict(s, v) ==
  LET keys == {p[1] : p \in v.of}
      At(key) == (CHOOSE p \in v.of : p[1] = key)[2]
      any == [min |-> 0, max |-> Len(s.options)]
      fixed == InOrder([i \in DOMAIN s.keys |-> Invert(s.mapping[s.keys[i]], At(s.keys[i]))])
      Next(acc, key) ==
        LET j == SelectInSeq(acc.remaining, LAMBDA k : k = key)
        IN  [r |-> InOrder(<<acc.r, MoreChoice(any), Can(<<IntC(j - 1)>>),
                             Invert(s.optional[key], At(key))>>),
             remaining |-> PopSwapped(acc.remaining, j)]
      present == SelectSeq(s.options, LAMBDA key : key \in keys)
      chosen == FoldLeft(Next, [r |-> Can(<<>>), remaining |-> s.options], present).r
      n == Len(s.keys) + Len(present)
  IN  IF v.is = "dict" /\ ToSet(s.keys) \subseteq keys
         /\ keys \subseteq ToSet(s.keys) \cup ToSet(s.options)
      THEN InOrder(<<fixed, chosen, DoneChoice(any), Can([i \in 1 .. n - 1 |-> IntC(i - 1)])>>)
      ELSE Cannot

InvertSampled(s, v) ==
  IF v \in s.keep /\ v \in ToSet(s.elements)
  THEN Can(<<IntC(SelectInSeq(s.elements, LAMBDA e : e = v) - 1)>>) ELSE Cannot

\* The first shortest encoding over the branches; no branch is tried once a
\* selector and at most one choice are enough.
InvertOneOf(s, v) ==
  LET Next(best, i) ==
        LET candidate == Then(Can(<<IntC(i - 1)>>), Invert(s.of[i], v))
        IN  IF (best.ok /\ Len(best.choices) <= 2) \/ ~candidate.ok THEN best
            ELSE IF best.ok /\ Len(best.choices) <= Len(candidate.choices) THEN best
            ELSE candidate
  IN  IF Len(s.of) = 1 THEN Invert(s.of[1], v)
      ELSE FoldLeft(Next, Cannot, [i \in 1 .. Len(s.of) |-> i])

Invert(s, v) ==
  CASE s.is = "integers"  -> IF v.is = "int" /\ v.n \in s.lo .. s.hi
                             THEN Can(<<IntC(v.n)>>) ELSE Cannot
    [] s.is = "booleans"  -> IF v.is = "bool" THEN Can(<<BoolC(v.n)>>) ELSE Cannot
    [] s.is = "just"      -> IF v = s.value THEN Can(<<>>) ELSE Cannot
    [] s.is = "sampled"   -> InvertSampled(s, v)
    [] s.is = "one_of"    -> InvertOneOf(s, v)
    [] s.is = "tuple"     -> InvertTuple(s, v)
    [] s.is = "list"      -> InvertList(s, v)
    [] s.is = "unique"    -> InvertUniqueList(s, v)
    [] s.is = "unique_sampled" -> InvertUniqueSampled(s, v)
    [] s.is = "dict"      -> InvertFixedDict(s, v)
    [] s.is = "filtered"  -> IF v \in s.accepts THEN Invert(s.of, v) ELSE Cannot
    [] s.is \in {"limited", "recursive"} -> Invert(s.of, v)
    [] OTHER              -> Cannot

=============================================================================
