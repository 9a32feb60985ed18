---------------------------- MODULE ShrinkPasses ----------------------------
(***************************************************************************)
(* The shrink passes of internal/conjecture/shrinker.py: from a test case  *)
(* that fails, each pass makes smaller attempts, and what an attempt       *)
(* really draws becomes the new shrink target if it fails too and is       *)
(* smaller.                                                                *)
(*                                                                         *)
(* A test draws from one strategy and fails on some of its values.  What   *)
(* the shrinker keeps is an owner o: its target, the target when change    *)
(* tracking was last cleared (base) and the nodes seen to change since     *)
(* (changed).  An attempt gives [ok, s, res]: did it do, the owner after   *)
(* it, and the test's result.  In which order passes are tried is left     *)
(* open here: see Shrinker.                                                *)
(***************************************************************************)
EXTENDS Strategies, Shrinking

CONSTANTS
  Tests,     \* records [strategy, fails, starts]: the values that fail, the first choices
  Extras     \* what the random number generator may answer: triples of sequences

VARIABLES
  test,
  target, base, changed,
  at,        \* the node that reduce_each_alternative looks at
  done

vars == <<test, target, base, changed, at, done>>

-----------------------------------------------------------------------------
\* choice_to_index: how many values are simpler; the nearest first, then the larger.
Index(node) ==
  LET s == Simplest(node)
      Far(n) == IF n > s THEN n - s ELSE s - n
  IN  Cardinality({n \in node.lo .. node.hi : \/ Far(n) < Far(node.value)
                                              \/ Far(n) = Far(node.value) /\ n > node.value})

\* Compares the sort_keys of two sequences of nodes.
SortLess(a, b) ==
  \/ Len(a) < Len(b)
  \/ Len(a) = Len(b) /\ Lexicographic(LAMBDA x, y : Index(x) < Index(y), a, b)

Trivial(node) == node.forced \/ node.value = Simplest(node)

Abs(n) == IF n < 0 THEN -n ELSE n

\* replace_all of one node: with_value.
With(nodes, i, v) == [nodes EXCEPT ![i].value = v]
Put(nodes, i, node) == [k \in DOMAIN nodes |-> IF k = i THEN node ELSE nodes[k]]
Without(nodes, u, v) == SubSeq(nodes, 1, u) \o SubSeq(nodes, v + 1, Len(nodes))

Verdict(t, d) ==
  IF d.raised = "none" THEN Freeze(d, IF d.last \in t.fails THEN "INTERESTING" ELSE "VALID")
  ELSE IF d.raised = "UnsatisfiedAssumption" THEN Freeze(d, "INVALID") ELSE d

RunTest(t, choices, max, extra) ==
  ResultOf(Verdict(t, DrawFrom(t.strategy, NewTestCase(choices, max, extra))))

None == [status |-> "None"]
Completed(res) == res.status \in {"VALID", "INTERESTING"}

\* incorporate_test_data and update_shrink_target
Incorporate(o, res) ==
  IF res.status = "INTERESTING" /\ SortLess(res.nodes, o.target.nodes)
  THEN [o EXCEPT !.target = res] ELSE o

\* Mutant: the target is what was attempted, and not what was drawn.
JudgedAsAttempted(o, nodes, res) ==
  LET after == IF res.status # "INTERESTING" THEN o ELSE Incorporate(o, [res EXCEPT !.nodes = nodes])
  IN  [ok |-> after # o, s |-> after, res |-> res]

Judged(o, nodes, res) ==
  LET after == Incorporate(o, res)
  IN  [ok |-> after # o, s |-> after, res |-> res]

Considered(t, o, nodes) ==
  IF nodes = o.target.nodes THEN [ok |-> TRUE, s |-> o, res |-> None]
  ELSE IF SortLess(o.target.nodes, nodes) \/ \E i \in DOMAIN nodes : ~Permitted(nodes[i], nodes[i])
  THEN [ok |-> FALSE, s |-> o, res |-> None]
  ELSE Judged(o, nodes, RunTest(t, ChoicesOf(nodes), Len(nodes), <<>>))

\* Shrinker.cached_test_function
CachedTest(t, o, attempt) ==
  Considered(t, o, SubSeq(attempt, 1, IF Len(attempt) < Len(o.target.nodes)
                                      THEN Len(attempt) ELSE Len(o.target.nodes)))

\* The first of some attempts that does.
FirstOf(t, o, attempts) ==
  FoldLeft(LAMBDA r, a : IF r.ok THEN r ELSE CachedTest(t, r.s, a), No(o), attempts)

-----------------------------------------------------------------------------
(***************************************************************************)
(* Nodes that were seen to change together are lowered together.           *)
(***************************************************************************)
ChangedNodes(o) ==
  LET new == o.target.nodes
      old == o.base.nodes
  IN  IF o.base = o.target THEN o.changed
      ELSE IF Len(new) # Len(old) \/ \E i \in DOMAIN new : new[i].type # old[i].type THEN {}
      ELSE o.changed \cup {i \in DOMAIN new : new[i].value # old[i].value}

LowerCommonNodeOffset(t, o) ==
  LET all == ChangedNodes(o)
      st  == o.target.nodes
      low == {i \in all : st[i].type = "integer" /\ ~Trivial(st[i])}
      least == CHOOSE i \in low : \A j \in low : Abs(st[i].value) <= Abs(st[j].value)
      offset == Abs(st[least].value)
      Lowered(n, sign) == [i \in DOMAIN st |->
        IF i \in low THEN [st[i] EXCEPT !.value = sign * (n + Abs(@) - offset)] ELSE st[i]]
      Toward(own, sign) ==
        IntegerShrink(offset, LAMBDA s, n : CachedTest(t, s, Lowered(n, sign)), own).own
      Cleared(own) == [own EXCEPT !.base = own.target, !.changed = {}]
  IN  IF Cardinality(all) <= 1 \/ low = {} THEN [o EXCEPT !.changed = all]
      ELSE Cleared(FoldLeft(Toward, [o EXCEPT !.changed = all], <<1, -1>>))

(***************************************************************************)
(* try_shrinking_nodes: give several nodes one value.  at is where they    *)
(* are and old what they were when the pass looked.  When the test then    *)
(* draws less, what may have become useless is deleted as well.            *)
(***************************************************************************)
LostRegions(o, res, first, last) ==
  LET Later(spans, i) == SelectSeq(Children(spans, i), LAMBDA c : spans[c].start >= last)
      around == {i \in DOMAIN o.target.spans \cap DOMAIN res.spans :
                   /\ o.target.spans[i].start < first
                   /\ o.target.spans[i].end > last
                   /\ Later(res.spans, i) # <<>>
                   /\ Len(Later(res.spans, i)) < Len(Later(o.target.spans, i))}
      Region(i) ==
        LET mine == Later(o.target.spans, i)
            kept == mine[Len(mine) - Len(Later(res.spans, i)) + 1]
        IN  <<o.target.spans[mine[1]].start, o.target.spans[kept].start>>
  IN  SetToSortSeq({<<last, last + Len(o.target.nodes) - Len(res.nodes)>>}
                     \cup {Region(i) : i \in around},
                   LAMBDA a, b : \/ a[2] - a[1] > b[2] - b[1]
                                 \/ a[2] - a[1] = b[2] - b[1] /\ a[1] < b[1])

LosingRegions(t, o, attempt, where, res) ==
  IF ~Completed(res) \/ Len(res.nodes) >= Len(o.target.nodes) THEN No(o)
  ELSE LET regions == LostRegions(o, res, where[1], Last(where))
       IN  FirstOf(t, o, [k \in DOMAIN regions |-> Without(attempt, regions[k][1], regions[k][2])])

AfterLowering(t, o, attempt, where, r, extra) ==
  IF r.res = None THEN No(o)
  ELSE IF r.ok \/ r.res = o.target THEN [ok |-> TRUE, s |-> LowerCommonNodeOffset(t, r.s)]
  ELSE LosingRegions(t, o, attempt, where,
         IF r.res.status = "OVERRUN" THEN RunTest(t, ChoicesOf(attempt), NoLimit, extra) ELSE r.res)

TryShrinkingNodes(t, o, where, old, n, extra) ==
  LET nodes == o.target.nodes
      attempt == [i \in DOMAIN nodes |->
                    IF i \in ToSet(where) THEN [old[i] EXCEPT !.value = n] ELSE nodes[i]]
  IN  IF ~(ToSet(where) \subseteq DOMAIN nodes) THEN No(o)
      ELSE AfterLowering(t, o, attempt, where, CachedTest(t, o, attempt), extra)

MinimizeNodes(t, o, where, extra) ==
  LET old == o.target.nodes
      size == Abs(old[where[1]].value)
      boolean == old[where[1]].type = "boolean"
      Try(s, n) == TryShrinkingNodes(t, s, where, old, n, extra)
      Towards0(own, sign) == IntegerShrink(size, LAMBDA s, n : Try(s, sign * n), own).own
      Onwards(own) == IF boolean THEN own ELSE FoldLeft(Towards0, own, <<1, -1>>)
  IN  Onwards(Try(o, IF boolean THEN 0 ELSE size).s)

-----------------------------------------------------------------------------
(***************************************************************************)
(* The passes.  What a pass chooses from its choice tree are its           *)
(* parameters.                                                             *)
(***************************************************************************)
Spliced(t, o, span, r, i) ==
  LET nodes == o.target.nodes
      new == r.res.spans[i]
  IN  IF r.s # o \/ r.res.status \in {"None", "OVERRUN"} THEN r.s
      ELSE CachedTest(t, o, SubSeq(nodes, 1, span.start)
                            \o SubSeq(r.res.nodes, new.start + 1, new.end)
                            \o SubSeq(nodes, span.end + 1, Len(nodes))).s

TryTrivialSpan(t, o, i) ==
  LET nodes == o.target.nodes
      span == o.target.spans[i]
      In(j) == span.start < j /\ j <= span.end
  IN  Spliced(t, o, span, CachedTest(t, o, [j \in DOMAIN nodes |->
        IF In(j) /\ ~nodes[j].forced THEN [nodes[j] EXCEPT !.value = Simplest(nodes[j])]
        ELSE nodes[j]]), i)

\* run_node_program: delete n nodes after i, several times.
Deleting(t, o, original, i, n, repeats) ==
  IF i < 0 \/ i + n * repeats > Len(original) THEN No(o)
  ELSE CachedTest(t, o, Without(original, i, i + n * repeats))

MoreToTheRight(t, left, i, n) ==
  FindInteger(LAMBDA s, k : Deleting(t, s, left.s.target.nodes, i - left.n * n, n, k), left.s).s

MoreOnBothSides(t, once, i, n) ==
  IF ~once.ok THEN once.s
  ELSE MoreToTheRight(t, FindInteger(LAMBDA s, k : Deleting(t, s, s.target.nodes, i - k * n, n, 1),
                                     once.s), i, n)

NodeProgram(t, o, i, n) == MoreOnBothSides(t, Deleting(t, o, o.target.nodes, i, n, 1), i, n)

SameLabel(spans, label) == {i \in DOMAIN spans : spans[i].label = label}

PassToDescendant(t, o, i, j) ==
  LET nodes == o.target.nodes
      ancestor == o.target.spans[i]
      descendant == o.target.spans[j]
  IN  CachedTest(t, o, SubSeq(nodes, 1, ancestor.start)
                       \o SubSeq(nodes, descendant.start + 1, descendant.end)
                       \o SubSeq(nodes, ancestor.end + 1, Len(nodes))).s

Descendants(spans, i) ==
  {j \in SameLabel(spans, spans[i].label) :
     /\ j > i /\ spans[j].start < spans[i].end
     /\ ChoiceCount(spans[j]) \in 1 .. ChoiceCount(spans[i]) - 1}

\* The children of a span that have a label, permuted.
Siblings(spans, i, label) == SelectSeq(Children(spans, i), LAMBDA c : spans[c].label = label)

Part(o, c) == SubSeq(o.target.nodes, o.target.spans[c].start + 1, o.target.spans[c].end)

Permuted(o, siblings, order) ==
  LET spans == o.target.spans
      n == Len(siblings)
      Between(k) == SubSeq(o.target.nodes, spans[siblings[k]].end + 1,
                           IF k = n THEN Len(o.target.nodes) ELSE spans[siblings[k + 1]].start)
  IN  FoldLeft(LAMBDA acc, k : acc \o Part(o, siblings[order[k]]) \o Between(k),
               SubSeq(o.target.nodes, 1, spans[siblings[1]].start), [k \in 1 .. n |-> k])

ReorderSpans(t, o, i, label) ==
  LET siblings == Siblings(o.target.spans, i, label)
  IN  IF Len(siblings) <= 1 THEN o
      ELSE OrderingShrink([k \in DOMAIN siblings |-> k],
             LAMBDA a, b : SortLess(Part(o, siblings[a]), Part(o, siblings[b])),
             LAMBDA s, order : CachedTest(t, s, Permuted(o, siblings, order)), o).own

\* The nodes that share a type and a value, in order.
Duplicates(o, i) ==
  LET nodes == o.target.nodes
  IN  SelectSeq([j \in DOMAIN nodes |-> j],
                LAMBDA j : /\ nodes[j].type = nodes[i].type /\ nodes[j].value = nodes[i].value
                           /\ ~Trivial(nodes[j]))

\* When a node cannot be lowered, lower it by one and delete something after it:
\* the nodes after u up to v.
Repairs(o, i) ==
  {<<o.target.spans[k].start, o.target.spans[k].end>> :
     k \in {k \in DOMAIN o.target.spans \ {1} :
              /\ o.target.spans[k].start >= i - 1 /\ ChoiceCount(o.target.spans[k]) > 0}}
  \cup {<<j - 1, j>> : j \in i + 1 .. Len(o.target.nodes)}

AfterOneLess(t, o, i, lowered, r, repair) ==
  IF ~Completed(r.res) \/ Len(r.res.nodes) \in {Len(lowered), i} THEN r.s
  ELSE CachedTest(t, o, Without(lowered, repair[1], repair[2])).s

OneLess(t, o, i, lowered, repair) ==
  AfterOneLess(t, o, i, lowered, CachedTest(t, o, lowered), repair)

IfStuck(t, o, m, i, repair) ==
  IF repair = <<>> \/ m.target # o.target \/ o.target.nodes[i].type # "integer" THEN m
  ELSE OneLess(t, o, i, With(o.target.nodes, i, o.target.nodes[i].value - 1), repair)

\* minimize_duplicated_choices takes nodes that share a value and repairs nothing;
\* minimize_individual_choices takes one, and a repair for when it is stuck.
Duplicated(o) ==
  {[where |-> where, repair |-> <<>>] :
     where \in {w \in {Duplicates(o, i) : i \in DOMAIN o.target.nodes} : Len(w) > 1}}
Individual(o) ==
  UNION {{[where |-> <<i>>, repair |-> repair] : repair \in Repairs(o, i) \cup {<<i, i>>}} :
           i \in {i \in DOMAIN o.target.nodes : ~Trivial(o.target.nodes[i])}}

Minimize(t, o, c, extra) ==
  IfStuck(t, o, MinimizeNodes(t, o, c.where, extra), c.where[1], c.repair)

\* Mutant: the last unit stays where it is.
RedistributeButOne(t, o, i, j) ==
  LET m == o.target.nodes[i]
      n == o.target.nodes[j]
      Boost(s, k) ==
        LET by == IF m.value < 0 THEN -k ELSE k
            nodes == Put(Put(s.target.nodes, i, [m EXCEPT !.value = @ - by]),
                         j, [n EXCEPT !.value = @ + by])
        IN  IF k >= Abs(m.value) THEN No(s) ELSE CachedTest(t, s, nodes)
  IN  FindInteger(Boost, o).s

RedistributePair(t, o, i, j) ==
  LET m == o.target.nodes[i]
      n == o.target.nodes[j]
      Boost(s, k) ==
        LET by == IF m.value < 0 THEN -k ELSE k
            nodes == Put(Put(s.target.nodes, i, [m EXCEPT !.value = @ - by]),
                         j, [n EXCEPT !.value = @ + by])
        IN  IF k > Abs(m.value) THEN No(s) ELSE CachedTest(t, s, nodes)
  IN  FindInteger(Boost, o).s

LowerTogether(t, o, i, j) ==
  LET m == o.target.nodes[i]
      n == o.target.nodes[j]
      By(s, k) == CachedTest(t, s, Put(Put(s.target.nodes, i, [m EXCEPT !.value = @ - k]),
                                       j, [n EXCEPT !.value = @ - k]))
      Search(own, sign) == FindInteger(LAMBDA s, k : By(s, sign * k), own).s
  IN  FoldLeft(Search, o, <<-1, 1>>)

\* widen_to_span_with_recorded_value: let the strategy that draws at the i-th node
\* encode the value anew that a span which starts there produced.
WidenToSpan(t, o, i, recorded) ==
  LET span == o.target.spans[recorded.span]
      attempt == ChoicesOf(SubSeq(o.target.nodes, 1, span.start)) \o <<Hole(recorded.of)>>
                 \o ChoicesOf(SubSeq(o.target.nodes, span.end + 1, Len(o.target.nodes)))
  IN  Incorporate(o, RunTest(t, attempt, NoLimit, <<>>))

Widening(o) ==
  {p \in (DOMAIN o.target.nodes) \X o.target.values :
     LET node == o.target.nodes[p[1]]
         span == o.target.spans[p[2].span]
     IN  /\ node.type = "integer" /\ ~node.forced /\ node.lo = 0 /\ node.value # 0
         /\ span.start = p[1] - 1 /\ ChoiceCount(span) > 1}

\* The outermost spans that were discarded, left to right.
Discarded(res) ==
  FoldLeft(LAMBDA acc, span : IF /\ span.discarded /\ ChoiceCount(span) > 0
                                 /\ (acc = <<>> \/ span.start >= Last(acc).end)
                              THEN Append(acc, span) ELSE acc, <<>>, res.spans)

RemoveDiscarded(t, owner) ==
  LET RECURSIVE Clear(_)
      Cleared(o, r) == IF r.ok THEN Clear(r.s) ELSE o
      Clear(o) ==
        LET spans == Discarded(o.target)
            rest == SelectSeq([k \in DOMAIN o.target.nodes |-> k],
                              LAMBDA k : \A i \in DOMAIN spans :
                                           k \notin spans[i].start + 1 .. spans[i].end)
        IN  IF ~o.target.discards \/ spans = <<>> THEN o
            ELSE Cleared(o, CachedTest(t, o, [k \in DOMAIN rest |-> o.target.nodes[rest[k]]]))
  IN  Clear(owner)

-----------------------------------------------------------------------------
(***************************************************************************)
(* reduce_each_alternative: a small number that decides what comes after   *)
(* it probably chooses a branch of one_of: take an earlier branch, with    *)
(* whatever the generator draws there.                                     *)
(***************************************************************************)
SpliceBranch(t, o, i, r, res, k) ==
  LET nodes == o.target.nodes
  IN  CachedTest(t, r, SubSeq(nodes, 1, i - 1)
        \o SubSeq(res.nodes, res.spans[k].start + 1, res.spans[k].end)
        \o SubSeq(nodes, o.target.spans[k].end + 1, Len(nodes))).s

SpliceBranches(t, o, i, s, res) ==
  LET spans == SelectSeq([k \in DOMAIN o.target.spans |-> k],
                         LAMBDA k : o.target.spans[k].start = i - 1)
      Splice(acc, k) == IF acc.ok THEN acc
                        ELSE LET r == SpliceBranch(t, o, i, acc.s, res, k)
                             IN  [ok |-> r.target # o.target, s |-> r]
  IN  IF ~Completed(res) THEN No(s) ELSE FoldLeft(Splice, No(Incorporate(s, res)), spans)

TryLowerAsAlternative(t, o, i, v, extras) ==
  LET lower == With(o.target.nodes, i, v)
      Attempt(acc, extra) ==
        IF acc.ok THEN acc
        ELSE SpliceBranches(t, o, i, acc.s,
               RunTest(t, ChoicesOf(SubSeq(lower, 1, i)), i + Len(o.target.nodes), extra))
      Further(first) == IF first.ok THEN first ELSE FoldLeft(Attempt, No(o), extras)
  IN  Further(CachedTest(t, o, lower))

EarlierBranches(t, o, i, zero, extras) ==
  LET nodes == o.target.nodes
      reshaped == \/ Len(zero.res.nodes) # Len(nodes)
                  \/ \E j \in i + 1 .. Len(nodes) : ~Permitted(nodes[j], zero.res.nodes[j])
      Try(r, v) == IF r.ok THEN r ELSE TryLowerAsAlternative(t, r.s, i, v, extras)
  IN  IF zero.ok \/ ~Completed(zero.res) THEN zero.s
      ELSE IF ~reshaped THEN o
      ELSE FoldLeft(Try, No(o), [k \in 1 .. nodes[i].value |-> k - 1]).s

ReduceAlternative(t, o, i, extras) ==
  LET node == o.target.nodes[i]
  IN  IF node.type # "integer" \/ node.forced \/ node.value > 10 \/ node.lo # 0 THEN o
      ELSE EarlierBranches(t, o, i, CachedTest(t, o, With(o.target.nodes, i, 0)), extras)

-----------------------------------------------------------------------------
Owner == [target |-> target, base |-> base, changed |-> changed]

Becomes(o) == target' = o.target /\ base' = o.base /\ changed' = o.changed

Init ==
  /\ test \in Tests
  /\ \E choices \in test.starts :
       target = RunTest(test, choices, NoLimit, <<>>)
  /\ base = target
  /\ changed = {}
  /\ at = 1
  /\ done = FALSE

\* initial_coarse_reduction
CoarseStep ==
  /\ at <= Len(target.nodes)
  /\ \E extras \in Extras : Becomes(ReduceAlternative(test, Owner, at, extras))
  /\ at' = at + 1
  /\ UNCHANGED <<test, done>>

\* What the passes may choose.
Choosing(i) == i \in DOMAIN target.nodes /\ ~Trivial(target.nodes[i])
ChoosingPair(i, j, far) ==
  /\ Choosing(i) /\ j \in i + 1 .. i + far /\ j \in DOMAIN target.nodes
  /\ target.nodes[i].type = "integer" /\ target.nodes[j].type = "integer"
  /\ ~target.nodes[j].forced

\* Everything that some step of some pass makes of o, by what was drawn.
Outcomes(extra) ==
  LET o == Owner
      N == DOMAIN target.nodes
      S == DOMAIN target.spans
  IN  {TryTrivialSpan(test, o, i) : i \in S}
      \cup {NodeProgram(test, o, i, n) : i \in 0 .. Len(target.nodes) - 1, n \in 1 .. 5}
      \cup UNION {{PassToDescendant(test, o, i, j) : j \in Descendants(target.spans, i)} : i \in S}
      \cup {ReorderSpans(test, o, i, target.spans[j].label) : i \in S, j \in S}
      \cup {Minimize(test, o, c, extra) : c \in Duplicated(o) \cup Individual(o)}
      \cup {RedistributePair(test, o, p[1], p[2]) :
              p \in {p \in N \X N : ChoosingPair(p[1], p[2], 4)}}
      \cup {LowerTogether(test, o, p[1], p[2]) :
              p \in {p \in N \X N : ChoosingPair(p[1], p[2], 3)}}
      \cup {WidenToSpan(test, o, p[1], p[2]) : p \in Widening(o)}
      \cup {RemoveDiscarded(test, o)}

\* One step of some pass that finds a smaller failure.
PassStep(outcomes) ==
  /\ \E o \in outcomes : o.target # target /\ Becomes(o)
  /\ UNCHANGED <<test, at, done>>

\* fixate_shrink_passes returns once no step of any pass finds anything.
Stop(outcomes) ==
  /\ \A o \in outcomes : o.target = target
  /\ done' = TRUE
  /\ UNCHANGED <<test, target, base, changed, at>>

Next ==
  \/ CoarseStep
  \/ /\ at > Len(target.nodes) /\ ~done
     /\ \E extras \in Extras : \E outcomes \in {Outcomes(extras[1])} :
          PassStep(outcomes) \/ Stop(outcomes)

Spec == Init /\ [][Next]_vars

-----------------------------------------------------------------------------
(***************************************************************************)
(* Properties.                                                             *)
(***************************************************************************)
\* A smaller test case that fails, from an attempt.
Improves(attempt) ==
  /\ \A i \in DOMAIN attempt : Permitted(attempt[i], attempt[i])
  /\ LET res == RunTest(test, ChoicesOf(attempt), Len(attempt), <<>>)
     IN  res.status = "INTERESTING" /\ SortLess(res.nodes, target.nodes)

\* The attempts that a person would make by hand on the nodes.
ByHand ==
  LET nodes == target.nodes
      spans == target.spans
      N == DOMAIN nodes
      Numbers == {i \in N : nodes[i].type = "integer" /\ ~nodes[i].forced}
      Toward(n, by) == IF n < 0 THEN n + by ELSE n - by
  IN  \* one value simplest, or a bit simpler
      {With(nodes, i, Simplest(nodes[i])) : i \in {i \in N : ~Trivial(nodes[i])}}
      \cup {With(nodes, i, Toward(nodes[i].value, by)) :
              i \in {i \in Numbers : ~Trivial(nodes[i])}, by \in 1 .. 2}
      \* something left out
      \cup {Without(nodes, i - 1, i - 1 + n) :
              i \in N, n \in {n \in 1 .. 5 : n <= Len(nodes)}}
      \* equal values simplest together
      \cup {[j \in N |-> IF j \in ToSet(Duplicates(Owner, i))
                         THEN [nodes[j] EXCEPT !.value = Simplest(nodes[i])] ELSE nodes[j]] : i \in N}
      \* one span simplest
      \cup {[j \in N |-> IF j \in spans[k].start + 1 .. spans[k].end /\ ~nodes[j].forced
                         THEN [nodes[j] EXCEPT !.value = Simplest(nodes[j])] ELSE nodes[j]] :
              k \in DOMAIN spans}
      \* one of two numbers smaller and the other larger, or both smaller
      \cup {With(With(nodes, p[1], nodes[p[1]].value - 1), p[2], nodes[p[2]].value + by) :
              p \in {p \in Numbers \X Numbers : p[2] \in p[1] + 1 .. p[1] + 3}, by \in {-1, 1}}

\* Shrinking ends at a test case that no such attempt makes smaller, however the
\* passes took turns.
FixedPointIsLocallyMinimal == done => \A attempt \in ByHand : ~Improves(attempt)

\* The target is only ever replaced by a smaller test case, and its choices alone
\* replay it exactly: what a misaligned, extended or re-encoded attempt really drew
\* is what is kept.
TargetOnlyImproves ==
  [][target' # target =>
       /\ SortLess(target'.nodes, target.nodes)
       /\ RunTest(test, ChoicesOf(target'.nodes), Len(target'.nodes), <<>>) = target']_vars
=============================================================================
