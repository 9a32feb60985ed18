----------------------------- MODULE MCShrinking -----------------------------
(***************************************************************************)
(* Instances of the modules about shrinking for TLC; a behavior is one of  *)
(* - ShrinkPasses, on tests of up to nine small choices that fail on a set *)
(*   of values, and test cases from which they are shrunk;                 *)
(* - Shrinker, with two passes whose choices depend on the target;         *)
(* - Drawing, with a strategy of every kind;                               *)
(* - HeapCache, which keeps the results of test cases: five keys for four  *)
(*   places, so that heaps have three levels and every insertion into a    *)
(*   full one evicts, with two values, or with two pins for a key.         *)
(***************************************************************************)
EXTENDS ShrinkPasses, ResultCache

Ints(lo, hi) == [is |-> "integers", label |-> "integers", lo |-> lo, hi |-> hi]
Bools == [is |-> "booleans", label |-> "booleans"]
Tuple(of) == [is |-> "tuple", label |-> "tuples", of |-> of]
List(of, min, max) == [is |-> "list", label |-> "lists", of |-> of, min |-> min, max |-> max]
OneOf(of) == [is |-> "one_of", label |-> "one_of", of |-> of]
N(n) == Value("int", n)
B(n) == Value("bool", n)
Pair(a, b) == Listing("tuple", <<a, b>>)
Lists(S, max) == {Listing("list", of) : of \in UNION {[1 .. n -> S] : n \in 0 .. max}}
Nums(S) == {N(n) : n \in S}
Total(v) == FoldLeft(LAMBDA n, e : n + e.n, 0, v.of)

Sum == [strategy |-> Tuple(<<Ints(0, 5), Ints(0, 5)>>),
        fails |-> {v \in {Pair(N(a), N(b)) : a \in 0 .. 5, b \in 0 .. 5} : Total(v) >= 4},
        starts |-> {<<IntC(5), IntC(3)>>, <<IntC(3), IntC(4)>>}]

Apart == [strategy |-> Tuple(<<Ints(-3, 3), Ints(-3, 3)>>),
          fails |-> {v \in {Pair(N(a), N(b)) : a \in -3 .. 3, b \in -3 .. 3} :
                       Abs(v.of[1].n - v.of[2].n) \in {1, 2}},
          starts |-> {<<IntC(-3), IntC(-2)>>, <<IntC(3), IntC(2)>>}]

Unsorted == [strategy |-> List(Ints(0, 3), 0, 3),
             fails |-> {v \in Lists(Nums(0 .. 3), 3) :
                          \E i, j \in DOMAIN v.of : i < j /\ v.of[i].n > v.of[j].n},
             starts |-> {<<BoolC(1), IntC(3), BoolC(1), IntC(2), BoolC(1), IntC(1), BoolC(0)>>}]

Sized == [strategy |-> [is |-> "flatmapped", label |-> "flatmapped", of |-> Ints(0, 3),
                        expand |-> [v \in Nums(0 .. 3) |-> List(Ints(0, 2), v.n, v.n)]],
          fails |-> {v \in Lists(Nums(0 .. 2), 3) : \E i \in DOMAIN v.of : v.of[i].n = 2},
          starts |-> {<<IntC(3), IntC(1), IntC(0), IntC(2)>>}]

Branches == [strategy |-> Tuple(<<OneOf(<<List(Ints(0, 1), 0, 2), Ints(1, 3), Bools>>), Bools>>),
             fails |-> {Pair(v, B(1)) : v \in Lists(Nums(0 .. 1), 2) \cup Nums(1 .. 3) \cup {B(1)}},
             starts |-> {<<IntC(2), BoolC(1), BoolC(1)>>, <<IntC(1), IntC(3), BoolC(1)>>}]

Filtering == [strategy |-> List([is |-> "filtered", label |-> "filtered", of |-> Ints(0, 3),
                                 accepts |-> Nums({2, 3})], 0, 2),
              fails |-> {v \in Lists(Nums(2 .. 3), 2) : Total(v) >= 3},
              starts |-> {<<BoolC(1), IntC(1), IntC(3), BoolC(1), IntC(0), IntC(1), IntC(2), BoolC(0)>>}]

Limited == [is |-> "limited", label |-> "limited", of |-> Bools]
Nested == LET once == [List(Limited, 0, 2) EXCEPT !.label = "lists of limited"]
          IN  [strategy |-> [is |-> "recursive", label |-> "recursive", max_leaves |-> 2,
                             min_leaves |-> 0, of |-> OneOf(<<Limited, once,
                                 List([OneOf(<<Limited, once>>) EXCEPT !.label = "inner"], 0, 2)>>)],
               fails |-> {v \in Lists({B(0), B(1)} \cup Lists({B(0), B(1)}, 2), 2) :
                            B(1) \in ToSet(v.of) \/ \E l \in ToSet(v.of) : l.is = "list" /\ B(1) \in ToSet(l.of)},
               starts |-> {<<IntC(2), BoolC(1), IntC(1), BoolC(1), BoolC(0), BoolC(1), BoolC(1), BoolC(0), BoolC(0)>>}]

Selector == [strategy |-> Tuple(<<OneOf(<<Ints(4, 5), Bools, Ints(0, 9), Ints(2, 4)>>), Ints(0, 1)>>),
             fails |-> {Pair(N(a), N(b)) : a \in {4, 5, 6, 8}, b \in 0 .. 1},
             starts |-> {<<IntC(2), IntC(5), IntC(1)>>, <<IntC(3), IntC(4), IntC(1)>>}]

MCTests == {Sum, Apart, Unsorted, Sized, Branches, Filtering, Nested, Selector}
MCOneTest == {Sum}
MCExtras == {<<<<0, 0, 0, 0>>, <<1, 1, 1, 1>>, <<0, 1, 0, 1>>>>,
             <<<<2, 2, 2, 2>>, <<0, 2, 1, 0>>, <<3, 2, 1, 0>>>>}

-----------------------------------------------------------------------------
CONSTANTS FirstTarget, MaxFailures, Stall, MaxCalls, Widest

VARIABLES part, reached, order, sp, began, trees, last_prefix, failures, any_ran, can_discard,
          reordering, before_sp, since_loop, since_shrink, per_failing, max_stall, state, tried

\* A pass chooses among values at a path; some choices lead to others.
Flat(n, ok) == [p \in {<<>>} |-> [n |-> n, ok |-> ok]]
Deep == [p \in {<<>>, <<0>>, <<2>>} |->
           [n |-> IF p = <<>> THEN 3 ELSE 2,
            ok |-> IF p = <<>> THEN {0, 2} ELSE IF p = <<0>> THEN {0, 1} ELSE {}]]

MCPasses == <<"spans", "nodes">>
MCShapes == [p \in ToSet(MCPasses) |-> [t \in 0 .. 1 |->
              IF p = "nodes" THEN Flat(2, {0, 1}) ELSE IF t = 1 THEN Flat(3, {1, 2}) ELSE Deep]]

Turns == INSTANCE Shrinker WITH Passes <- MCPasses, Shapes <- MCShapes, target <- reached
TurnsVars == <<reached, order, sp, began, trees, last_prefix, failures, any_ran, can_discard,
               reordering, before_sp, since_loop, since_shrink, per_failing, max_stall, state,
               tried>>

-----------------------------------------------------------------------------
CONSTANTS MaxChoices

VARIABLES strategy, prefix

Inner == [is |-> "mapped", label |-> "mapped", of |-> Ints(0, 2),
          pack |-> [v \in Nums({0, 1}) |-> v]]
Pool(elements, min, max) == [is |-> "unique_sampled", label |-> "lists", elements |-> elements,
                             keep |-> ToSet(elements), min |-> min, max |-> max]
\* Of these pools one can be rejected from until the list gives up.
Same == <<N(5), N(5), N(5), N(5), N(5), N(6)>>
MCDrawn ==
  {[is |-> "just", label |-> "just", value |-> N(2)],
   Tuple(<<Ints(1, 3), Bools>>), List(Ints(0, 2), 1, 3), List(Bools, 0, 1),
   [is |-> "unique", label |-> "lists", of |-> Ints(0, 300), min |-> 1, max |-> 2],
   Pool(<<N(5), N(6), N(5)>>, 0, 3), Pool(<<N(5), N(6)>>, 0, 2), Pool(<<N(5), N(6), N(5)>>, 2, 3),
   Pool(Same, 2, 2), Pool(Same, 1, 3), Pool(Same, 2, 3),
   [is |-> "sampled", label |-> "sampled_from", elements |-> <<N(5), N(6), N(7), N(8)>>,
    keep |-> Nums({7, 8})],
   OneOf(<<Tuple(<<Ints(1, 3), Bools>>), Ints(4, 5),
           [is |-> "just", label |-> "just", value |-> N(2)]>>),
   [is |-> "filtered", label |-> "filtered", of |-> Ints(0, 3), accepts |-> Nums({2, 3})],
   [is |-> "mapped", label |-> "mapped", of |-> List(Inner, 1, 3),
    pack |-> [v \in {Listing("list", <<N(0)>>), Listing("list", <<N(1)>>)} |-> v]],
   [is |-> "flatmapped", label |-> "flatmapped", of |-> Ints(1, 3),
    expand |-> [v \in Nums(1 .. 3) |-> List(Ints(0, 2), v.n, v.n)]],
   [is |-> "dict", label |-> "fixed_dict", keys |-> <<"a">>, mapping |-> [k \in {"a"} |-> Bools],
    options |-> <<"b", "c">>, optional |-> [k \in {"b", "c"} |-> Bools]],
   Nested.strategy}

MCReplayed == {IntC(n) : n \in 0 .. 3} \cup {BoolC(0), BoolC(1)}

\* Five elements from a pool with a coin before each, and the coin after them.
MCOpenings(s) ==
  {<<>>} \cup IF s.is = "unique_sampled" /\ s.elements = Same /\ s.max = 3
             THEN {FlattenSeq([i \in 1 .. 5 |-> <<BoolC(1), IntC(0)>>]) \o <<BoolC(b)>> : b \in 0 .. 1}
             ELSE {}

Draws == INSTANCE Drawing WITH Drawn <- MCDrawn, Openings <- MCOpenings, Replayed <- MCReplayed
DrawsVars == <<strategy, prefix>>

-----------------------------------------------------------------------------
\* What is required of every cache is required of one without pins, and of one with a
\* single value.
Plain == INSTANCE HeapCache WITH
  Values <- CachedValues, MaxPins <- 0, data <- heap, order <- ticks
Pinning == INSTANCE HeapCache WITH
  Values <- {CHOOSE v \in CachedValues : TRUE}, data <- heap, order <- ticks
CacheVars == <<heap, index, ticks>>

-----------------------------------------------------------------------------
ShrinkingInit ==
  /\ Init /\ Turns!Init /\ Draws!Init /\ Heap!Init
  /\ part \in {"passes", "turns", "draws", "plain", "pinning"}
  /\ part # "passes" => test = Sum /\ target.nodes[1].value = 5
  /\ part # "draws" => strategy.is = "just"

ShrinkingNext ==
  \/ part = "passes" /\ Next /\ UNCHANGED <<part, TurnsVars, DrawsVars, CacheVars>>
  \/ part = "turns" /\ Turns!Next /\ UNCHANGED <<part, vars, DrawsVars, CacheVars>>
  \/ part = "draws" /\ Draws!Next /\ UNCHANGED <<part, vars, TurnsVars, CacheVars>>
  \/ part = "plain" /\ Plain!Next /\ UNCHANGED <<part, vars, TurnsVars, DrawsVars>>
  \/ part = "pinning" /\ Pinning!Next /\ UNCHANGED <<part, vars, TurnsVars, DrawsVars>>

ShrinkingSpec ==
  ShrinkingInit /\ [][ShrinkingNext]_<<part, vars, TurnsVars, DrawsVars, CacheVars>>

\* The keys of a cache are alike: a heap is seen with each of them replaced by the
\* rank of its last tick, which leaves nothing else to say of the order, and nothing
\* of the index as long as it is right.
RightIndex == [k \in DOMAIN index |-> CHOOSE i \in DOMAIN heap : heap[i].key = k]

View ==
  <<part, vars, TurnsVars, DrawsVars,
    [i \in DOMAIN heap |-> [heap[i] EXCEPT !.key = Heap!Place(ticks, @)]],
    IF index = RightIndex THEN <<>> ELSE index>>

\* The properties of the modules; each says what it is.
NoPassLeftBehind == Turns!NoPassLeftBehind
PathsTriedOnce == Turns!PathsTriedOnce
DrawnAsPromised == Draws!DrawnAsPromised
RecordedChoicesReplay == Draws!RecordedChoicesReplay
InvertsRoundTrip == Draws!InvertsRoundTrip

\* "class many" in internal/conjecture/utils.py: it "handles starting and stopping
\* spans in the right place".
SpansAreClosed == Draws!SpansAreClosed
=============================================================================
