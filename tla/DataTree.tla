------------------------------ MODULE DataTree ------------------------------
(***************************************************************************)
(* DataTree, TreeNode and TreeRecordingObserver of                         *)
(* internal/conjecture/datatree.py: the radix tree in which the engine     *)
(* records every test case, from which it generates novel prefixes and     *)
(* predicts results, and by which it knows that everything was tried.      *)
(*                                                                         *)
(* A TreeNode never moves: it is named by the position at which it starts. *)
(* The observer's trail is the chain of nodes on the way to the current    *)
(* one, so it is computed and not stored.                                  *)
(*                                                                         *)
(* The test function is unknown and, unless flaky, deterministic: what it  *)
(* does at a position is chosen when it first gets there and kept in prog. *)
(***************************************************************************)
EXTENDS Integers, Sequences, FiniteSets, SequencesExt

CONSTANTS
  Kinds, Values, Children, Conclusions, KillMark, NoValue,  \* as in Trie
  Valid,          \* the conclusion Status.VALID
  Interesting,    \* the conclusions Status.INTERESTING, one per origin
  MaxDraws,       \* bound: draws in one test case
  MaxDiscards,    \* bound: positions at which the test function discards
  Flakiness       \* whether the test function may be, and must be, flaky

ASSUME TreeConstants ==
  /\ \A k \in Kinds : Children[k] # {} /\ IsFiniteSet(Children[k])
  /\ Valid \in Conclusions
  /\ Interesting \subseteq Conclusions \ {Valid}
  /\ MaxDraws \in Nat
  /\ MaxDiscards \in Nat
  /\ Flakiness \subseteq BOOLEAN

VARIABLES
  tree,     \* position -> TreeNode
  phase,    \* "idle", "running", or how recording broke: "flaky", "assert"
  cur,      \* observer: _current_node
  idx,      \* observer: _index_in_current_node
  killed,   \* observer: killed
  todo,     \* the rest of the prefix the test case replays
  flaky,    \* TRUE when the test function is not deterministic
  prog      \* history: what the test function did where

vars == <<tree, phase, cur, idx, killed, todo, flaky, prog>>

EmptyNode == [kinds |-> <<>>, values |-> <<>>, forced |-> {},
              trans |-> [op |-> "none"], exhausted |-> FALSE]

Branch(k, vs) == [op |-> "branch", kind |-> k, children |-> vs]

\* The position reached after the first i values of a node nd at n, or all.
PosIn(n, nd, i) == n \o SubSeq(nd.values, 1, i)
PosAfter(n, nd) == n \o nd.values

\* What a node nd at n records: the step before each of its values, and what comes
\* after them.
StepIn(nd, i) == [op |-> "draw", kind |-> nd.kinds[i],
                  forced |-> IF i \in nd.forced THEN nd.values[i] ELSE NoValue]
StepOut(nd) == IF nd.trans.op = "branch"
               THEN [op |-> "draw", kind |-> nd.trans.kind, forced |-> NoValue]
               ELSE nd.trans
RecordedBy(n, nd) ==
  {<<PosIn(n, nd, i - 1), StepIn(nd, i)>> : i \in 1 .. Len(nd.values)} \cup
  (IF nd.trans.op = "none" THEN {} ELSE {<<PosAfter(n, nd), StepOut(nd)>>})

\* What a tree has recorded, with its nodes unfolded to single steps.
Recorded(t) == UNION {RecordedBy(n, t[n]) : n \in DOMAIN t}
Unfolded(steps) ==
  [p \in {r[1] : r \in steps} |-> (CHOOSE r \in steps : r[1] = p)[2]]
Unfold == Unfolded(Recorded(tree))

Trie == INSTANCE Trie WITH known <- Unfold, done <- tree[<<>>].exhausted

ASSUME TrieParameters == Trie!TrieConstants

-----------------------------------------------------------------------------
\* Exhaustion.

\* Mutant: a node whose values are not all forced can count as exhausted.
CheckTransition(t, n, nd) ==
  \/ nd.exhausted
  \/ /\ nd.trans.op # "none"
     /\ nd.trans.op = "branch" =>
          \A v \in nd.trans.children : t[Append(PosAfter(n, nd), v)].exhausted

\* TreeNode.check_exhausted for the node nd at n of tree t.
CheckExhausted(t, n, nd) ==
  \/ nd.exhausted
  \/ /\ nd.trans.op # "none"
     /\ Cardinality(nd.forced) = Len(nd.values)
     /\ nd.trans.op = "branch" =>
          /\ Cardinality(nd.trans.children) = Cardinality(Children[nd.trans.kind])
          /\ \A v \in nd.trans.children : t[Append(PosAfter(n, nd), v)].exhausted

Recheck(t, n) == [t EXCEPT ![n].exhausted = CheckExhausted(t, n, t[n])]

\* Mutant: exhaustion is not propagated to the nodes above.
RecheckLast(t, n) == Recheck(t, n)

\* __update_exhausted: recheck the trail from its end, up to the first node
\* that is not exhausted.
UpdateExhausted(t, n) ==
  LET trail    == {m \in DOMAIN t : IsPrefix(m, n)}
      below(m) == [x \in DOMAIN t |-> IF x \in trail /\ Len(x) > Len(m)
                                      THEN [t[x] EXCEPT !.exhausted = TRUE] ELSE t[x]]
      checked  == {m \in trail : CheckExhausted(below(m), m, t[m])}
      done     == {m \in trail : \A x \in trail : Len(x) >= Len(m) => x \in checked}
  IN  [m \in DOMAIN t |-> [t[m] EXCEPT !.exhausted = @ \/ m \in done]]

-----------------------------------------------------------------------------
\* Mutants: the forced indices are not shifted for the child; they are lost.
ForcedUnshifted(nd, i) == {j \in nd.forced : j > i}
ForcedLost(nd, i) == {}

\* The forced values of what follows the i-th value of a node.
ForcedAfter(nd, i) == {j - i : j \in {f \in nd.forced : f > i}}

\* TreeNode.split_at: node n branches at its i-th value; what followed becomes
\* its first child.
SplitAt(t, n, i) ==
  LET nd    == t[n]
      rest  == [kinds  |-> SubSeq(nd.kinds, i + 1, Len(nd.kinds)),
                values |-> SubSeq(nd.values, i + 1, Len(nd.values)),
                forced |-> ForcedAfter(nd, i),
                trans  |-> nd.trans, exhausted |-> FALSE]
      at    == Append(n \o SubSeq(nd.values, 1, i - 1), nd.values[i])
      child == [rest EXCEPT !.exhausted = CheckExhausted(t, at, rest)]
      head  == [kinds  |-> SubSeq(nd.kinds, 1, i - 1),
                values |-> SubSeq(nd.values, 1, i - 1),
                forced |-> {j \in nd.forced : j < i},
                trans  |-> Branch(nd.kinds[i], {nd.values[i]}),
                exhausted |-> nd.exhausted]
  IN  [m \in DOMAIN t \cup {at} |->
         CASE m = n -> head [] m = at -> child [] OTHER -> t[m]]

\* Adds the child for value v below the Branch of node n.
AddChild(t, n, v) ==
  LET at == Append(PosAfter(n, t[n]), v)
      u  == [t EXCEPT ![n].trans.children = @ \cup {v}]
  IN  [m \in DOMAIN t \cup {at} |-> IF m \in DOMAIN t THEN u[m] ELSE EmptyNode]

-----------------------------------------------------------------------------
\* generate_novel_prefix.

AllForced(nd) == Cardinality(nd.forced) = Len(nd.values)

\* A node the walk from the root can enter: nothing on the way is exhausted,
\* and every value on the way that belongs to a node is forced.
Walked(n) ==
  \A m \in DOMAIN tree : IsPrefix(m, n) =>
    ~tree[m].exhausted /\ (m # n => AllForced(tree[m]))

\* What the walk can return from node n: a value other than the first one that
\* is free, a child that is missing, or all there is when nothing follows.
PrefixesFrom(n) ==
  LET nd == tree[n] IN
  IF ~AllForced(nd)
  THEN LET i == CHOOSE j \in 1 .. Len(nd.values) :
                  /\ j \notin nd.forced
                  /\ \A h \in 1 .. j - 1 : h \in nd.forced
       IN  {Append(PosIn(n, nd, i - 1), v) : v \in Children[nd.kinds[i]] \ {nd.values[i]}}
  ELSE IF nd.trans.op = "none" THEN {PosAfter(n, nd)}
  ELSE IF nd.trans.op = "branch"
  THEN {Append(PosAfter(n, nd), v) : v \in Children[nd.trans.kind] \ nd.trans.children}
  ELSE {}

\* Every prefix it can return: random draws and the cache of children that
\* replaces them after ten rejections reach the same values.
NovelPrefixes == UNION {PrefixesFrom(n) : n \in {m \in DOMAIN tree : Walked(m)}}

\* ConjectureData._pop_choice: a choice the draw does not permit is replaced by
\* its simplest one.
Fit(k, v) == IF v \in Children[k] THEN v ELSE CHOOSE w \in Children[k] : TRUE

\* Mutant: the simulation takes forced values from the choices.
MayDifferAlways(nd, i) == TRUE

\* Whether simulating the i-th value of a node can give another value.
MayDiffer(nd, i) == i \notin nd.forced

\* What was drawn on the way to a position: all of it but the marks of discards.
DrawsIn(p) == Cardinality({i \in DOMAIN p : p[i] # KillMark})

\* What comes after node n when its values are drawn again from the choices: a
\* mark, or the next choice.
ChildValue(choices, n) ==
  LET nd == tree[n]
  IN  IF nd.trans.op = "kill" THEN KillMark
      ELSE Fit(nd.trans.kind, choices[DrawsIn(n) + Len(nd.values) + 1])

\* What the choices do in node n: the conclusion the tree predicts, "overrun" when
\* they run out, "unseen" when the tree does not know, or "onward" to a child.
SimulateNode(choices, n) ==
  LET nd   == tree[n]
      used == DrawsIn(n)
      left == Len(choices) - used - Len(nd.values)
  IN  IF \E i \in 1 .. Len(nd.values) :
           /\ used + i <= Len(choices) /\ MayDiffer(nd, i)
           /\ Fit(nd.kinds[i], choices[used + i]) # nd.values[i]
      THEN "unseen"
      ELSE IF left < 0 THEN "overrun"
      ELSE CASE nd.trans.op = "none" -> "unseen"
             [] nd.trans.op = "conclude" -> nd.trans.as
             [] nd.trans.op = "kill" -> "onward"
             [] OTHER -> IF left = 0 THEN "overrun"
                         ELSE IF ChildValue(choices, n) \in nd.trans.children THEN "onward"
                         ELSE "unseen"

\* The nodes it enters: each leads on to the next.
Simulated(choices) ==
  {n \in DOMAIN tree : \A m \in DOMAIN tree : IsStrictPrefix(m, n) =>
     /\ SimulateNode(choices, m) = "onward"
     /\ IsPrefix(Append(PosAfter(m, tree[m]), ChildValue(choices, m)), n)}

Longest(S) == CHOOSE p \in S : \A q \in S : Len(q) <= Len(p)

\* simulate_test_function on a complete choice sequence.
Simulate(choices) == SimulateNode(choices, Longest(Simulated(choices)))

-----------------------------------------------------------------------------
\* A test case.

pos == PosIn(cur, tree[cur], idx)

Draws == DrawsIn(pos)

\* The test function does step s next.
TestDoes(s) ==
  /\ phase = "running"
  /\ UNCHANGED flaky
  /\ IF flaky THEN UNCHANGED prog
     ELSE IF pos \in DOMAIN prog THEN prog[pos] = s /\ UNCHANGED prog
     ELSE prog' = [p \in DOMAIN prog \cup {pos} |-> IF p = pos THEN s ELSE prog[p]]

\* ConjectureData._draw: the value is the forced one, or the next of the prefix,
\* or random; a forced value uses up its place in the prefix too.
DrawsValue(k, f, v) ==
  /\ Draws < MaxDraws
  /\ TestDoes(Trie!Draw(k, f))
  /\ IF f # NoValue THEN v = f
     ELSE IF todo # <<>> /\ ~flaky THEN v = Head(todo) ELSE v \in Children[k]
  /\ todo' = IF todo = <<>> THEN todo ELSE Tail(todo)

Raise(how) == phase' = how /\ UNCHANGED <<tree, cur, idx, killed>>

Enter(n) == cur' = n /\ idx' = 0 /\ UNCHANGED <<phase, killed>>

\* TreeRecordingObserver.draw_value inside the values of the current node.
DrawAgain(k, f, v) ==
  LET nd == tree[cur]
      i  == idx + 1
      differs == \/ k # nd.kinds[i]
                 \/ f # NoValue /\ i \notin nd.forced
                 \/ v # nd.values[i] /\ i \in nd.forced
  IN
  /\ phase = "running" /\ i <= Len(nd.values)
  /\ DrawsValue(k, f, v)
  /\ \/ differs /\ Raise("flaky")
     \/ /\ ~differs /\ v # nd.values[i]
        /\ IF nd.exhausted THEN Raise("assert")
           ELSE LET t == SplitAt(tree, cur, i)
                IN  /\ tree' = AddChild(t, cur, v)
                    /\ Enter(Append(PosIn(cur, nd, i - 1), v))
     \/ /\ ~differs /\ v = nd.values[i]
        /\ idx' = i
        /\ UNCHANGED <<tree, phase, cur, killed>>

\* ... past them, where nothing was recorded: append the value, and branch at
\* once when it is the only one possible and was not forced.
DrawNew(k, f, v) ==
  LET nd == tree[cur]
      n  == Len(nd.values) + 1
      t  == [tree EXCEPT ![cur].kinds = Append(@, k), ![cur].values = Append(@, v),
                         ![cur].forced = IF f = NoValue THEN @ ELSE @ \cup {n}]
  IN
  /\ phase = "running" /\ idx = Len(nd.values) /\ nd.trans.op = "none"
  /\ DrawsValue(k, f, v)
  /\ IF Cardinality(Children[k]) = 1 /\ f = NoValue
     THEN tree' = SplitAt(t, cur, n) /\ Enter(Append(PosAfter(cur, nd), v))
     ELSE tree' = t /\ idx' = n /\ UNCHANGED <<phase, cur, killed>>

\* ... and where something follows: go down the branch, or notice that the
\* first run stopped or discarded here.
DrawFollow(k, f, v) ==
  LET nd == tree[cur] IN
  /\ phase = "running" /\ idx = Len(nd.values) /\ nd.trans.op # "none"
  /\ DrawsValue(k, f, v)
  /\ \/ nd.trans.op = "conclude" /\ Raise("flaky")
     \/ nd.trans.op = "kill" /\ Raise("assert")
     \/ nd.trans.op = "branch" /\ k # nd.trans.kind /\ Raise("flaky")
     \/ /\ nd.trans.op = "branch" /\ k = nd.trans.kind
        /\ tree' = IF v \in nd.trans.children THEN tree ELSE AddChild(tree, cur, v)
        /\ Enter(Append(PosAfter(cur, nd), v))

\* TreeRecordingObserver.kill_branch: the test discarded a span.  Later discards
\* of the same test case return at once.
KillBranch ==
  LET nd == tree[cur]
      at == Append(PosAfter(cur, nd), KillMark)
      t  == [m \in DOMAIN tree \cup {at} |->
               CASE m = cur -> [nd EXCEPT !.trans = [op |-> "kill"]]
                 [] m = at  -> EmptyNode
                 [] OTHER   -> tree[m]]
  IN
  /\ ~killed
  /\ \/ pos \in DOMAIN prog
     \/ Cardinality({p \in DOMAIN prog : prog[p].op = "kill"}) < MaxDiscards
  /\ TestDoes(Trie!Kill)
  /\ UNCHANGED todo
  /\ IF idx < Len(nd.values) \/ nd.trans.op \notin {"none", "kill"}
     THEN Raise("flaky")
     ELSE /\ tree' = IF nd.trans.op = "none"
                     THEN UpdateExhausted(t, cur) ELSE tree
          /\ killed' = TRUE
          /\ cur' = at
          /\ idx' = 0
          /\ UNCHANGED phase

\* Mutant: the latest conclusion replaces the first.
ConcludedAgain(nd, c) == [nd EXCEPT !.trans = Trie!Conclude(c)]

\* A conclusion is recorded where none was.
Concluded(nd, c) == IF nd.trans.op = "none"
                    THEN [nd EXCEPT !.trans = Trie!Conclude(c)] ELSE nd

\* TreeRecordingObserver.conclude_test, for every status but OVERRUN.
ConcludeTest(c) ==
  LET nd  == tree[cur]
      new == Trie!Conclude(c)
      t   == [tree EXCEPT ![cur] = Concluded(@, c)]
  IN
  /\ TestDoes(new)
  /\ todo' = <<>>
  /\ IF \/ idx < Len(nd.values) \/ nd.trans.op = "branch"
        \/ /\ nd.trans.op = "conclude" /\ nd.trans # new
           /\ ~(nd.trans.as \in Interesting /\ c = Valid)
     THEN Raise("flaky")
     ELSE /\ tree' = IF killed THEN Recheck(t, cur) ELSE UpdateExhausted(t, cur)
          /\ phase' = "idle"
          /\ cur' = <<>>
          /\ idx' = 0
          /\ killed' = FALSE

\* The test case overran, or was interrupted: nothing is concluded.
Abandon ==
  /\ phase = "running"
  /\ phase' = "idle"
  /\ cur' = <<>> /\ idx' = 0 /\ killed' = FALSE /\ todo' = <<>>
  /\ UNCHANGED <<tree, flaky, prog>>

Start(prefix) ==
  /\ phase = "idle"
  /\ phase' = "running"
  /\ todo' = prefix
  /\ UNCHANGED <<tree, cur, idx, killed, flaky, prog>>

\* A test case of the generate phase, from a novel prefix.
StartNovel == ~tree[<<>>].exhausted /\ \E q \in NovelPrefixes : Start(q)

\* Any other test case: its values are the runner's choice.
StartAny == Start(<<>>)

Init ==
  /\ tree = [p \in {<<>>} |-> EmptyNode]
  /\ phase = "idle"
  /\ cur = <<>> /\ idx = 0 /\ killed = FALSE /\ todo = <<>>
  /\ flaky \in Flakiness
  /\ prog = <<>>

TestCase ==
  \/ \E k \in Kinds : \E f \in Children[k] \cup {NoValue}, v \in Children[k] :
       DrawAgain(k, f, v) \/ DrawNew(k, f, v) \/ DrawFollow(k, f, v)
  \/ KillBranch
  \/ \E c \in Conclusions : ConcludeTest(c)

Next == StartNovel \/ StartAny \/ TestCase \/ Abandon

Spec == Init /\ [][Next]_vars

-----------------------------------------------------------------------------
\* The nodes are well formed: a kind for every value, forced indices within them,
\* and a node for every child of a Branch.
TypeOK ==
  /\ phase \in {"idle", "running", "flaky", "assert"}
  /\ cur \in DOMAIN tree
  /\ \A n \in DOMAIN tree :
       LET nd == tree[n] IN
       /\ Len(nd.kinds) = Len(nd.values)
       /\ nd.forced \subseteq 1 .. Len(nd.values)
       /\ nd.trans.op \in {"none", "branch", "kill", "conclude"}
       /\ nd.trans.op = "branch" =>
            \A v \in nd.trans.children : Append(PosAfter(n, nd), v) \in DOMAIN tree
  /\ idx \in 0 .. Len(tree[cur].values)
  /\ killed \in BOOLEAN

\* Splitting, appending and branching never change what a position means: the
\* radix tree unfolds to exactly the test function's behaviour so far.
TreeIsFaithful == ~flaky => Unfold = prog

\* Between test cases, the tree is exhausted (and the engine stops) exactly when
\* every position not behind a discard was tried; until then there is a novel
\* prefix, and no prefix that can be generated was ever tried before.
NovelPrefixesAreNovel ==
  ~flaky /\ phase = "idle" =>
    /\ tree[<<>>].exhausted <=> Trie!Frontier(prog) = {}
    /\ tree[<<>>].exhausted <=> NovelPrefixes = {}
    /\ NovelPrefixes \subseteq Trie!Frontier(prog)

\* The test function can get to position p when it runs on these choices.
Follows(choices, p) ==
  /\ DrawsIn(p) <= Len(choices)
  /\ \A i \in 1 .. Len(p) :
       LET s == prog[SubSeq(p, 1, i - 1)]
       IN  s.op = "draw" /\ s.forced = NoValue =>
             p[i] = Fit(s.kind, choices[DrawsIn(SubSeq(p, 1, i))])

\* What running the test function on these choices does, as far as it is known.
Replay(choices) ==
  LET last == Longest({p \in DOMAIN prog \cup Trie!Edge(prog) : Follows(choices, p)})
  IN  IF last \notin DOMAIN prog THEN "unseen"
      ELSE IF prog[last].op = "conclude" THEN prog[last].as ELSE "overrun"

\* A prediction of simulate_test_function, which cached_test_function returns in
\* place of a run, is what the run would give.
SimulationAgrees ==
  ~flaky /\ phase = "idle" =>
    \A choices \in UNION {[1 .. n -> Values] : n \in 0 .. MaxDraws} :
      Simulate(choices) = Replay(choices)

\* The tree is an implementation of Trie: every step of it records at most one
\* new fact, rewrites none, and claims exhaustion only when nothing is left.
ImplementsTrie == Trie!Spec

-----------------------------------------------------------------------------
\* The generate phase alone: novel prefix after novel prefix, each test case
\* running to a conclusion.
GenerateNext == StartNovel \/ TestCase

GenerateSpec ==
  Init /\ [][GenerateNext]_vars /\ WF_vars(GenerateNext)

\* Generating from novel prefixes exhausts every finite test function.
GenerationExhaustsTheTree == <>(tree[<<>>].exhausted)
=============================================================================
