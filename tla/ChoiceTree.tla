----------------------------- MODULE ChoiceTree -----------------------------
(***************************************************************************)
(* internal/conjecture/shrinking/choicetree.py: the choices that a shrink  *)
(* pass may make, explored one path at a time without repetition.          *)
(*                                                                         *)
(* A node is the path of choices that leads to it.  live is                *)
(* live_child_count of the nodes that were met; dead are the paths that    *)
(* hold DeadNode.                                                          *)
(***************************************************************************)
EXTENDS Integers, Sequences, SequencesExt

NewTree == [live |-> [p \in {} |-> 0], dead |-> {}]

Exhausted(tree, p) == p \in tree.dead \/ (p \in DOMAIN tree.live /\ tree.live[p] = 0)

SetLive(tree, p, n) ==
  [tree EXCEPT !.live = [q \in DOMAIN tree.live \cup {p} |-> IF q = p THEN n ELSE tree.live[q]]]

Kill(tree, p) ==
  SetLive([tree EXCEPT !.dead = @ \cup {p}], Front(p), tree.live[Front(p)] - 1)

\* prefix_selection_order: from the choice made last time down to 0, then from the
\* last one down.
PrefixOrder(prefix, depth, n) ==
  LET last == IF depth < Len(prefix) /\ prefix[depth + 1] < n THEN prefix[depth + 1] ELSE n - 1
  IN  [k \in 1 .. n |-> IF k <= last + 1 THEN last + 1 - k ELSE n + last + 1 - k]

\* Mutant: an exhausted child is chosen again.
ChooseAgain(tree, p, n, ok, order) ==
  LET known == IF p \in DOMAIN tree.live THEN tree ELSE SetLive(tree, p, n)
      Try(acc, i) ==
        IF acc.pick # -1 \/ acc.tree.live[p] = 0 THEN acc
        ELSE IF i \in ok THEN [acc EXCEPT !.pick = i]
        ELSE [acc EXCEPT !.tree = Kill(@, Append(p, i))]
  IN  FoldLeft(Try, [tree |-> known, pick |-> -1], order)

\* Chooser.choose among n values, of which ok satisfy the condition: it tries them in
\* some order and forgets those that do not.  pick is -1 for DeadBranch.
Choose(tree, p, n, ok, order) ==
  LET known == IF p \in DOMAIN tree.live THEN tree ELSE SetLive(tree, p, n)
      Try(acc, i) ==
        IF acc.pick # -1 \/ acc.tree.live[p] = 0 \/ Exhausted(acc.tree, Append(p, i)) THEN acc
        ELSE IF i \in ok THEN [acc EXCEPT !.pick = i]
        ELSE [acc EXCEPT !.tree = Kill(@, Append(p, i))]
  IN  FoldLeft(Try, [tree |-> known, pick |-> -1], order)

\* Chooser.finish: this path is done, and so is every node above that has no child left.
Finish(tree, p) ==
  LET Up(t, k) == LET q == SubSeq(p, 1, k)
                  IN  IF Exhausted(t, q) /\ q \notin t.dead THEN Kill(t, q) ELSE t
  IN  FoldLeft(Up, SetLive(tree, p, 0), [i \in 1 .. Len(p) |-> Len(p) + 1 - i])

\* ChoiceTree.step: run a pass that at the paths in DOMAIN shape chooses among n
\* values, of which ok are possible, and returns at the others.
Explore(tree, shape, Order(_, _)) ==
  LET Down(acc, depth) ==
        LET c == Choose(acc.tree, acc.path, shape[acc.path].n, shape[acc.path].ok,
                        Order(depth, shape[acc.path].n))
        IN  IF acc.end \/ acc.path \notin DOMAIN shape THEN acc
            ELSE IF c.pick = -1 THEN [acc EXCEPT !.tree = c.tree, !.end = TRUE]
            ELSE [acc EXCEPT !.tree = c.tree, !.path = Append(@, c.pick)]
      deepest == 1 + Len(CHOOSE p \in DOMAIN shape : \A q \in DOMAIN shape : Len(q) <= Len(p))
      r == FoldLeft(Down, [tree |-> tree, path |-> <<>>, end |-> FALSE],
                    [i \in 1 .. deepest |-> i - 1])
  IN  [tree |-> Finish(r.tree, r.path), path |-> r.path]
=============================================================================
