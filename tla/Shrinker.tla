------------------------------ MODULE Shrinker ------------------------------
(***************************************************************************)
(* fixate_shrink_passes of internal/conjecture/shrinker.py: in which order *)
(* the shrink passes run, for how long, and when the shrinker gives up.    *)
(*                                                                         *)
(* What a pass tries is left open here (see ShrinkPasses): a step of a     *)
(* pass takes one path of its choice tree, calls the test some number of   *)
(* times and may find a smaller target.  Targets are numbers, 0 is the     *)
(* smallest failure; what a pass may choose depends on the target.         *)
(***************************************************************************)
EXTENDS ChoiceTree, FiniteSets

CONSTANTS
  Passes,        \* shrink_passes, in their first order
  Shapes,        \* Shapes[pass][target]: a shape for Explore
  FirstTarget,
  MaxFailures,   \* max_failures = 20: the last half of them in random order
  Stall,         \* max_stall = 200, at first
  MaxCalls,      \* bound: the calls of one step
  Widest         \* the most values that a pass chooses among

VARIABLES
  target,
  order,         \* shrink_passes
  sp,            \* the place of the pass that runs, 0 between turns of the outer loop
  began,         \* is that pass past its remove_discarded
  trees, last_prefix,
  failures, any_ran, can_discard, reordering, before_sp,
  since_loop, since_shrink,   \* calls - calls_at_loop_start, calls - calls_at_last_shrink
  per_failing, max_stall,
  state,         \* "running", "finished", "stopped"
  tried          \* history: the paths that were taken, by target and pass

vars == <<target, order, sp, began, trees, last_prefix, failures, any_ran, can_discard,
          reordering, before_sp, since_loop, since_shrink, per_failing, max_stall, state, tried>>

All == ToSet(Passes)
NoTrees == [p \in All |-> NewTree]
Larger(a, b) == IF a > b THEN a ELSE b

Init ==
  /\ target = FirstTarget /\ order = Passes /\ sp = 0 /\ began = FALSE
  /\ trees = NoTrees
  /\ last_prefix = [p \in All |-> <<>>]
  /\ failures = 0 /\ any_ran = TRUE /\ can_discard = FALSE
  /\ reordering = [p \in All |-> 0]
  /\ before_sp = FirstTarget
  /\ since_loop = 0 /\ since_shrink = 0 /\ per_failing = 1 /\ max_stall = Stall
  /\ state = "running" /\ tried = {}

\* Mutant: the choice trees survive a change of the target.
CallsKeepTrees(n, new, stall, newTrees) ==
  /\ n \in 0 .. MaxCalls /\ new \in 0 .. target
  /\ since_shrink + n <= stall
  /\ target' = new
  /\ since_shrink' = IF new = target THEN since_shrink + n ELSE 0
  /\ max_stall' = IF new = target THEN stall ELSE Larger(stall, 2 * (since_shrink + n))
  /\ trees' = newTrees
  /\ state' = IF new = target /\ n > 0 /\ since_shrink + n = stall THEN "stopped" ELSE state

\* n calls of the test, of which the last finds the target new, if it is new
\* (update_shrink_target forgets the choice trees).  A target may also be found
\* without a call, among known results.  check_calls follows every other call.
Calls(n, new, stall, newTrees) ==
  /\ n \in 0 .. MaxCalls /\ new \in 0 .. target
  /\ since_shrink + n <= stall
  /\ target' = new
  /\ since_shrink' = IF new = target THEN since_shrink + n ELSE 0
  /\ max_stall' = IF new = target THEN stall ELSE Larger(stall, 2 * (since_shrink + n))
  /\ trees' = IF new = target THEN newTrees ELSE NoTrees
  /\ state' = IF new = target /\ n > 0 /\ since_shrink + n = stall THEN "stopped" ELSE state

\* remove_discarded is FALSE if an attempt to remove something failed.
RemoveDiscarded(n) ==
  \E new \in 0 .. target, ok \in BOOLEAN :
    /\ Calls(n, new, max_stall, trees)
    /\ ok /\ new = target => n = 0
    /\ can_discard' = ok

\* A turn of the outer loop begins, or there is none.
Loop ==
  /\ state = "running" /\ sp = 0 /\ any_ran
  /\ \E n \in 0 .. MaxCalls : RemoveDiscarded(n)
  /\ sp' = 1 /\ began' = FALSE /\ any_ran' = FALSE
  /\ reordering' = [p \in All |-> 0]
  /\ since_loop' = 0 /\ per_failing' = 1
  /\ UNCHANGED <<order, last_prefix, failures, before_sp, tried>>

EndLoop ==
  /\ state = "running" /\ sp = 0 /\ ~any_ran
  /\ state' = "finished"
  /\ UNCHANGED <<target, order, sp, began, trees, last_prefix, failures, any_ran, can_discard,
                 reordering, before_sp, since_loop, since_shrink, per_failing, max_stall, tried>>

BeginPass ==
  /\ state = "running" /\ sp # 0 /\ ~began
  /\ \/ /\ can_discard
        /\ \E n \in 0 .. MaxCalls : RemoveDiscarded(n) /\ since_loop' = since_loop + n
     \/ /\ ~can_discard
        /\ UNCHANGED <<target, since_shrink, max_stall, trees, state, can_discard, since_loop>>
  /\ began' = TRUE /\ failures' = 0 /\ before_sp' = target'
  /\ UNCHANGED <<order, sp, last_prefix, any_ran, reordering, per_failing, tried>>

Running == state = "running" /\ sp # 0 /\ began
Over == failures = MaxFailures \/ Exhausted(trees[order[sp]], <<>>)

\* Shrinker.step: the pass takes one path, near the last one that it took, or at random
\* when it has failed often.
TakePath(pass, e) ==
  LET random == 2 * failures >= MaxFailures
      Order(depth, n) == IF random THEN SelectSeq(e, LAMBDA i : i < n)
                         ELSE PrefixOrder(last_prefix[pass], depth, n)
  IN  Explore(trees[pass], Shapes[pass][target], Order)

Shuffles == {e \in [1 .. Widest -> 0 .. Widest - 1] : IsInjective(e)}

Step ==
  /\ Running /\ ~Over
  /\ LET pass == order[sp]
         stall == Larger(max_stall, 2 * per_failing + since_loop)
     IN  \E e \in Shuffles, n \in 0 .. MaxCalls, new \in 0 .. target :
           LET r == TakePath(pass, e)
           IN  /\ Calls(n, new, stall, [trees EXCEPT ![pass] = r.tree])
               /\ last_prefix' = [last_prefix EXCEPT ![pass] = r.path]
               /\ tried' = tried \cup {<<target, pass, r.path>>}
               /\ since_loop' = since_loop + n
               /\ failures' = IF n = 0 THEN failures ELSE IF new # target THEN 0 ELSE failures + 1
               /\ per_failing' = IF new = target THEN Larger(per_failing, n) ELSE per_failing
  /\ any_ran' = TRUE
  /\ UNCHANGED <<order, sp, began, can_discard, reordering, before_sp>>

\* The pass is over.  Passes that deleted something go first next time, those that did
\* nothing last.
EndPass ==
  /\ Running /\ Over
  /\ \E way \in IF target = before_sp THEN {1} ELSE {-1, 0} :
       reordering' = [reordering EXCEPT ![order[sp]] = way]
  /\ LET By(way) == SelectSeq(order, LAMBDA p : reordering'[p] = way)
     IN  IF sp < Len(order) THEN sp' = sp + 1 /\ UNCHANGED order
         ELSE sp' = 0 /\ order' = By(-1) \o By(0) \o By(1)
  /\ began' = FALSE
  /\ UNCHANGED <<target, trees, last_prefix, failures, any_ran, can_discard, before_sp,
                 since_loop, since_shrink, per_failing, max_stall, state, tried>>

Next == Loop \/ EndLoop \/ BeginPass \/ Step \/ EndPass

Spec == Init /\ [][Next]_vars

-----------------------------------------------------------------------------
(***************************************************************************)
(* Properties.                                                             *)
(***************************************************************************)
Leaves(shape) == {Append(q, i) : q \in DOMAIN shape, i \in 0 .. Widest - 1} \ DOMAIN shape

\* When the shrinker is through, each pass has tried all it may choose on the very
\* target that is reported: no pass ran last before the target changed.
NoPassLeftBehind ==
  state = "finished" =>
    \A p \in All : \A leaf \in Leaves(Shapes[p][target]) :
      Last(leaf) \in Shapes[p][target][Front(leaf)].ok => <<target, p, leaf>> \in tried

\* No pass takes a path twice on one target, in whatever orders it takes them: so the
\* outer loop, which goes on as long as some path is taken, comes to an end.
PathsTriedOnce == [][Step => tried' # tried]_vars
=============================================================================
