------------------------------- MODULE MCShared -------------------------------
(***************************************************************************)
(* Shared in small instances for TLC.  The components do not depend on     *)
(* each other, so a behavior is one in which only one of them moves:       *)
(* - the limiter: a reserve of 10 frames and depths 1..2 keep the order    *)
(*   the real numbers have, an outside limit of 5 or 7 being below what a  *)
(*   context asks for;                                                     *)
(* - the random generators, with contexts of two threads that overlap      *)
(*   ("pair"), or two generators and threads that take turns;              *)
(* - a test of three cases;                                                *)
(* - the directory, with two processes, which may be one, use two keys of  *)
(*   their own, or share them ("together");                                *)
(* - the writer.                                                           *)
(***************************************************************************)
EXTENDS Shared, TLC

MCDepths  == 1 .. 2
MCOutside == {5, 7, 9}

CONSTANTS random, numpy, p1, p2, k1, k2, v1, v2, w

MCGenerators == {random, numpy}
MCGlobal == random
MCSeeds == {0, 1}

-----------------------------------------------------------------------------
Does(e, time) == {[ends |-> e, time |-> time]}
Example(c, raises) == [case |-> c, raises |-> raises]
Given(does) ==
  [does |-> does, cleans |-> <<None, None, None>>, examples |-> <<>>, blob |-> None,
   phases |-> {"explicit", "reuse", "generate"}, deadline |-> TRUE, report_multiple_bugs |-> TRUE]

TwoBugs == Given(<<Does("return", "fast"), Does("A", "slow"), Does("B", "fast")>>)
Slow == Given(<<Does("return", "near"), Does("return", "slow"), Does("assume", "slow")>>)
Rejects == Given(<<Does("assume", "fast"), Does("stop", "fast"), Does("skip", "fast")>>)
Unreliable == Given(<<Does("A", "fast") \cup Does("return", "slow"),
                      Does("A", "fast") \cup Does("B", "fast"),
                      Does("stop", "fast") \cup Does("skip", "fast")>>)
Cleaning == [Given(<<Does("stop", "fast"), Does("assume", "fast"), Does("return", "slow")>>)
               EXCEPT !.cleans = <<"B", "A", None>>]
Failing == <<Example(1, {}), Example(2, {"A"}), Example(3, {}), Example(2, {}), Example(1, {"B"})>>
Passing == [TwoBugs EXCEPT !.examples = <<Example(1, {}), Example(2, {"A"})>>]
Marked == <<Example(1, {"A"}), Example(2, {"A"}), Example(3, {"skip"}), Example(3, {})>>

MCTests ==
  {TwoBugs, [TwoBugs EXCEPT !.report_multiple_bugs = FALSE], Slow,
   [Slow EXCEPT !.deadline = FALSE], Unreliable, Cleaning, Rejects,
   [Rejects EXCEPT !.examples = Marked], Passing}
  \cup {[Passing EXCEPT !.phases = p] : p \in {{}, {"explicit"}}}
  \cup {[TwoBugs EXCEPT !.examples = Failing, !.report_multiple_bugs = m, !.phases = p] :
          m \in BOOLEAN, p \in {{"explicit", "generate"}, {"reuse"}}}
  \cup {[x EXCEPT !.blob = c] : x \in {TwoBugs, Slow, Rejects}, c \in 1 .. 3}

MCCases == {1, 2, 3}
MCOrigins == {"A", "B"}

-----------------------------------------------------------------------------
MCProcs == {p1, p2}
MCKeys == {k1, k2}
MCValues == {v1, v2}

MCAlone  == (k1 :> {p1}) @@ (k2 :> {p1})
MCOwn    == (k1 :> {p1}) @@ (k2 :> {p2})
MCTogether == (k1 :> {p1, p2}) @@ (k2 :> {p1, p2})
MCOwners == {MCAlone, MCOwn, MCTogether}
MCCrossDevice == BOOLEAN

MCWritten == {w}
MCRefused == {{}, {[method |-> "delete", src |-> k, dest |-> k, value |-> w] : k \in {k1, k2}}}

-----------------------------------------------------------------------------
\* The component that moves, and one initial state of the others.
VARIABLE part

MCInit(parts) ==
  /\ part \in parts
  /\ SharedInit
  /\ part # "limiter" => limit = 9 /\ ~strict
  /\ part # "execution" => test = Slow
  /\ part \notin {"directory", "together"} => owner = MCAlone /\ ~exdev
  /\ part # "writer" => refused = {}
  /\ part = "together" <=> owner = MCTogether

\* With contexts that overlap, one generator and one context of each thread.
Pair == INSTANCE GlobalRandom WITH
  Generators <- {random}, Global <- random, Seeds <- {0}, MaxNesting <- 1,
  known <- hashes, top <- depth, frame <- context, outside <- left

MCNext ==
  /\ UNCHANGED part
  /\ \/ part = "limiter" /\ LimiterStep
     \/ part = "pair" /\ Pair!Next /\ UNCHANGED <<vars, ExecutionVars, DirectoryVars, WriterVars>>
     \/ part = "turns" /\ RandomStep /\ ~overlapped'
     \/ part = "execution" /\ ExecutionStep
     \/ part \in {"directory", "together"} /\ DirectoryStep
     \/ part = "writer" /\ WriterStep

MCVars == <<part, SharedVars>>

MCSpec ==
  /\ MCInit({"limiter", "pair", "turns", "execution", "directory", "writer"})
  /\ [][MCNext]_MCVars

\* Threads are alike, and so are the values saved.
Alike == Permutations(Threads) \cup Permutations({v1, v2})

LimiterSpec == MCInit({"limiter"}) /\ [][MCNext]_MCVars
TogetherSpec == MCInit({"together"}) /\ [][MCNext]_MCVars
PairSpec == MCInit({"pair"}) /\ [][MCNext]_MCVars
=============================================================================
