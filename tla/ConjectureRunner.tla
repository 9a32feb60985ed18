-------------------------- MODULE ConjectureRunner --------------------------
(***************************************************************************)
(* ConjectureRunner of internal/conjecture/engine.py, on the Hypothesis    *)
(* backend: what a run keeps in the example database and in memory, from   *)
(* run to run, across crashes and edits of the test.                       *)
(*                                                                         *)
(* Choice sequences are numbered in the order of sort_key; 0 is none.  A   *)
(* test says what each sequence does and what it plays as: itself when it  *)
(* is exact, a smaller one when some of it is unused or does not fit, and  *)
(* when it is short any of the larger ones that extend it at random.  It   *)
(* has settings, phases and report_multiple_bugs, and it may be flaky:     *)
(* then its failures need not replay.                                      *)
(***************************************************************************)
EXTENDS Integers, FiniteSets, FiniteSetsExt

CONSTANTS
  MaxChoice,        \* bound: the number of choice sequences
  Garbage,          \* database entries that cannot be decoded
  ShortLex,         \* the order of entries as bytes
  Origins,          \* InterestingOrigins: the bugs there are
  Tests,            \* the versions of the test function, with their settings
  MaxExamples,      \* settings.max_examples
  DesiredSize,      \* entries to load from the database
  InvalidBase, InvalidPerValid,   \* INVALID_THRESHOLD_BASE, INVALID_PER_VALID
  MaxShrinks        \* MAX_SHRINKS

ChoiceSeqs  == 1 .. MaxChoice
Entries  == ChoiceSeqs \cup Garbage
Outcomes == {"VALID", "INVALID"} \cup Origins
Phases   == {"reuse", "generate", "target", "shrink"}

ASSUME RunnerConstants ==
  /\ MaxChoice \in Nat /\ MaxExamples \in Nat /\ MaxShrinks \in Nat
  /\ InvalidBase \in Nat /\ InvalidPerValid \in Nat /\ DesiredSize \in Nat
  /\ Garbage \cap (0 .. MaxChoice) = {}
  /\ ShortLex \in [Entries -> Nat]
  /\ {"VALID", "INVALID"} \cap Origins = {}
  /\ Tests \subseteq [does     : [ChoiceSeqs -> Outcomes],
                     plays    : [ChoiceSeqs -> SUBSET ChoiceSeqs],
                     flaky    : BOOLEAN,
                     phases   : SUBSET Phases,
                     multiple : BOOLEAN]
  /\ \A t \in Tests : \A c \in ChoiceSeqs : \A d \in t.plays[c] :
       t.plays[d] = {d} /\ (d <= c => t.plays[c] = {d})

VARIABLES
  test,          \* the test function
  primary, secondary,   \* the database's two corpora for the test
  exit,          \* exit_reason; "none" while the run goes on
  pc,            \* the phase of the run
  todo, extra,   \* what its loop has still to try; the sample of secondary
  drop,          \* the entry to delete when the test function returns
  saving,        \* the choices being saved as the best of their origin
  ran,           \* what the data cache and the tree know
  interesting,   \* interesting_test_cases: origin -> best choices
  shrunk,        \* shrunk_test_cases
  target,        \* the origins being shrunk: one at most
  pins,          \* how often the data cache has pinned a key
  zero,          \* whether the zero data is pinned
  valid, invalid, shrinks,   \* counters; invalid counts overruns too
  found, exact,  \* found_interesting_in_primary, all_..._were_exact
  room,          \* len(corpus) < desired_size
  fast,          \* reused_previously_shrunk_test_case
  late,          \* whether finish_shrinking_deadline has passed
  resume,        \* history: the last run said that shrinking will resume
  tidy           \* history: what shrinking an origin arrived at

db      == <<primary, secondary>>
loop    == <<todo, extra, room, found, exact>>
shrink  == <<shrunk, target, tidy>>
effects == <<test, fast, late, resume>>
results == <<ran, interesting, pins, valid, invalid, shrinks, saving>>
vars    == <<test, primary, secondary, exit, pc, todo, extra, drop, saving, ran,
             interesting, shrunk, target, pins, zero, valid, invalid, shrinks,
             found, exact, room, fast, late, resume, tidy>>

ExitReasons == {"none", "new", "crash", "finished", "flaky", "error", "max_shrinks",
                "very_slow_shrinking", "max_examples", "max_iterations"}

Exact    == {c \in ChoiceSeqs : test.plays[c] = {c}}
Fails(d) == test.does[d] \in Origins
Found    == {o \in Origins : interesting[o] # 0}
None     == [o \in Origins |-> 0]

\* The first of a set of entries in the order of their bytes.
IsFirst(e, S) == e \in S /\ \A f \in S : ShortLex[e] <= ShortLex[f]

\* The run goes on, and no call of the test function is in progress.
Ready == exit = "none" /\ saving = 0 /\ drop = {}

LimitsReached(v, i) ==
  v >= MaxExamples \/ i > InvalidBase + InvalidPerValid * v

-----------------------------------------------------------------------------
\* test_function.

\* The end of test_function: the reason to stop the run here, if any.
StopReason(d, bugs, v, i, s, known) ==
  IF Fails(d) /\ s >= MaxShrinks THEN "max_shrinks"
  ELSE IF late THEN "very_slow_shrinking"
  ELSE IF bugs = {} /\ v >= MaxExamples THEN "max_examples"
  ELSE IF bugs = {} /\ LimitsReached(v, i) THEN "max_iterations"
  ELSE IF known = Exact THEN "finished"
  ELSE "none"

\* Mutants: the previous best is deleted; it stays pinned; the new one is
\* unpinned in its place.
DowngradeDeletes(o) ==
  IF interesting[o] = 0 THEN UNCHANGED db
  ELSE primary' = primary \ {interesting[o]} /\ UNCHANGED secondary
UnpinForgets(old, new) == pins
UnpinNew(old, new) ==
  [c \in ChoiceSeqs |-> IF c = new /\ old # 0 THEN pins[c] - 1 ELSE pins[c]]

\* downgrade_choices of the previous best of an origin: a move, by renaming its
\* file (DirectoryBasedExampleDatabase).
Downgrade(o) ==
  IF interesting[o] = 0 THEN UNCHANGED db
  ELSE /\ primary' = primary \ {interesting[o]}
       /\ secondary' = secondary \cup {interesting[o]}

Unpin(old, new) ==
  [c \in ChoiceSeqs |-> IF c = old THEN pins[c] - 1 ELSE pins[c]]

\* A call on choices that play as d: a new best first downgrades the old one.
TestFunction(d) ==
  LET o        == test.does[d]
      improves == Fails(d) /\ (interesting[o] = 0 \/ d < interesting[o])
      slips    == improves /\ interesting[o] # 0
  IN
  /\ ran' = ran \cup {d}
  /\ valid' = valid + (IF o = "VALID" THEN 1 ELSE 0)
  /\ invalid' = invalid + (IF o = "INVALID" THEN 1 ELSE 0)
  /\ shrinks' = shrinks + (IF slips THEN 1 ELSE 0)
  /\ UNCHANGED interesting
  /\ IF improves
     THEN /\ saving' = d /\ pins' = Unpin(interesting[o], d) /\ Downgrade(o)
          /\ UNCHANGED exit
     ELSE /\ exit' = StopReason(d, Found, valid', invalid', shrinks, ran')
          /\ UNCHANGED <<db, saving, pins>>

\* Mutant: an origin that is improved still counts as shrunk.
ShrunkKept(o) == shrunk

ShrunkWithout(o) == shrunk \ {o}

\* ... and then saves and pins the new one.
SaveBest ==
  LET o == test.does[saving] IN
  /\ exit = "none" /\ saving # 0
  /\ primary' = primary \cup {saving}
  /\ interesting' = [interesting EXCEPT ![o] = saving]
  /\ pins' = [pins EXCEPT ![saving] = @ + 1]
  /\ shrunk' = ShrunkWithout(o)
  /\ exit' = StopReason(saving, {o}, valid, invalid, shrinks, ran)
  /\ saving' = 0
  /\ UNCHANGED <<secondary, pc, loop, drop, ran, target, tidy, zero, valid, invalid,
                 shrinks, effects>>

\* cached_test_function: what was tried is answered from the cache or the tree.
CachedTestFunction(d) ==
  IF d \in ran THEN UNCHANGED <<results, db, exit>> ELSE TestFunction(d)

-----------------------------------------------------------------------------
\* reuse_existing_test_cases.

\* run(): load the corpus.
Begin ==
  /\ exit # "none"
  /\ \E some \in SUBSET secondary :
       /\ IF "reuse" \in test.phases
          THEN /\ Cardinality(some) =
                    Min({Cardinality(secondary),
                         Max({0, DesiredSize - Cardinality(primary)})})
               /\ todo' = primary
               /\ extra' = some
               /\ room' = (Cardinality(primary) + Cardinality(some) < DesiredSize)
          ELSE some = {} /\ todo' = {} /\ extra' = {} /\ room' = FALSE
  /\ exit' = "none" /\ pc' = "reuse"
  /\ drop' = {} /\ saving' = 0 /\ ran' = {} /\ interesting' = None
  /\ shrunk' = {} /\ target' = {} /\ tidy' = None
  /\ pins' = [c \in ChoiceSeqs |-> 0] /\ zero' = FALSE
  /\ valid' = 0 /\ invalid' = 0 /\ shrinks' = 0
  /\ found' = FALSE /\ exact' = TRUE /\ fast' = FALSE /\ late' = FALSE
  /\ resume' = (exit = "very_slow_shrinking")
  /\ UNCHANGED <<test, db>>

\* Entries that are not interesting any more are deleted from both corpora.
DropReused == primary' = primary \ drop /\ secondary' = secondary \ drop

\* The next entry e of the corpus plays as d.
ReuseEntry(e, d) ==
  LET isPrimary == e \in todo
      stops     == Fails(d) /\ ~test.multiple
  IN
  /\ pc = "reuse" /\ Ready
  /\ IsFirst(e, IF todo # {} THEN todo ELSE extra)
  /\ isPrimary \/ ~found
  /\ e \in ChoiceSeqs /\ d \in test.plays[e]
  /\ CachedTestFunction(d)
  /\ drop' = IF Fails(d) THEN {} ELSE {e}
  /\ found' = (found \/ (isPrimary /\ Fails(d)))
  /\ exact' = (exact /\ (isPrimary /\ Fails(d) => e = d))
  /\ todo' = IF stops THEN {} ELSE todo \ {e}
  /\ extra' = IF stops THEN {} ELSE IF isPrimary THEN extra ELSE extra \ {e}
  /\ UNCHANGED <<pc, room, shrink, zero, effects>>

\* "clear out any keys which fail deserialization"
ReuseGarbage(e) ==
  /\ pc = "reuse" /\ Ready
  /\ IsFirst(e, IF todo # {} THEN todo ELSE extra)
  /\ e \in todo \/ ~found
  /\ e \in Garbage
  /\ primary' = primary \ {e}
  /\ todo' = todo \ {e}
  /\ extra' = IF e \in todo THEN extra ELSE extra \ {e}
  /\ UNCHANGED <<secondary, exit, pc, drop, results, room, found, exact, shrink,
                 zero, effects>>

\* Mutant: what was tried is deleted from primary too.
DropClearedEverywhere == primary' = primary \ drop /\ secondary' = secondary \ drop

\* Entries of secondary that were tried are deleted, whatever they did.
DropCleared == UNCHANGED primary /\ secondary' = secondary \ drop

\* The test function returned: the entry just tried is deleted.
DropEntry ==
  /\ exit = "none" /\ saving = 0 /\ drop # {}
  /\ IF pc = "reuse" THEN DropReused ELSE DropCleared
  /\ drop' = {}
  /\ UNCHANGED <<exit, pc, results, loop, shrink, zero, effects>>

\* The fast path: all that failed in primary was exact, so it is not shrunk.
EndReuse ==
  /\ pc = "reuse" /\ Ready
  /\ todo = {} /\ (extra = {} \/ found)
  /\ fast' = (found /\ exact)
  /\ exit' = IF fast' THEN "finished" ELSE "none"
  /\ pc' = IF room /\ Found = {} THEN "pareto" ELSE "start"
  /\ UNCHANGED <<db, results, drop, loop, shrink, zero, test, late, resume>>

\* An entry of the pareto corpus, until one is interesting.
ParetoEntry(d) ==
  /\ pc = "pareto" /\ Ready
  /\ CachedTestFunction(d)
  /\ pc' = IF Fails(d) THEN "start" ELSE pc
  /\ UNCHANGED <<loop, drop, shrink, zero, effects>>

\* A step of the run that only moves it to another phase.
Goto(from, to) ==
  /\ pc = from /\ Ready
  /\ pc' = to
  /\ UNCHANGED <<db, exit, results, loop, drop, shrink, zero, effects>>

EndPareto == Goto("pareto", "start")

-----------------------------------------------------------------------------
\* generate_new_test_cases and optimise_targets.

BeginGenerate ==
  Goto("start", IF "generate" \notin test.phases THEN "target"
                ELSE IF Found # {} THEN "shrink" ELSE "zero")

IsZero(z) == z \in Exact /\ \A d \in Exact : z <= d

\* The simplest test case z is run first ...
RunZero(z) ==
  /\ pc = "zero" /\ Ready
  /\ IsZero(z)
  /\ CachedTestFunction(z)
  /\ pc' = "pin"
  /\ UNCHANGED <<loop, drop, shrink, zero, effects>>

\* ... and pinned forever.
PinZero(z) ==
  /\ pc = "pin" /\ Ready
  /\ IsZero(z)
  /\ pins' = [pins EXCEPT ![z] = @ + 1]
  /\ zero' = TRUE
  /\ pc' = "generate"
  /\ UNCHANGED <<db, exit, ran, interesting, valid, invalid, shrinks, saving, loop, drop,
                 shrink, effects>>

\* should_generate_more, but for how long to search on after the first bug.
MayGenerate ==
  /\ ~LimitsReached(valid, invalid)
  /\ Found = {} \/ ("shrink" \in test.phases /\ test.multiple)

\* A test case that was not tried before: generated, mutated or optimised.
Explore(d) ==
  /\ Ready
  /\ \/ pc = "generate" /\ (MayGenerate \/ "target" \in test.phases)
     \/ pc = "target" /\ "target" \in test.phases
  /\ d \in Exact \ ran
  /\ TestFunction(d)
  /\ UNCHANGED <<pc, loop, drop, shrink, zero, effects>>

\* One that overran its limit on length, from which nothing is learnt.
ExploreOverrun ==
  /\ pc = "generate" /\ Ready /\ MayGenerate
  /\ invalid' = invalid + 1
  /\ exit' = IF Found = {} /\ LimitsReached(valid, invalid')
             THEN "max_iterations" ELSE "none"
  /\ UNCHANGED <<db, pc, ran, interesting, pins, valid, shrinks, saving, loop, drop,
                 shrink, zero, effects>>

\* When should_generate_more is allowed to be false.
MayStop == LimitsReached(valid, invalid) \/ Found # {}

EndGenerate == MayStop /\ Goto("generate", "shrink")
EndTarget   == Goto("target", "shrink")

-----------------------------------------------------------------------------
\* shrink_interesting_test_cases.

\* Replay every failure, unless there is nothing to shrink.
BeginShrink ==
  /\ pc = "shrink" /\ Ready
  /\ IF "shrink" \notin test.phases \/ Found = {}
     THEN exit' = "finished" /\ UNCHANGED <<todo, pc>>
     ELSE /\ todo' = {interesting[o] : o \in Found}
          /\ pc' = "replay"
          /\ UNCHANGED exit
  /\ UNCHANGED <<db, results, extra, room, found, exact, drop, shrink, zero, effects>>

\* The deadline of five minutes passes.
TimePasses ==
  /\ exit = "none" /\ ~late
  /\ pc \in {"replay", "clear", "shrinking"}
  /\ late' = TRUE
  /\ UNCHANGED <<db, exit, pc, results, loop, drop, shrink, zero, test, fast, resume>>

\* A failure replays as the outcome as: as itself, or the test is flaky and
\* either stops the run or breaks the tree, which saves the choices.
Replay(d, as) ==
  /\ pc = "replay" /\ Ready
  /\ d \in todo /\ \A c \in todo : d <= c
  /\ as = test.does[d] \/ test.flaky
  /\ exit' = IF as \notin {test.does[d], "VALID"} THEN "error"
             ELSE IF late THEN "very_slow_shrinking"
             ELSE IF as = "VALID" THEN "flaky"
             ELSE StopReason(d, Found, valid, invalid, shrinks, ran)
  /\ primary' = IF exit' = "error" THEN primary \cup {d} ELSE primary
  /\ valid' = valid + (IF as = "VALID" THEN 1 ELSE 0)
  /\ todo' = todo \ {d}
  /\ UNCHANGED <<secondary, pc, ran, interesting, pins, invalid, shrinks, saving, extra,
                 room, found, exact, drop, shrink, zero, effects>>

\* clear_secondary_key.
BeginClear ==
  /\ pc = "replay" /\ Ready /\ todo = {}
  /\ todo' = IF "reuse" \in test.phases THEN secondary ELSE {}
  /\ pc' = "clear"
  /\ UNCHANGED <<db, exit, results, extra, room, found, exact, drop, shrink, zero, effects>>

\* What an entry plays as when it is not extended: nothing when it is short.
Unextended(e) ==
  IF e \in ChoiceSeqs THEN {d \in test.plays[e] : d <= e} ELSE {}

\* The next entry is deleted once tried, unless it is worse than every failure.
ClearEntry(e) ==
  LET worst == Max({ShortLex[interesting[o]] : o \in Found}) IN
  /\ pc = "clear" /\ Ready
  /\ IsFirst(e, todo)
  /\ \/ /\ e \in Garbage \/ ShortLex[e] <= worst
        /\ \/ \E d \in Unextended(e) : CachedTestFunction(d)
           \/ Unextended(e) = {} /\ UNCHANGED <<results, db, exit>>
        /\ todo' = todo \ {e}
        /\ drop' = {e}
     \/ /\ e \in ChoiceSeqs /\ ShortLex[e] > worst
        /\ todo' = {}
        /\ UNCHANGED <<results, db, exit, drop>>
  /\ UNCHANGED <<pc, extra, room, found, exact, shrink, zero, effects>>

EndClear == todo = {} /\ Goto("clear", "shrinking")

\* The next failure to shrink is the smallest that is not shrunk yet.
PickTarget ==
  /\ pc = "shrinking" /\ Ready /\ target = {}
  /\ IF Cardinality(shrunk) < Cardinality(Found)
     THEN /\ \E o \in Found \ shrunk :
               /\ \A p \in Found \ shrunk : interesting[o] <= interesting[p]
               /\ target' = {o}
          /\ UNCHANGED exit
     ELSE exit' = "finished" /\ UNCHANGED target
  /\ UNCHANGED <<db, pc, results, loop, drop, shrunk, tidy, zero, effects>>

\* The shrinker and the explain phase try other choices.
ShrinkTry(d) ==
  /\ pc = "shrinking" /\ Ready /\ target # {}
  /\ d \in Exact \ ran
  /\ TestFunction(d)
  /\ UNCHANGED <<pc, loop, drop, shrink, zero, effects>>

\* Mutant: that a failure was shrunk is not noted.
ShrunkForgotten == shrunk

ShrunkWith == shrunk \cup target

\* The shrinker gives up.  Reporting one bug, one is shrunk.
ShrinkDone ==
  /\ pc = "shrinking" /\ Ready /\ target # {}
  /\ tidy' = [o \in Origins |-> IF o \in target THEN interesting[o] ELSE tidy[o]]
  /\ IF test.multiple
     THEN shrunk' = ShrunkWith /\ target' = {} /\ UNCHANGED exit
     ELSE exit' = "finished" /\ UNCHANGED <<shrunk, target>>
  /\ UNCHANGED <<db, pc, results, loop, drop, zero, effects>>

-----------------------------------------------------------------------------
\* A crash or KeyboardInterrupt: only the database survives.
Crash ==
  /\ exit = "none"
  /\ exit' = "crash"
  /\ drop' = {} /\ saving' = 0
  /\ UNCHANGED <<db, pc, loop, ran, interesting, pins, valid, invalid, shrinks, shrink,
                 zero, effects>>

\* Between runs, the test is edited.
EditTest ==
  /\ exit # "none"
  /\ exit' = "new"
  /\ test' \in Tests
  /\ UNCHANGED <<db, pc, results, loop, drop, shrink, zero, fast, late, resume>>

Init ==
  /\ test \in Tests
  /\ primary \in SUBSET Garbage /\ secondary \in SUBSET Garbage
  /\ exit = "new" /\ pc = "reuse"
  /\ todo = {} /\ extra = {} /\ room = FALSE /\ found = FALSE /\ exact = TRUE
  /\ drop = {} /\ saving = 0 /\ ran = {} /\ interesting = None
  /\ shrunk = {} /\ target = {} /\ tidy = None
  /\ pins = [c \in ChoiceSeqs |-> 0] /\ zero = FALSE
  /\ valid = 0 /\ invalid = 0 /\ shrinks = 0
  /\ fast = FALSE /\ late = FALSE /\ resume = FALSE

Run ==
  \/ SaveBest \/ DropEntry
  \/ \E e \in Entries :
       ReuseGarbage(e) \/ ClearEntry(e) \/ \E d \in ChoiceSeqs : ReuseEntry(e, d)
  \/ EndReuse
  \/ \E d \in Exact :
       \/ ParetoEntry(d) \/ RunZero(d) \/ PinZero(d) \/ Explore(d) \/ ShrinkTry(d)
       \/ \E as \in Outcomes : Replay(d, as)
  \/ EndPareto \/ BeginGenerate \/ ExploreOverrun \/ EndGenerate \/ EndTarget
  \/ BeginShrink \/ BeginClear \/ EndClear
  \/ PickTarget \/ ShrinkDone

Next == Begin \/ Run \/ TimePasses \/ Crash \/ EditTest

Spec == Init /\ [][Next]_vars /\ WF_vars(Run)

-----------------------------------------------------------------------------
\* Every variable of the runner keeps its type; what is shrunk, or being shrunk,
\* was found (shrunk_test_cases and interesting_test_cases).
TypeOK ==
  /\ test \in Tests
  /\ primary \subseteq Entries /\ secondary \subseteq Entries
  /\ exit \in ExitReasons
  /\ pc \in {"reuse", "pareto", "start", "zero", "pin", "generate", "target", "shrink",
             "replay", "clear", "shrinking"}
  /\ todo \subseteq Entries /\ extra \subseteq Entries /\ drop \subseteq Entries
  /\ saving \in 0 .. MaxChoice
  /\ saving # 0 => Fails(saving)
  /\ ran \subseteq ChoiceSeqs
  /\ interesting \in [Origins -> 0 .. MaxChoice]
  /\ shrunk \subseteq Found /\ target \subseteq Found
  /\ tidy \in [Origins -> 0 .. MaxChoice]
  /\ pins \in [ChoiceSeqs -> Nat]
  /\ valid \in Nat /\ invalid \in Nat /\ shrinks \in Nat
  /\ {zero, found, exact, room, fast, late, resume} \subseteq BOOLEAN

\* Unless it is being replaced, the best choices of every failure found so far
\* are in the primary corpus: reported failures can be replayed.
BestIsSaved ==
  exit \notin {"new", "crash"} /\ saving = 0 =>
    \A o \in Found : interesting[o] \in primary

\* At every step, crashes included, an entry of the database that still fails
\* is given up only for one at least as good, of the same bug, in primary.
NothingLost ==
  [][\A e \in (primary \cup secondary) \ (primary' \cup secondary') :
       \A d \in Unextended(e) : Fails(d) =>
         \E f \in primary' \cap Exact : test.does[f] = test.does[d] /\ f <= d]_vars

\* The data cache pins the best failures and the zero data, each as often as it
\* is one of these, so nothing else is kept from eviction, and none of these is
\* ever unpinned too often.
PinsMatch ==
  exit = "none" /\ saving = 0 =>
    \A c \in ChoiceSeqs :
      pins[c] = Cardinality({o \in Found : interesting[o] = c})
                  + (IF zero /\ IsZero(c) THEN 1 ELSE 0)

\* A run that ends because nothing is left to do, and was not cut short by the
\* fast path or by exhausting the test, has shrunk every failure as it is.
AllShrunk ==
  exit = "finished" /\ test.multiple /\ pc = "shrinking" /\ ran # Exact =>
    \A o \in Found : tidy[o] = interesting[o]

\* Every run comes to an end.
RunsEnd == exit = "none" ~> exit # "none"

\* "When you re-run your tests, shrinking will resume": the run after one that
\* ran out of time for shrinking does not take the fast path past it.
ShrinkingResumes == ~(resume /\ fast)
=============================================================================
