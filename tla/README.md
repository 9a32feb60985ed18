# Hypothesis in TLA+

A model of the parts of Hypothesis (`src/hypothesis/src/hypothesis/`) in which
order, failure, concurrency and bookkeeping matter: the engine that generates
and shrinks test cases, the database that remembers them between runs, the
caches, limits and generators that threads share, the execution of a test and
its report, stateful testing, and the strategies, from the choices they draw to
the bounds they compute. The
modules are checked with TLC on small instances, and the most important
invariants are proved with TLAPS for every value of the constants.

`PROJECT.json` lists components, runs, properties with the bug that each of them
would catch, the source lines of every definition, findings, hazards and
theorems. To repeat a check or a proof, in this directory:

    tlc -workers 2 -config MCConjectureRunner.cfg MCConjectureRunner
    tlapm ConjectureRunnerProofs.tla

## 1. The system

A test decorated with `@given` is run by `core.py`, which hands a function of a
`ConjectureData` to a `ConjectureRunner`. The runner replays what the database
has, generates new choice sequences, and shrinks those that fail. Every test case
is recorded in a `DataTree`; results are kept in an LRU cache; failures in the
example database.

    @given (core.py) ──> ConjectureRunner (engine.py) ──> ConjectureData (data.py) ──> test
       │                   │   │   │   └─ Shrinker, Optimiser, ParetoFront     │ draw
       │ replay, deadline  │   │   └─ LRUReusedCache (pinned results)       strategies, stateful
       v                   │   └─ DataTree  <── TreeRecordingObserver ────────┘
     report                └─ ExampleDatabase (other processes and runs)
    shared by threads: recursion limit, global PRNG, observability callbacks, strategy cache

### Inventory

| Component (code) | State | Operations | What is hard | What makes it correct |
|---|---|---|---|---|
| Recursion limit (`junkdrawer.py` `StackframeLimiter`) | one process-wide limit, count of contexts, limits it knows | enter and exit of `ensure_free_stackframes` from several threads | exits in any order, foreign changes, warnings raised as errors | count matches contexts; the outside limit is restored; a context has its frames |
| Choice tree (`datatree.py`) | radix tree of nodes, forced indices, transitions, cached exhaustion | record a draw, kill, conclude, novel prefix, simulate | splits of splits, forced draws, discards, overruns, flaky tests | the tree is what the test did; prefixes are novel; predictions are right; exhaustion means exhausted |
| Test case runner (`engine.py`) | best failure per origin, cache, counters, phases, exit reason, three corpora | reuse, generate, target, shrink, clear | crashes between database calls, edits of the test, time limits, slips between bugs | a saved failure is never lost; every failure is shrunk; every run ends |
| Test case data (`data.py`) | prefix, choices, spans, status, overrun | draw, start/stop span, mark, conclude, freeze | misaligned prefixes, `StopTest` through nested spans | spans balance; one conclusion; nothing after freezing |
| Example database (`database.py`) | directories and files; a metakey; listeners; a write queue | save, delete, move, fetch, listen | several processes, crashes between file system calls, background writes | a save sticks; keys are listed; a move leaves one copy |
| Caches (`cache.py`) | a heap of entries with scores and pins, and its index | get, set, pin, unpin, clear | scores of pinned entries change without rebalancing | the heap is valid; the right entry is evicted; pinned ones stay |
| Shrinker (`shrinker.py`, `shrinking/`) | target, passes, call budgets | passes over nodes and spans, adaptive deletion, explain | restarts, stale indices after an improvement, budgets | targets only improve; passes reach a fixed point |
| Target optimiser, Pareto front (`optimiser.py`, `pareto.py`) | best score; a mutually non-dominating set | hill climb; add with evictions | evictions while iterating, listeners | the front dominates what it dropped |
| Other structures (`junkdrawer.py`, `choice.py`, `utils.py`) | `LazySequenceCopy`, `IntList`, `find_integer`, `many` | algorithms | aliasing of deleted indices, off-by-one | equality with a plain list or definition |
| Test execution (`core.py`) | thread overlap, deadline, falsifying examples | `execute_once`, replay, report | flaky replays, deadlines under threads, recursion | deadlines count only alone; a reliable test is not called flaky; failures reach the caller |
| Build context (`control.py`) | context variable, cleanups | `assume`, `note`, `cleanup` | failing cleanups, nested contexts | every cleanup runs once |
| Stateful testing (`stateful.py`, `featureflags.py`) | initialize rules left, bundles, names, flags, the printed program | select, draw, execute, print, check, teardown | consumption, several targets and results, lazily decided flags, early stops | the printed program does what the run did |
| PRNG management (`entropy.py`) | seeds and states of registered generators | `deterministic_PRNG`, register | overlapping threads, garbage collection | the state outside is restored |
| Observability (`observability.py`) | callback lists per thread and for all | add, remove, deliver | changes while delivering | every callback sees every observation |
| Thread-local helpers (`utils/`) | variables per thread | `with_value` | | scopes nest |
| Providers (`providers.py`) | caches of constants, distributions | draw | randomness | alignment with the choice constraints |
| Strategies (`strategies/`) | cached properties, lazy and deferred definitions | draw, filter, invert, validate | replays of any choices, conditions rewritten as bounds, spans left open | what is drawn is what was asked for; what was recorded replays; filters rewritten accept the same |
| Choices (`choice.py`, `internal/floats.py`, `intervalsets.py`, `charmap.py`) | cache of categories | index, permitted, children, encode | boundaries, widths, signs of zero, empty sets | the index is the place in the order; the children are all the values; a torn entry loses only its end |
| Settings (`_settings.py`) | profiles | register, load, inherit | | |
| Reflection, integrations, reporting | none that lasts | text, signatures, plugins | | |

What is hard to test in this code is listed line by line, with the properties
that would catch it, under "hazards" in `PROJECT.json`.

## 2. The modules

| Module | Models | Composes |
|---|---|---|
| `StackframeLimiter` | the recursion limit among threads | |
| `GlobalRandom` | the random generators: contexts that seed and restore them, the warning about strategies that use them | |
| `TestExecution` | a call of a test, from explicit examples to the report, by several threads | the engine is external to it |
| `DirectoryDatabase` | the directory database as calls of the file system | |
| `BackgroundWriter` | a database whose writes a thread does in the background | |
| `Shared` | the five of them side by side | all five, with what is proved of them |
| `Trie` | abstract: what a choice tree knows, and when it may claim to be done | |
| `DataTree` | the radix tree and its observer | implements `Trie` |
| `ConjectureRunner` | runs of the engine over a database | sees tree, cache and shrinker through their promises |
| `ReusedCache` | abstract: the bounded map with pins | |
| `HeapCache` | `GenericCache` with the scores of `LRUReusedCache` | implements `ReusedCache` |
| `ResultCache` | the engine's cache of results, a `HeapCache` under names of its own | |
| `TestCase` | `ConjectureData`: draws, spans, conclusions | |
| `Strategies` | `do_draw` and `_invert` of every kind of strategy | extends `TestCase` |
| `Drawing` | test cases that draw from a strategy, whatever is replayed | extends `Strategies` |
| `Shrinking` | the shrinkers of single values and of orders, `find_integer` | |
| `ShrinkPasses` | the passes over nodes and spans, and what counts as a success | extends `Strategies` and `Shrinking` |
| `ChoiceTree`, `Shrinker` | the choices of passes, and the loop that schedules them | `Shrinker` extends `ChoiceTree` |
| `Floats`, `Numbers` | the order of floats; `integers()` and `floats()` and their filters | `Numbers` extends `Floats` |
| `Text` | interval sets, categories, alphabets, `text()` and its filters | |
| `Choices` | indices, children and bytes of choices | extends `Floats` |
| `FeatureFlags` | swarm flags, decided when asked for | |
| `StateMachine` | one test case of a `RuleBasedStateMachine` | uses `FeatureFlags` |
| `*Proofs` | theorems; `DataTreeProofs` is about `Trie` and `DataTree`, `ConjectureRunnerProofs` about `ConjectureRunner`, `ReusedCache` and `HeapCache`, `SharedProofs` about `StackframeLimiter` and `Shared`, the others about the module of that name | |
| `MC*` | small instances | a run's behaviors are each of one component |

### StackframeLimiter

`limit` is `sys.getrecursionlimit()`, `active`, `known`, `original` are the
fields of the limiter, `frame[t][l]` the `old_limit` and `new_limit` of the
context that thread `t` opened at level `l`. `__enter__` is two steps
(`EnterLock`, then `EnterContext`, `EnterContextWarns` or `EnterContextRaises`)
because the limit it read is not protected by the lock: code outside
(`OutsideSet`) can change it in between. `__exit__` is one step under the lock.
`strict` is the warnings filter: the two warnings may be errors.

### GlobalRandom

`state` holds the state of every generator, `managed` is `RANDOMS_TO_MANAGE`,
`known` the set of announced states, `frame[t][l]` what context `l` of thread
`t` is doing: a context saves and seeds one generator after another and gives
the states back one after another, so the contexts of two threads interleave
call by call. `before[t]` is `state_before` of the draw that `t` watches; `used`
and `outside` are histories. Generators may be registered and dropped meanwhile.

### TestExecution

`test` is a decorated function with its settings: what it may do with each case
and in what time, its explicit examples, its blob. `call[t]` is how far the call
of thread `t` is: `wrapped_test` from `@reproduce_failure` over the explicit
examples to the engine and the replay of its failures. A test case has a `Begin`
and an end, and other threads come and go between them; `thread_overlap` is that
of the code. The engine runs cases in any order (`ConjectureRunner` says more).
Validation of arguments, async tests and explanations are left out.

### DirectoryDatabase and BackgroundWriter

In `DirectoryDatabase` a step is one call of the file system: `mkdir`, the
existence check, `rename` of the written temporary file, or, across devices,
create and fill; `unlink` and `rmdir`; and the calls of `move` with its fallback
to delete and save. `stack[p]` is what process `p` has still to do, since the
operations call each other. `Crash` may come anywhere. `kept` is the history of
what was promised: sets of files of which one has to exist.

`BackgroundWriter` has the queue with its count of unfinished tasks, the worker
threads, and the clients, whose calls put a write, find or start a worker, and
wait. `refused` are the writes at which the database behind raises. `asked` is
the history of the database as each request would have made it at once.

### Shared

The five components as they meet in a process that runs tests: a step of the
whole is a step of one of them. `MCShared` lets one of them move in a behavior,
as they read nothing of each other; `SharedProofs` carries every theorem about a
component over to the whole, for any interleaving and all constants.

### Trie and DataTree

A `Trie` knows facts, one per position: a draw of some kind there, forced or
not, a conclusion, a discard. A step may `Learn` one more at the edge of what is
known, and may claim (`done`) that nothing is left.

In `DataTree` a `TreeNode` is a record named by the position it starts at:
`kinds` and `values` are the parallel lists, `forced` the forced indices, `trans`
the transition. `cur`, `idx`, `killed` are the observer's fields. `DrawAgain`,
`DrawNew`, `DrawFollow` are the branches of `draw_value`, with `ForcedAfter` and
the split in them; `KillBranch`, `ConcludeTest` (with `UpdateExhausted`, the walk
back along the trail) the other two calls. `StartNovel` starts a test case with
`generate_novel_prefix`, `StartAny` with an empty prefix, and `Abandon` ends one
by overrunning. `Simulate` is `simulate_test_function`: the nodes it enters are
`Simulated`, and the last of them answers (`SimulateNode`). The test function is not
given: `prog` is chosen as the run goes on, so TLC covers every test function
with so many draws. If `flaky`, a test may do anything at a position it has been
at. `Recorded` is what the nodes of a tree say of single positions, and `Unfold`
the same as a function, which is what `Trie` knows.

### ConjectureRunner

Choice sequences are numbers in the order of `sort_key`; a test says what each
does and as what it plays (itself; a smaller one if some of it is unused or does
not fit; for a short one any extension), and has settings. `primary` and
`secondary` are the two corpora, `pc` the phase, and one action is one call of the
test function together with what `test_function` does before and after it, split
where it calls the database: `TestFunction` downgrades the old best, `SaveBest`
saves and pins the new one, `DropEntry` deletes the entry just replayed. `Crash`
may come between any two steps and `EditTest` between runs. `TimePasses` is the
five minute limit. The shrinker is seen through what it may call (any sequence
not tried before), the optimiser and generation likewise, the cache and the tree
through what the runner uses them for: what was tried is not run again (`ran`),
pinned keys (`pins`), exhaustion (`ran = Exact`). Health checks, observability,
alternative backends and the pareto corpus's own contents are not modelled.

### ReusedCache and HeapCache

`HeapCache` has the array `data`, the index and the order of ticks of the code.
`BubbleUp` and `BubbleDown` are one turn of the loops of `__balance`, which takes as
many turns of each as there are entries; a turn after the loop has ended changes
nothing. The refinement maps it to `ReusedCache`, a map
with pins and, in place of ticks, a relation that says which key was used less
recently.

### TestCase, Strategies, Drawing

A test case is a record that every operation of `ConjectureData` returns changed;
an exception on its way up is `d.raised`. A strategy is a record that says its
class and what it was built from; `DoDraw` is `do_draw` of each class (lists with
`many`, unique lists, `sampled_from`, `one_of`, filters with their three attempts,
maps, flatmaps, fixed dictionaries, recursive strategies with their limit), and
`Invert` is `_invert`. `Drawing` draws from one strategy of every kind, given
every prefix of up to five choices, of the right types or not.

### Shrinking, ShrinkPasses, ChoiceTree, Shrinker

A shrinker of one value asks a predicate; since a predicate runs the test and
changes the state of the shrinker above, predicates take the owner and return it
(`FindInteger`, `IntegerShrink`, `OrderingShrink` are operators with the predicate
as a parameter, of `find_integer`, `Integer` and `Ordering`). `ShrinkPasses` has an
owner with the target and the nodes seen to change together; `Considered` and
`CachedTest` run the test on an attempt, `Judged` says whether it counts; each pass
of `shrinker.py` is an operator, and a step is one pass at one of the places that
its chooser picks. `Shrinker` leaves open what a pass finds and models the
loop of `fixate_shrink_passes`, with the choice trees of `ChoiceTree`, orders,
budgets and the reset of trees at a new target.

### Floats, Numbers, Text, Choices

A float is its magnitude with a sign; reals between floats are counted in thirds.
`Numbers` has the arguments of `integers()` and `floats()`, their validation and
normalisation, and `filtering.py`'s reading of a condition as bounds. `Text` has
`IntervalSet`, `charmap.query` with the caches, `characters()`, `text()` and the
filters it rewrites. `Choices` has `choice_to_index` and its inverse, what is
permitted and trivial, `compute_max_children` and `all_children`, the lexicographic
order of floats, and `choices_to_bytes` with `choices_from_bytes`.

### FeatureFlags and StateMachine

A test case of a state machine is a loop: `Stop` or `GoOn`, a selection
(`SelectInitialize`; or `SelectRules` and then `LookDisabled`, `LookTakes`,
`LookKeeps`, `ChooseAllowed`, `NoneAllowed`, which are `do_filtered_draw` with
the filter of `RuleStrategy`), arguments drawn from bundles one after another
(`DrawArgument`, `RejectArgument`), the execution (`ExecuteReturns`,
`ExecuteNone`, `ExecuteRaises`: adds results, prints the step) and the invariants
(`CheckInvariants`). `Overrun` may come at every draw, and `Teardown` at the end.
`printed` is the program as the code prints it: arguments by name or as literals,
assignments rebuilt from the last names. `calls` is the history of what was
really called, with objects. The order in which rules are looked at is left open;
the code draws it.

## 3. What the runs show

A run that has several components lets one of them move in each behavior; their
state spaces add up and do not multiply.

| Run | Checks | Bounds, and why they are enough |
|---|---|---|
| `shared` | `RestoresOutsideLimit`, `AloneRestoresOutside`, `WarnsOnlyOfUse`, `DeadlineOnlyAlone`, `ReliableIsNotFlaky`, `FailuresAreReported`, `OwnSavesStick`, `FetchIsNotStuck`, `FetchSeesWrites` | limiter: 2 threads, 2 nested contexts each (the engine's and `execute_once`'s), 3 outside limits: one to restore, one to change to, one in between. Generators: 2 threads that overlap with one generator, one context each and seed 0; or taking turns with two generators, nesting 2 and seeds 0 and 1; one number drawn after a seed, enough to tell a state from the seeded one. Tests: 24 tests of three cases, two threads, `MaxRuns` 2: every kind of end, deadline, example and setting, a failure and one better. Directory: 2 processes, 2 keys, 2 values; one process with both keys, or each with its own; renames that work or not. Writer: 2 clients, 2 keys, `MaxCalls` 3: two workers, with a write to overtake |
| `tree` | `TreeIsFaithful`, `NovelPrefixesAreNovel`, `SimulationAgrees`, `ImplementsTrie` (flaky tests included) | 2 draws, of a kind with one value (a pseudo-choice) or two; enough for splits at both indices, forced draws before and after a split, discards, overruns |
| `runner` | `BestIsSaved`, `PinsMatch`, `AllShrunk`, `NothingLost`, `RunsEnd`; and, of a tree that only generates, `GenerationExhausts` | 5 sequences, 2 bugs, 1 undecodable entry, 5 tests (one plays entries as others, two are flaky, search with targets and report one bug), 3 examples, 2 shrinks: each limit is reached by some run and missed by others; any number of runs, as only the database lasts. The tree: 3 draws of two values, so that children of splits are split again |
| `stateful` | `PrintedProgramReplays`, `BundlesKeepResults`, `SomeRuleStaysEnabled` | 4 steps: 2 initialize rules, 2 rules; up to 2 results to 2 targets, one bundle twice among them, an object that prints as itself; one rule consumes twice |
| `shrinking` | `FixedPointIsLocallyMinimal`, `NoPassLeftBehind`, `DrawnAsPromised`, `RecordedChoicesReplay`, `InvertsRoundTrip`, `TargetOnlyImproves`, `PathsTriedOnce`, `ImplementsReused` | 8 tests of up to nine choices, one for each kind of dependence (sums, differences, orders, sizes, branches, filters, recursion); one triple of `extras` serves all extended reruns of a step, two triples are tried; two passes over choice trees of width 3, two failures, a stall of 4 calls; prefixes of up to 5 choices, and of 11 on which a list gives up; 4 places and 5 keys, with two values or with two pins: a heap of three levels and evictions from it |
| `values` | `DrawsWhatIsAsked`, `NothingIsFilteredAway`, `IntervalsAreCanonical`, `CharactersAsDocumented`, `FilteredTextIsExact`, `IndexIsPlace`, `TrivialIsSimplest`, `ChildrenAreEnumerated`, `TornEntriesLoseTheEnd` | magnitudes 0..12 (12 is infinite), every other one narrow from 4 on, reals in thirds, two filters; 8 code points, strings of up to 3, two calls of `characters()`, two filters; floats with 3 bits of exponent and 2 of mantissa, bytes with 2 bits of size so that sizes spill over, two choices in an entry, alphabets of up to 3. Conditions that are known to be rewritten wrongly (section 5) are left out, and only those (`Fine`) |
| `limiter_frames` | `KeepsFramesFree` is violated | as `shared` |
| `random_shared` | `RestoresOutside` is violated | as `shared`, contexts that overlap |
| `database_shared` | `SavesStick` is violated | as `shared`, with shared keys |
| `runner_resumes` | `ShrinkingResumes` is violated | as `runner` |
| `shrinking_spans` | `SpansAreClosed` is violated | as `shrinking`, a unique list over a pool of two |
| `numbers_filtered` | `FilteredAsDocumented` is violated | as `values`, all conditions with finite bounds |

All runs say `CHECK_DEADLOCK FALSE`, because each of their systems really stops
somewhere: a tree that is exhausted or whose recording broke, a test case, a
shrink or a test that has ended, a strategy that is made, a writer that exits. That
nothing stops too early is what `RunsEnd`, `GenerationExhausts`, `FetchIsNotStuck`,
`FixedPointIsLocallyMinimal` and `NoPassLeftBehind` are for.

Some of what the properties say, in words:

* `NothingLost` is about every step of every run, crashes included: an entry of
  the database that still fails disappears only in favour of an entry of the same
  bug that is at least as good. It holds because `downgrade_choices` comes before
  the save of the better choices and never deletes.
* `SimulationAgrees` compares each prediction of the tree with running the test
  function as the history knows it, for every sequence of choices.
* `PrintedProgramReplays` runs the printed program in an environment of its own, in
  which a name holds what the last line to bind it says: each line calls the rule
  with the objects that the run passed, and at the end every name holds what the
  machine holds.
* `BundlesKeepResults` numbers what calls returned to a bundle, by call, target and
  result, without a look at the names: the n-th result is the value of the name
  with that number, and the bundle holds the names that were not consumed, in order.
* `OwnSavesStick` is about keys that one process uses, under metakey and parent
  directories that all use: any crash, any order of the others' calls.
* `DrawsWhatIsAsked` counts a strategy that fails at every draw as wrong, though it
  draws nothing that was not asked for. It makes three exceptions, all reported in
  section 5 and each told by its bounds alone: a strategy from 0.0 to -0.0
  (`ZerosCrossed`), `math.isfinite` of a strategy that has only an infinity
  (`InfinitiesCrossed`), and, where subnormal numbers are excluded, a bound that is
  itself subnormal (`SubnormalBounds`).
* `NothingIsFilteredAway` allows one of two promised zeros to go if the other can be
  drawn, since a bound of 0.0 excludes -0.0 and no condition can tell them apart;
  both only in a strategy from 0.0 to -0.0.
* `IndexIsPlace` compares the index of an integer, a boolean or a collection with
  counting the simpler values. Of floats it says less: no two of them, NaN with a sign
  included, have one index, and each but that NaN is found again.
* `FixedPointIsLocallyMinimal` compares the end of a shrink with attempts made by
  hand: no value lowered, node deleted or span replaced is still a smaller failure.

### Fairness

`ConjectureRunner` assumes weak fairness of `Run`, the steps of the runner itself:
it is one thread that runs until it ends. Nothing forces `Crash`, `TimePasses`,
`EditTest` or the start of another run. `RunsEnd` then says that no phase loops
for ever; what ends them is that a sequence tried is not run again, and that a
failure has only finitely many better ones. The tree that only generates assumes
weak fairness of generation for the same reason, and lets each test case come to
a conclusion, since test cases abandoned by overruns may be for ever. All other
specifications are safety only and assume nothing.

## 4. What is proved

TLAPS proves these for all threads, limits, tests, choices, caches and machines
that meet the named assumptions on constants (`*Constants`; TLC evaluates them on
the instances). The assumptions say what the code's types say: numbers are
naturals, sets of threads are finite, `None` is no case, the module `random` is
among the generators, a test plays as what it could be run as, a draw has finitely many
values (`compute_max_children` counts them; where it gives up, the code samples
under a bound) and at least one.

| Theorem | Says | Argument |
|---|---|---|
| `SharedProofs!TypeCorrect`, `CounterCorrect` | `TypeOK`, `ActiveCountsOpenContexts` of the limiter | inductive with the bound of the lock holder (`LockHolderEnters`); lemmas on how the finite set of open contexts grows and shrinks |
| `SharedProofs!LimitRestored` | `RestoresOutsideLimit` | `LimitIsAccountedFor`: while contexts are open, a known limit stands for the original one and an unknown one was set outside. It needs the comment's premise that outside code does not pick one of the limiter's own values |
| `GlobalRandomProofs!NotedDrawsUsed` | `WarnsOnlyOfUse` | `ChangesAreKnown`: as long as nobody used `random`, a watched draw sees the state it began with or one that was announced (`_known_random_state_hashes`) before it came about; `FrameInv`: the lists of every open context are well formed |
| `GlobalRandomProofs!TurnsRestoreOutside` | `AloneRestoresOutside` | `PromisesKept`: while threads take turns, the outermost context that has a state of a generator has the one that must be there in the end, and a generator that no context will restore is in it already |
| `BackgroundWriterProofs!FetchesEnd` | `FetchIsNotStuck` | `WriterInv`: the unfinished tasks are those in the queue and in the hands of workers, and none is put without a worker started or about to be |
| `BackgroundWriterProofs!FetchIsCurrent` | `FetchSeesWrites` | `InOrder`: with one worker, the database is the one asked for up to some write, the next is in its hands, the rest are in the queue |
| `TestExecutionProofs!OnlyAloneIsLate` | `DeadlineOnlyAlone` | `OverlapInv`: threads in the test have an entry in `thread_overlap`, which is set as soon as there are two |
| `TestExecutionProofs!ReliableStaysReliable`, `FailuresReachTheCaller` | `ReliableIsNotFlaky`, `FailuresAreReported` | `CallsInv`: what a call holds is settled: a case of a reliable test concludes for the engine as it did before, each failure to replay is one that the engine holds, and one that was replayed is reported as a failure |
| `DirectoryDatabaseProofs!OwnSavesStay` | `OwnSavesStick` | `Safe`: with one device nothing is torn (`Types`); what a process found out about its own key is still true when it acts on it (`TopOK`), because a step of another process changes nothing under keys it does not use (`Local`, `KeptLocal`); the last frame of an operation saves what is pending (`PendingOK`); a value being moved is kept under source or destination (`KeptOK`) |
| `SharedProofs!Shared...` | the eight properties above, of `Shared` | every step of the whole is a step of one component and stutters for the others (`RunsRandom` and its like), so `SharedSpec` implies the specification of each |
| `DataTreeProofs!DoneIsSound` | a claim of exhaustion stays true | nothing reopens a position: `Learn` only adds at the edge |
| `DataTreeProofs!TreeTypeCorrect`, `TreeFaithful` | `TypeOK` and `TreeIsFaithful` of `DataTree` | `TreeInv`: the tree is `Sound` (each node is in shape, no position is recorded by two nodes (`Apart`), each node but the root is entered from another one (`Entered`) and each way on leads to a node (`Closed`), a node is marked exhausted only when all that follows it was tried (`Spent`)), and the observer stands where the test function does. Each change of the tree (`Append`, split, new child, kill, conclusion, recheck) gives a sound tree that records the same or one step more (`Becomes`) |
| `DataTreeProofs!TreeImplements` | `ImplementsTrie` | the same lemmas map each action to `Learn` or a stutter; `RootExhausted`: were a position of the frontier left below an exhausted root, the shortest way to it would pass a node that is marked and is not spent |
| `DataTreeProofs!TreeNovel` | `NovelPrefixesAreNovel` | `NovelInv` adds three facts to `TreeInv`. `Marked`, the converse of `Spent`: a node not behind a discard is marked as soon as everything after it was tried, because `__update_exhausted` rechecks all nodes on the way to it (`TrailGoesUp`, `NextOnTrail`: the nodes whose position is a prefix are those it was entered through). `Free`: a value that was not forced could have been another one, because a draw with a single value splits its node at once. `Bounded`: positions have a greatest length, so there is a longest node that the walk from the root reaches, and that one offers a prefix (`SomePrefix`). What it offers is no place of the tree (`Unvisited`, `OtherUnvisited`), hence new |
| `DataTreeProofs!SimulationIsReplay` | `SimulationAgrees` | from `NovelInv`. Going from node to node under the choices is an induction, done as a search for a least counterexample (`Least`): every node the simulation enters is at a position that the test function gets to on these choices (`SimulatedReached`), and so is the way from a node's position through its values (`NodeReached`). The last node entered decides (`NodeAgrees`): where a value it recorded differs, or no child fits, nothing longer was seen, and the run is `unseen` there (`NodeDiffers`, `DiffersAt`); where the choices run out, they run out for the test function at that draw (`NodeOverruns`); else the node has the recorded conclusion. A forced value takes no choice's value, and where none is drawn freely only one is possible (`KnownTypes`, `FreeDraw`) |
| `ConjectureRunnerProofs!CacheBounded`, `PinnedKeysStay` | the promised map never outgrows its size and orders its keys totally; a pinned key stays | an entry is replaced only when the cache is full |
| `ConjectureRunnerProofs!HeapStaysValid`, `HeapImplements` | what `check_valid` asserts; `ImplementsReused` | `HeapInv`: index and heap are inverse to each other, the order holds each key once, and no entry is lighter than its parent. `Weight` turns sort keys into numbers, of which `WeightsOf` shows that they compare alike. An operation leaves a heap that is in order `Around` one place: parent and child are in order unless one of them is there, and its children are not lighter than its parent (`ChangedIsAround`). A turn of the first loop moves that place up, one of the second moves it down once it is not lighter than its parent (`Risen`), and both only swap (`Alike`); where neither has a turn left, the heap is in order (`StillInOrder`). The place moves by at least one each turn, so as many turns as there are entries are enough (`BalanceIs`, by induction on turns, `InTurns`). The root of such a heap weighs least (`RootIsLeast`, by a least counterexample), so what it evicts is what the map allows (`RootGoesFirst`), and each operation is that of the map (`StoreIsPromised` and its like) |
| `ConjectureRunnerProofs!RunnerTypeCorrect`, `BestSaved`, `PinsCorrect` | `TypeOK`, `BestIsSaved`, `PinsMatch` | `IInv`. None of the three is inductive alone: memory means something only while the test is the one that ran (`Live`), the best of an origin was run, is exact and fails (`BestFails`), nothing run is better (`Beaten`), the one being saved is (`SavingBest`), and what is about to be deleted does not fail or was run (`DropTried`). `ZeroOnce`: the zero data is pinned once |
| `ConjectureRunnerProofs!NothingIsLost` | `NothingLost` | from `IInv` by cases on the steps that remove entries |
| `ConjectureRunnerProofs!EverythingShrunk` | `AllShrunk` | `TidyInv`: a failure counts as shrunk only while it is the one that the shrinker gave up on, and a run says it is finished only when none is left |
| `StateMachineProofs!RulesStayEnabled` | `SomeRuleStaysEnabled` | `HopeLeft`: the names still in `oneof` were not disabled, and when it is empty some rule was enabled |
| `StateMachineProofs!InitializersRunFirst` | `InitializersComeFirst` | `InitializersLead`: what is still to run was not called, and nothing else was |
| `StateMachineProofs!ProgramReplays` | `PrintedProgramReplays` | `ProgramAgrees` adds that `names` and `names_to_values` have the same names, in which bundles and arguments are found (`NamesAgree`). A call gives new names, none twice (`NewNamesType`): division with remainder places each at one target and one result (`PlaceOf`, `PlaceIn`), and the counters of the bundles tell them apart (`RankSmaller`). What `_last_names` cuts from the end of the list are these names, in lines of one per result (`BatchesOf`), so the line binds them as the machine does (`LineBinds`), and no older name, whose last line stays the last (`ProgramGrows`). Where an object is printed by its first name, that name holds it (`FirstNameIsName`) |
| `StateMachineProofs!BundlesHoldResults` | `BundlesKeepResults` | `KeepsResults`, inductive under `ProgramAgrees`: a counter is the number of results returned to its bundle, and consumed names are below the counter (`ConsumedNames`), so a new name was never consumed. The results of a call for a bundle come in the order of its new names, numbered from the counter on (`NewNumbers`, by a bijection of places, `Counted`), which the bundle gets at its end (`NewInBundle`); popping takes one name and leaves the order (`PoppedAscends`) |

Only model-checked, and why:

* liveness (`RunsEnd`, `GenerationExhausts`) and everything that needs `ENABLED`:
  out of reach of the provers;
* induction over data: what the folds and recursive functions of `Shrinking`,
  `Strategies`, `Numbers`, `Text` and `Choices` compute; their modules have recursive
  operators or take predicates, which TLC alone can follow;
* `PathsTriedOnce`, `TargetOnlyImproves`: they are about the modules above.

## 5. Findings

Six runs end with a violation, each of which quotes what the code says of itself:

1. `limiter_frames` (`junkdrawer.py:388`): a thread that leaves
   `ensure_free_stackframes` lowers the limit below what another thread asked for
   ("ensures there are at least N free stackframes").
2. `runner_resumes` (`engine.py:1638`): after "shrinking will resume", the next run
   finds all saved failures exact and takes the fast path past shrinking.
3. `database_shared` (`database.py:529`): a save is lost without an error if another
   process deletes the last other value of the key between `mkdir` and the rename.
4. `shrinking_spans` (`collections.py:436`): a list of unique elements that exhausts
   its pool leaves the span of its last element open.
5. `random_shared` (`entropy.py:236`): two contexts that overlap leave the global
   generator seeded.
6. `numbers_filtered` (`filtering.py:344`): a filter rewritten as bounds accepts
   values that the condition refuses.

Met while modelling, without a run of their own:

* Filters of numbers. `get_float_predicate_bounds` (`filtering.py:338-351`) rounds
  a bound that no float represents to the wrong side; `x < 0` draws -0.0, and
  `floats(min_value=0.0).filter(lambda x: x < 0)` fails an assertion;
  `integers().filter(lambda x: x >= 3.0)` fails an assertion;
  `partial(operator.ge, math.inf)` keeps NaN; `floats().filter(lambda x: x <= 1e999)`
  is a `TypeError`; `x < -inf` leaves -inf to be drawn;
  `floats(max_value=-inf).filter(math.isfinite)` fails an assertion at the draw
  (`internal/floats.py:46`). So does
  `floats().filter(lambda x: x >= 0.0).filter(lambda x: x <= -0.0)`, although both
  zeros satisfy both conditions: `numbers.py:261` compares 0.0 and -0.0 as numbers, the
  clamper does not. With
  `allow_subnormal=False` a subnormal bound is drawn (against
  `internal/floats.py:69-72`).
* Filters of text. `text().filter(re.compile("a", re.MULTILINE).match)` can draw
  "\na"; sizes that are always empty with another filter fail an assertion
  (`strategies/_internal/collections.py:281`).
* Choices. `choice_permitted` takes `p <= 0` and `p >= 1` for the impossible where
  index and children take 2^-64; points 4 and 5 of the docstring of
  `conjecture/floats.py` do not hold below 1. `choice.py:334-337` says that
  `choice_to_index` and `choice_from_index` must be injective and that floats "do not
  currently respect this": the model finds it of the second, which clamps an index that
  no permitted float has to a float with another one, and gives NaN without its sign
  for the index of a NaN with one, as `-1 * nan` keeps the sign of `nan`. NaN is counted by neither
  `compute_max_children` nor `all_children`; `dominators` of `ParetoFront.add` gets
  duplicates.
* Shrinking. `sort_regions` does not do what its docstring says on [1, 2, 0];
  `sort_regions_with_gaps` ignores `key`; `lower_integers_together` does not lower
  by `n` when `shrink_towards` is not 0, and `minimize_individual_choices` lowers by
  one rather than towards it; a misaligned attempt whose choices equal the target's
  counts as a success of `try_shrinking_nodes`; `calls_at_last_shrink` may lie before
  the loop that reads it; `__changed_nodes` never updates
  `__last_checked_changed_at`; `LazySequenceCopy.pop` returns the underlying value
  where the mask holds `None`.
* Collections. `lists(sampled_from([5, 6, 5]), unique=True, min_size=3)` is accepted,
  as `core.py:400-406` counts duplicates among its "distinct elements", and then fails
  the assertion of its size (`collections.py:452`) in every test case that gets there;
  `DrawnAsPromised` is checked of pools with enough distinct elements.
* Spans. An exception that unwinds through `many` leaves its span open too; after
  about 99 of them "max depth exceeded" makes a test case invalid.
* Choice tree. The assertion of `draw_value` (`datatree.py:1112`) is reached by a
  flaky test that draws where it discarded before.
* Execution. A deadline failure found without overlap is reported as flaky if
  another thread joins before the final replay (`joined` excludes it); a nested call
  in the same thread ends in a `KeyError` (`core.py:2294`); a skip raised by a later
  test case hides failures already found.
* `junkdrawer.py:427`: when the warning about a changed limit is an error, the
  error path sets the limit that `__enter__` read, over the outside one.
* `engine.py:1085`: undecodable entries are deleted from the primary corpus, though
  they are met in the secondary one as well and stay there.
* `database.py:510-523`: across devices a write is not atomic, and a torn file is
  never repaired, since the path exists. The listing of a key may be lost when two
  processes share it.
* `database.py:1179-1203`: two threads can start two workers of a
  `BackgroundWriteDatabase`, which may reorder writes; a write that raises ends the
  worker and leaves `fetch` waiting; `_join(0.1)` waits again after its timeout; the
  finalizer and the thread hold references to the database. Without watchdog,
  `remove_listener` of the directory database fails an assertion.
* Generators. `core.py:725` makes a generator without registering it; the cleanups of
  `random_module` run first in, first out. `control.py:114-133`: another thread's
  draws raise a deprecation.
* Stateful. `@initialize` methods count as steps, so with few steps not each is
  "called exactly once per run" (`stateful.py:969`); `stateful.py:191` and `228` ask
  twice whether observability is on; `stateful.py:171` leaves `selecting_rule` set
  when a selection is cut short.
* `cache.py:281`: the tick is not atomic among threads, so the order of eviction of
  the shared strategy cache is a heuristic.

## 6. What is not modelled, and the plan

Inside the modelled parts: the explain phase, the shrinkers of strings and bytes,
`lower_duplicated_characters`; health checks, backends and observations of the
runner; listeners, multiplexed, read-only and remote databases; regex filters of
text, the deprecated whitelist arguments, `category_index_cache`; one permutation
serves all depths of a pass that tries its choices in random order, and ties in
`regions_to_delete` are broken by start; code outside that draws from a generator
while another thread has a context open; the overflow of `float()` for huge
rationals, and ties between floats go to the smaller magnitude.

Not modelled: the target optimiser and the pareto front, `LazySequenceCopy` and
`IntList`, listeners, observability callbacks (all with state of their own, and
planned); the statistics of providers; the text processing of reflection; third
party integrations, the ghostwriter, patching and the command line, which produce
text; settings, which are data.

Next: `ParetoFront` and the optimiser, checked with the structures, and the
registration of observability callbacks.
