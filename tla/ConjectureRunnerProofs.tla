----------------------- MODULE ConjectureRunnerProofs -----------------------
(***************************************************************************)
(* What ConjectureRunner promises of the example database and of its data  *)
(* cache, for every test function, whatever is crashed, edited or flaky;   *)
(* and what that cache promises, for all sets of keys and sizes:           *)
(* ReusedCache, a map, and HeapCache, which implements it.                 *)
(***************************************************************************)
EXTENDS ConjectureRunner, ResultCache, FiniteSetTheorems, SequenceTheorems, TLAPS

\* Memory is about the current test: it did not crash and was not edited.
Live == exit \notin {"new", "crash"}

\* The best of origin o is being replaced.
Replacing(o) == saving # 0 /\ test.does[saving] = o

CoreType ==
  /\ test \in Tests
  /\ primary \subseteq Entries /\ secondary \subseteq Entries
  /\ exit \in ExitReasons
  /\ saving \in 0 .. MaxChoice
  /\ exit # "none" => saving = 0
  /\ ran \subseteq ChoiceSeqs
  /\ interesting \in [Origins -> 0 .. MaxChoice]
  /\ pins \in [ChoiceSeqs -> Nat]
  /\ zero \in BOOLEAN
  /\ valid \in Nat /\ invalid \in Nat /\ shrinks \in Nat

\* The best of an origin was run, and fails with it.
BestFails ==
  \A o \in Found :
    interesting[o] \in Exact \cap ran /\ test.does[interesting[o]] = o

\* Nothing that was run is better than the best of its origin.
Beaten ==
  \A d \in ran : Fails(d) /\ d # saving =>
    interesting[test.does[d]] \in 1 .. d

SavingBest ==
  saving # 0 =>
    /\ saving \in Exact \cap ran /\ Fails(saving)
    /\ interesting[test.does[saving]] = 0 \/ saving < interesting[test.does[saving]]

Saved == \A o \in Found : Replacing(o) \/ interesting[o] \in primary

BestPin(c) ==
  IF Fails(c) /\ interesting[test.does[c]] = c /\ ~Replacing(test.does[c]) THEN 1 ELSE 0
ZeroPin(c) == IF zero /\ IsZero(c) THEN 1 ELSE 0
PinsCounted == \A c \in ChoiceSeqs : pins[c] = BestPin(c) + ZeroPin(c)

LiveInv == BestFails /\ Beaten /\ SavingBest /\ Saved /\ PinsCounted

CoreInv == CoreType /\ (Live => LiveInv)

Flags ==
  /\ found \in BOOLEAN /\ exact \in BOOLEAN /\ room \in BOOLEAN
  /\ fast \in BOOLEAN /\ late \in BOOLEAN /\ resume \in BOOLEAN

LoopType ==
  /\ pc \in {"reuse", "pareto", "start", "zero", "pin", "generate", "target", "shrink",
             "replay", "clear", "shrinking"}
  /\ todo \subseteq Entries /\ extra \subseteq Entries /\ drop \subseteq Entries
  /\ shrunk \subseteq Found /\ target \subseteq Found
  /\ tidy \in [Origins -> 0 .. MaxChoice]

\* What is about to be deleted does not fail, or was run.
DropTried ==
  Live => \A e \in drop : \A d \in Unextended(e) :
            IF pc = "reuse" THEN ~Fails(d) ELSE d \in ran

IInv == CoreInv /\ LoopType /\ Flags /\ DropTried

\* The tests are what the constants say.
LEMMA TestType ==
  ASSUME CoreType
  PROVE  /\ MaxChoice \in Nat
         /\ test.does \in [ChoiceSeqs -> Outcomes]
         /\ test.plays \in [ChoiceSeqs -> SUBSET ChoiceSeqs]
         /\ \A c \in ChoiceSeqs : \A d \in test.plays[c] :
              d \in Exact /\ (d <= c => test.plays[c] = {d})
         /\ Garbage \cap (0 .. MaxChoice) = {}
<1>1. test \in [does : [ChoiceSeqs -> Outcomes], plays : [ChoiceSeqs -> SUBSET ChoiceSeqs],
                 flaky : BOOLEAN, phases : SUBSET Phases, multiple : BOOLEAN]
  BY RunnerConstants DEF CoreType
<1>2. \A c \in ChoiceSeqs : \A d \in test.plays[c] :
        test.plays[d] = {d} /\ (d <= c => test.plays[c] = {d})
  BY RunnerConstants DEF CoreType
<1> QED
  BY <1>1, <1>2, RunnerConstants DEF Exact

\* A test case never ends a run as if it had not begun or had crashed.
LEMMA StopReasonType ==
  ASSUME NEW d, NEW bugs, NEW v, NEW i, NEW s, NEW known
  PROVE  StopReason(d, bugs, v, i, s, known) \in ExitReasons \ {"new", "crash"}
BY DEF StopReason, ExitReasons

\* A database without a run knows nothing that could be wrong.
LEMMA CoreInit == Init => IInv
<1> SUFFICES ASSUME Init PROVE IInv
  OBVIOUS
<1> MaxChoice \in Nat
  BY RunnerConstants
<1>1. CoreType
  <2>1. interesting \in [Origins -> 0 .. MaxChoice] /\ pins \in [ChoiceSeqs -> Nat]
    BY DEF Init, None
  <2>2. primary \subseteq Entries /\ secondary \subseteq Entries
    BY DEF Init, Entries
  <2>3. zero \in BOOLEAN
    BY DEF Init
  <2>4. test \in Tests /\ ran \subseteq ChoiceSeqs /\ exit \in ExitReasons /\ saving = 0
    BY DEF Init, ExitReasons
  <2>5. valid \in Nat /\ invalid \in Nat /\ shrinks \in Nat
    BY DEF Init
  <2> QED
    BY <2>1, <2>2, <2>3, <2>4, <2>5 DEF CoreType
<1>2. ~Live
  BY DEF Init, Live
<1>3. LoopType
  <2>2. tidy \in [Origins -> 0 .. MaxChoice]
    BY DEF Init, None
  <2>3. pc = "reuse" /\ todo = {} /\ extra = {} /\ drop = {} /\ shrunk = {} /\ target = {}
    BY DEF Init
  <2> QED
    BY <2>2, <2>3 DEF LoopType
<1>4. Flags
  BY DEF Init, Flags
<1> QED
  BY <1>1, <1>2, <1>3, <1>4 DEF IInv, CoreInv, DropTried

\* A new best is noted and its predecessor downgraded and unpinned.
LEMMA Improve ==
  ASSUME CoreInv, Ready, NEW d \in Exact, d \notin ran, TestFunction(d), Fails(d),
         interesting[test.does[d]] = 0 \/ d < interesting[test.does[d]],
         UNCHANGED <<test, zero>>
  PROVE  CoreInv'
<1> DEFINE o == test.does[d]
<1> DEFINE old == interesting[o]
<1>1. /\ ran' = ran \cup {d} /\ interesting' = interesting /\ exit' = exit
      /\ saving' = d /\ pins' = Unpin(old, d) /\ Downgrade(o)
  BY DEF TestFunction
<1>c. valid' \in Nat /\ invalid' \in Nat /\ shrinks' \in Nat
  BY DEF TestFunction, CoreInv, CoreType
<1>2. d \in ChoiceSeqs /\ o \in Origins /\ old \in 0 .. MaxChoice /\ MaxChoice \in Nat
  BY TestType DEF CoreInv, CoreType, Exact, Fails
<1>3. Live /\ LiveInv /\ saving = 0 /\ exit = "none"
  BY DEF Ready, Live, CoreInv
<1>4. old # 0 => old \in Exact \cap ran /\ test.does[old] = o /\ old \in primary
  BY <1>2, <1>3 DEF LiveInv, BestFails, Saved, Replacing, Found
<1>5. \A c \in ChoiceSeqs : pins'[c] = IF c = old THEN pins[c] - 1 ELSE pins[c]
  BY <1>1 DEF Unpin
<1>6. old # 0 => pins[old] >= 1
  BY <1>2, <1>3, <1>4 DEF LiveInv, PinsCounted, BestPin, ZeroPin, Replacing, Fails, Exact
<1>7. CoreType'
  <2>1. pins' \in [ChoiceSeqs -> Nat]
    BY <1>1, <1>2, <1>5, <1>6 DEF CoreInv, CoreType, Unpin, ChoiceSeqs
  <2>2. primary' \subseteq Entries /\ secondary' \subseteq Entries
    <3>1. primary \subseteq Entries /\ secondary \subseteq Entries
      BY DEF CoreInv, CoreType
    <3>2. old # 0 => old \in Entries
      BY <1>2 DEF Entries, ChoiceSeqs
    <3> QED
      BY <1>1, <3>1, <3>2 DEF Downgrade, db
  <2>3. saving' \in 0 .. MaxChoice
    BY <1>1, <1>2 DEF ChoiceSeqs
  <2>4. exit' = "none" /\ ran' \subseteq ChoiceSeqs
    BY <1>1, <1>2, <1>3 DEF CoreInv, CoreType
  <2> QED
    BY <2>1, <2>2, <2>3, <2>4, <1>1, <1>c DEF CoreInv, CoreType
<1>8. BestFails'
  BY <1>1, <1>3 DEF LiveInv, BestFails, Found, Exact
<1>9. Beaten'
  <2> SUFFICES ASSUME NEW e \in ran', Fails(e)', e # saving'
               PROVE  interesting'[test'.does[e]] \in 1 .. e
    BY DEF Beaten
  <2>1. e \in ran /\ e # saving /\ Fails(e)
    BY <1>1, <1>2, <1>3 DEF Fails, ChoiceSeqs, CoreInv, CoreType
  <2> QED
    BY <2>1, <1>1, <1>3 DEF LiveInv, Beaten
<1>10. SavingBest'
  BY <1>1 DEF SavingBest, Exact, Fails
<1>11. Saved'
  <2> SUFFICES ASSUME NEW p \in Found', ~Replacing(p)' PROVE interesting'[p] \in primary'
    BY DEF Saved
  <2>1. p \in Found /\ p # o
    BY <1>1, <1>2 DEF Found, Replacing, ChoiceSeqs
  <2>2. interesting[p] \in primary /\ test.does[interesting[p]] = p
    BY <2>1, <1>3 DEF LiveInv, Saved, BestFails, Replacing
  <2>3. old # 0 => interesting[p] # old
    BY <2>1, <2>2, <1>4
  <2> QED
    BY <2>2, <2>3, <1>1 DEF Downgrade, db
<1>12. PinsCounted'
  <2> SUFFICES ASSUME NEW c \in ChoiceSeqs
               PROVE  pins'[c] = BestPin(c)' + ZeroPin(c)'
    BY DEF PinsCounted
  <2>1. ZeroPin(c)' = ZeroPin(c)
    BY DEF ZeroPin, IsZero, Exact
  <2>2. pins[c] = BestPin(c) + ZeroPin(c)
    BY <1>3 DEF LiveInv, PinsCounted
  <2>3. CASE c = old
    <3>1. BestPin(c) = 1
      BY <2>3, <1>2, <1>3, <1>4 DEF BestPin, Replacing, Fails, ChoiceSeqs
    <3>2. BestPin(c)' = 0
      BY <2>3, <1>1, <1>2, <1>4 DEF BestPin, Replacing, ChoiceSeqs
    <3> QED
      BY <3>1, <3>2, <2>1, <2>2, <2>3, <1>5 DEF ZeroPin
  <2>4. CASE c # old
    <3>1. BestPin(c)' = BestPin(c)
      BY <2>4, <1>1, <1>2, <1>3 DEF BestPin, Replacing, Fails, ChoiceSeqs
    <3> QED
      BY <3>1, <2>1, <2>2, <2>4, <1>5
  <2> QED
    BY <2>3, <2>4
<1> QED
  BY <1>7, <1>8, <1>9, <1>10, <1>11, <1>12 DEF CoreInv, LiveInv

\* The database may change, as long as the best entries stay in primary.
LEMMA Carry ==
  ASSUME CoreInv, UNCHANGED <<test, saving, ran, interesting, pins, zero>>,
         primary' \subseteq Entries, secondary' \subseteq Entries,
         \A o \in Found : interesting[o] \in primary => interesting[o] \in primary',
         valid' \in Nat, invalid' \in Nat, shrinks' \in Nat,
         exit' \in ExitReasons, exit' # "none" => saving = 0, Live' => Live
  PROVE  CoreInv'
<1>1. CoreType'
  BY DEF CoreInv, CoreType
<1>2. ASSUME Live' PROVE LiveInv'
  <2>1. LiveInv
    BY <1>2 DEF CoreInv
  <2>2. BestFails' /\ Beaten' /\ SavingBest'
    BY <2>1 DEF LiveInv, BestFails, Beaten, SavingBest, Found, Exact, Fails
  <2>3. Saved'
    BY <2>1 DEF LiveInv, Saved, Found, Replacing
  <2>4. PinsCounted'
    BY <2>1 DEF LiveInv, PinsCounted, BestPin, ZeroPin, IsZero, Exact, Fails, Replacing
  <2> QED
    BY <2>2, <2>3, <2>4 DEF LiveInv
<1> QED
  BY <1>1, <1>2 DEF CoreInv

\* A test case that is not the best of its origin.
LEMMA NoImprovement ==
  ASSUME CoreInv, Ready, NEW d \in Exact, d \notin ran, TestFunction(d),
         Fails(d) => interesting[test.does[d]] # 0 /\ ~(d < interesting[test.does[d]]),
         UNCHANGED <<test, zero>>
  PROVE  CoreInv'
<1>1. /\ ran' = ran \cup {d} /\ UNCHANGED <<interesting, primary, secondary, saving, pins>>
      /\ exit' = StopReason(d, Found, valid', invalid', shrinks, ran')
  BY DEF TestFunction, db
<1>2. valid' \in Nat /\ invalid' \in Nat /\ shrinks' \in Nat
  BY DEF TestFunction, CoreInv, CoreType
<1>3. exit' \in ExitReasons /\ saving = 0 /\ Live
  BY <1>1, StopReasonType DEF Ready, Live
<1>4. CoreType'
  BY <1>1, <1>2, <1>3 DEF CoreInv, CoreType, Exact
<1>5. LiveInv
  BY <1>3 DEF CoreInv
<1>6. BestFails'
  BY <1>1, <1>5 DEF LiveInv, BestFails, Found, Exact
<1>7. Beaten'
  <2>1. d \in ChoiceSeqs /\ MaxChoice \in Nat
    BY TestType DEF CoreInv, Exact
  <2>2. Fails(d) => interesting[test.does[d]] \in 1 .. d
    BY <2>1 DEF CoreInv, CoreType, Fails, ChoiceSeqs
  <2>3. \A e \in ran : Fails(e) => interesting[test.does[e]] \in 1 .. e
    BY <1>3, <1>5, <2>1 DEF LiveInv, Beaten, CoreInv, CoreType, ChoiceSeqs
  <2> QED
    BY <1>1, <2>2, <2>3 DEF Beaten, Fails
<1>8. SavingBest' /\ Saved'
  BY <1>1, <1>3, <1>5 DEF LiveInv, SavingBest, Saved, Found, Replacing
<1>9. PinsCounted'
  BY <1>1, <1>5 DEF LiveInv, PinsCounted, BestPin, ZeroPin, IsZero, Exact, Fails, Replacing
<1> QED
  BY <1>4, <1>6, <1>7, <1>8, <1>9 DEF CoreInv, LiveInv

\* cached_test_function keeps the core, and adds what it ran to what was run.
LEMMA Cached ==
  ASSUME CoreInv, Ready, NEW d \in Exact, CachedTestFunction(d), UNCHANGED <<test, zero>>
  PROVE  CoreInv' /\ ran' = ran \cup {d} /\ interesting' = interesting
<1>1. CASE d \in ran
  <2>1. UNCHANGED <<results, db, exit>>
    BY <1>1 DEF CachedTestFunction
  <2>2. primary' \subseteq Entries /\ secondary' \subseteq Entries
    BY <2>1 DEF db, CoreInv, CoreType
  <2>3. exit' \in ExitReasons /\ saving = 0 /\ Live
    BY <2>1 DEF Ready, Live, CoreInv, CoreType
  <2>4. valid' \in Nat /\ invalid' \in Nat /\ shrinks' \in Nat
    BY <2>1 DEF results, CoreInv, CoreType
  <2>5. UNCHANGED <<test, saving, ran, interesting, pins, zero, primary>>
    BY <2>1 DEF results, db
  <2>6. \A o \in Found : interesting[o] \in primary => interesting[o] \in primary'
    BY <2>5
  <2>7. CoreInv'
    BY <2>2, <2>3, <2>4, <2>5, <2>6, Carry
  <2> QED
    BY <1>1, <2>5, <2>7
<1>2. CASE d \notin ran
  <2>1. TestFunction(d)
    BY <1>2 DEF CachedTestFunction
  <2>2. ran' = ran \cup {d} /\ interesting' = interesting
    BY <2>1 DEF TestFunction
  <2>3. CoreInv'
    BY <1>2, <2>1, Improve, NoImprovement
  <2> QED
    BY <2>2, <2>3
<1> QED
  BY <1>1, <1>2

\* Saving the best of an origin keeps the core.
LEMMA SaveStep ==
  ASSUME CoreInv, SaveBest
  PROVE  CoreInv'
<1> DEFINE o == test.does[saving]
<1>1. /\ exit = "none" /\ saving # 0 /\ saving' = 0
      /\ primary' = primary \cup {saving} /\ secondary' = secondary
      /\ interesting' = [interesting EXCEPT ![o] = saving]
      /\ pins' = [pins EXCEPT ![saving] = @ + 1]
      /\ UNCHANGED <<test, ran, zero, valid, invalid, shrinks>>
      /\ exit' = StopReason(saving, {o}, valid, invalid, shrinks, ran)
  BY DEF SaveBest, effects
<1>2. LiveInv /\ Live
  BY <1>1 DEF CoreInv, Live
<1>3. /\ saving \in ChoiceSeqs /\ saving \in Exact \cap ran /\ o \in Origins
      /\ interesting[o] = 0 \/ saving < interesting[o]
      /\ MaxChoice \in Nat
  BY <1>1, <1>2, TestType DEF LiveInv, SavingBest, Fails, Exact, CoreInv
<1>4. exit' \in ExitReasons
  BY <1>1, StopReasonType
<1>5. \A p \in Origins : interesting'[p] = IF p = o THEN saving ELSE interesting[p]
  BY <1>1 DEF CoreInv, CoreType
<1>6. \A c \in ChoiceSeqs : pins'[c] = IF c = saving THEN pins[c] + 1 ELSE pins[c]
  BY <1>1, <1>3 DEF CoreInv, CoreType
<1>7. CoreType'
  <2>1. interesting' \in [Origins -> 0 .. MaxChoice]
    BY <1>1, <1>3 DEF CoreInv, CoreType, ChoiceSeqs
  <2>2. pins' \in [ChoiceSeqs -> Nat]
    BY <1>1, <1>3 DEF CoreInv, CoreType
  <2>3. primary' \subseteq Entries /\ saving' \in 0 .. MaxChoice
    BY <1>1, <1>3 DEF CoreInv, CoreType, Entries
  <2> QED
    BY <2>1, <2>2, <2>3, <1>1, <1>4 DEF CoreInv, CoreType
<1>8. BestFails'
  <2> SUFFICES ASSUME NEW p \in Found'
               PROVE  interesting'[p] \in Exact \cap ran /\ test.does[interesting'[p]] = p
    BY <1>1 DEF BestFails, Exact
  <2>1. CASE p = o
    BY <2>1, <1>3, <1>5 DEF Found
  <2>2. CASE p # o
    BY <2>2, <1>2, <1>5 DEF LiveInv, BestFails, Found
  <2> QED
    BY <2>1, <2>2
<1>9. Beaten'
  <2> SUFFICES ASSUME NEW d \in ran, Fails(d) PROVE interesting'[test.does[d]] \in 1 .. d
    BY <1>1 DEF Beaten, Fails
  <2>1. d \in ChoiceSeqs /\ test.does[d] \in Origins
    BY DEF Fails, CoreInv, CoreType
  <2>2. CASE d = saving
    BY <2>1, <2>2, <1>3, <1>5 DEF ChoiceSeqs
  <2>3. CASE d # saving
    <3>1. interesting[test.does[d]] \in 1 .. d
      BY <2>3, <1>2 DEF LiveInv, Beaten
    <3> QED
      BY <3>1, <2>1, <1>3, <1>5 DEF ChoiceSeqs
  <2> QED
    BY <2>2, <2>3
<1>10. SavingBest'
  BY <1>1 DEF SavingBest
<1>11. Saved'
  <2> SUFFICES ASSUME NEW p \in Found' PROVE interesting'[p] \in primary'
    BY DEF Saved
  <2>1. CASE p = o
    BY <2>1, <1>1, <1>3, <1>5
  <2>2. CASE p # o
    <3>1. p \in Found /\ ~Replacing(p)
      BY <2>2, <1>5 DEF Found, Replacing
    <3> QED
      BY <3>1, <2>2, <1>1, <1>2, <1>5 DEF LiveInv, Saved, Found
  <2> QED
    BY <2>1, <2>2
<1>12. PinsCounted'
  <2> SUFFICES ASSUME NEW c \in ChoiceSeqs PROVE pins'[c] = BestPin(c)' + ZeroPin(c)'
    BY DEF PinsCounted
  <2>1. ZeroPin(c)' = ZeroPin(c)
    BY <1>1 DEF ZeroPin, IsZero, Exact
  <2>2. pins[c] = BestPin(c) + ZeroPin(c)
    BY <1>2 DEF LiveInv, PinsCounted
  <2>3. CASE c = saving
    <3>1. BestPin(c) = 0 /\ BestPin(c)' = 1
      BY <2>3, <1>1, <1>3, <1>5 DEF BestPin, Replacing, Fails
    <3> QED
      BY <3>1, <2>1, <2>2, <2>3, <1>6 DEF ZeroPin
  <2>4. CASE c # saving
    <3>1. CASE test.does[c] = o
      BY <3>1, <2>1, <2>2, <2>4, <1>1, <1>3, <1>5, <1>6 DEF BestPin, Replacing, Fails
    <3>2. CASE test.does[c] # o
      BY <3>2, <2>1, <2>2, <2>4, <1>1, <1>5, <1>6 DEF BestPin, Replacing, Fails
    <3> QED
      BY <3>1, <3>2
  <2> QED
    BY <2>3, <2>4
<1> QED
  BY <1>7, <1>8, <1>9, <1>10, <1>11, <1>12 DEF CoreInv, LiveInv

\* A step of the loops that runs no test and deletes nothing that failed.
LEMMA Quiet ==
  ASSUME IInv, exit = "none", UNCHANGED <<test, saving, ran, interesting, pins, zero>>,
         primary' \subseteq Entries, secondary' \subseteq Entries,
         \A o \in Found : interesting[o] \in primary => interesting[o] \in primary',
         valid' \in Nat, invalid' \in Nat, shrinks' \in Nat,
         exit' \in ExitReasons, exit' # "none" => saving = 0
  PROVE  CoreInv'
<1>1. CoreInv /\ (Live' => Live)
  BY DEF IInv, Live
<1> QED
  BY <1>1, Carry

\* A step that leaves the database and the results as they are.
LEMMA QuietKeeps ==
  ASSUME IInv, exit = "none", UNCHANGED <<test, db, results, zero>>,
         exit' \in ExitReasons, exit' # "none" => saving = 0
  PROVE  CoreInv' /\ interesting' = interesting /\ Found' = Found
<1>1. UNCHANGED <<test, saving, ran, interesting, pins, zero, primary, secondary>>
  BY DEF db, results
<1>2. primary' \subseteq Entries /\ secondary' \subseteq Entries
  BY <1>1 DEF IInv, CoreInv, CoreType
<1>3. valid' \in Nat /\ invalid' \in Nat /\ shrinks' \in Nat
  BY DEF results, IInv, CoreInv, CoreType
<1>4. \A o \in Found : interesting[o] \in primary => interesting[o] \in primary'
  BY <1>1
<1>5. CoreInv'
  BY <1>1, <1>2, <1>3, <1>4, Quiet
<1> QED
  BY <1>1, <1>5 DEF Found

\* A step that runs a test case and moves the loops on.
LEMMA Tried ==
  ASSUME IInv, Ready, NEW d \in Exact, CachedTestFunction(d), UNCHANGED <<effects, zero>>
  PROVE  /\ CoreInv' /\ ran' = ran \cup {d} /\ interesting' = interesting /\ Found' = Found
         /\ test' = test
<1>1. CoreInv /\ UNCHANGED <<test, zero>>
  BY DEF IInv, effects
<1> QED
  BY <1>1, Cached DEF Found

\* Running a test case that was not run is what the cached function does.
LEMMA TestIsCached == \A d \in Exact \ ran : TestFunction(d) => CachedTestFunction(d)
BY DEF CachedTestFunction

\* An entry of the database is replayed (reuse_existing_examples).
LEMMA ReuseEntryStep ==
  ASSUME IInv, NEW e \in Entries, NEW d \in ChoiceSeqs, ReuseEntry(e, d)
  PROVE  IInv'
<1>1. /\ Ready /\ pc = "reuse" /\ e \in ChoiceSeqs /\ d \in test.plays[e]
      /\ CachedTestFunction(d) /\ UNCHANGED <<effects, zero, pc, shrink, room>>
      /\ drop' = (IF Fails(d) THEN {} ELSE {e})
      /\ todo' \subseteq todo /\ extra' \subseteq extra
  BY DEF ReuseEntry
<1>2. d \in Exact /\ (d <= e => test.plays[e] = {d})
  BY <1>1, TestType DEF IInv, CoreInv
<1>3. CoreInv' /\ Found' = Found /\ test' = test
  BY <1>1, <1>2, Tried
<1>4. LoopType'
  BY <1>1, <1>3 DEF IInv, LoopType, shrink
<1>5. Flags'
  <2>1. found' \in BOOLEAN /\ exact' \in BOOLEAN
    BY DEF ReuseEntry
  <2> QED
    BY <1>1, <2>1 DEF IInv, Flags, effects
<1>6. DropTried'
  <2> SUFFICES ASSUME NEW f \in drop', NEW c \in Unextended(f)' PROVE ~Fails(c)'
    BY <1>1 DEF DropTried
  <2>1. f = e /\ ~Fails(d)
    BY <1>1
  <2>2. c = d
    <3>1. c \in test.plays[e] /\ c <= e
      BY <2>1, <1>1, <1>3 DEF Unextended
    <3>2. test.plays[e] = {c}
      BY <3>1, <1>1, TestType DEF IInv, CoreInv
    <3> QED
      BY <3>2, <1>1
  <2> QED
    BY <2>1, <2>2, <1>3 DEF Fails
<1> QED
  BY <1>3, <1>4, <1>5, <1>6 DEF IInv

\* An entry that is no choice sequence is deleted.
LEMMA ReuseGarbageStep ==
  ASSUME IInv, NEW e \in Entries, ReuseGarbage(e)
  PROVE  IInv'
<1>1. /\ Ready /\ e \in Garbage /\ primary' = primary \ {e}
      /\ UNCHANGED <<secondary, exit, pc, drop, results, room, found, exact, shrink, zero,
                    effects>>
      /\ todo' \subseteq todo /\ extra' \subseteq extra
  BY DEF ReuseGarbage
<1>2. /\ UNCHANGED <<test, saving, ran, interesting, pins, zero, valid, invalid, shrinks>>
      /\ exit = "none" /\ saving = 0 /\ drop' = {}
  BY <1>1 DEF results, effects, Ready
<1>3. \A o \in Found : interesting[o] \in primary => interesting[o] \in primary'
  <2>1. \A o \in Found : interesting[o] \notin Garbage
    BY TestType DEF IInv, CoreInv, CoreType, Found
  <2> QED
    BY <1>1, <2>1
<1>4. CoreInv'
  <2>1. primary' \subseteq Entries /\ secondary' \subseteq Entries /\ exit' \in ExitReasons
    BY <1>1 DEF IInv, CoreInv, CoreType
  <2>2. valid' \in Nat /\ invalid' \in Nat /\ shrinks' \in Nat
    BY <1>2 DEF IInv, CoreInv, CoreType
  <2> QED
    BY <1>2, <1>3, <2>1, <2>2, Quiet
<1>5. LoopType'
  BY <1>1, <1>2 DEF IInv, LoopType, shrink, Found
<1>6. Flags'
  BY <1>1 DEF IInv, Flags, effects
<1> QED
  BY <1>2, <1>4, <1>5, <1>6 DEF IInv, DropTried

\* What is dropped is the best of no origin.
LEMMA DropEntryStep ==
  ASSUME IInv, DropEntry
  PROVE  IInv'
<1>1. /\ exit = "none" /\ saving = 0 /\ drop' = {}
      /\ secondary' = secondary \ drop
      /\ IF pc = "reuse" THEN primary' = primary \ drop ELSE primary' = primary
      /\ UNCHANGED <<exit, pc, results, loop, shrink, zero, effects>>
  BY DEF DropEntry, DropReused, DropCleared
<1>2. UNCHANGED <<test, saving, ran, interesting, pins, zero, valid, invalid, shrinks>>
  BY <1>1 DEF results, effects
<1>3. ASSUME NEW o \in Found, interesting[o] \in primary PROVE interesting[o] \in primary'
  <2>1. LiveInv /\ Live
    BY <1>1 DEF IInv, CoreInv, Live
  <2>2. /\ interesting[o] \in Exact /\ Fails(interesting[o])
        /\ interesting[o] \in ChoiceSeqs /\ MaxChoice \in Nat
    BY <2>1, RunnerConstants DEF LiveInv, BestFails, Found, Fails, Exact
  <2>3. Unextended(interesting[o]) = {interesting[o]}
    BY <2>2 DEF Unextended, Exact, ChoiceSeqs
  <2>4. pc = "reuse" => interesting[o] \notin drop
    BY <2>1, <2>2, <2>3 DEF IInv, DropTried
  <2> QED
    BY <1>1, <1>3, <2>4
<1>4. CoreInv'
  <2>1. primary' \subseteq Entries /\ secondary' \subseteq Entries /\ exit' \in ExitReasons
    BY <1>1 DEF IInv, CoreInv, CoreType
  <2>2. valid' \in Nat /\ invalid' \in Nat /\ shrinks' \in Nat
    BY <1>2 DEF IInv, CoreInv, CoreType
  <2> QED
    BY <1>1, <1>2, <1>3, <2>1, <2>2, Quiet
<1>5. LoopType'
  BY <1>1, <1>2 DEF IInv, LoopType, shrink, loop, Found
<1>6. Flags'
  BY <1>1 DEF IInv, Flags, effects, loop
<1> QED
  BY <1>1, <1>4, <1>5, <1>6 DEF IInv, DropTried

\* The reuse phase ends.
LEMMA EndReuseStep == ASSUME IInv, EndReuse PROVE IInv'
<1>1. /\ Ready /\ UNCHANGED <<db, results, drop, loop, shrink, zero, test, late, resume>>
      /\ exit' \in {"finished", "none"} /\ pc' \in {"pareto", "start"}
  BY DEF EndReuse
<1>2. CoreInv' /\ Found' = Found /\ drop' = {}
  BY <1>1, QuietKeeps DEF Ready, ExitReasons
<1>3. LoopType'
  BY <1>1, <1>2 DEF IInv, LoopType, shrink, loop
<1>4. Flags'
  <2>1. fast' \in BOOLEAN
    BY DEF EndReuse, IInv, Flags
  <2> QED
    BY <1>1, <2>1 DEF IInv, Flags, loop
<1> QED
  BY <1>2, <1>3, <1>4 DEF IInv, DropTried

\* A phase gives way to the next.
LEMMA GotoStep ==
  ASSUME IInv, NEW from, NEW to \in {"start", "target", "shrink", "zero", "shrinking"},
         Goto(from, to)
  PROVE  IInv'
<1>1. Ready /\ pc' = to /\ UNCHANGED <<db, exit, results, loop, drop, shrink, zero, effects>>
  BY DEF Goto
<1>2. CoreInv' /\ Found' = Found /\ drop' = {}
  <2>1. exit = "none" /\ exit' \in ExitReasons /\ exit' = "none" /\ test' = test
    BY <1>1 DEF Ready, ExitReasons, effects
  <2> QED
    BY <1>1, <2>1, QuietKeeps DEF Ready
<1>3. LoopType'
  BY <1>1, <1>2 DEF IInv, LoopType, shrink, loop
<1>4. Flags'
  BY <1>1 DEF IInv, Flags, loop, effects
<1> QED
  BY <1>2, <1>3, <1>4 DEF IInv, DropTried

\* The steps that run a test case of the engine's own choice.
LEMMA TriedStep ==
  ASSUME IInv, NEW d \in Exact, ParetoEntry(d) \/ RunZero(d) \/ Explore(d) \/ ShrinkTry(d)
  PROVE  IInv'
<1>1. /\ Ready /\ CachedTestFunction(d) /\ UNCHANGED <<loop, drop, shrink, zero, effects>>
      /\ pc' \in {pc, "start", "pin"}
  BY TestIsCached DEF ParetoEntry, RunZero, Explore, ShrinkTry
<1>2. CoreInv' /\ Found' = Found
  BY <1>1, Tried
<1>3. LoopType'
  BY <1>1, <1>2 DEF IInv, LoopType, shrink, loop
<1>4. Flags'
  BY <1>1 DEF IInv, Flags, loop, effects
<1>5. drop' = {}
  BY <1>1 DEF Ready
<1> QED
  BY <1>2, <1>3, <1>4, <1>5 DEF IInv, DropTried

\* The zero data is pinned in the cache.
LEMMA PinZeroStep ==
  ASSUME IInv, NEW z \in Exact, PinZero(z), zero = FALSE
  PROVE  IInv'
<1>1. /\ Ready /\ IsZero(z) /\ pins' = [pins EXCEPT ![z] = @ + 1] /\ zero' = TRUE
      /\ pc' = "generate"
      /\ UNCHANGED <<db, exit, ran, interesting, valid, invalid, shrinks, saving, loop, drop,
                    shrink, effects>>
  BY DEF PinZero
<1>2. LiveInv /\ drop' = {} /\ test' = test /\ Found' = Found
  BY <1>1 DEF Ready, Live, IInv, CoreInv, effects, Found
<1>3. \A c \in ChoiceSeqs : pins'[c] = IF c = z THEN pins[c] + 1 ELSE pins[c]
  BY <1>1 DEF IInv, CoreInv, CoreType
<1>4. CoreType'
  <2>1. pins' \in [ChoiceSeqs -> Nat]
    BY <1>1 DEF IInv, CoreInv, CoreType, Exact
  <2>2. zero' \in BOOLEAN
    BY <1>1
  <2> QED
    BY <1>1, <1>2, <2>1, <2>2 DEF IInv, CoreInv, CoreType, db
<1>5. BestFails' /\ Beaten' /\ SavingBest' /\ Saved'
  BY <1>1, <1>2 DEF LiveInv, BestFails, Beaten, SavingBest, Saved, Found, Exact, Fails,
                    Replacing, db
<1>6. PinsCounted'
  <2> SUFFICES ASSUME NEW c \in ChoiceSeqs PROVE pins'[c] = BestPin(c)' + ZeroPin(c)'
    BY DEF PinsCounted
  <2>1. BestPin(c)' = BestPin(c) /\ BestPin(c) \in Nat
    BY <1>1, <1>2 DEF BestPin, Fails, Replacing
  <2>2. ZeroPin(c) = 0
    BY DEF ZeroPin
  <2>3. ZeroPin(c)' = IF c = z THEN 1 ELSE 0
    <3>1. IsZero(c) <=> c = z
      <4>1. MaxChoice \in Nat /\ Exact \subseteq 1 .. MaxChoice
        BY RunnerConstants DEF Exact, ChoiceSeqs
      <4>2. z \in Exact /\ \A d \in Exact : z <= d
        BY <1>1 DEF IsZero
      <4>3. ASSUME IsZero(c) PROVE c = z
        <5>1. c \in Exact /\ c <= z /\ z <= c
          BY <4>2, <4>3 DEF IsZero
        <5> QED
          BY <4>1, <4>2, <5>1
      <4>4. ASSUME c = z PROVE IsZero(c)
        BY <1>1, <4>4
      <4> QED
        BY <4>3, <4>4
    <3>2. IsZero(c)' <=> IsZero(c)
      BY <1>2 DEF IsZero, Exact
    <3> QED
      BY <1>1, <3>1, <3>2 DEF ZeroPin
  <2> QED
    BY <1>2, <1>3, <2>1, <2>2, <2>3 DEF LiveInv, PinsCounted
<1>7. LoopType'
  BY <1>1, <1>2 DEF IInv, LoopType, shrink, loop
<1>8. Flags'
  BY <1>1 DEF IInv, Flags, loop, effects
<1> QED
  BY <1>2, <1>4, <1>5, <1>6, <1>7, <1>8 DEF IInv, CoreInv, LiveInv, DropTried

\* A test case of the generate phase overruns.
LEMMA ExploreOverrunStep == ASSUME IInv, ExploreOverrun PROVE IInv'
<1>1. /\ Ready /\ invalid' = invalid + 1 /\ exit' \in {"max_iterations", "none"}
      /\ UNCHANGED <<db, pc, ran, interesting, pins, valid, shrinks, saving, loop, drop,
                    shrink, zero, effects>>
  BY DEF ExploreOverrun
<1>2. /\ UNCHANGED <<test, saving, ran, interesting, pins, zero, primary, secondary>>
      /\ exit = "none" /\ saving = 0 /\ drop' = {} /\ Found' = Found
  BY <1>1 DEF Ready, effects, db, Found
<1>3. CoreInv'
  <2>1. primary' \subseteq Entries /\ secondary' \subseteq Entries
    BY <1>2 DEF IInv, CoreInv, CoreType
  <2>2. valid' \in Nat /\ invalid' \in Nat /\ shrinks' \in Nat
    BY <1>1 DEF IInv, CoreInv, CoreType
  <2>3. \A o \in Found : interesting[o] \in primary => interesting[o] \in primary'
    BY <1>2
  <2>4. exit' \in ExitReasons
    BY <1>1 DEF ExitReasons
  <2> QED
    BY <1>2, <2>1, <2>2, <2>3, <2>4, Quiet
<1>4. LoopType'
  BY <1>1, <1>2 DEF IInv, LoopType, shrink, loop
<1>5. Flags'
  BY <1>1 DEF IInv, Flags, loop, effects
<1> QED
  BY <1>2, <1>3, <1>4, <1>5 DEF IInv, DropTried

\* shrink_interesting_examples begins.
LEMMA BeginShrinkStep == ASSUME IInv, BeginShrink PROVE IInv'
<1>1. /\ Ready /\ exit' \in {"finished", "none"}
      /\ pc' \in {pc, "replay"}
      /\ UNCHANGED <<db, results, extra, room, found, exact, drop, shrink, zero, effects>>
  BY DEF BeginShrink, Ready
<1>2. CoreInv' /\ Found' = Found /\ drop' = {}
  <2>1. exit = "none" /\ exit' \in ExitReasons /\ saving = 0 /\ test' = test
    BY <1>1 DEF Ready, ExitReasons, effects
  <2> QED
    BY <1>1, <2>1, QuietKeeps DEF Ready
<1>3. todo' \subseteq Entries
  <2>1. \A o \in Found : interesting[o] \in Entries
    BY TestType DEF IInv, CoreInv, CoreType, Found, Entries, ChoiceSeqs
  <2>2. CASE todo' = todo
    BY <2>2 DEF IInv, LoopType
  <2>3. CASE todo' = {interesting[o] : o \in Found}
    BY <2>1, <2>3
  <2> QED
    BY <2>2, <2>3 DEF BeginShrink
<1>4. LoopType'
  BY <1>1, <1>2, <1>3 DEF IInv, LoopType, shrink
<1>5. Flags'
  BY <1>1 DEF IInv, Flags, effects
<1> QED
  BY <1>2, <1>4, <1>5 DEF IInv, DropTried

\* Time passes, and may run out for shrinking.
LEMMA TimePassesStep == ASSUME IInv, TimePasses PROVE IInv'
<1>1. /\ exit = "none" /\ late' = TRUE
      /\ UNCHANGED <<db, exit, pc, results, loop, drop, shrink, zero, test, fast, resume>>
  BY DEF TimePasses
<1>2. CoreInv' /\ Found' = Found
  <2>1. exit' \in ExitReasons /\ exit' = "none"
    BY <1>1 DEF ExitReasons
  <2> QED
    BY <1>1, <2>1, QuietKeeps
<1>3. LoopType'
  BY <1>1, <1>2 DEF IInv, LoopType, shrink, loop
<1>4. Flags'
  BY <1>1 DEF IInv, Flags, loop
<1>5. DropTried'
  BY <1>1 DEF IInv, DropTried, Live, Unextended, Fails, results
<1> QED
  BY <1>2, <1>3, <1>4, <1>5 DEF IInv

\* A failure is replayed before it is shrunk; the test may have changed its mind.
LEMMA ReplayStep ==
  ASSUME IInv, NEW d \in Exact, NEW as \in Outcomes, Replay(d, as)
  PROVE  IInv'
<1>1. /\ Ready /\ todo' = todo \ {d} /\ primary \subseteq primary' /\ primary' \subseteq primary \cup {d}
      /\ UNCHANGED <<secondary, pc, ran, interesting, pins, invalid, shrinks, saving, extra,
                    room, found, exact, drop, shrink, zero, effects>>
  BY DEF Replay
<1>2. exit' \in ExitReasons
  <2>1. \/ exit' \in {"error", "very_slow_shrinking", "flaky"}
        \/ exit' = StopReason(d, Found, valid, invalid, shrinks, ran)
    BY DEF Replay
  <2>2. StopReason(d, Found, valid, invalid, shrinks, ran) \in ExitReasons
    BY StopReasonType
  <2> QED
    BY <2>1, <2>2 DEF ExitReasons
<1>3. valid' \in Nat
  <2>1. valid' = valid + 1 \/ valid' = valid + 0
    <3>1. CASE as = "VALID"
      BY <3>1 DEF Replay
    <3>2. CASE as # "VALID"
      BY <3>2 DEF Replay
    <3> QED
      BY <3>1, <3>2
  <2>2. valid \in Nat
    BY DEF IInv, CoreInv, CoreType
  <2> QED
    BY <2>1, <2>2
<1>4. /\ UNCHANGED <<test, saving, ran, interesting, pins, zero>>
      /\ exit = "none" /\ saving = 0 /\ drop' = {} /\ Found' = Found
  BY <1>1 DEF Ready, effects, Found
<1>5. CoreInv'
  <2>1. primary' \subseteq Entries /\ secondary' \subseteq Entries
    BY <1>1 DEF IInv, CoreInv, CoreType, Entries, Exact
  <2>2. invalid' \in Nat /\ shrinks' \in Nat
    BY <1>1 DEF IInv, CoreInv, CoreType
  <2>3. \A o \in Found : interesting[o] \in primary => interesting[o] \in primary'
    BY <1>1
  <2> QED
    BY <1>2, <1>3, <1>4, <2>1, <2>2, <2>3, Quiet
<1>6. LoopType'
  BY <1>1, <1>4 DEF IInv, LoopType, shrink
<1>7. Flags'
  BY <1>1 DEF IInv, Flags, effects
<1> QED
  BY <1>4, <1>5, <1>6, <1>7 DEF IInv, DropTried

\* The secondary key is about to be cleared.
LEMMA BeginClearStep == ASSUME IInv, BeginClear PROVE IInv'
<1>1. /\ Ready /\ pc' = "clear" /\ todo' \subseteq secondary
      /\ UNCHANGED <<db, exit, results, extra, room, found, exact, drop, shrink, zero, effects>>
  BY DEF BeginClear
<1>2. CoreInv' /\ Found' = Found /\ drop' = {}
  <2>1. exit = "none" /\ exit' \in ExitReasons /\ exit' = "none" /\ test' = test
    BY <1>1 DEF Ready, ExitReasons, effects
  <2> QED
    BY <1>1, <2>1, QuietKeeps DEF Ready
<1>3. LoopType'
  BY <1>1, <1>2 DEF IInv, LoopType, shrink, CoreInv, CoreType
<1>4. Flags'
  BY <1>1 DEF IInv, Flags, effects
<1> QED
  BY <1>2, <1>3, <1>4 DEF IInv, DropTried

\* What clear_secondary_key deletes was run, unless it is short.
LEMMA ClearEntryStep ==
  ASSUME IInv, NEW e \in Entries, ClearEntry(e)
  PROVE  IInv'
<1>1. /\ Ready /\ pc = "clear" /\ UNCHANGED <<pc, extra, room, found, exact, shrink, zero, effects>>
      /\ todo' \subseteq todo
  BY DEF ClearEntry
<1>2. Flags'
  BY <1>1 DEF IInv, Flags, effects
<1>3. test' = test /\ drop = {} /\ exit = "none" /\ saving = 0
  BY <1>1 DEF effects, Ready
<1>4. CASE \E d \in Unextended(e) : CachedTestFunction(d) /\ drop' = {e}
  <2>1. PICK d \in Unextended(e) : CachedTestFunction(d) /\ drop' = {e}
    BY <1>4
  <2>2. e \in ChoiceSeqs /\ d \in test.plays[e] /\ d <= e
    BY <2>1 DEF Unextended
  <2>3. d \in Exact /\ test.plays[e] = {d}
    BY <2>2, TestType DEF IInv, CoreInv
  <2>4. CoreInv' /\ Found' = Found /\ ran' = ran \cup {d}
    BY <1>1, <2>1, <2>3, Tried
  <2>5. LoopType'
    BY <1>1, <2>1, <2>4 DEF IInv, LoopType, shrink
  <2>6. DropTried'
    BY <1>1, <1>3, <2>1, <2>3, <2>4 DEF DropTried, Unextended
  <2> QED
    BY <1>2, <2>4, <2>5, <2>6 DEF IInv
<1>5. CASE /\ UNCHANGED <<results, db, exit>>
           /\ (Unextended(e) = {} /\ drop' = {e}) \/ drop' = drop
  <2>1. CoreInv' /\ Found' = Found
    <3>1. exit' \in ExitReasons /\ exit' = "none"
      BY <1>3, <1>5 DEF ExitReasons
    <3> QED
      BY <1>1, <1>3, <1>5, <3>1, QuietKeeps
  <2>2. LoopType'
    BY <1>1, <1>5, <2>1 DEF IInv, LoopType, shrink
  <2>3. DropTried'
    BY <1>3, <1>5 DEF DropTried, Unextended
  <2> QED
    BY <1>2, <2>1, <2>2, <2>3 DEF IInv
<1> QED
  BY <1>4, <1>5 DEF ClearEntry

\* The next failure to shrink is picked.
LEMMA PickTargetStep == ASSUME IInv, PickTarget PROVE IInv'
<1>1. /\ Ready /\ exit' \in {"finished", "none"} /\ target' \subseteq target \cup Found
      /\ UNCHANGED <<db, pc, results, loop, drop, shrunk, tidy, zero, effects>>
  BY DEF PickTarget, Ready
<1>2. CoreInv' /\ Found' = Found /\ drop' = {}
  <2>1. exit = "none" /\ exit' \in ExitReasons /\ saving = 0 /\ test' = test
    BY <1>1 DEF Ready, ExitReasons, effects
  <2> QED
    BY <1>1, <2>1, QuietKeeps DEF Ready
<1>3. LoopType'
  BY <1>1, <1>2 DEF IInv, LoopType, loop
<1>4. Flags'
  BY <1>1 DEF IInv, Flags, loop, effects
<1> QED
  BY <1>2, <1>3, <1>4 DEF IInv, DropTried

\* The shrinker gives up on its failure.
LEMMA ShrinkDoneStep == ASSUME IInv, ShrinkDone PROVE IInv'
<1>1. /\ Ready /\ exit' \in {"finished", "none"}
      /\ target' \subseteq target /\ shrunk' \subseteq shrunk \cup target
      /\ tidy' = [o \in Origins |-> IF o \in target THEN interesting[o] ELSE tidy[o]]
      /\ UNCHANGED <<db, pc, results, loop, drop, zero, effects>>
  BY DEF ShrinkDone, Ready, ShrunkWith
<1>2. CoreInv' /\ Found' = Found /\ drop' = {}
  <2>1. exit = "none" /\ exit' \in ExitReasons /\ saving = 0 /\ test' = test
    BY <1>1 DEF Ready, ExitReasons, effects
  <2> QED
    BY <1>1, <2>1, QuietKeeps DEF Ready
<1>3. LoopType'
  <2>1. tidy' \in [Origins -> 0 .. MaxChoice]
    BY <1>1 DEF IInv, LoopType, CoreInv, CoreType
  <2> QED
    BY <1>1, <1>2, <2>1 DEF IInv, LoopType, loop
<1>4. Flags'
  BY <1>1 DEF IInv, Flags, loop, effects
<1> QED
  BY <1>2, <1>3, <1>4 DEF IInv, DropTried

\* The best of an origin is saved, at any point where one is pending.
LEMMA SaveBestStep == ASSUME IInv, SaveBest PROVE IInv'
<1>1. CoreInv'
  BY SaveStep DEF IInv
<1>2. /\ exit = "none" /\ shrunk' = shrunk \ {test.does[saving]}
      /\ interesting' = [interesting EXCEPT ![test.does[saving]] = saving]
      /\ saving # 0
      /\ UNCHANGED <<pc, loop, drop, ran, target, tidy, effects>>
  BY DEF SaveBest, ShrunkWithout
<1>3. Found \subseteq Found'
  BY <1>2 DEF Found, IInv, CoreInv, CoreType
<1>4. LoopType'
  BY <1>2, <1>3 DEF IInv, LoopType, loop
<1>5. Flags'
  BY <1>2 DEF IInv, Flags, loop, effects
<1>6. DropTried'
  <2>1. Live /\ test' = test
    BY <1>2 DEF Live, effects
  <2> QED
    BY <1>2, <2>1 DEF IInv, DropTried, Unextended, Fails
<1> QED
  BY <1>1, <1>4, <1>5, <1>6 DEF IInv

\* A run begins: it remembers nothing of the last one but the database.
LEMMA BeginStep == ASSUME IInv, Begin PROVE IInv' /\ zero' = FALSE
<1>1. /\ exit' = "none" /\ pc' = "reuse" /\ drop' = {} /\ saving' = 0 /\ ran' = {}
      /\ interesting' = None /\ shrunk' = {} /\ target' = {} /\ tidy' = None
      /\ pins' = [c \in ChoiceSeqs |-> 0] /\ valid' = 0 /\ invalid' = 0 /\ shrinks' = 0
      /\ zero' = FALSE
      /\ todo' \subseteq primary /\ extra' \subseteq secondary
      /\ UNCHANGED <<test, db>>
  BY DEF Begin
<1>2. MaxChoice \in Nat
  BY RunnerConstants
<1>3. interesting' \in [Origins -> 0 .. MaxChoice] /\ pins' \in [ChoiceSeqs -> Nat]
  BY <1>1, <1>2 DEF None
<1>4. CoreType'
  <2>1. zero' \in BOOLEAN
    BY <1>1
  <2> QED
    BY <1>1, <1>2, <1>3, <2>1 DEF IInv, CoreInv, CoreType, db, ExitReasons
<1>5. Found' = {}
  BY <1>1 DEF Found, None
<1>6. BestFails' /\ Beaten' /\ SavingBest' /\ Saved'
  BY <1>1, <1>5 DEF BestFails, Beaten, SavingBest, Saved
<1>7. PinsCounted'
  <2> SUFFICES ASSUME NEW c \in ChoiceSeqs PROVE pins'[c] = BestPin(c)' + ZeroPin(c)'
    BY DEF PinsCounted
  <2>1. ZeroPin(c)' = 0
    BY <1>1 DEF ZeroPin
  <2>2. BestPin(c)' = 0
    BY <1>1, <1>2 DEF BestPin, Fails, None, ChoiceSeqs
  <2> QED
    BY <1>1, <2>1, <2>2
<1>8. LoopType'
  <2>1. tidy' \in [Origins -> 0 .. MaxChoice]
    BY <1>1, <1>2 DEF None
  <2> QED
    BY <1>1, <2>1 DEF IInv, LoopType, CoreInv, CoreType
<1>9. Flags'
  <2>1. /\ found' = FALSE /\ exact' = TRUE /\ fast' = FALSE /\ late' = FALSE
        /\ resume' = (exit = "very_slow_shrinking")
    BY DEF Begin
  <2>2. resume' \in BOOLEAN
    BY <2>1
  <2>3. room' \in BOOLEAN
    <3>1. CASE "reuse" \in test.phases
      <4>1. PICK some \in SUBSET secondary :
              room' = (Cardinality(primary) + Cardinality(some) < DesiredSize)
        BY <3>1 DEF Begin
      <4> QED
        BY <4>1
    <3>2. CASE "reuse" \notin test.phases
      <4>1. room' = FALSE
        BY <3>2 DEF Begin
      <4> QED
        BY <4>1
    <3> QED
      BY <3>1, <3>2
  <2> QED
    BY <2>1, <2>2, <2>3 DEF Flags
<1> QED
  BY <1>1, <1>4, <1>6, <1>7, <1>8, <1>9 DEF IInv, CoreInv, LiveInv, DropTried

\* The process dies; the database stays.
LEMMA CrashStep == ASSUME IInv, Crash PROVE IInv'
<1>1. /\ exit' = "crash" /\ drop' = {} /\ saving' = 0
      /\ UNCHANGED <<db, pc, loop, ran, interesting, pins, valid, invalid, shrinks, shrink,
                    zero, effects>>
  BY DEF Crash
<1>2. MaxChoice \in Nat /\ Found' = Found
  BY <1>1, RunnerConstants DEF Found
<1>3. CoreType'
  BY <1>1, <1>2 DEF IInv, CoreInv, CoreType, db, effects, ExitReasons
<1>4. ~Live'
  BY <1>1 DEF Live
<1>5. LoopType'
  BY <1>1, <1>2 DEF IInv, LoopType, loop, shrink
<1>6. Flags'
  BY <1>1 DEF IInv, Flags, loop, effects
<1> QED
  BY <1>3, <1>4, <1>5, <1>6 DEF IInv, CoreInv, DropTried

\* The test is edited between two runs.
LEMMA EditTestStep == ASSUME IInv, EditTest PROVE IInv'
<1>1. /\ exit' = "new" /\ test' \in Tests
      /\ UNCHANGED <<db, pc, results, loop, drop, shrink, zero, fast, late, resume>>
      /\ exit # "none"
  BY DEF EditTest
<1>2. saving' = 0 /\ Found' = Found
  BY <1>1 DEF IInv, CoreInv, CoreType, results, Found
<1>3. CoreType'
  BY <1>1, <1>2 DEF IInv, CoreInv, CoreType, db, results, ExitReasons
<1>4. ~Live'
  BY <1>1 DEF Live
<1>5. LoopType'
  BY <1>1, <1>2 DEF IInv, LoopType, loop, shrink
<1>6. Flags'
  BY <1>1 DEF IInv, Flags, loop
<1> QED
  BY <1>3, <1>4, <1>5, <1>6 DEF IInv, CoreInv, DropTried

\* Nothing happens.
LEMMA Stutter == ASSUME IInv, UNCHANGED vars PROVE IInv'
<1>1. CoreInv'
  BY DEF vars, IInv, CoreInv, CoreType, Live, LiveInv, BestFails, Beaten, SavingBest, Saved,
         PinsCounted, BestPin, ZeroPin, IsZero, Replacing, Found, Exact, Fails
<1>2. LoopType' /\ Flags' /\ DropTried'
  BY DEF vars, IInv, LoopType, Flags, DropTried, Live, Unextended, Fails, Found
<1> QED
  BY <1>1, <1>2 DEF IInv

\* The zero data is pinned once in a run.
ZeroOnce == pc \in {"reuse", "pareto", "start", "zero", "pin"} => zero = FALSE

\* No step pins the zero data a second time.
LEMMA ZeroStep == ASSUME ZeroOnce, [Next]_vars PROVE ZeroOnce'
<1> USE DEF ZeroOnce
<1>1. CASE Begin
  BY <1>1 DEF Begin
<1>2. CASE SaveBest \/ DropEntry
  BY <1>2 DEF SaveBest, DropEntry
<1>3. ASSUME NEW e \in Entries, ReuseGarbage(e) \/ ClearEntry(e) PROVE ZeroOnce'
  BY <1>3 DEF ReuseGarbage, ClearEntry
<1>4. ASSUME NEW e \in Entries, NEW d \in ChoiceSeqs, ReuseEntry(e, d) PROVE ZeroOnce'
  BY <1>4 DEF ReuseEntry
<1>5. CASE EndReuse \/ BeginShrink \/ BeginClear \/ PickTarget \/ ShrinkDone
  BY <1>5 DEF EndReuse, BeginShrink, BeginClear, PickTarget, ShrinkDone
<1>6. CASE EndPareto \/ BeginGenerate \/ EndGenerate \/ EndTarget \/ EndClear
  BY <1>6 DEF EndPareto, BeginGenerate, EndGenerate, EndTarget, EndClear, Goto
<1>7. ASSUME NEW d \in Exact, ParetoEntry(d) \/ RunZero(d) \/ Explore(d) \/ ShrinkTry(d)
      PROVE  ZeroOnce'
  BY <1>7 DEF ParetoEntry, RunZero, Explore, ShrinkTry
<1>8. ASSUME NEW d \in Exact, PinZero(d) PROVE ZeroOnce'
  BY <1>8 DEF PinZero
<1>9. ASSUME NEW d \in Exact, NEW as \in Outcomes, Replay(d, as) PROVE ZeroOnce'
  BY <1>9 DEF Replay
<1>10. CASE ExploreOverrun
  BY <1>10 DEF ExploreOverrun
<1>11. CASE TimePasses \/ Crash \/ EditTest
  BY <1>11 DEF TimePasses, Crash, EditTest
<1>12. CASE UNCHANGED vars
  BY <1>12 DEF vars
<1> QED
  BY <1>1, <1>2, <1>3, <1>4, <1>5, <1>6, <1>7, <1>8, <1>9, <1>10, <1>11, <1>12
  DEF Next, Run

\* Every step keeps the invariant.
LEMMA Step == ASSUME IInv, ZeroOnce, [Next]_vars PROVE IInv'
<1>1. CASE Begin
  BY <1>1, BeginStep
<1>2. CASE SaveBest \/ DropEntry
  BY <1>2, SaveBestStep, DropEntryStep
<1>3. ASSUME NEW e \in Entries, ReuseGarbage(e) \/ ClearEntry(e) PROVE IInv'
  BY <1>3, ReuseGarbageStep, ClearEntryStep
<1>4. ASSUME NEW e \in Entries, NEW d \in ChoiceSeqs, ReuseEntry(e, d) PROVE IInv'
  BY <1>4, ReuseEntryStep
<1>5. CASE EndReuse \/ BeginShrink \/ BeginClear \/ PickTarget \/ ShrinkDone
  BY <1>5, EndReuseStep, BeginShrinkStep, BeginClearStep, PickTargetStep, ShrinkDoneStep
<1>6. CASE EndPareto \/ BeginGenerate \/ EndGenerate \/ EndTarget \/ EndClear
  BY <1>6, GotoStep DEF EndPareto, BeginGenerate, EndGenerate, EndTarget, EndClear
<1>7. ASSUME NEW d \in Exact, ParetoEntry(d) \/ RunZero(d) \/ Explore(d) \/ ShrinkTry(d)
      PROVE  IInv'
  BY <1>7, TriedStep
<1>8. ASSUME NEW d \in Exact, PinZero(d) PROVE IInv'
  BY <1>8, PinZeroStep DEF PinZero, ZeroOnce
<1>9. ASSUME NEW d \in Exact, NEW as \in Outcomes, Replay(d, as) PROVE IInv'
  BY <1>9, ReplayStep
<1>10. CASE ExploreOverrun
  BY <1>10, ExploreOverrunStep
<1>11. CASE TimePasses \/ Crash \/ EditTest
  BY <1>11, TimePassesStep, CrashStep, EditTestStep
<1>12. CASE UNCHANGED vars
  BY <1>12, Stutter
<1> QED
  BY <1>1, <1>2, <1>3, <1>4, <1>5, <1>6, <1>7, <1>8, <1>9, <1>10, <1>11, <1>12
  DEF Next, Run

\* The invariant that the theorems of this module follow from.
LEMMA RunnerInv == Spec => [](IInv /\ ZeroOnce)
<1>1. Init => IInv /\ ZeroOnce
  BY CoreInit DEF Init, ZeroOnce
<1>2. IInv /\ ZeroOnce /\ [Next]_vars => (IInv /\ ZeroOnce)'
  BY Step, ZeroStep
<1> QED
  BY <1>1, <1>2, PTL DEF Spec

-----------------------------------------------------------------------------
\* Every variable keeps its type, and a shrunk failure is one that was found.
THEOREM RunnerTypeCorrect == Spec => []TypeOK
<1>1. IInv => TypeOK
  <2> SUFFICES ASSUME IInv PROVE TypeOK
    OBVIOUS
  <2>1. saving # 0 => Fails(saving)
    BY DEF IInv, CoreInv, CoreType, Live, LiveInv, SavingBest
  <2>2. {zero, found, exact, room, fast, late, resume} \subseteq BOOLEAN
    BY DEF IInv, Flags, CoreInv, CoreType
  <2> QED
    BY <2>1, <2>2 DEF IInv, LoopType, CoreInv, CoreType, TypeOK
<1> QED
  BY <1>1, RunnerInv, PTL

\* Reported failures can be replayed: unless it is being replaced, the best of
\* every failure found so far is in the primary corpus.
THEOREM BestSaved == Spec => []BestIsSaved
<1>1. IInv => BestIsSaved
  BY DEF IInv, CoreInv, Live, LiveInv, Saved, Replacing, BestIsSaved
<1> QED
  BY <1>1, RunnerInv, PTL

\* The data cache pins the best failures and the zero data, and nothing else.
THEOREM PinsCorrect == Spec => []PinsMatch
<1>1. ASSUME IInv PROVE PinsMatch
  <2> SUFFICES ASSUME exit = "none", saving = 0, NEW c \in ChoiceSeqs
               PROVE  pins[c] = Cardinality({o \in Found : interesting[o] = c})
                                  + (IF zero /\ IsZero(c) THEN 1 ELSE 0)
    BY DEF PinsMatch
  <2> DEFINE S == {o \in Found : interesting[o] = c}
  <2>1. LiveInv /\ c # 0
    BY <1>1, RunnerConstants DEF IInv, CoreInv, Live, ChoiceSeqs
  <2>2. pins[c] = BestPin(c) + ZeroPin(c)
    BY <2>1 DEF LiveInv, PinsCounted
  <2>3. Cardinality(S) = BestPin(c)
    <3>1. CASE Fails(c) /\ interesting[test.does[c]] = c
      <4>1. S = {test.does[c]}
        BY <2>1, <3>1 DEF LiveInv, BestFails, Found, Fails
      <4>2. BestPin(c) = 1
        BY <3>1 DEF BestPin, Replacing
      <4> QED
        BY <4>1, <4>2, FS_Singleton
    <3>2. CASE ~(Fails(c) /\ interesting[test.does[c]] = c)
      <4>1. S = {}
        BY <2>1, <3>2 DEF LiveInv, BestFails, Found, Fails
      <4>2. BestPin(c) = 0
        BY <3>2 DEF BestPin
      <4> QED
        BY <4>1, <4>2, FS_EmptySet
    <3> QED
      BY <3>1, <3>2
  <2> QED
    BY <2>2, <2>3 DEF ZeroPin
<1> QED
  BY <1>1, RunnerInv, PTL

\* Only two actions delete an entry.
LEMMA NothingRemoved ==
  ASSUME [Next]_vars, ~DropEntry, ~\E g \in Entries : ReuseGarbage(g)
  PROVE  primary \cup secondary \subseteq primary' \cup secondary'
<1> DEFINE Kept == primary \cup secondary \subseteq primary' \cup secondary'
<1>1. CASE Begin \/ SaveBest
  BY <1>1 DEF Begin, SaveBest, db
<1>2. ASSUME NEW d, CachedTestFunction(d) PROVE Kept
  <2>1. CASE UNCHANGED db
    BY <2>1 DEF db
  <2>2. CASE Downgrade(test.does[d])
    BY <2>2 DEF Downgrade, db
  <2> QED
    BY <1>2, <2>1, <2>2 DEF CachedTestFunction, TestFunction
<1>3. ASSUME NEW e \in Entries, ClearEntry(e) PROVE Kept
  <2>1. (\E d \in Unextended(e) : CachedTestFunction(d)) \/ UNCHANGED db
    BY <1>3 DEF ClearEntry
  <2> QED
    BY <1>2, <2>1 DEF db
<1>4. ASSUME NEW e \in Entries, NEW d \in ChoiceSeqs, ReuseEntry(e, d) PROVE Kept
  BY <1>2, <1>4 DEF ReuseEntry
<1>5. CASE EndReuse \/ BeginShrink \/ BeginClear \/ PickTarget \/ ShrinkDone
  BY <1>5 DEF EndReuse, BeginShrink, BeginClear, PickTarget, ShrinkDone, db
<1>6. CASE EndPareto \/ BeginGenerate \/ EndGenerate \/ EndTarget \/ EndClear
  BY <1>6 DEF EndPareto, BeginGenerate, EndGenerate, EndTarget, EndClear, Goto, db
<1>7. ASSUME NEW d \in Exact, ParetoEntry(d) \/ RunZero(d) \/ Explore(d) \/ ShrinkTry(d)
      PROVE  Kept
  <2>1. CachedTestFunction(d)
    BY <1>7, TestIsCached DEF ParetoEntry, RunZero, Explore, ShrinkTry
  <2> QED
    BY <1>2, <2>1
<1>8. ASSUME NEW d \in Exact, PinZero(d) PROVE Kept
  BY <1>8 DEF PinZero, db
<1>9. ASSUME NEW d \in Exact, NEW as \in Outcomes, Replay(d, as) PROVE Kept
  BY <1>9 DEF Replay
<1>10. CASE ExploreOverrun \/ TimePasses \/ Crash \/ EditTest
  BY <1>10 DEF ExploreOverrun, TimePasses, Crash, EditTest, db
<1>11. CASE UNCHANGED vars
  BY <1>11 DEF vars
<1> QED
  BY <1>1, <1>3, <1>4, <1>5, <1>6, <1>7, <1>8, <1>9, <1>10, <1>11 DEF Next, Run

\* What is lost of the database no longer fails, or is no better than what
\* primary holds of the same bug.
LEMMA LostNothing ==
  ASSUME IInv, [Next]_vars,
         NEW e \in primary \cup secondary, e \notin primary' \cup secondary',
         NEW d \in Unextended(e), Fails(d)
  PROVE  \E f \in primary' \cap Exact : test.does[f] = test.does[d] /\ f <= d
<1>1. CASE DropEntry
  <2>1. /\ exit = "none" /\ saving = 0 /\ e \in drop
        /\ primary' = IF pc = "reuse" THEN primary \ drop ELSE primary
        /\ secondary' = secondary \ drop
    BY <1>1 DEF DropEntry, DropReused, DropCleared
  <2>2. LiveInv /\ Live
    BY <2>1 DEF IInv, CoreInv, Live
  <2>3. pc # "reuse" /\ d \in ran
    BY <2>1, <2>2 DEF IInv, DropTried
  <2>4. d \in ChoiceSeqs /\ test.does[d] \in Origins /\ MaxChoice \in Nat
    BY <2>3, RunnerConstants DEF IInv, CoreInv, CoreType, Fails
  <2> DEFINE f == interesting[test.does[d]]
  <2>5. f \in 1 .. d
    BY <2>1, <2>2, <2>3, <2>4 DEF LiveInv, Beaten, ChoiceSeqs
  <2>6. test.does[d] \in Found
    BY <2>4, <2>5 DEF Found, ChoiceSeqs
  <2>7. f \in Exact /\ test.does[f] = test.does[d] /\ f \in primary
    BY <2>1, <2>2, <2>6 DEF LiveInv, BestFails, Saved, Replacing
  <2>8. f <= d
    BY <2>4, <2>5 DEF ChoiceSeqs
  <2> QED
    BY <2>1, <2>3, <2>7, <2>8
<1>2. ASSUME NEW g \in Entries, ReuseGarbage(g) PROVE FALSE
  <2>1. e \in Garbage
    BY <1>2 DEF ReuseGarbage
  <2>2. e \notin ChoiceSeqs
    BY <2>1, RunnerConstants DEF ChoiceSeqs
  <2> QED
    BY <2>2 DEF Unextended
<1>3. CASE ~DropEntry /\ ~\E g \in Entries : ReuseGarbage(g)
  <2>1. primary \cup secondary \subseteq primary' \cup secondary'
    BY <1>3, NothingRemoved
  <2> QED
    BY <2>1
<1> QED
  BY <1>1, <1>2, <1>3

\* At every step, a crash included, an entry that still fails is given up only
\* for one at least as good, of the same bug, in primary.
THEOREM NothingIsLost == Spec => NothingLost
<1>1. ASSUME IInv, [Next]_vars
      PROVE  [\A e \in (primary \cup secondary) \ (primary' \cup secondary') :
                \A d \in Unextended(e) : Fails(d) =>
                  \E f \in primary' \cap Exact : test.does[f] = test.does[d] /\ f <= d]_vars
  BY <1>1, LostNothing
<1> QED
  BY <1>1, RunnerInv, PTL DEF Spec, NothingLost

-----------------------------------------------------------------------------
\* A failure that counts as shrunk was not improved since the shrinker gave up, and a
\* run that shrinks and says that it is finished has nothing left to shrink or to run.
ShrunkIsTidy == \A o \in shrunk : tidy[o] = interesting[o]
AllTidy ==
  exit = "finished" /\ pc = "shrinking" /\ test.multiple => shrunk = Found \/ ran = Exact
TidyInv == ShrunkIsTidy /\ AllTidy

\* A step that forgets no best and does not end the run so.
LEMMA TidyKeeps ==
  ASSUME ShrunkIsTidy, UNCHANGED <<interesting, tidy>>, shrunk' \subseteq shrunk,
         exit' = "finished" /\ pc' = "shrinking" => ran' = Exact'
  PROVE  TidyInv'
BY DEF TidyInv, ShrunkIsTidy, AllTidy

\* A call of the test function finishes the run only by exhausting the test.
LEMMA CallFinishes ==
  ASSUME exit = "none", NEW d, CachedTestFunction(d), UNCHANGED test
  PROVE  interesting' = interesting /\ (exit' = "finished" => ran' = Exact')
<1>1. CASE d \in ran
  BY <1>1 DEF CachedTestFunction, results
<1>2. CASE d \notin ran
  <2>1. TestFunction(d)
    BY <1>2 DEF CachedTestFunction
  <2>2. interesting' = interesting /\ Exact' = Exact
    BY <2>1 DEF TestFunction, Exact
  <2>3. exit' = exit \/ exit' = StopReason(d, Found, valid', invalid', shrinks, ran')
    BY <2>1 DEF TestFunction
  <2> QED
    BY <2>2, <2>3 DEF StopReason
<1> QED
  BY <1>1, <1>2

\* A run has found finitely many failures.
LEMMA FoundFinite == ASSUME IInv, Live PROVE IsFiniteSet(Found)
<1> DEFINE D == {test.does[c] : c \in ChoiceSeqs}
           f == [c \in ChoiceSeqs |-> test.does[c]]
<1>1. IsFiniteSet(ChoiceSeqs)
  BY RunnerConstants, FS_Interval DEF ChoiceSeqs
<1>2. IsFiniteSet(D)
  <2>1. f \in Surjection(ChoiceSeqs, D)
    BY DEF Surjection
  <2> HIDE DEF f, D
  <2> QED
    BY <1>1, <2>1, FS_Surjection
<1>3. Found \subseteq D
  BY DEF IInv, CoreInv, LiveInv, BestFails, Exact
<1> QED
  BY <1>2, <1>3, FS_Subset

\* Every step keeps the account of what was shrunk.
LEMMA TidyStep == ASSUME IInv, TidyInv, [Next]_vars PROVE TidyInv'
<1> USE DEF TidyInv
<1>1. CASE Begin
  BY <1>1 DEF Begin, ShrunkIsTidy, AllTidy
<1>2. CASE SaveBest
  <2>1. test.does[saving] \notin shrunk' /\ shrunk' \subseteq shrunk /\ tidy' = tidy
    BY <1>2 DEF SaveBest, ShrunkWithout
  <2>2. interesting \in [Origins -> 0 .. MaxChoice] /\ shrunk \subseteq Origins
    BY DEF IInv, CoreInv, CoreType, LoopType, Found
  <2>3. \A o \in shrunk' : interesting'[o] = interesting[o]
    BY <1>2, <2>1, <2>2 DEF SaveBest
  <2>4. exit' = "finished" => ran' = Exact'
    BY <1>2 DEF SaveBest, StopReason, Exact, effects
  <2> QED
    BY <2>1, <2>3, <2>4 DEF ShrunkIsTidy, AllTidy
<1>3. CASE DropEntry
  BY <1>3, TidyKeeps DEF DropEntry, shrink, results
<1>4. ASSUME NEW e \in Entries, ReuseGarbage(e) PROVE TidyInv'
  BY <1>4, TidyKeeps DEF ReuseGarbage, shrink, results, Ready
<1>5. ASSUME NEW e \in Entries, ClearEntry(e) PROVE TidyInv'
  <2>1. exit = "none" /\ UNCHANGED <<test, shrunk, tidy>>
    BY <1>5 DEF ClearEntry, Ready, shrink, effects
  <2>2. (\E d : CachedTestFunction(d)) \/ UNCHANGED <<results, exit>>
    BY <1>5 DEF ClearEntry
  <2>3. interesting' = interesting /\ (exit' = "finished" => ran' = Exact')
    BY <2>1, <2>2, CallFinishes DEF results
  <2> QED
    BY <2>1, <2>3, TidyKeeps
<1>6. ASSUME NEW e \in Entries, NEW d \in ChoiceSeqs, ReuseEntry(e, d) PROVE TidyInv'
  BY <1>6, CallFinishes, TidyKeeps DEF ReuseEntry, Ready, shrink, effects
<1>7. CASE EndReuse
  BY <1>7, TidyKeeps DEF EndReuse, shrink, results
<1>8. CASE BeginShrink
  BY <1>8, TidyKeeps DEF BeginShrink, shrink, results, Ready
<1>9. CASE BeginClear
  BY <1>9, TidyKeeps DEF BeginClear, shrink, results, Ready
<1>10. CASE EndPareto \/ BeginGenerate \/ EndGenerate \/ EndTarget \/ EndClear
  BY <1>10, TidyKeeps
  DEF EndPareto, BeginGenerate, EndGenerate, EndTarget, EndClear, Goto, shrink, results, Ready
<1>11. ASSUME NEW d \in Exact, ParetoEntry(d) \/ RunZero(d) PROVE TidyInv'
  BY <1>11, CallFinishes, TidyKeeps DEF ParetoEntry, RunZero, Ready, shrink, effects
<1>12. ASSUME NEW d \in Exact, Explore(d) \/ ShrinkTry(d) PROVE TidyInv'
  <2>1. CachedTestFunction(d)
    BY <1>12, TestIsCached DEF Explore, ShrinkTry
  <2> QED
    BY <1>12, <2>1, CallFinishes, TidyKeeps DEF Explore, ShrinkTry, Ready, shrink, effects
<1>13. ASSUME NEW d \in Exact, PinZero(d) PROVE TidyInv'
  BY <1>13, TidyKeeps DEF PinZero, Ready, shrink
<1>14. CASE ExploreOverrun
  BY <1>14, TidyKeeps DEF ExploreOverrun, shrink
<1>15. ASSUME NEW d \in Exact, NEW as \in Outcomes, Replay(d, as) PROVE TidyInv'
  BY <1>15, TidyKeeps DEF Replay, StopReason, shrink
<1>16. CASE PickTarget
  <2>1. UNCHANGED <<interesting, tidy, shrunk, ran, test>> /\ exit = "none"
    BY <1>16 DEF PickTarget, results, effects, Ready
  <2>2. exit' = "finished" => ~(Cardinality(shrunk) < Cardinality(Found))
    BY <1>16 DEF PickTarget, Ready
  <2>3. shrunk \subseteq Found /\ IsFiniteSet(Found) /\ Found' = Found
    BY <2>1, FoundFinite DEF IInv, LoopType, Live, Found
  <2>4. ASSUME exit' = "finished" PROVE shrunk = Found
    <3>1. Cardinality(shrunk) \in Nat /\ Cardinality(Found) \in Nat
      BY <2>3, FS_Subset, FS_CardinalityType
    <3>2. Cardinality(shrunk) = Cardinality(Found)
      BY <2>2, <2>3, <2>4, <3>1, FS_Subset
    <3> QED
      BY <2>3, <3>2, FS_Subset
  <2> QED
    BY <2>1, <2>3, <2>4 DEF ShrunkIsTidy, AllTidy
<1>17. CASE ShrinkDone
  <2>1. UNCHANGED <<interesting, ran, test>> /\ exit = "none"
    BY <1>17 DEF ShrinkDone, results, effects, Ready
  <2>2. shrunk' \subseteq shrunk \cup target /\ shrunk \cup target \subseteq Origins
    BY <1>17 DEF ShrinkDone, ShrunkWith, IInv, LoopType, Found
  <2>3. exit' = "finished" => ~test.multiple
    BY <1>17, <2>1 DEF ShrinkDone
  <2>4. tidy' = [o \in Origins |-> IF o \in target THEN interesting[o] ELSE tidy[o]]
    BY <1>17 DEF ShrinkDone
  <2> QED
    BY <2>1, <2>2, <2>3, <2>4 DEF ShrunkIsTidy, AllTidy
<1>18. CASE TimePasses \/ Crash \/ EditTest
  BY <1>18, TidyKeeps DEF TimePasses, Crash, EditTest, shrink, results
<1>19. CASE UNCHANGED vars
  BY <1>19 DEF vars, ShrunkIsTidy, AllTidy, Found, Exact
<1> QED
  BY <1>1, <1>2, <1>3, <1>4, <1>5, <1>6, <1>7, <1>8, <1>9, <1>10, <1>11, <1>12, <1>13, <1>14,
     <1>15, <1>16, <1>17, <1>18, <1>19
  DEF Next, Run

\* A run that ends because nothing is left to do has shrunk every failure it reports,
\* unless it ran all that there is, for every test function and whatever the shrinker
\* and the corpus find on the way.
THEOREM EverythingShrunk == Spec => []AllShrunk
<1>1. Init => TidyInv
  BY DEF Init, TidyInv, ShrunkIsTidy, AllTidy
<1>2. IInv /\ TidyInv /\ [Next]_vars => TidyInv'
  BY TidyStep
<1>3. TidyInv => AllShrunk
  BY DEF TidyInv, ShrunkIsTidy, AllTidy, AllShrunk
<1> QED
  BY <1>1, <1>2, <1>3, RunnerInv, PTL DEF Spec

-----------------------------------------------------------------------------
\* ReusedCache: it is bounded, and evicts no key that is pinned.
VARIABLES cache, older

Cache == INSTANCE ReusedCache WITH Values <- CachedValues

\* Sets are as large there as here.
LEMMA Sizes ==
  \A S : (Cache!IsFiniteSet(S) <=> IsFiniteSet(S)) /\ Cache!Cardinality(S) = Cardinality(S)
<1>1. \A S : Cache!IsFiniteSet(S) <=> IsFiniteSet(S)
  BY DEF Cache!IsFiniteSet, IsFiniteSet
<1>2. ASSUME NEW S PROVE Cache!Cardinality(S) = Cardinality(S)
  BY DEF Cache!Cardinality, Cardinality
<1> QED
  BY <1>1, <1>2

\* The parts of the state that the promises rest on.
CacheInv == Cache!TypeOK /\ Cache!Bounded /\ Cache!Ordered

\* A key used now comes after the others that stay, which keep their order.
LEMMA UsedOrdered ==
  ASSUME CacheInv, NEW k, NEW K \in SUBSET Cache!Cached, k \notin K,
         Cache!Cached' = K \cup {k}, older' = Cache!Used(k, K)
  PROVE  Cache!Ordered' /\ older' \subseteq Cache!Cached' \X Cache!Cached'
  <1> USE DEF CacheInv
  <1>1. \A i, j : <<i, j>> \in older' <=>
          (i \in K /\ j \in K /\ <<i, j>> \in older) \/ (i \in K /\ j = k)
    BY DEF Cache!Used, Cache!TypeOK
  <1>2. older' \subseteq Cache!Cached' \X Cache!Cached'
    BY DEF Cache!Used, Cache!TypeOK
  <1>3. \A i \in Cache!Cached' : i # k => i \in K /\ i \in Cache!Cached
    OBVIOUS
  <1>4. \A i, j \in Cache!Cached' : i # j => (<<i, j>> \in older' <=> <<j, i>> \notin older')
    <2> SUFFICES ASSUME NEW i \in Cache!Cached', NEW j \in Cache!Cached', i # j
                 PROVE  <<i, j>> \in older' <=> <<j, i>> \notin older'
      OBVIOUS
    <2>1. CASE i = k  BY <1>1, <1>3, <2>1
    <2>2. CASE j = k  BY <1>1, <1>3, <2>2
    <2>3. CASE i # k /\ j # k
      <3>1. i \in K /\ j \in K /\ i \in Cache!Cached /\ j \in Cache!Cached  BY <1>3, <2>3
      <3>2. <<i, j>> \in older <=> <<j, i>> \notin older  BY <3>1 DEF Cache!Ordered
      <3> QED  BY <1>1, <2>3, <3>1, <3>2
    <2> QED  BY <2>1, <2>2, <2>3
  <1>5. \A h, i, j \in Cache!Cached' :
          <<h, i>> \in older' /\ <<i, j>> \in older' => <<h, j>> \in older'
    BY <1>1, <1>3 DEF Cache!Ordered
  <1>6. ASSUME NEW i, i \in Cache!Cached' PROVE <<i, i>> \notin older'
    <2>1. CASE i = k  BY <1>1, <2>1
    <2>2. CASE i # k
      <3>1. i \in Cache!Cached  BY <1>3, <1>6, <2>2
      <3> QED  BY <1>1, <2>2, <3>1 DEF Cache!Ordered
    <2> QED  BY <2>1, <2>2
  <1> QED  BY <1>2, <1>4, <1>5, <1>6 DEF Cache!Ordered

\* Whatever is stored, only keys of the cache and the stored one are in it
\* afterwards, one has left it if it was full, and all entries keep their type.
LEMMA StoreKeeps ==
  ASSUME Cache!CacheConstants, CacheInv, NEW k \in Keys, NEW v \in CachedValues, NEW p \in Nat,
         Cache!Store(k, v, p)
  PROVE  CacheInv'
  <1> USE DEF Cache!CacheConstants, CacheInv, Cache!TypeOK, Cache!Bounded, Cache!Cached, Cache!Entry
  <1>1. CASE Cache!Rewrite(k, v, p)
    <2>1. cache' \in [Cache!Cached -> [value : CachedValues, reused : BOOLEAN, pins : Nat]]
      BY <1>1 DEF Cache!Rewrite
    <2>2. Cache!Cached' = (Cache!Cached \ {k}) \cup {k}  BY <1>1 DEF Cache!Rewrite
    <2>3. Cache!Ordered' /\ older' \subseteq Cache!Cached' \X Cache!Cached'
      BY <1>1, <2>2, UsedOrdered DEF Cache!Rewrite
    <2>4. Cache!Cached' = Cache!Cached  BY <1>1, <2>2 DEF Cache!Rewrite
    <2> QED  BY <2>1, <2>3, <2>4
  <1>2. CASE Cache!Insert(k, v, p)
    <2>1. Cache!Cached' = Cache!Cached \cup {k}  BY <1>2 DEF Cache!Insert
    <2>2. cache' \in [Cache!Cached' -> [value : CachedValues, reused : BOOLEAN, pins : Nat]]
      BY <1>2, <2>1 DEF Cache!Insert
    <2>3. IsFiniteSet(Cache!Cached') /\ Cardinality(Cache!Cached') = Cardinality(Cache!Cached) + 1
      BY <1>2, <2>1, FS_AddElement, Sizes DEF Cache!Insert
    <2>4. Cache!Ordered' /\ older' \subseteq Cache!Cached' \X Cache!Cached'
      BY <1>2, <2>1, UsedOrdered DEF Cache!Insert
    <2>5. Cardinality(Cache!Cached) \in Nat  BY FS_CardinalityType, Sizes
    <2> QED  BY <1>2, <2>1, <2>2, <2>3, <2>4, <2>5, Sizes DEF Cache!Insert
  <1>3. ASSUME NEW j \in Cache!Cached, Cache!Replace(j, k, v, p)  PROVE CacheInv'
    <2>1. Cache!Cached' = (Cache!Cached \ {j}) \cup {k}  BY <1>3 DEF Cache!Replace
    <2>2. cache' \in [Cache!Cached' -> [value : CachedValues, reused : BOOLEAN, pins : Nat]]
      BY <1>3, <2>1 DEF Cache!Replace
    <2>3. IsFiniteSet(Cache!Cached \ {j}) /\ Cardinality(Cache!Cached \ {j}) = Cardinality(Cache!Cached) - 1
      BY <1>3, FS_RemoveElement, Sizes
    <2>4. IsFiniteSet(Cache!Cached') /\ Cardinality(Cache!Cached') = Cardinality(Cache!Cached \ {j}) + 1
      BY <1>3, <2>1, <2>3, FS_AddElement, Sizes DEF Cache!Replace
    <2>5. Cache!Ordered' /\ older' \subseteq Cache!Cached' \X Cache!Cached'
      BY <1>3, <2>1, UsedOrdered DEF Cache!Replace
    <2>6. Cardinality(Cache!Cached) \in Nat  BY FS_CardinalityType, Sizes
    <2>7. Cardinality(Cache!Cached') <= MaxSize  BY <1>3, <2>3, <2>4, <2>6, Sizes DEF Cache!Replace
    <2>8. Cache!Cached' \subseteq Keys  BY <2>1
    <2> QED  BY <2>2, <2>4, <2>5, <2>7, <2>8, Sizes
  <1> QED  BY <1>1, <1>2, <1>3 DEF Cache!Store

\* The empty cache.
LEMMA CacheInit == ASSUME Cache!CacheConstants, Cache!Init PROVE CacheInv
  BY FS_EmptySet, Sizes DEF Cache!CacheConstants, Cache!Init, CacheInv, Cache!TypeOK, Cache!Bounded, Cache!Ordered, Cache!Cached

\* Every operation of the cache keeps its bound and its order.
LEMMA CacheStep == ASSUME Cache!CacheConstants, CacheInv, [Cache!Next]_<<cache, older>> PROVE CacheInv'
  <1> USE DEF CacheInv, Cache!TypeOK, Cache!Bounded, Cache!Cached
  <1>1. ASSUME NEW k \in Keys, Cache!Read(k)  PROVE CacheInv'
    <2>1. Cache!Cached' = (Cache!Cached \ {k}) \cup {k}  BY <1>1 DEF Cache!Read
    <2>2. cache' \in [Cache!Cached -> [value : CachedValues, reused : BOOLEAN, pins : Nat]]
      BY <1>1 DEF Cache!Read
    <2>3. Cache!Ordered' /\ older' \subseteq Cache!Cached' \X Cache!Cached'
      BY <1>1, <2>1, UsedOrdered DEF Cache!Read
    <2>4. Cache!Cached' = Cache!Cached  BY <1>1, <2>1 DEF Cache!Read
    <2> QED  BY <2>2, <2>3, <2>4
  <1>2. ASSUME NEW k \in Keys, Cache!Unpin(k)  PROVE CacheInv'
    <2>1. Cache!Cached' = Cache!Cached /\ older' = older  BY <1>2 DEF Cache!Unpin
    <2>2. cache[k].pins - 1 \in Nat  BY <1>2 DEF Cache!Unpin
    <2>3. cache' \in [Cache!Cached -> [value : CachedValues, reused : BOOLEAN, pins : Nat]]
      BY <1>2, <2>2 DEF Cache!Unpin
    <2> QED  BY <2>1, <2>3 DEF Cache!Ordered
  <1>3. ASSUME NEW k \in Keys, NEW v \in CachedValues, Cache!Write(k, v)  PROVE CacheInv'
    BY <1>3, StoreKeeps DEF Cache!Write
  <1>4. ASSUME NEW k \in Keys, NEW v \in CachedValues, Cache!Pin(k, v)  PROVE CacheInv'
    BY <1>4, StoreKeeps DEF Cache!Pin
  <1>5. CASE Cache!Clear
    BY <1>5, FS_EmptySet, Sizes DEF Cache!Clear, Cache!CacheConstants, Cache!Ordered
  <1>6. CASE UNCHANGED <<cache, older>>  BY <1>6 DEF Cache!vars, Cache!Ordered
  <1> QED  BY <1>1, <1>2, <1>3, <1>4, <1>5, <1>6 DEF Cache!Next

\* The cache of GenericCache never holds more than max_size keys, what it holds
\* has the type of its entries, and their uses are totally ordered, so that at
\* most one key is the one to evict.
THEOREM CacheBounded == ASSUME Cache!CacheConstants PROVE Cache!Spec => []CacheInv
  <1>1. Cache!Init => CacheInv  BY CacheInit
  <1>2. CacheInv /\ [Cache!Next]_<<cache, older>> => CacheInv'  BY CacheStep
  <1> QED  BY <1>1, <1>2, PTL DEF Cache!Spec, Cache!vars

-----------------------------------------------------------------------------
\* Storing evicts no pinned key and takes no pin away.
LEMMA StoreKeepsPins ==
  ASSUME CacheInv, NEW k \in Keys, NEW v \in CachedValues, NEW p \in Nat, Cache!Store(k, v, p),
         NEW j \in Cache!Cached, cache[j].pins > 0
  PROVE  j \in Cache!Cached' /\ cache'[j].pins >= cache[j].pins
  <1> USE DEF CacheInv, Cache!TypeOK, Cache!Cached, Cache!Entry
  <1>1. CASE Cache!Rewrite(k, v, p)  BY <1>1 DEF Cache!Rewrite
  <1>2. CASE Cache!Insert(k, v, p)  BY <1>2 DEF Cache!Insert
  <1>3. ASSUME NEW i \in Cache!Cached, Cache!Replace(i, k, v, p)
        PROVE  j \in Cache!Cached' /\ cache'[j].pins >= cache[j].pins
    <2>1. i # j  BY <1>3 DEF Cache!Replace, Cache!Evictable
    <2> QED  BY <1>3, <2>1 DEF Cache!Replace
  <1> QED  BY <1>1, <1>2, <1>3 DEF Cache!Store

\* pin: unless the cache is cleared, a pinned key stays, and loses a pin only by
\* an unpin of its own.
THEOREM PinnedKeysStay == ASSUME Cache!CacheConstants PROVE Cache!Spec => Cache!PinnedStay
  <1> DEFINE Stays ==
        cache' = <<>> \/ \A k \in Cache!Cached : cache[k].pins > 0 =>
          /\ k \in Cache!Cached'
          /\ cache'[k].pins >= cache[k].pins - 1
          /\ cache'[k].pins < cache[k].pins => Cache!Unpin(k)
  <1>1. ASSUME CacheInv, [Cache!Next]_<<cache, older>>  PROVE [Stays]_<<cache, older>>
    <2> USE <1>1 DEF CacheInv, Cache!TypeOK, Cache!Cached
    <2>1. ASSUME NEW k \in Keys, Cache!Read(k)  PROVE Stays
      BY <2>1 DEF Cache!Read
    <2>2. ASSUME NEW k \in Keys, Cache!Unpin(k)  PROVE Stays
      <3>1. \A j \in Cache!Cached : j # k => cache'[j] = cache[j]
        BY <2>2 DEF Cache!Unpin
      <3>2. Cache!Cached' = Cache!Cached /\ cache'[k].pins = cache[k].pins - 1
        BY <2>2 DEF Cache!Unpin
      <3> QED  BY <2>2, <3>1, <3>2
    <2>3. ASSUME NEW k \in Keys, NEW v \in CachedValues, NEW p \in Nat, Cache!Store(k, v, p)
          PROVE  Stays
      <3>1. \A j \in Cache!Cached : cache[j].pins > 0 =>
              j \in Cache!Cached' /\ cache'[j].pins >= cache[j].pins
        BY <2>3, StoreKeepsPins
      <3>2. CacheInv'  BY <2>3, StoreKeeps
      <3> QED  BY <3>1, <3>2
    <2>4. CASE Cache!Clear  BY <2>4 DEF Cache!Clear
    <2>5. CASE UNCHANGED <<cache, older>>  BY <2>5
    <2> QED  BY <2>1, <2>2, <2>3, <2>4, <2>5 DEF Cache!Next, Cache!Write, Cache!Pin
  <1>2. CacheInv /\ [Cache!Next]_<<cache, older>> => [Stays]_<<cache, older>>  BY <1>1
  <1>3. Cache!Spec => []CacheInv  BY CacheBounded
  <1> QED  BY <1>2, <1>3, PTL DEF Cache!Spec, Cache!vars, Cache!PinnedStay

-----------------------------------------------------------------------------
\* HeapCache implements ReusedCache.  A sort key is put in numbers: entries of one class
\* by their ticks, those used again after those that were not, pinned entries last.

\* A set of numbers that has a member has a least one.
LEMMA Least == ASSUME NEW T \in SUBSET Nat, T # {}
               PROVE  \E m \in T : \A k \in T : m <= k
<1> DEFINE R == StrictSubsetOrdering(Nat)
           Below == {1 .. m : m \in T}
<1>1. \A m \in T : 1 .. m \in SUBSET Nat /\ IsFiniteSet(1 .. m)
  BY FS_Interval
<1>2. Below \subseteq FiniteSubsetsOf(Nat) /\ Below # {}
  BY <1>1 DEF FiniteSubsetsOf
<1>3. PICK x \in Below : \A y \in Below : <<y, x>> \notin R
  <2>1. IsWellFoundedOn(R, FiniteSubsetsOf(Nat))
    BY FS_StrictSubsetOrderingWellFounded
  <2> HIDE DEF R, Below
  <2> QED
    BY <2>1, <1>2, WFMin
<1>4. PICK m \in T : x = 1 .. m
  BY <1>3
<1>5. ASSUME NEW k \in T, k < m PROVE FALSE
  <2>1. 1 .. k \subseteq 1 .. m /\ m \in 1 .. m /\ m \notin 1 .. k
    BY <1>5
  <2>2. <<1 .. k, 1 .. m>> \in R
    BY <2>1, <1>1, <1>5 DEF StrictSubsetOrdering
  <2> QED
    BY <2>2, <1>3, <1>4, <1>5
<1> QED
  BY <1>5

\* Any entry of the heap.
HeapEntries == [key : Keys, value : CachedValues, reused : BOOLEAN, pins : Nat]

\* ord holds each of the keys once.
Rows(ord, K) ==
  /\ ord \in Seq(K)
  /\ \A k \in K : \E i \in 1 .. Len(ord) : ord[i] = k
  /\ \A i, j \in 1 .. Len(ord) : ord[i] = ord[j] => i = j

\* Keys are as old to each other in o as in p.
KeepsOrder(o, p, K) ==
  \A x, y \in K : Heap!Place(o, x) < Heap!Place(o, y) <=> Heap!Place(p, x) < Heap!Place(p, y)

Weight(ord, e) ==
  IF e.pins > 0 THEN 2 * Len(ord) + 1
  ELSE (IF e.reused THEN Len(ord) ELSE 0) + Heap!Place(ord, e.key)

\* A key stands where Place says, and nowhere else.
LEMMA PlaceIs ==
  ASSUME NEW K, NEW ord, Rows(ord, K)
  PROVE  /\ Len(ord) \in Nat
         /\ \A k \in K : Heap!Place(ord, k) \in 1 .. Len(ord) /\ ord[Heap!Place(ord, k)] = k
         /\ \A i \in 1 .. Len(ord) : ord[i] \in K /\ Heap!Place(ord, ord[i]) = i
<1>1. Len(ord) \in Nat /\ DOMAIN ord = 1 .. Len(ord) /\ \A i \in 1 .. Len(ord) : ord[i] \in K
  BY LenProperties, ElementOfSeq DEF Rows
<1>2. ASSUME NEW k \in K PROVE Heap!Place(ord, k) \in DOMAIN ord /\ ord[Heap!Place(ord, k)] = k
  BY <1>1 DEF Rows, Heap!Place
<1>3. ASSUME NEW i \in 1 .. Len(ord) PROVE Heap!Place(ord, ord[i]) = i
  <2>1. ord[i] \in K
    BY <1>1
  <2>2. /\ Heap!Place(ord, ord[i]) \in 1 .. Len(ord)
        /\ ord[Heap!Place(ord, ord[i])] = ord[i]
    BY <2>1, <1>1, <1>2
  <2> QED
    BY <2>2 DEF Rows
<1> QED
  BY <1>1, <1>2, <1>3

\* Keys have different places.
LEMMA PlacesDiffer ==
  ASSUME NEW K, NEW ord, Rows(ord, K), NEW x \in K, NEW y \in K, x # y
  PROVE  Heap!Place(ord, x) # Heap!Place(ord, y)
  BY PlaceIs

\* Entries compare as their weights do.
LEMMA LessIs ==
  ASSUME NEW K, NEW ord, Rows(ord, K), NEW e \in HeapEntries, NEW f \in HeapEntries,
         e.key \in K, f.key \in K
  PROVE  /\ Weight(ord, e) \in Nat
         /\ Heap!Less(Heap!SortKey(ord, e), Heap!SortKey(ord, f)) <=> Weight(ord, e) < Weight(ord, f)
<1> DEFINE n == Len(ord)
           a == Heap!Place(ord, e.key)
           b == Heap!Place(ord, f.key)
<1>1. n \in Nat /\ a \in 1 .. n /\ b \in 1 .. n
  BY PlaceIs
<1>2. /\ e.pins \in Nat /\ f.pins \in Nat
      /\ e.reused \in BOOLEAN /\ f.reused \in BOOLEAN
  BY DEF HeapEntries
<1>3. Weight(ord, e) = IF e.pins > 0 THEN 2 * n + 1 ELSE (IF e.reused THEN n ELSE 0) + a
  BY DEF Weight
<1>4. Weight(ord, f) = IF f.pins > 0 THEN 2 * n + 1 ELSE (IF f.reused THEN n ELSE 0) + b
  BY DEF Weight
<1> DEFINE c == IF e.reused THEN 2 ELSE 1
           d == IF f.reused THEN 2 ELSE 1
<1>5. Heap!SortKey(ord, e) = IF e.pins > 0 THEN <<1>> ELSE <<0, c, a>>
  BY DEF Heap!SortKey
<1>6. Heap!SortKey(ord, f) = IF f.pins > 0 THEN <<1>> ELSE <<0, d, b>>
  BY DEF Heap!SortKey
<1>7. c \in {1, 2} /\ d \in {1, 2}
  OBVIOUS
<1>8. (e.reused <=> c = 2) /\ (f.reused <=> d = 2)
  BY <1>2
<1> HIDE DEF n, a, b, c, d
<1>9. CASE e.pins > 0 /\ f.pins > 0
  <2>1. ~Heap!Less(<<1>>, <<1>>)
    BY DEF Heap!Less
  <2> QED
    BY <2>1, <1>9, <1>1, <1>2, <1>3, <1>4, <1>5, <1>6
<1>10. CASE e.pins > 0 /\ ~(f.pins > 0)
  <2>1. ~Heap!Less(<<1>>, <<0, d, b>>)
    <3> DEFINE s == <<1>>
    <3> SUFFICES ASSUME NEW i \in {1}, s[i] < <<0, d, b>>[i] PROVE FALSE
      BY DEF Heap!Less
    <3> QED
      OBVIOUS
  <2> QED
    BY <2>1, <1>10, <1>1, <1>2, <1>3, <1>4, <1>5, <1>6
<1>11. CASE ~(e.pins > 0) /\ f.pins > 0
  <2>1. Heap!Less(<<0, c, a>>, <<1>>)
    <3>1. 1 \in DOMAIN <<0, c, a>> \cap DOMAIN <<1>> /\ <<0, c, a>>[1] < <<1>>[1]
      OBVIOUS
    <3>2. \A j \in 1 .. 1 - 1 : <<0, c, a>>[j] = <<1>>[j]
      OBVIOUS
    <3> QED
      BY <3>1, <3>2 DEF Heap!Less
  <2> QED
    BY <2>1, <1>11, <1>1, <1>2, <1>3, <1>4, <1>5, <1>6
<1>12. CASE ~(e.pins > 0) /\ ~(f.pins > 0)
  <2>1. Heap!Less(<<0, c, a>>, <<0, d, b>>) <=> c < d \/ (c = d /\ a < b)
    <3> DEFINE s == <<0, c, a>>
               t == <<0, d, b>>
    <3>1. /\ DOMAIN s \cap DOMAIN t = {1, 2, 3}
          /\ s[1] = 0 /\ t[1] = 0 /\ s[2] = c /\ t[2] = d /\ s[3] = a /\ t[3] = b
      OBVIOUS
    <3> HIDE DEF s, t
    <3>2. ASSUME c < d PROVE Heap!Less(s, t)
      <4>1. \A j \in 1 .. 2 - 1 : s[j] = t[j]
        BY <3>1
      <4> QED
        BY <4>1, <3>1, <3>2 DEF Heap!Less
    <3>3. ASSUME c = d, a < b PROVE Heap!Less(s, t)
      <4>1. \A j \in 1 .. 3 - 1 : s[j] = t[j]
        BY <3>1, <3>3
      <4> QED
        BY <4>1, <3>1, <3>3 DEF Heap!Less
    <3>4. ASSUME Heap!Less(s, t) PROVE c < d \/ (c = d /\ a < b)
      <4>1. PICK i \in {1, 2, 3} : s[i] < t[i] /\ \A j \in 1 .. i - 1 : s[j] = t[j]
        BY <3>1, <3>4 DEF Heap!Less
      <4>2. CASE i = 3
        <5>1. 2 \in 1 .. i - 1
          BY <4>2
        <5>2. s[2] = t[2]
          BY <4>1, <5>1
        <5> QED
          BY <5>2, <4>1, <4>2, <3>1
      <4> QED
        BY <4>1, <4>2, <3>1
    <3> QED
      BY <3>2, <3>3, <3>4, <1>1, <1>7 DEF s, t
  <2>2. Weight(ord, e) = (IF c = 2 THEN n ELSE 0) + a /\ Weight(ord, f) = (IF d = 2 THEN n ELSE 0) + b
    BY <1>3, <1>4, <1>8, <1>12
  <2>3. Heap!SortKey(ord, e) = <<0, c, a>> /\ Heap!SortKey(ord, f) = <<0, d, b>>
    BY <1>5, <1>6, <1>12
  <2>4. (IF c = 2 THEN n ELSE 0) + a < (IF d = 2 THEN n ELSE 0) + b <=> c < d \/ (c = d /\ a < b)
    BY <1>1, <1>7
  <2>5. Weight(ord, e) \in Nat
    BY <2>2, <1>1, <1>7
  <2> QED
    BY <2>1, <2>2, <2>3, <2>4, <2>5
<1> QED
  BY <1>9, <1>10, <1>11, <1>12

\* Entries of different keys compare alike in orders that agree.
LEMMA WeightsKept ==
  ASSUME NEW K, NEW L, NEW o, NEW p, Rows(o, K), Rows(p, L),
         NEW M \in SUBSET (K \cap L), KeepsOrder(o, p, M),
         NEW e \in HeapEntries, NEW f \in HeapEntries, e.key \in M, f.key \in M, e.key # f.key
  PROVE  Weight(o, e) <= Weight(o, f) <=> Weight(p, e) <= Weight(p, f)
<1> DEFINE a == Heap!Place(o, e.key)
           b == Heap!Place(o, f.key)
           c == Heap!Place(p, e.key)
           d == Heap!Place(p, f.key)
           m == Len(o)
           n == Len(p)
<1>1. m \in Nat /\ n \in Nat /\ a \in 1 .. m /\ b \in 1 .. m /\ c \in 1 .. n /\ d \in 1 .. n
  BY PlaceIs
<1>2. a # b /\ c # d
  BY PlacesDiffer
<1>3. a < b <=> c < d
  BY DEF KeepsOrder
<1>4. /\ e.pins \in Nat /\ f.pins \in Nat
      /\ e.reused \in BOOLEAN /\ f.reused \in BOOLEAN
  BY DEF HeapEntries
<1>5. /\ Weight(o, e) = IF e.pins > 0 THEN 2 * m + 1 ELSE (IF e.reused THEN m ELSE 0) + a
      /\ Weight(o, f) = IF f.pins > 0 THEN 2 * m + 1 ELSE (IF f.reused THEN m ELSE 0) + b
      /\ Weight(p, e) = IF e.pins > 0 THEN 2 * n + 1 ELSE (IF e.reused THEN n ELSE 0) + c
      /\ Weight(p, f) = IF f.pins > 0 THEN 2 * n + 1 ELSE (IF f.reused THEN n ELSE 0) + d
  BY DEF Weight
<1> HIDE DEF a, b, c, d, m, n
<1>6. CASE e.pins > 0
  BY <1>1, <1>4, <1>5, <1>6
<1>7. CASE ~(e.pins > 0) /\ f.pins > 0
  BY <1>1, <1>4, <1>5, <1>7
<1>8. CASE ~(e.pins > 0) /\ ~(f.pins > 0)
  <2>1. CASE e.reused /\ f.reused
    BY <2>1, <1>1, <1>2, <1>3, <1>5, <1>8
  <2>2. CASE ~e.reused /\ f.reused
    BY <2>2, <1>1, <1>5, <1>8
  <2>3. CASE e.reused /\ ~f.reused
    BY <2>3, <1>1, <1>5, <1>8
  <2>4. CASE ~e.reused /\ ~f.reused
    BY <2>4, <1>1, <1>2, <1>3, <1>5, <1>8
  <2> QED
    BY <2>1, <2>2, <2>3, <2>4
<1> QED
  BY <1>6, <1>7, <1>8

-----------------------------------------------------------------------------
\* The order of the ticks.

\* Without k the others stay as old to each other.
LEMMA Dropped ==
  ASSUME NEW K, NEW ord, Rows(ord, K), NEW k \in K,
         NEW new, new = Heap!RemoveAt(ord, Heap!Place(ord, k))
  PROVE  Rows(new, K \ {k}) /\ KeepsOrder(new, ord, K \ {k})
<1> DEFINE n == Len(ord)
           i == Heap!Place(ord, k)
           L == K \ {k}
<1>1. n \in Nat /\ i \in 1 .. n /\ ord[i] = k /\ ord \in Seq(K)
  BY PlaceIs DEF Rows
<1>2. /\ Len(new) = n - 1
      /\ \A j \in 1 .. n - 1 : new[j] = IF j < i THEN ord[j] ELSE ord[j + 1]
  <2> DEFINE s == SubSeq(ord, 1, i - 1)
             t == SubSeq(ord, i + 1, n)
  <2>1. new = s \o t
    BY DEF Heap!RemoveAt
  <2> HIDE DEF i, n
  <2>2. /\ s \in Seq(K) /\ Len(s) = i - 1
        /\ \A j \in 1 .. i - 1 : s[j] = ord[j]
    BY <1>1, SubSeqProperties DEF n
  <2>3. /\ t \in Seq(K) /\ Len(t) = n - i
        /\ \A j \in 1 .. n - i : t[j] = ord[j + i]
    <3>1. i + 1 \in 1 .. n + 1 /\ n \in i .. n
      BY <1>1
    <3>2. t \in Seq(K) /\ Len(t) = (IF i + 1 <= n THEN n - (i + 1) + 1 ELSE 0)
          /\ \A j \in 1 .. n - (i + 1) + 1 : t[j] = ord[(i + 1) + j - 1]
      BY <1>1, <3>1, SubSeqProperties DEF n
    <3> HIDE DEF t
    <3> QED
      BY <3>2, <1>1
  <2> HIDE DEF s, t
  <2>4. Len(s \o t) = Len(s) + Len(t) /\ \A j \in 1 .. Len(s) + Len(t) :
           (s \o t)[j] = IF j <= Len(s) THEN s[j] ELSE t[j - Len(s)]
    BY <2>2, <2>3, ConcatProperties
  <2>5. ASSUME NEW j \in 1 .. n - 1 PROVE new[j] = IF j < i THEN ord[j] ELSE ord[j + 1]
    <3>1. CASE j < i
      BY <3>1, <2>1, <2>2, <2>3, <2>4, <1>1
    <3>2. CASE ~(j < i)
      <4>1. j - (i - 1) \in 1 .. n - i /\ j - (i - 1) + i = j + 1
        BY <3>2, <1>1
      <4>2. t[j - (i - 1)] = ord[j + 1]
        BY <4>1, <2>3
      <4> QED
        BY <4>2, <3>2, <2>1, <2>2, <2>3, <2>4, <1>1
    <3> QED
      BY <3>1, <3>2
  <2>6. Len(new) = n - 1
    <3>1. Len(s) + Len(t) = n - 1
      BY <2>2, <2>3, <1>1
    <3> QED
      BY <3>1, <2>1, <2>4
  <2> QED
    BY <2>5, <2>6
<1> HIDE DEF i, n
<1>3. new \in Seq(L)
  <2>1. new \in Seq(K)
    <3>1. SubSeq(ord, 1, i - 1) \in Seq(K) /\ SubSeq(ord, i + 1, n) \in Seq(K)
      BY <1>1, SubSeqProperties DEF n
    <3> QED
      BY <3>1, ConcatProperties DEF Heap!RemoveAt, i, n
  <2>2. \A j \in 1 .. Len(new) : new[j] \in L
    <3> SUFFICES ASSUME NEW j \in 1 .. n - 1 PROVE new[j] \in L
      BY <1>1, <1>2
    <3>1. new[j] \in K /\ \E l \in 1 .. n : l # i /\ new[j] = ord[l]
      <4>1. CASE j < i
        BY <4>1, <1>1, <1>2, <2>1, ElementOfSeq
      <4>2. CASE ~(j < i)
        BY <4>2, <1>1, <1>2, <2>1, ElementOfSeq
      <4> QED
        BY <4>1, <4>2
    <3> QED
      BY <3>1, <1>1 DEF Rows, n
  <2> QED
    BY <2>1, <2>2, LenProperties
<1>4. ASSUME NEW x \in L PROVE LET j == Heap!Place(ord, x)
                                   l == IF j < i THEN j ELSE j - 1
                               IN  j \in 1 .. n /\ j # i /\ l \in 1 .. n - 1 /\ new[l] = x
  <2> DEFINE j == Heap!Place(ord, x)
  <2>1. j \in 1 .. n /\ ord[j] = x /\ j # i
    BY PlaceIs, <1>1 DEF n
  <2> HIDE DEF j
  <2> QED
    BY <2>1, <1>1, <1>2 DEF j
<1>5. ASSUME NEW j \in 1 .. n - 1, NEW l \in 1 .. n - 1, new[j] = new[l] PROVE j = l
  <2> DEFINE a == IF j < i THEN j ELSE j + 1
             b == IF l < i THEN l ELSE l + 1
  <2>1. a \in 1 .. n /\ b \in 1 .. n /\ ord[a] = ord[b]
    BY <1>1, <1>2, <1>5
  <2>2. a = b
    BY <2>1 DEF Rows, n
  <2> QED
    BY <2>2, <1>1
<1>6. Rows(new, L)
  <2>1. ASSUME NEW x \in L PROVE \E l \in 1 .. Len(new) : new[l] = x
    <3> DEFINE l == IF Heap!Place(ord, x) < i THEN Heap!Place(ord, x) ELSE Heap!Place(ord, x) - 1
    <3>1. l \in 1 .. Len(new) /\ new[l] = x
      BY <1>2, <1>4
    <3> QED
      BY <3>1
  <2> HIDE DEF L
  <2> QED
    BY <2>1, <1>2, <1>3, <1>5 DEF Rows
<1>7. ASSUME NEW x \in L
      PROVE  Heap!Place(new, x) = (IF Heap!Place(ord, x) < i THEN Heap!Place(ord, x)
                                   ELSE Heap!Place(ord, x) - 1)
  <2> DEFINE l == IF Heap!Place(ord, x) < i THEN Heap!Place(ord, x) ELSE Heap!Place(ord, x) - 1
  <2>1. l \in 1 .. Len(new) /\ new[l] = x
    BY <1>2, <1>4
  <2> HIDE DEF l
  <2>2. Heap!Place(new, new[l]) = l
    BY <2>1, <1>6, PlaceIs
  <2> QED
    BY <2>1, <2>2 DEF l
<1>8. ASSUME NEW x \in L, NEW y \in L
      PROVE  Heap!Place(new, x) < Heap!Place(new, y) <=> Heap!Place(ord, x) < Heap!Place(ord, y)
  <2> DEFINE a == Heap!Place(ord, x)
             b == Heap!Place(ord, y)
  <2>1. a \in 1 .. n /\ b \in 1 .. n /\ a # i /\ b # i
    BY <1>4
  <2>2. /\ Heap!Place(new, x) = (IF a < i THEN a ELSE a - 1)
        /\ Heap!Place(new, y) = (IF b < i THEN b ELSE b - 1)
    BY <1>7
  <2> HIDE DEF a, b
  <2>3. (IF a < i THEN a ELSE a - 1) < (IF b < i THEN b ELSE b - 1) <=> a < b
    BY <2>1, <1>1
  <2> QED
    BY <2>2, <2>3 DEF a, b
<1> QED
  BY <1>6, <1>8 DEF KeepsOrder

\* With k at the end the others stay as old to each other, and k is the youngest.
LEMMA Queued ==
  ASSUME NEW K, NEW ord, Rows(ord, K), NEW k, k \notin K, NEW new, new = Append(ord, k)
  PROVE  /\ Rows(new, K \cup {k}) /\ KeepsOrder(new, ord, K)
         /\ \A x \in K : Heap!Place(new, x) < Heap!Place(new, k)
<1> DEFINE n == Len(ord)
<1>1. n \in Nat /\ ord \in Seq(K) /\ ord \in Seq(K \cup {k})
  <2>1. n \in Nat /\ ord \in Seq(K)
    BY PlaceIs DEF Rows
  <2> QED
    BY <2>1, SeqMonotonic
<1>2. /\ new \in Seq(K \cup {k}) /\ Len(new) = n + 1
      /\ \A j \in 1 .. n : new[j] = ord[j]
      /\ new[n + 1] = k
  BY <1>1, AppendProperties
<1>3. \A j \in 1 .. n : ord[j] \in K
  BY <1>1, ElementOfSeq
<1> HIDE DEF n
<1>4. Rows(new, K \cup {k})
  <2>1. ASSUME NEW x \in K \cup {k} PROVE \E i \in 1 .. n + 1 : new[i] = x
    <3>1. CASE x = k
      BY <3>1, <1>1, <1>2
    <3>2. CASE x \in K
      <4>1. PICK i \in 1 .. n : ord[i] = x
        BY <3>2 DEF Rows, n
      <4> QED
        BY <4>1, <1>1, <1>2
    <3> QED
      BY <3>1, <3>2
  <2>2. ASSUME NEW i \in 1 .. n + 1, NEW j \in 1 .. n + 1, new[i] = new[j] PROVE i = j
    <3>1. CASE i = n + 1 \/ j = n + 1
      BY <3>1, <2>2, <1>1, <1>2, <1>3
    <3>2. CASE i \in 1 .. n /\ j \in 1 .. n
      BY <3>2, <2>2, <1>2 DEF Rows, n
    <3> QED
      BY <3>1, <3>2, <1>1
  <2> QED
    BY <2>1, <2>2, <1>2 DEF Rows
<1>5. ASSUME NEW x \in K PROVE Heap!Place(new, x) = Heap!Place(ord, x) /\ Heap!Place(ord, x) \in 1 .. n
  <2>1. Heap!Place(ord, x) \in 1 .. n /\ ord[Heap!Place(ord, x)] = x
    BY PlaceIs DEF n
  <2>2. Heap!Place(ord, x) \in 1 .. Len(new) /\ new[Heap!Place(ord, x)] = x
    BY <2>1, <1>1, <1>2
  <2> QED
    BY <2>1, <2>2, <1>4, PlaceIs
<1>6. Heap!Place(new, k) = n + 1
  <2>1. n + 1 \in 1 .. Len(new)
    BY <1>1, <1>2
  <2>2. Heap!Place(new, new[n + 1]) = n + 1
    BY <2>1, <1>4, PlaceIs
  <2> QED
    BY <2>2, <1>2
<1> QED
  BY <1>1, <1>4, <1>5, <1>6 DEF KeepsOrder

\* The pairs of keys of which the first is older.
Pairs(ord) ==
  {<<ord[p[1]], ord[p[2]]>> : p \in {p \in (DOMAIN ord) \X (DOMAIN ord) : p[1] < p[2]}}

\* The pairs of a sequence go by the places of its keys.
LEMMA PairsAre ==
  ASSUME NEW K, NEW ord, Rows(ord, K)
  PROVE  Pairs(ord) = {p \in K \X K : Heap!Place(ord, p[1]) < Heap!Place(ord, p[2])}
<1>1. /\ DOMAIN ord = 1 .. Len(ord)
      /\ \A k \in K : Heap!Place(ord, k) \in 1 .. Len(ord) /\ ord[Heap!Place(ord, k)] = k
      /\ \A i \in 1 .. Len(ord) : ord[i] \in K /\ Heap!Place(ord, ord[i]) = i
  BY PlaceIs, LenProperties DEF Rows
<1>2. ASSUME NEW p \in Pairs(ord)
      PROVE  p \in K \X K /\ Heap!Place(ord, p[1]) < Heap!Place(ord, p[2])
  BY <1>1 DEF Pairs
<1>3. ASSUME NEW p \in K \X K, Heap!Place(ord, p[1]) < Heap!Place(ord, p[2])
      PROVE  p \in Pairs(ord)
  <2> DEFINE q == <<Heap!Place(ord, p[1]), Heap!Place(ord, p[2])>>
  <2>1. q \in (DOMAIN ord) \X (DOMAIN ord) /\ q[1] < q[2]
    BY <1>1, <1>3
  <2>2. p = <<ord[q[1]], ord[q[2]]>>
    BY <1>1
  <2> QED
    BY <2>1, <2>2 DEF Pairs
<1> QED
  BY <1>2, <1>3

\* What Used of ReusedCache makes of the pairs: K stays and k is used.
LEMMA PairsUsed ==
  ASSUME NEW J, NEW ord, Rows(ord, J), NEW K \in SUBSET J, NEW k, k \notin K,
         NEW new, Rows(new, K \cup {k}), KeepsOrder(new, ord, K),
         \A x \in K : Heap!Place(new, x) < Heap!Place(new, k)
  PROVE  Pairs(new) = {p \in Pairs(ord) : p[1] \in K /\ p[2] \in K} \cup (K \X {k})
<1> DEFINE L == K \cup {k}
<1>1. Pairs(new) = {p \in L \X L : Heap!Place(new, p[1]) < Heap!Place(new, p[2])}
  BY PairsAre
<1>2. Pairs(ord) = {p \in J \X J : Heap!Place(ord, p[1]) < Heap!Place(ord, p[2])}
  BY PairsAre
<1>3. \A x \in L : Heap!Place(new, x) \in Nat
  BY PlaceIs
<1>4. \A x \in L : ~(Heap!Place(new, k) < Heap!Place(new, x))
  <2> SUFFICES ASSUME NEW x \in L, Heap!Place(new, k) < Heap!Place(new, x) PROVE FALSE
    OBVIOUS
  <2>1. CASE x = k
    BY <2>1, <1>3
  <2>2. CASE x \in K
    BY <2>2, <1>3
  <2> QED
    BY <2>1, <2>2
<1>5. ASSUME NEW x \in L, NEW y \in L
      PROVE  <<x, y>> \in Pairs(new) <=>
             <<x, y>> \in {p \in Pairs(ord) : p[1] \in K /\ p[2] \in K} \cup (K \X {k})
  <2>1. CASE x = k
    BY <2>1, <1>1, <1>4
  <2>2. CASE x \in K /\ y = k
    BY <2>2, <1>1
  <2>3. CASE x \in K /\ y \in K
    BY <2>3, <1>1, <1>2 DEF KeepsOrder
  <2> QED
    BY <2>1, <2>2, <2>3
<1>6. Pairs(new) \subseteq L \X L
  BY <1>1
<1>7. {p \in Pairs(ord) : p[1] \in K /\ p[2] \in K} \cup (K \X {k}) \subseteq L \X L
  BY <1>2
<1> HIDE DEF L
<1> QED
  BY <1>5, <1>6, <1>7

-----------------------------------------------------------------------------
\* Repairing a heap.

\* Index and heap say the same.
Indexed(h) ==
  /\ h.data \in Seq(HeapEntries)
  /\ \A k \in DOMAIN h.index : h.index[k] \in 1 .. Len(h.data) /\ h.data[h.index[k]].key = k
  /\ \A i \in 1 .. Len(h.data) :
       h.data[i].key \in DOMAIN h.index /\ h.index[h.data[i].key] = i

\* A heap whose index and order are right, be it in order or not.
WellFormed(h) ==
  /\ h = [data |-> h.data, index |-> h.index, order |-> h.order]
  /\ h.index = [k \in DOMAIN h.index |-> h.index[k]]
  /\ Indexed(h)
  /\ Rows(h.order, DOMAIN h.index)

\* The weight of the entry at a place.
W(h, i) == Weight(h.order, h.data[i])

\* Two heaps of the same entries and ticks.
Alike(g, h) ==
  /\ Len(g.data) = Len(h.data) /\ DOMAIN g.index = DOMAIN h.index /\ g.order = h.order
  /\ \A k \in DOMAIN h.index : g.data[g.index[k]] = h.data[h.index[k]]

\* The weights of a heap are numbers, and two entries are out of order by their weights.
LEMMA WeightsOf ==
  ASSUME NEW h, WellFormed(h)
  PROVE  /\ Len(h.data) \in Nat /\ DOMAIN h.data = 1 .. Len(h.data)
         /\ \A i \in 1 .. Len(h.data) : h.data[i] \in HeapEntries /\ W(h, i) \in Nat
         /\ \A i, j \in 1 .. Len(h.data) : Heap!OutOfOrder(h, i, j) <=> W(h, j) < W(h, i)
<1>1. /\ Len(h.data) \in Nat /\ DOMAIN h.data = 1 .. Len(h.data)
      /\ \A i \in 1 .. Len(h.data) : h.data[i] \in HeapEntries /\ h.data[i].key \in DOMAIN h.index
  BY LenProperties, ElementOfSeq DEF WellFormed, Indexed
<1>2. ASSUME NEW i \in 1 .. Len(h.data), NEW j \in 1 .. Len(h.data)
      PROVE  W(h, i) \in Nat /\ (Heap!OutOfOrder(h, i, j) <=> W(h, j) < W(h, i))
  BY <1>1, LessIs DEF WellFormed, W, Heap!OutOfOrder
<1> QED
  BY <1>1, <1>2

\* __swap exchanges two entries and keeps the index right.
LEMMA SwapIs ==
  ASSUME NEW h, WellFormed(h), NEW i \in 1 .. Len(h.data), NEW j \in 1 .. Len(h.data), i # j,
         NEW g, g = Heap!Swap(h, i, j)
  PROVE  /\ WellFormed(g) /\ Alike(g, h)
         /\ W(g, i) = W(h, j) /\ W(g, j) = W(h, i)
         /\ \A l \in 1 .. Len(h.data) : l # i /\ l # j => W(g, l) = W(h, l)
<1> DEFINE n == Len(h.data)
           K == DOMAIN h.index
           x == h.data[i].key
           y == h.data[j].key
<1>1. /\ n \in Nat /\ DOMAIN h.data = 1 .. n /\ h.data \in Seq(HeapEntries)
      /\ \A l \in 1 .. n : h.data[l] \in HeapEntries
  BY WeightsOf DEF WellFormed, Indexed
<1>2. x \in K /\ y \in K /\ h.index[x] = i /\ h.index[y] = j /\ x # y
  BY DEF WellFormed, Indexed
<1> DEFINE d == [h.data EXCEPT ![i] = h.data[j]]
           e == [d EXCEPT ![j] = h.data[i]]
           p == [h.index EXCEPT ![y] = i]
           q == [p EXCEPT ![x] = j]
<1>3. g.data = e /\ g.index = q /\ g.order = h.order /\ g = [data |-> e, index |-> q, order |-> h.order]
  <2>1. h = [data |-> h.data, index |-> h.index, order |-> h.order]
    BY DEF WellFormed
  <2>2. g = [h EXCEPT !.data[i] = h.data[j], !.data[j] = h.data[i],
                      !.index[y] = i, !.index[x] = j]
    BY DEF Heap!Swap
  <2> HIDE DEF x, y
  <2> QED
    BY <2>1, <2>2
<1>4. /\ e \in Seq(HeapEntries) /\ Len(e) = n
      /\ e[i] = h.data[j] /\ e[j] = h.data[i]
      /\ \A l \in 1 .. n : l # i /\ l # j => e[l] = h.data[l]
  <2>1. d \in Seq(HeapEntries) /\ Len(d) = n /\ \A l \in 1 .. n : d[l] = IF l = i THEN h.data[j] ELSE h.data[l]
    BY <1>1, ExceptSeq
  <2> HIDE DEF d
  <2>2. e \in Seq(HeapEntries) /\ Len(e) = n /\ \A l \in 1 .. n : e[l] = IF l = j THEN h.data[i] ELSE d[l]
    BY <2>1, <1>1, ExceptSeq
  <2> QED
    BY <2>1, <2>2
<1>5. /\ DOMAIN q = K /\ q = [k \in DOMAIN q |-> q[k]]
      /\ \A k \in K : q[k] = IF k = x THEN j ELSE IF k = y THEN i ELSE h.index[k]
  BY <1>2 DEF WellFormed
<1> HIDE DEF n, d, e, p, q, x, y
<1>6. \A l \in 1 .. n : l # i /\ l # j => h.data[l].key # x /\ h.data[l].key # y
  BY <1>2 DEF WellFormed, Indexed, n
<1>7. Indexed(g)
  <2>1. ASSUME NEW k \in K PROVE q[k] \in 1 .. n /\ e[q[k]].key = k /\ e[q[k]] = h.data[h.index[k]]
    <3>1. h.index[k] \in 1 .. n /\ h.data[h.index[k]].key = k
      BY DEF WellFormed, Indexed, n
    <3>2. CASE k = x
      BY <3>1, <3>2, <1>2, <1>4, <1>5 DEF n
    <3>3. CASE k = y
      BY <3>1, <3>3, <1>2, <1>4, <1>5 DEF n
    <3>4. CASE k # x /\ k # y
      <4>1. h.index[k] # i /\ h.index[k] # j
        BY <3>1, <3>4 DEF x, y
      <4> QED
        BY <3>1, <3>4, <4>1, <1>4, <1>5
    <3> QED
      BY <3>2, <3>3, <3>4
  <2>2. ASSUME NEW l \in 1 .. n PROVE e[l].key \in K /\ q[e[l].key] = l
    <3>1. CASE l = i
      BY <3>1, <1>2, <1>4, <1>5 DEF x, y
    <3>2. CASE l = j
      BY <3>2, <1>2, <1>4, <1>5 DEF x, y
    <3>3. CASE l # i /\ l # j
      <4>1. h.data[l].key \in K /\ h.index[h.data[l].key] = l
        BY DEF WellFormed, Indexed, n
      <4> QED
        BY <4>1, <3>3, <1>4, <1>5, <1>6
    <3> QED
      BY <3>1, <3>2, <3>3
  <2> QED
    BY <2>1, <2>2, <1>3, <1>4, <1>5 DEF Indexed
<1>8. ASSUME NEW k \in K PROVE e[q[k]] = h.data[h.index[k]]
  <2>1. h.index[k] \in 1 .. n /\ h.data[h.index[k]].key = k
    BY DEF WellFormed, Indexed, n
  <2>2. CASE k = x
    BY <2>2, <1>2, <1>4, <1>5
  <2>3. CASE k = y
    BY <2>3, <1>2, <1>4, <1>5
  <2>4. CASE k # x /\ k # y
    <3>1. h.index[k] # i /\ h.index[k] # j
      BY <2>1, <2>4 DEF x, y
    <3> QED
      BY <2>1, <2>4, <3>1, <1>4, <1>5
  <2> QED
    BY <2>2, <2>3, <2>4
<1>9. WellFormed(g)
  BY <1>3, <1>5, <1>7 DEF WellFormed
<1>10. Alike(g, h)
  BY <1>3, <1>4, <1>5, <1>8 DEF Alike, n
<1> QED
  BY <1>3, <1>4, <1>9, <1>10 DEF W, n

\* The heap is in order but for the entry at place a, whatever that weighs.
Around(h, a) ==
  /\ WellFormed(h) /\ a \in 1 .. Len(h.data)
  /\ \A j \in 2 .. Len(h.data) : j # a /\ j \div 2 # a => W(h, j \div 2) <= W(h, j)
  /\ \A j \in 2 .. Len(h.data) : j \div 2 = a /\ a > 1 => W(h, a \div 2) <= W(h, j)

\* It is not lighter than its parent.
Risen(h, a) == a > 1 => W(h, a \div 2) <= W(h, a)

\* No entry is lighter than its parent.
InOrder(h) ==
  WellFormed(h) /\ \A j \in 2 .. Len(h.data) : W(h, j \div 2) <= W(h, j)

\* The first loop, or the second, has a turn to take.
Rises(m) == m.at > 1 /\ Heap!OutOfOrder(m.heap, m.at \div 2, m.at)
Sinks(m) == /\ Heap!Children(m.heap, m.at) # {}
            /\ Heap!OutOfOrder(m.heap, m.at, Heap!SmallestChild(m.heap, m.at))

\* Position j is a child of j \div 2.
LEMMA Halves ==
  \A j \in Nat : j > 1 => j \div 2 \in 1 .. j - 1 /\ (j = 2 * (j \div 2) \/ j = 2 * (j \div 2) + 1)
  OBVIOUS

\* Position a is the parent of 2a and 2a + 1.
LEMMA Doubles ==
  \A a \in Nat : (2 * a) \div 2 = a /\ (2 * a + 1) \div 2 = a
  OBVIOUS

\* What holds the same entries as a heap that does holds them too.
LEMMA AlikeThen ==
  ASSUME NEW f, NEW g, NEW h, Alike(f, g), Alike(g, h) PROVE Alike(f, h)
  BY DEF Alike

\* A turn of the first loop moves the one disorder towards the root, or ends the loop.
LEMMA BubblesUp ==
  ASSUME NEW m, Around(m.heap, m.at), NEW g, g = Heap!BubbleUp(m)
  PROVE  /\ Around(g.heap, g.at) /\ Alike(g.heap, m.heap)
         /\ (g = m /\ ~Rises(m)) \/ g.at < m.at
<1> DEFINE h == m.heap
           a == m.at
           p == a \div 2
           n == Len(h.data)
<1>1. WellFormed(h) /\ a \in 1 .. n
  BY DEF Around
<1>2. /\ n \in Nat /\ \A i \in 1 .. n : W(h, i) \in Nat
      /\ \A i, j \in 1 .. n : Heap!OutOfOrder(h, i, j) <=> W(h, j) < W(h, i)
  BY <1>1, WeightsOf
<1>3. CASE ~Rises(m)
  <2>1. g = m
    BY <1>3 DEF Heap!BubbleUp, Rises
  <2> QED
    BY <2>1, <1>3 DEF Alike
<1>4. CASE Rises(m)
  <2> DEFINE s == Heap!Swap(h, p, a)
  <2>1. g.heap = s /\ g.at = p
    BY <1>4 DEF Heap!BubbleUp, Rises
  <2>2. a > 1 /\ p \in 1 .. n /\ p < a
    BY <1>4, <1>1, <1>2, Halves DEF Rises
  <2>3. W(h, a) < W(h, p)
    BY <1>4, <1>1, <1>2, <2>2 DEF Rises
  <2>4. /\ WellFormed(s) /\ Alike(s, h)
        /\ W(s, p) = W(h, a) /\ W(s, a) = W(h, p)
        /\ \A l \in 1 .. n : l # p /\ l # a => W(s, l) = W(h, l)
    BY <1>1, <2>2, SwapIs
  <2>5. Len(s.data) = n
    BY <2>4 DEF Alike
  <2>6. /\ \A j \in 2 .. n : j # a /\ j \div 2 # a => W(h, j \div 2) <= W(h, j)
        /\ \A j \in 2 .. n : j \div 2 = a => W(h, p) <= W(h, j)
    BY <2>2 DEF Around
  <2>7. ASSUME NEW j \in 2 .. n, j # p, j \div 2 # p PROVE W(s, j \div 2) <= W(s, j)
    <3>1. j \in 1 .. n /\ j \div 2 \in 1 .. n
      BY <1>2, Halves
    <3>2. j # a
      BY <2>7
    <3>3. CASE j \div 2 = a
      BY <3>1, <3>2, <3>3, <2>4, <2>6, <2>7
    <3>4. CASE j \div 2 # a
      BY <3>1, <3>2, <3>4, <2>4, <2>6, <2>7
    <3> QED
      BY <3>3, <3>4
  <2>8. ASSUME NEW j \in 2 .. n, j \div 2 = p, p > 1 PROVE W(s, p \div 2) <= W(s, j)
    <3> DEFINE q == p \div 2
    <3>1. q \in 1 .. n /\ q < p /\ p \in 2 .. n
      BY <2>2, <2>8, <1>2, Halves
    <3>2. W(s, q) = W(h, q)
      BY <3>1, <2>2, <2>4
    <3>3. W(h, q) <= W(h, p)
      <4>1. p # a /\ p \div 2 # a
        BY <3>1, <2>2, <1>1
      <4> QED
        BY <4>1, <3>1, <2>6
    <3>4. j \in 1 .. n /\ j # p
      BY <2>2, <2>8, <1>2, Halves
    <3>5. CASE j = a
      BY <3>2, <3>3, <3>5, <2>4
    <3>6. CASE j # a
      <4>1. p # a
        BY <2>2, <1>1
      <4>2. W(h, p) <= W(h, j)
        BY <3>6, <4>1, <2>6, <2>8
      <4>3. W(s, j) = W(h, j)
        BY <3>4, <3>6, <2>4
      <4>4. W(h, p) \in Nat /\ W(h, j) \in Nat /\ W(h, q) \in Nat
        BY <1>2, <2>2, <3>1, <3>4
      <4> HIDE DEF q
      <4> QED
        BY <3>2, <3>3, <4>2, <4>3, <4>4 DEF q
    <3> QED
      BY <3>5, <3>6
  <2>9. Around(s, p)
    BY <2>2, <2>4, <2>5, <2>7, <2>8 DEF Around
  <2> QED
    BY <2>1, <2>2, <2>4, <2>9
<1> QED
  BY <1>3, <1>4

\* The lightest child.
LEMMA SmallestIs ==
  ASSUME NEW h, WellFormed(h), NEW a \in 1 .. Len(h.data), Heap!Children(h, a) # {}
  PROVE  /\ Heap!SmallestChild(h, a) \in 2 .. Len(h.data)
         /\ Heap!SmallestChild(h, a) \div 2 = a
         /\ \A j \in 2 .. Len(h.data) : j \div 2 = a => W(h, Heap!SmallestChild(h, a)) <= W(h, j)
<1> DEFINE n == Len(h.data)
           C == Heap!Children(h, a)
           S == {j \in C : \A k \in C : ~Heap!OutOfOrder(h, j, k)}
<1>1. /\ n \in Nat /\ DOMAIN h.data = 1 .. n /\ \A i \in 1 .. n : W(h, i) \in Nat
      /\ \A i, j \in 1 .. n : Heap!OutOfOrder(h, i, j) <=> W(h, j) < W(h, i)
  BY WeightsOf
<1>2. C = {2 * a, 2 * a + 1} \cap 1 .. n
  BY <1>1 DEF Heap!Children
<1>3. ASSUME NEW j PROVE j \in C <=> j \in 2 .. n /\ j \div 2 = a
  <2>1. a \in Nat /\ a >= 1
    BY <1>1
  <2> HIDE DEF C, n
  <2>2. ASSUME j \in C PROVE j \in 2 .. n /\ j \div 2 = a
    BY <2>1, <2>2, <1>1, <1>2, Doubles
  <2>3. ASSUME j \in 2 .. n, j \div 2 = a PROVE j \in C
    BY <2>3, <1>1, <1>2, Halves
  <2> QED
    BY <2>2, <2>3
<1>4. S = {j \in C : \A k \in C : W(h, j) <= W(h, k)}
  BY <1>1, <1>2
<1>5. S # {}
  <2>1. CASE 2 * a \in C /\ 2 * a + 1 \in C
    <3> DEFINE x == 2 * a
               y == 2 * a + 1
    <3>1. x \in C /\ y \in C /\ C \subseteq {x, y} /\ W(h, x) \in Nat /\ W(h, y) \in Nat
      BY <2>1, <1>1, <1>2
    <3> HIDE DEF C, S, x, y, n
    <3>2. CASE W(h, x) <= W(h, y)
      BY <3>1, <3>2, <1>4
    <3>3. CASE ~(W(h, x) <= W(h, y))
      BY <3>1, <3>3, <1>4
    <3> QED
      BY <3>2, <3>3
  <2>2. CASE C = {2 * a} \/ C = {2 * a + 1}
    BY <2>2, <1>1, <1>2, <1>4
  <2> QED
    BY <2>1, <2>2, <1>2
<1>6. S \in SUBSET Nat
  BY <1>2
<1> HIDE DEF S, C, n
<1>7. \E x \in S : \A y \in S : x <= y
  BY <1>5, <1>6, Least
<1>8. Heap!SmallestChild(h, a) \in S
  BY <1>7 DEF Heap!SmallestChild, Heap!Min, S, C
<1> QED
  BY <1>3, <1>4, <1>8 DEF n

\* A turn of the second loop moves it towards the leaves, or ends the loop.
LEMMA BubblesDown ==
  ASSUME NEW m, Around(m.heap, m.at), Risen(m.heap, m.at), NEW g, g = Heap!BubbleDown(m)
  PROVE  /\ Around(g.heap, g.at) /\ Risen(g.heap, g.at) /\ Alike(g.heap, m.heap)
         /\ (g = m /\ ~Sinks(m)) \/ g.at > m.at
<1> DEFINE h == m.heap
           a == m.at
           c == Heap!SmallestChild(h, a)
           n == Len(h.data)
<1>1. WellFormed(h) /\ a \in 1 .. n
  BY DEF Around
<1>2. /\ n \in Nat /\ \A i \in 1 .. n : W(h, i) \in Nat
      /\ \A i, j \in 1 .. n : Heap!OutOfOrder(h, i, j) <=> W(h, j) < W(h, i)
  BY <1>1, WeightsOf
<1>3. CASE ~Sinks(m)
  <2>1. g = m
    BY <1>3 DEF Heap!BubbleDown, Sinks
  <2> QED
    BY <2>1, <1>3 DEF Alike
<1>4. CASE Sinks(m)
  <2> DEFINE s == Heap!Swap(h, a, c)
  <2>1. g.heap = s /\ g.at = c
    BY <1>4 DEF Heap!BubbleDown, Sinks
  <2>2. /\ c \in 2 .. n /\ c \div 2 = a
        /\ \A j \in 2 .. n : j \div 2 = a => W(h, c) <= W(h, j)
    BY <1>1, <1>4, SmallestIs DEF Sinks
  <2> HIDE DEF c
  <2>3. a < c /\ c \in 1 .. n
    BY <2>2, <1>2, Halves
  <2>4. W(h, c) < W(h, a)
    BY <1>4, <1>1, <1>2, <2>3 DEF Sinks, c
  <2>5. /\ WellFormed(s) /\ Alike(s, h)
        /\ W(s, a) = W(h, c) /\ W(s, c) = W(h, a)
        /\ \A l \in 1 .. n : l # a /\ l # c => W(s, l) = W(h, l)
    BY <1>1, <2>3, SwapIs
  <2>6. Len(s.data) = n
    BY <2>5 DEF Alike
  <2>7. /\ \A j \in 2 .. n : j # a /\ j \div 2 # a => W(h, j \div 2) <= W(h, j)
        /\ \A j \in 2 .. n : j \div 2 = a /\ a > 1 => W(h, a \div 2) <= W(h, j)
    BY DEF Around
  <2>8. ASSUME NEW j \in 2 .. n, j \div 2 # c, j # c PROVE W(s, j \div 2) <= W(s, j)
    <3>1. j \in 1 .. n /\ j \div 2 \in 1 .. n /\ j \div 2 # j
      BY <1>2, Halves
    <3>2. CASE j \div 2 = a
      BY <3>1, <3>2, <2>2, <2>5, <2>8
    <3>3. CASE j = a
      <4>1. W(h, a \div 2) <= W(h, c)
        BY <3>3, <2>2, <2>7
      <4> QED
        BY <4>1, <3>1, <3>3, <2>5, <2>8
    <3>4. CASE j # a /\ j \div 2 # a
      BY <3>1, <3>4, <2>5, <2>7, <2>8
    <3> QED
      BY <3>2, <3>3, <3>4
  <2>9. ASSUME NEW j \in 2 .. n, j \div 2 = c PROVE W(s, a) <= W(s, j)
    <3>1. j \in 1 .. n /\ j # c /\ j > c
      BY <2>3, <2>9, <1>2, Halves
    <3>2. j # a /\ c # a
      BY <3>1, <2>3, <1>1
    <3>3. W(h, c) <= W(h, j)
      BY <3>2, <2>7, <2>9
    <3> QED
      BY <3>1, <3>2, <3>3, <2>5
  <2>10. Around(s, c)
    BY <2>2, <2>3, <2>5, <2>6, <2>8, <2>9 DEF Around
  <2>11. Risen(s, c)
    BY <2>2, <2>3, <2>4, <2>5, <1>1, <1>2 DEF Risen
  <2> QED
    BY <2>1, <2>3, <2>5, <2>10, <2>11
<1> QED
  BY <1>3, <1>4

\* Where nothing rises and nothing sinks, the heap is in order.
LEMMA StillRisen ==
  ASSUME NEW m, Around(m.heap, m.at), ~Rises(m) PROVE Risen(m.heap, m.at)
<1>1. WellFormed(m.heap) /\ m.at \in 1 .. Len(m.heap.data)
  BY DEF Around
<1>2. /\ Len(m.heap.data) \in Nat /\ \A i \in 1 .. Len(m.heap.data) : W(m.heap, i) \in Nat
      /\ \A i, j \in 1 .. Len(m.heap.data) :
           Heap!OutOfOrder(m.heap, i, j) <=> W(m.heap, j) < W(m.heap, i)
  BY <1>1, WeightsOf
<1>3. ASSUME m.at > 1 PROVE W(m.heap, m.at \div 2) <= W(m.heap, m.at)
  <2>1. m.at \div 2 \in 1 .. Len(m.heap.data)
    BY <1>1, <1>2, <1>3, Halves
  <2>2. ~(W(m.heap, m.at) < W(m.heap, m.at \div 2))
    BY <2>1, <1>1, <1>2, <1>3 DEF Rises
  <2> QED
    BY <2>1, <2>2, <1>1, <1>2
<1> QED
  BY <1>3 DEF Risen

\* Where neither loop has a turn to take the heap is in order.
LEMMA StillInOrder ==
  ASSUME NEW m, Around(m.heap, m.at), Risen(m.heap, m.at), ~Sinks(m) PROVE InOrder(m.heap)
<1> DEFINE h == m.heap
           a == m.at
           n == Len(h.data)
<1>1. WellFormed(h) /\ a \in 1 .. n
  BY DEF Around
<1>2. /\ n \in Nat /\ DOMAIN h.data = 1 .. n /\ \A i \in 1 .. n : W(h, i) \in Nat
      /\ \A i, j \in 1 .. n : Heap!OutOfOrder(h, i, j) <=> W(h, j) < W(h, i)
  BY <1>1, WeightsOf
<1>3. ASSUME NEW j \in 2 .. n PROVE W(h, j \div 2) <= W(h, j)
  <2>1. CASE j = a
    BY <2>1, <1>1 DEF Risen
  <2>2. CASE j \div 2 = a
    <3> DEFINE c == Heap!SmallestChild(h, a)
    <3>1. j \in Heap!Children(h, a)
      <4>1. j \in 1 .. n /\ (j = 2 * a \/ j = 2 * a + 1)
        <5>1. j \in Nat /\ j > 1 /\ j \in 1 .. n
          BY <1>2
        <5>2. j = 2 * (j \div 2) \/ j = 2 * (j \div 2) + 1
          BY <5>1, Halves
        <5> QED
          BY <5>1, <5>2, <2>2
      <4> QED
        BY <4>1, <1>2 DEF Heap!Children
    <3>2. c \in 2 .. n /\ W(h, c) <= W(h, j)
      BY <2>2, <3>1, <1>1, SmallestIs
    <3>3. ~Heap!OutOfOrder(h, a, c)
      BY <3>1 DEF Sinks
    <3> HIDE DEF c
    <3>4. c \in 1 .. n /\ j \in 1 .. n
      BY <3>2, <1>2
    <3>5. ~(W(h, c) < W(h, a))
      BY <3>3, <3>4, <1>1, <1>2
    <3>6. W(h, a) <= W(h, j)
      <4>1. W(h, a) \in Nat /\ W(h, c) \in Nat /\ W(h, j) \in Nat
        BY <3>4, <1>1, <1>2
      <4> QED
        BY <4>1, <3>2, <3>5
    <3> QED
      BY <3>6, <2>2
  <2>3. CASE j # a /\ j \div 2 # a
    BY <2>3 DEF Around
  <2> QED
    BY <2>1, <2>2, <2>3
<1> QED
  BY <1>1, <1>3 DEF InOrder

\* What holds at first and from each turn to the next holds in the end.
LEMMA InTurns ==
  ASSUME NEW n \in Nat, NEW S, 0 \in S, \A k \in 1 .. n : k - 1 \in S => k \in S
  PROVE  n \in S
<1> DEFINE T == {k \in 0 .. n : k \notin S}
<1>1. ASSUME T # {} PROVE FALSE
  <2>1. T \in SUBSET Nat
    OBVIOUS
  <2> HIDE DEF T
  <2>2. PICK m \in T : \A k \in T : m <= k
    BY <1>1, <2>1, Least
  <2> USE DEF T
  <2>3. m \in 1 .. n /\ m - 1 \in 0 .. n
    BY <2>2
  <2>4. m - 1 \in S
    BY <2>2, <2>3
  <2> QED
    BY <2>2, <2>3, <2>4
<1> QED
  BY <1>1

\* The loops of __balance: each turn follows from the one before.
UpTurns(n, a, f) == [k \in 0 .. n |-> IF k = 0 THEN a ELSE Heap!BubbleUp(f[k - 1])]
DownTurns(n, a, f) == [k \in 0 .. n |-> IF k = 0 THEN a ELSE Heap!BubbleDown(f[k - 1])]

\* There is a function of the turns of the first loop, up to any number.
LEMMA TurnsUp ==
  ASSUME NEW n \in Nat, NEW a
  PROVE  \E f : f = UpTurns(n, a, f)
<1> DEFINE Runs(f, m) == f = [k \in 0 .. m |-> IF k = 0 THEN a ELSE Heap!BubbleUp(f[k - 1])]
           T == {m \in Nat : ~\E f : Runs(f, m)}
<1>1. ASSUME T # {} PROVE FALSE
  <2>1. T \in SUBSET Nat
    OBVIOUS
  <2> HIDE DEF T
  <2>2. PICK m \in T : \A k \in T : m <= k
    BY <1>1, <2>1, Least
  <2> USE DEF T
  <2>3. m # 0
    <3>1. Runs([k \in 0 .. 0 |-> a], 0)
      OBVIOUS
    <3> HIDE DEF Runs
    <3> QED
      BY <3>1
  <2>4. m - 1 \in Nat /\ m - 1 \notin T
    BY <2>2, <2>3
  <2>5. PICK f : Runs(f, m - 1)
    BY <2>4
  <2> DEFINE g == [k \in 0 .. m |-> IF k = m THEN Heap!BubbleUp(f[m - 1]) ELSE f[k]]
  <2>6. Runs(g, m)
    <3>1. g = [k \in 0 .. m |-> g[k]]
      OBVIOUS
    <3>2. ASSUME NEW k \in 0 .. m
          PROVE  g[k] = IF k = 0 THEN a ELSE Heap!BubbleUp(g[k - 1])
      <4>1. CASE k = m
        <5>1. m - 1 \in 0 .. m /\ m - 1 # m /\ m \in 0 .. m
          BY <2>3, <2>4
        <5>2. g[m] = Heap!BubbleUp(f[m - 1]) /\ g[m - 1] = f[m - 1]
          BY <5>1
        <5> HIDE DEF g
        <5> QED
          BY <5>2, <4>1, <2>3
      <4>2. CASE k # m /\ k = 0
        <5>1. 0 \in 0 .. m - 1
          BY <2>4
        <5>2. f[0] = a
          BY <5>1, <2>5
        <5>3. g[k] = f[k]
          BY <4>2
        <5> QED
          BY <5>2, <5>3, <4>2
      <4>3. CASE k # m /\ k # 0
        <5>1. k \in 0 .. m - 1 /\ k - 1 \in 0 .. m /\ k - 1 # m
          BY <4>3, <2>2
        <5>2. g[k] = f[k] /\ g[k - 1] = f[k - 1]
          BY <5>1, <4>3
        <5>3. f[k] = Heap!BubbleUp(f[k - 1])
          BY <5>1, <4>3, <2>5
        <5> HIDE DEF g
        <5> QED
          BY <5>2, <5>3, <4>3
      <4> QED
        BY <4>1, <4>2, <4>3
    <3> HIDE DEF g
    <3> QED
      BY <3>1, <3>2
  <2> HIDE DEF Runs, g
  <2> QED
    BY <2>2, <2>6
<1>2. \E f : Runs(f, n)
  <2> HIDE DEF Runs
  <2> QED
    BY <1>1
<1> QED
  BY <1>2 DEF UpTurns

\* There is one of those of the second loop.
LEMMA TurnsDown ==
  ASSUME NEW n \in Nat, NEW a
  PROVE  \E f : f = DownTurns(n, a, f)
<1> DEFINE Runs(f, m) == f = [k \in 0 .. m |-> IF k = 0 THEN a ELSE Heap!BubbleDown(f[k - 1])]
           T == {m \in Nat : ~\E f : Runs(f, m)}
<1>1. ASSUME T # {} PROVE FALSE
  <2>1. T \in SUBSET Nat
    OBVIOUS
  <2> HIDE DEF T
  <2>2. PICK m \in T : \A k \in T : m <= k
    BY <1>1, <2>1, Least
  <2> USE DEF T
  <2>3. m # 0
    <3>1. Runs([k \in 0 .. 0 |-> a], 0)
      OBVIOUS
    <3> HIDE DEF Runs
    <3> QED
      BY <3>1
  <2>4. m - 1 \in Nat /\ m - 1 \notin T
    BY <2>2, <2>3
  <2>5. PICK f : Runs(f, m - 1)
    BY <2>4
  <2> DEFINE g == [k \in 0 .. m |-> IF k = m THEN Heap!BubbleDown(f[m - 1]) ELSE f[k]]
  <2>6. Runs(g, m)
    <3>1. g = [k \in 0 .. m |-> g[k]]
      OBVIOUS
    <3>2. ASSUME NEW k \in 0 .. m
          PROVE  g[k] = IF k = 0 THEN a ELSE Heap!BubbleDown(g[k - 1])
      <4>1. CASE k = m
        <5>1. m - 1 \in 0 .. m /\ m - 1 # m /\ m \in 0 .. m
          BY <2>3, <2>4
        <5>2. g[m] = Heap!BubbleDown(f[m - 1]) /\ g[m - 1] = f[m - 1]
          BY <5>1
        <5> HIDE DEF g
        <5> QED
          BY <5>2, <4>1, <2>3
      <4>2. CASE k # m /\ k = 0
        <5>1. 0 \in 0 .. m - 1
          BY <2>4
        <5>2. f[0] = a
          BY <5>1, <2>5
        <5>3. g[k] = f[k]
          BY <4>2
        <5> QED
          BY <5>2, <5>3, <4>2
      <4>3. CASE k # m /\ k # 0
        <5>1. k \in 0 .. m - 1 /\ k - 1 \in 0 .. m /\ k - 1 # m
          BY <4>3, <2>2
        <5>2. g[k] = f[k] /\ g[k - 1] = f[k - 1]
          BY <5>1, <4>3
        <5>3. f[k] = Heap!BubbleDown(f[k - 1])
          BY <5>1, <4>3, <2>5
        <5> HIDE DEF g
        <5> QED
          BY <5>2, <5>3, <4>3
      <4> QED
        BY <4>1, <4>2, <4>3
    <3> HIDE DEF g
    <3> QED
      BY <3>1, <3>2
  <2> HIDE DEF Runs, g
  <2> QED
    BY <2>2, <2>6
<1>2. \E f : Runs(f, n)
  <2> HIDE DEF Runs
  <2> QED
    BY <1>1
<1> QED
  BY <1>2 DEF DownTurns

\* __balance puts a heap in order.
LEMMA BalanceIs ==
  ASSUME NEW h, NEW i, Around(h, i), NEW g, g = Heap!Balance(h, i)
  PROVE  InOrder(g) /\ Alike(g, h)
<1> DEFINE n == Len(h.data)
           start == [heap |-> h, at |-> i]
           UpTurn(f) == [k \in 0 .. n |-> IF k = 0 THEN start ELSE Heap!BubbleUp(f[k - 1])]
           up == CHOOSE f : f = UpTurn(f)
           DownTurn(f) == [k \in 0 .. n |-> IF k = 0 THEN up[n] ELSE Heap!BubbleDown(f[k - 1])]
           down == CHOOSE f : f = DownTurn(f)
<1>1. g = down[n].heap
  BY DEF Heap!Balance
<1>2. n \in Nat /\ i \in 1 .. n
  BY WeightsOf DEF Around
<1>3. up = UpTurn(up)
  <2>1. \E f : f = UpTurn(f)
    <3> HIDE DEF n, start
    <3>1. \E f : f = UpTurns(n, start, f)
      BY <1>2, TurnsUp
    <3> QED
      BY <3>1 DEF UpTurns
  <2> QED
    BY <2>1
<1> HIDE DEF up
<1>4. down = DownTurn(down)
  <2>1. \E f : f = DownTurn(f)
    <3> DEFINE first == up[n]
    <3> HIDE DEF n, first
    <3>1. \E f : f = DownTurns(n, first, f)
      BY <1>2, TurnsDown
    <3> QED
      BY <3>1 DEF DownTurns, first
  <2> QED
    BY <2>1
<1> HIDE DEF down
<1>5. up[0] = start /\ \A k \in 1 .. n : up[k] = Heap!BubbleUp(up[k - 1])
  <2> HIDE DEF n, start
  <2>1. up = [k \in 0 .. n |-> IF k = 0 THEN start ELSE Heap!BubbleUp(up[k - 1])]
    BY <1>3
  <2>2. 0 \in 0 .. n /\ \A k \in 1 .. n : k \in 0 .. n /\ k # 0
    BY <1>2
  <2> QED
    BY <2>1, <2>2
<1>6. down[0] = up[n] /\ \A k \in 1 .. n : down[k] = Heap!BubbleDown(down[k - 1])
  <2> DEFINE first == up[n]
  <2> HIDE DEF n, first
  <2>1. down = [k \in 0 .. n |-> IF k = 0 THEN first ELSE Heap!BubbleDown(down[k - 1])]
    BY <1>4 DEF first
  <2>2. 0 \in 0 .. n /\ \A k \in 1 .. n : k \in 0 .. n /\ k # 0
    BY <1>2
  <2>3. down[0] = first /\ \A k \in 1 .. n : down[k] = Heap!BubbleDown(down[k - 1])
    BY <2>1, <2>2
  <2> QED
    BY <2>3 DEF first
<1> DEFINE Up(k) == /\ Around(up[k].heap, up[k].at) /\ Alike(up[k].heap, h)
                    /\ ~Rises(up[k]) \/ up[k].at <= n - k
           Down(k) == /\ Around(down[k].heap, down[k].at) /\ Alike(down[k].heap, h)
                      /\ Risen(down[k].heap, down[k].at)
                      /\ ~Sinks(down[k]) \/ down[k].at >= k + 1
<1> HIDE DEF UpTurn, DownTurn
<1>7. Up(0)
  <2>1. up[0].heap = h /\ up[0].at = i
    BY <1>5
  <2> QED
    BY <2>1, <1>2 DEF Alike
<1>8. \A k \in 1 .. n : Up(k - 1) => Up(k)
  <2> SUFFICES ASSUME NEW k \in 1 .. n, NEW l, l = k - 1, Up(l) PROVE Up(k)
    OBVIOUS
  <2>1. up[k] = Heap!BubbleUp(up[l])
    BY <1>5
  <2>2. /\ Around(up[k].heap, up[k].at) /\ Alike(up[k].heap, up[l].heap)
        /\ (up[k] = up[l] /\ ~Rises(up[l])) \/ up[k].at < up[l].at
    BY <2>1, BubblesUp
  <2>3. Alike(up[k].heap, h)
    BY <2>2, AlikeThen
  <2>4. ~Rises(up[k]) \/ up[k].at <= n - k
    <3>1. CASE ~Rises(up[l])
      <4>1. up[k] = up[l]
        BY <3>1, <2>1 DEF Heap!BubbleUp, Rises
      <4> QED
        BY <4>1, <3>1
    <3>2. CASE Rises(up[l])
      <4>1. up[l].at <= n - l /\ up[k].at < up[l].at
        BY <3>2, <2>2
      <4>2. up[l].at \in Int /\ up[k].at \in Int
        <5>1. /\ up[l].at \in 1 .. Len(up[l].heap.data) /\ WellFormed(up[l].heap)
              /\ up[k].at \in 1 .. Len(up[k].heap.data) /\ WellFormed(up[k].heap)
          BY <2>2 DEF Around
        <5> QED
          BY <5>1, WeightsOf
      <4> QED
        BY <4>1, <4>2, <1>2
    <3> QED
      BY <3>1, <3>2
  <2> QED
    BY <2>2, <2>3, <2>4
<1>9. Up(n)
  <2> DEFINE S == {k \in 0 .. n : Up(k)}
  <2> HIDE DEF Up
  <2>1. 0 \in S /\ \A k \in 1 .. n : k - 1 \in S => k \in S
    BY <1>2, <1>7, <1>8
  <2> HIDE DEF S
  <2>2. n \in S
    BY <1>2, <2>1, InTurns
  <2> QED
    BY <2>2 DEF S
<1>10. Risen(up[n].heap, up[n].at)
  <2>1. ~Rises(up[n])
    <3>1. up[n].at \in 1 .. Len(up[n].heap.data) /\ WellFormed(up[n].heap)
      BY <1>9 DEF Around
    <3>2. up[n].at >= 1 /\ up[n].at \in Int
      BY <3>1, WeightsOf
    <3> QED
      BY <3>2, <1>2, <1>9
  <2> QED
    BY <2>1, <1>9, StillRisen
<1>11. Down(0)
  <2>1. /\ Around(down[0].heap, down[0].at) /\ Alike(down[0].heap, h)
        /\ Risen(down[0].heap, down[0].at)
    BY <1>6, <1>9, <1>10
  <2>2. down[0].at >= 0 + 1
    <3>1. down[0].at \in 1 .. Len(down[0].heap.data) /\ WellFormed(down[0].heap)
      BY <2>1 DEF Around
    <3> QED
      BY <3>1, WeightsOf
  <2> QED
    BY <2>1, <2>2
<1>12. \A k \in 1 .. n : Down(k - 1) => Down(k)
  <2> SUFFICES ASSUME NEW k \in 1 .. n, NEW l, l = k - 1, Down(l) PROVE Down(k)
    OBVIOUS
  <2>1. down[k] = Heap!BubbleDown(down[l])
    BY <1>6
  <2>2. /\ Around(down[k].heap, down[k].at) /\ Risen(down[k].heap, down[k].at)
        /\ Alike(down[k].heap, down[l].heap)
        /\ (down[k] = down[l] /\ ~Sinks(down[l])) \/ down[k].at > down[l].at
    BY <2>1, BubblesDown
  <2>3. Alike(down[k].heap, h)
    BY <2>2, AlikeThen
  <2>4. ~Sinks(down[k]) \/ down[k].at >= k + 1
    <3>1. CASE ~Sinks(down[l])
      <4>1. down[k] = down[l]
        BY <3>1, <2>1 DEF Heap!BubbleDown, Sinks
      <4> QED
        BY <4>1, <3>1
    <3>2. CASE Sinks(down[l])
      <4>1. down[l].at >= l + 1 /\ down[k].at > down[l].at
        BY <3>2, <2>2
      <4>2. down[l].at \in Int /\ down[k].at \in Int
        <5>1. /\ down[l].at \in 1 .. Len(down[l].heap.data) /\ WellFormed(down[l].heap)
              /\ down[k].at \in 1 .. Len(down[k].heap.data) /\ WellFormed(down[k].heap)
          BY <2>2 DEF Around
        <5> QED
          BY <5>1, WeightsOf
      <4> QED
        BY <4>1, <4>2, <1>2
    <3> QED
      BY <3>1, <3>2
  <2> QED
    BY <2>2, <2>3, <2>4
<1>13. Down(n)
  <2> DEFINE S == {k \in 0 .. n : Down(k)}
  <2> HIDE DEF Down
  <2>1. 0 \in S /\ \A k \in 1 .. n : k - 1 \in S => k \in S
    BY <1>2, <1>11, <1>12
  <2> HIDE DEF S
  <2>2. n \in S
    BY <1>2, <2>1, InTurns
  <2> QED
    BY <2>2 DEF S
<1>14. ~Sinks(down[n])
  <2>1. down[n].at \in 1 .. n
    <3>1. down[n].at \in 1 .. Len(down[n].heap.data) /\ Alike(down[n].heap, h)
      BY <1>13 DEF Around
    <3> QED
      BY <3>1 DEF Alike
  <2> QED
    BY <2>1, <1>2, <1>13
<1> QED
  BY <1>1, <1>13, <1>14, StillInOrder

-----------------------------------------------------------------------------
\* What the operations hand to __balance, or leave as it is.

\* The entry of a key.
At(h, k) == h.data[h.index[k]]

\* The heap g differs from h at place i alone, in the order of the other keys not at all.
ChangedAt(g, h, i) ==
  /\ InOrder(h) /\ WellFormed(g) /\ i \in 1 .. Len(g.data)
  /\ \A j \in 1 .. Len(g.data) : j # i => j \in 1 .. Len(h.data) /\ g.data[j] = h.data[j]
  /\ KeepsOrder(g.order, h.order, (DOMAIN g.index \ {g.data[i].key}) \cap DOMAIN h.index)

\* Two entries that did not change compare as before.
LEMMA OthersCompare ==
  ASSUME NEW g, NEW h, NEW i, ChangedAt(g, h, i),
         NEW j \in 1 .. Len(g.data), NEW l \in 1 .. Len(g.data), j # i, l # i, j # l
  PROVE  /\ j \in 1 .. Len(h.data) /\ l \in 1 .. Len(h.data)
         /\ W(g, j) <= W(g, l) <=> W(h, j) <= W(h, l)
<1> DEFINE M == (DOMAIN g.index \ {g.data[i].key}) \cap DOMAIN h.index
           e == h.data[j]
           f == h.data[l]
<1>1. j \in 1 .. Len(h.data) /\ l \in 1 .. Len(h.data) /\ g.data[j] = e /\ g.data[l] = f
  BY DEF ChangedAt
<1>2. WellFormed(g) /\ WellFormed(h)
  BY DEF ChangedAt, InOrder
<1>3. e \in HeapEntries /\ f \in HeapEntries /\ e.key \in DOMAIN h.index /\ f.key \in DOMAIN h.index
  BY <1>1, <1>2, WeightsOf DEF WellFormed, Indexed
<1>4. /\ e.key \in DOMAIN g.index /\ g.index[e.key] = j
      /\ f.key \in DOMAIN g.index /\ g.index[f.key] = l
      /\ g.index[g.data[i].key] = i
  BY <1>1, <1>2 DEF WellFormed, Indexed, ChangedAt
<1>5. e.key \in M /\ f.key \in M /\ e.key # f.key
  BY <1>3, <1>4
<1>6. /\ Rows(g.order, DOMAIN g.index) /\ Rows(h.order, DOMAIN h.index)
      /\ KeepsOrder(g.order, h.order, M) /\ M \in SUBSET (DOMAIN g.index \cap DOMAIN h.index)
  BY <1>2 DEF WellFormed, ChangedAt
<1> HIDE DEF M, e, f
<1>7. Weight(g.order, e) <= Weight(g.order, f) <=> Weight(h.order, e) <= Weight(h.order, f)
  BY <1>3, <1>5, <1>6, WeightsKept
<1> QED
  BY <1>1, <1>7 DEF W, e, f

\* A heap in order that changed at one place is in order around it.
LEMMA ChangedIsAround ==
  ASSUME NEW g, NEW h, NEW i, ChangedAt(g, h, i) PROVE Around(g, i)
<1> DEFINE n == Len(g.data)
<1>1. /\ WellFormed(g) /\ i \in 1 .. n /\ WellFormed(h)
      /\ \A j \in 2 .. Len(h.data) : W(h, j \div 2) <= W(h, j)
  BY DEF ChangedAt, InOrder
<1>2. n \in Nat /\ Len(h.data) \in Nat /\ \A j \in 1 .. Len(h.data) : W(h, j) \in Nat
  BY <1>1, WeightsOf
<1>3. ASSUME NEW j \in 2 .. n, j # i, j \div 2 # i PROVE W(g, j \div 2) <= W(g, j)
  <2>1. j \in 1 .. n /\ j \div 2 \in 1 .. n /\ j \div 2 # j
    BY <1>2, Halves
  <2>2. /\ j \in 1 .. Len(h.data)
        /\ W(g, j \div 2) <= W(g, j) <=> W(h, j \div 2) <= W(h, j)
    BY <2>1, <1>3, OthersCompare
  <2> QED
    BY <2>2, <1>1
<1>4. ASSUME NEW j \in 2 .. n, j \div 2 = i, i > 1 PROVE W(g, i \div 2) <= W(g, j)
  <2> DEFINE p == i \div 2
  <2>1. j \in 1 .. n /\ i < j /\ p \in 1 .. n /\ p < i
    BY <1>1, <1>2, <1>4, Halves
  <2> HIDE DEF p
  <2>2. /\ j \in 1 .. Len(h.data) /\ p \in 1 .. Len(h.data)
        /\ W(g, p) <= W(g, j) <=> W(h, p) <= W(h, j)
    BY <2>1, <1>1, OthersCompare
  <2>3. i \in 2 .. Len(h.data) /\ j \in 2 .. Len(h.data)
    BY <2>1, <2>2, <1>1, <1>2, <1>4
  <2>4. W(h, p) <= W(h, i) /\ W(h, i) <= W(h, j)
    BY <2>3, <1>1, <1>4 DEF p
  <2>5. W(h, p) \in Nat /\ W(h, i) \in Nat /\ W(h, j) \in Nat
    BY <2>2, <2>3, <1>2
  <2>6. W(h, p) <= W(h, j)
    BY <2>4, <2>5
  <2> QED
    BY <2>2, <2>6 DEF p
<1> QED
  BY <1>1, <1>3, <1>4 DEF Around

\* Pinned entries weigh the most.
LEMMA WeightOfPinned ==
  ASSUME NEW h, WellFormed(h), NEW i \in 1 .. Len(h.data)
  PROVE  /\ W(h, i) <= 2 * Len(h.order) + 1
         /\ h.data[i].pins > 0 <=> W(h, i) = 2 * Len(h.order) + 1
         /\ Len(h.order) \in Nat
<1> DEFINE e == h.data[i]
           n == Len(h.order)
           a == Heap!Place(h.order, e.key)
<1>1. e \in HeapEntries /\ e.key \in DOMAIN h.index /\ Rows(h.order, DOMAIN h.index)
  BY WeightsOf DEF WellFormed, Indexed
<1>2. n \in Nat /\ a \in 1 .. n
  BY <1>1, PlaceIs
<1>3. e.pins \in Nat /\ e.reused \in BOOLEAN
  BY <1>1 DEF HeapEntries
<1>4. W(h, i) = IF e.pins > 0 THEN 2 * n + 1 ELSE (IF e.reused THEN n ELSE 0) + a
  BY DEF W, Weight
<1> HIDE DEF a, n, e
<1> QED
  BY <1>2, <1>3, <1>4 DEF n, e

\* An entry that stays pinned can stay where it is.
LEMMA PinnedStays ==
  ASSUME NEW g, NEW h, NEW i, ChangedAt(g, h, i), i \in 1 .. Len(h.data),
         g.data[i].pins > 0, h.data[i].pins > 0
  PROVE  InOrder(g)
<1> DEFINE n == Len(g.data)
<1>1. /\ WellFormed(g) /\ i \in 1 .. n /\ WellFormed(h)
      /\ \A j \in 2 .. Len(h.data) : W(h, j \div 2) <= W(h, j)
      /\ \A j \in 1 .. n : j # i => j \in 1 .. Len(h.data) /\ g.data[j] = h.data[j]
  BY DEF ChangedAt, InOrder
<1>2. /\ n \in Nat /\ \A j \in 1 .. n : W(g, j) \in Nat
      /\ Len(h.data) \in Nat /\ \A j \in 1 .. Len(h.data) : W(h, j) \in Nat
  BY <1>1, WeightsOf
<1>3. Around(g, i)
  BY ChangedIsAround
<1>4. ASSUME NEW j \in 2 .. n PROVE W(g, j \div 2) <= W(g, j)
  <2>1. j \in 1 .. n /\ j \div 2 \in 1 .. n /\ j \div 2 # j
    BY <1>2, Halves
  <2>2. CASE j = i
    <3>1. W(g, j) = 2 * Len(g.order) + 1 /\ W(g, j \div 2) <= 2 * Len(g.order) + 1
      BY <2>1, <2>2, <1>1, WeightOfPinned
    <3> QED
      BY <3>1
  <2>3. CASE j \div 2 = i
    <3>1. j \in 1 .. Len(h.data) /\ g.data[j] = h.data[j]
      BY <2>1, <2>3, <1>1
    <3>2. W(h, i) <= W(h, j)
      BY <3>1, <2>3, <1>1, <1>2
    <3>3. /\ W(h, i) = 2 * Len(h.order) + 1 /\ W(h, j) <= 2 * Len(h.order) + 1
          /\ Len(h.order) \in Nat
      BY <3>1, <1>1, WeightOfPinned
    <3>4. W(h, j) = 2 * Len(h.order) + 1
      <4>1. W(h, j) \in Nat /\ W(h, i) \in Nat
        BY <3>1, <1>2
      <4>2. 2 * Len(h.order) + 1 <= W(h, j)
        BY <3>2, <3>3
      <4> QED
        BY <4>1, <4>2, <3>3
    <3>5. g.data[j].pins > 0
      BY <3>1, <3>4, <1>1, WeightOfPinned
    <3>6. W(g, j) = 2 * Len(g.order) + 1 /\ W(g, i) <= 2 * Len(g.order) + 1
      BY <3>5, <2>1, <1>1, WeightOfPinned
    <3> QED
      BY <3>6, <2>3
  <2>4. CASE j # i /\ j \div 2 # i
    BY <2>4, <1>3 DEF Around
  <2> QED
    BY <2>2, <2>3, <2>4
<1> QED
  BY <1>1, <1>4 DEF InOrder

\* The root is the lightest of all.
LEMMA RootIsLeast ==
  ASSUME NEW h, InOrder(h), NEW i \in 1 .. Len(h.data) PROVE W(h, 1) <= W(h, i)
<1> DEFINE n == Len(h.data)
           T == {l \in 1 .. n : W(h, l) < W(h, 1)}
<1>1. n \in Nat /\ \A l \in 1 .. n : W(h, l) \in Nat
  BY WeightsOf DEF InOrder
<1>2. ASSUME T # {} PROVE FALSE
  <2>1. T \in SUBSET Nat
    OBVIOUS
  <2> HIDE DEF T
  <2>2. PICK m \in T : \A l \in T : m <= l
    BY <1>2, <2>1, Least
  <2> USE DEF T
  <2>3. m \in 1 .. n /\ 1 \in 1 .. n /\ W(h, m) < W(h, 1)
    BY <2>2, <1>1
  <2>4. m # 1
    BY <2>3, <1>1
  <2>5. m \in 2 .. n /\ m \div 2 \in 1 .. n /\ m \div 2 < m
    BY <2>3, <2>4, <1>1, Halves
  <2>6. W(h, m \div 2) <= W(h, m)
    BY <2>5 DEF InOrder
  <2>7. W(h, m \div 2) < W(h, 1)
    BY <2>3, <2>5, <2>6, <1>1
  <2>8. m <= m \div 2
    BY <2>2, <2>5, <2>7
  <2> QED
    BY <2>5, <2>8
<1>3. ~(W(h, i) < W(h, 1))
  BY <1>2
<1> QED
  BY <1>1, <1>3

-----------------------------------------------------------------------------
\* The operations.

\* The heap between the operations.
Now == [data |-> heap, index |-> index, order |-> ticks]

\* The invariant that every operation keeps.
HeapInv == InOrder(Now) /\ Len(heap) <= MaxSize

\* Of the entries that there are now, the heap r holds those of the keys of J, and with
\* them e under the key k, which is used last.
Gives(r, k, e, J) ==
  /\ InOrder(r) /\ Len(r.data) <= MaxSize
  /\ J \subseteq DOMAIN index /\ k \notin J /\ DOMAIN r.index = J \cup {k}
  /\ At(r, k) = e /\ \A x \in J : At(r, x) = At(Now, x)
  /\ Pairs(r.order) = {p \in Pairs(ticks) : p[1] \in J /\ p[2] \in J} \cup (J \X {k})

\* The heap g comes from the one now by putting e at place i, where the keys of J stay.
PutAt(g, i, k, e, J) ==
  /\ g = [data |-> g.data, index |-> g.index, order |-> g.order]
  /\ J \subseteq DOMAIN index /\ k \notin J /\ e \in HeapEntries /\ e.key = k
  /\ g.data \in Seq(HeapEntries) /\ i \in 1 .. Len(g.data) /\ Len(g.data) <= MaxSize
  /\ g.data[i] = e
  /\ \A j \in 1 .. Len(g.data) :
       j # i => j \in 1 .. Len(heap) /\ g.data[j] = heap[j] /\ heap[j].key \in J
  /\ g.index = [x \in J \cup {k} |-> IF x = k THEN i ELSE index[x]]
  /\ \A x \in J : index[x] \in 1 .. Len(g.data) /\ index[x] # i
  /\ Rows(g.order, J \cup {k}) /\ KeepsOrder(g.order, ticks, J)
  /\ \A x \in J : Heap!Place(g.order, x) < Heap!Place(g.order, k)

\* What the invariant says of the variables.
LEMMA NowIs ==
  ASSUME HeapInv
  PROVE  /\ Now.data = heap /\ Now.index = index /\ Now.order = ticks
         /\ WellFormed(Now) /\ heap \in Seq(HeapEntries) /\ Len(heap) \in Nat
         /\ DOMAIN heap = 1 .. Len(heap)
         /\ Rows(ticks, DOMAIN index)
         /\ index = [k \in DOMAIN index |-> index[k]]
         /\ \A k \in DOMAIN index : index[k] \in 1 .. Len(heap) /\ heap[index[k]].key = k
         /\ \A i \in 1 .. Len(heap) :
              heap[i] \in HeapEntries /\ heap[i].key \in DOMAIN index /\ index[heap[i].key] = i
<1>1. Now.data = heap /\ Now.index = index /\ Now.order = ticks
  BY DEF Now
<1>2. WellFormed(Now)
  BY DEF HeapInv, InOrder
<1>3. Len(Now.data) \in Nat /\ \A i \in 1 .. Len(Now.data) : Now.data[i] \in HeapEntries
  BY <1>2, WeightsOf
<1>4. DOMAIN Now.data = 1 .. Len(Now.data)
  BY <1>2, WeightsOf
<1> HIDE DEF Now
<1> QED
  BY <1>1, <1>2, <1>3, <1>4 DEF WellFormed, Indexed

\* A heap with one entry put in is one that changed there.
LEMMA PutIsChanged ==
  ASSUME HeapInv, NEW g, NEW i, NEW k, NEW e, NEW J, PutAt(g, i, k, e, J)
  PROVE  ChangedAt(g, Now, i)
<1>1. WellFormed(g)
  <2>1. DOMAIN g.index = J \cup {k}
    BY DEF PutAt
  <2>2. \A x \in J \cup {k} : g.index[x] = IF x = k THEN i ELSE index[x]
    BY DEF PutAt
  <2>3. ASSUME NEW x \in J \cup {k}
        PROVE  g.index[x] \in 1 .. Len(g.data) /\ g.data[g.index[x]].key = x
    <3>1. CASE x = k
      BY <3>1, <2>2 DEF PutAt
    <3>2. CASE x # k
      <4>1. /\ x \in J /\ index[x] \in 1 .. Len(g.data) /\ index[x] # i
            /\ g.data[index[x]] = heap[index[x]] /\ heap[index[x]].key = x
        BY <3>2, NowIs DEF PutAt
      <4> QED
        BY <4>1, <3>2, <2>2
    <3> QED
      BY <3>1, <3>2
  <2>4. ASSUME NEW j \in 1 .. Len(g.data)
        PROVE  g.data[j].key \in J \cup {k} /\ g.index[g.data[j].key] = j
    <3>1. CASE j = i
      BY <3>1, <2>2 DEF PutAt
    <3>2. CASE j # i
      <4>1. j \in 1 .. Len(heap) /\ g.data[j] = heap[j] /\ heap[j].key \in J /\ k \notin J
        BY <3>2 DEF PutAt
      <4>2. index[heap[j].key] = j
        BY <4>1, NowIs
      <4> QED
        BY <4>1, <4>2, <2>2
    <3> QED
      BY <3>1, <3>2
  <2>5. g.index = [x \in DOMAIN g.index |-> g.index[x]]
    BY DEF PutAt
  <2>6. Indexed(g)
    BY <2>1, <2>3, <2>4 DEF Indexed, PutAt
  <2>7. Rows(g.order, DOMAIN g.index) /\ g = [data |-> g.data, index |-> g.index, order |-> g.order]
    BY <2>1 DEF PutAt
  <2> QED
    BY <2>5, <2>6, <2>7 DEF WellFormed
<1>2. KeepsOrder(g.order, ticks, (DOMAIN g.index \ {g.data[i].key}) \cap DOMAIN index)
  <2>1. (DOMAIN g.index \ {g.data[i].key}) \cap DOMAIN index \subseteq J
    BY DEF PutAt
  <2>2. KeepsOrder(g.order, ticks, J)
    BY DEF PutAt
  <2> QED
    BY <2>1, <2>2 DEF KeepsOrder
<1>3. /\ i \in 1 .. Len(g.data)
      /\ \A j \in 1 .. Len(g.data) : j # i => j \in 1 .. Len(heap) /\ g.data[j] = heap[j]
  BY DEF PutAt
<1> QED
  BY <1>1, <1>2, <1>3, NowIs DEF ChangedAt, HeapInv

\* Once it is in order, it gives e.
LEMMA PutGives ==
  ASSUME HeapInv, NEW g, NEW i, NEW k, NEW e, NEW J, PutAt(g, i, k, e, J),
         NEW r, InOrder(r), Alike(r, g)
  PROVE  Gives(r, k, e, J)
<1>1. /\ Len(r.data) = Len(g.data) /\ DOMAIN r.index = DOMAIN g.index /\ r.order = g.order
      /\ \A x \in DOMAIN g.index : At(r, x) = At(g, x)
  BY DEF Alike, At
<1>2. /\ DOMAIN g.index = J \cup {k} /\ Len(g.data) <= MaxSize
      /\ J \subseteq DOMAIN index /\ k \notin J
      /\ At(g, k) = e
  BY DEF PutAt, At
<1>3. ASSUME NEW x \in J PROVE At(g, x) = At(Now, x)
  <2>1. g.index[x] = index[x] /\ g.data[index[x]] = heap[index[x]]
    BY DEF PutAt
  <2> QED
    BY <2>1, NowIs DEF At
<1>4. Pairs(g.order) = {p \in Pairs(ticks) : p[1] \in J /\ p[2] \in J} \cup (J \X {k})
  <2>1. /\ Rows(g.order, J \cup {k}) /\ KeepsOrder(g.order, ticks, J)
        /\ \A x \in J : Heap!Place(g.order, x) < Heap!Place(g.order, k)
        /\ J \in SUBSET DOMAIN index /\ k \notin J
    BY DEF PutAt
  <2> QED
    BY <2>1, NowIs, PairsUsed
<1> QED
  BY <1>1, <1>2, <1>3, <1>4 DEF Gives

\* Put in order again, it is what an operation gives.
LEMMA AroundGives ==
  ASSUME HeapInv, NEW g, NEW i, NEW k, NEW e, NEW J, PutAt(g, i, k, e, J)
  PROVE  Gives(Heap!Balance(g, i), k, e, J)
<1>1. Around(g, i)
  BY PutIsChanged, ChangedIsAround
<1>2. InOrder(Heap!Balance(g, i)) /\ Alike(Heap!Balance(g, i), g)
  BY <1>1, BalanceIs
<1> QED
  BY <1>2, PutGives

\* The key k, used now, is the youngest.
LEMMA TickedIs ==
  ASSUME HeapInv, NEW k \in DOMAIN index,
         NEW j, j \notin DOMAIN index \ {k}, NEW new, new = Append(Heap!Forgotten(k), j)
  PROVE  LET J == DOMAIN index \ {k}
         IN  /\ Rows(new, J \cup {j}) /\ KeepsOrder(new, ticks, J)
             /\ \A x \in J : Heap!Place(new, x) < Heap!Place(new, j)
<1> DEFINE J == DOMAIN index \ {k}
           rest == Heap!RemoveAt(ticks, Heap!Place(ticks, k))
<1>1. new = Append(rest, j)
  BY DEF Heap!Forgotten
<1>2. Rows(ticks, DOMAIN index)
  BY NowIs
<1> HIDE DEF rest
<1>3. Rows(rest, J) /\ KeepsOrder(rest, ticks, J)
  BY <1>2, Dropped DEF rest
<1> HIDE DEF J
<1>4. /\ Rows(new, J \cup {j}) /\ KeepsOrder(new, rest, J)
      /\ \A x \in J : Heap!Place(new, x) < Heap!Place(new, j)
  BY <1>1, <1>3, Queued DEF J
<1>5. KeepsOrder(new, ticks, J)
  BY <1>3, <1>4 DEF KeepsOrder
<1> QED
  BY <1>4, <1>5 DEF J

\* __entry_was_accessed
LEMMA AccessedGives ==
  ASSUME HeapInv, NEW k \in DOMAIN index, NEW e \in HeapEntries,
         e.key = k, e.pins = heap[index[k]].pins
  PROVE  Gives(Heap!Accessed(index[k], e), k, [e EXCEPT !.reused = TRUE], DOMAIN index \ {k})
<1> DEFINE i == index[k]
           f == [e EXCEPT !.reused = TRUE]
           J == DOMAIN index \ {k}
           d == [heap EXCEPT ![i] = f]
           g == [data |-> d, index |-> index, order |-> Heap!Ticked(k)]
<1>1. f \in HeapEntries /\ f.key = k /\ f.pins = e.pins
  BY DEF HeapEntries
<1>2. Heap!Accessed(i, e) = IF e.pins = 0 THEN Heap!Balance(g, i) ELSE g
  BY DEF Heap!Accessed
<1>3. i \in 1 .. Len(heap) /\ heap \in Seq(HeapEntries) /\ DOMAIN heap = 1 .. Len(heap)
  BY NowIs
<1> HIDE DEF f, i
<1>4. PutAt(g, i, k, f, J)
  <2>1. d \in Seq(HeapEntries) /\ Len(d) = Len(heap) /\ \A j \in 1 .. Len(heap) : d[j] = IF j = i THEN f ELSE heap[j]
    BY <1>1, <1>3, ExceptSeq
  <2>2. \A j \in 1 .. Len(heap) : j # i => heap[j].key \in J
    BY NowIs DEF i
  <2>3. index = [x \in J \cup {k} |-> IF x = k THEN i ELSE index[x]]
    <3>1. J \cup {k} = DOMAIN index
      OBVIOUS
    <3>2. index = [x \in DOMAIN index |-> index[x]]
      BY NowIs
    <3> HIDE DEF J
    <3> QED
      BY <3>1, <3>2 DEF i
  <2>4. \A x \in J : index[x] \in 1 .. Len(heap) /\ index[x] # i
    BY NowIs DEF i
  <2>5. /\ Rows(Heap!Ticked(k), J \cup {k}) /\ KeepsOrder(Heap!Ticked(k), ticks, J)
        /\ \A x \in J : Heap!Place(Heap!Ticked(k), x) < Heap!Place(Heap!Ticked(k), k)
    BY TickedIs DEF Heap!Ticked
  <2>6. /\ g.data = d /\ g.index = index /\ g.order = Heap!Ticked(k)
        /\ g = [data |-> g.data, index |-> g.index, order |-> g.order]
    OBVIOUS
  <2>7. Len(heap) <= MaxSize /\ J \subseteq DOMAIN index /\ k \notin J
    BY DEF HeapInv
  <2> HIDE DEF g, d, J
  <2> QED
    BY <2>1, <2>2, <2>3, <2>4, <2>5, <2>6, <2>7, <1>1, <1>3 DEF PutAt
<1> HIDE DEF g
<1>5. CASE e.pins = 0
  <2>1. Gives(Heap!Balance(g, i), k, f, J)
    BY <1>4, AroundGives
  <2> QED
    BY <2>1, <1>2, <1>5 DEF f, i
<1>6. CASE e.pins # 0
  <2>1. heap[i].pins > 0 /\ g.data[i].pins > 0
    <3>1. e.pins \in Nat
      BY DEF HeapEntries
    <3>2. g.data[i] = f
      BY <1>4 DEF PutAt
    <3> QED
      BY <3>1, <3>2, <1>1, <1>6 DEF i
  <2>2. InOrder(g)
    BY <2>1, <1>3, <1>4, PutIsChanged, PinnedStays, NowIs
  <2>3. Gives(g, k, f, J)
    BY <2>2, <1>4, PutGives DEF Alike
  <2> QED
    BY <2>3, <1>2, <1>6 DEF f, i
<1> QED
  BY <1>5, <1>6

\* __setitem__ of a new key, while there is room,
LEMMA AddedGives ==
  ASSUME HeapInv, MaxSize \in Nat, Len(heap) < MaxSize,
         NEW k \in Keys, k \notin DOMAIN index, NEW v \in CachedValues
  PROVE  Gives(Heap!Added(k, v), k, Heap!Entry(k, v), DOMAIN index)
<1> DEFINE n == Len(heap)
           e == Heap!Entry(k, v)
           J == DOMAIN index
           g == [data |-> Append(heap, e), index |-> Heap!IndexOf(k, n + 1, {}),
                 order |-> Append(ticks, k)]
<1>1. e \in HeapEntries /\ e.key = k
  BY DEF Heap!Entry, HeapEntries
<1>2. Heap!Added(k, v) = Heap!Balance(g, n + 1)
  BY DEF Heap!Added
<1>3. /\ n \in Nat /\ heap \in Seq(HeapEntries)
      /\ \A j \in 1 .. n : heap[j].key \in J
      /\ \A x \in J : index[x] \in 1 .. n
      /\ Rows(ticks, J)
  BY NowIs
<1> HIDE DEF e, n
<1>4. /\ Append(heap, e) \in Seq(HeapEntries) /\ Len(Append(heap, e)) = n + 1
      /\ \A j \in 1 .. n : Append(heap, e)[j] = heap[j]
      /\ Append(heap, e)[n + 1] = e
  BY <1>1, <1>3, AppendProperties DEF n
<1>5. Heap!IndexOf(k, n + 1, {}) = [x \in J \cup {k} |-> IF x = k THEN n + 1 ELSE index[x]]
  BY DEF Heap!IndexOf
<1>6. /\ Rows(Append(ticks, k), J \cup {k}) /\ KeepsOrder(Append(ticks, k), ticks, J)
      /\ \A x \in J : Heap!Place(Append(ticks, k), x) < Heap!Place(Append(ticks, k), k)
  BY <1>3, Queued
<1>7. /\ g.data = Append(heap, e) /\ g.index = Heap!IndexOf(k, n + 1, {})
      /\ g.order = Append(ticks, k)
      /\ g = [data |-> g.data, index |-> g.index, order |-> g.order]
  OBVIOUS
<1> HIDE DEF g, J
<1>8. PutAt(g, n + 1, k, e, J)
  <2>1. \A j \in 1 .. n + 1 : j # n + 1 => j \in 1 .. n /\ g.data[j] = heap[j] /\ heap[j].key \in J
    BY <1>3, <1>4, <1>7
  <2>2. n + 1 \in 1 .. n + 1 /\ n + 1 <= MaxSize
    BY <1>3 DEF n
  <2>3. \A x \in J : index[x] \in 1 .. n + 1 /\ index[x] # n + 1
    BY <1>3
  <2>4. J \subseteq DOMAIN index /\ k \notin J
    BY DEF J
  <2>5. Len(g.data) = n + 1 /\ g.data[n + 1] = e /\ g.data \in Seq(HeapEntries)
    BY <1>4, <1>7
  <2> QED
    BY <2>1, <2>2, <2>3, <2>4, <2>5, <1>1, <1>5, <1>6, <1>7 DEF PutAt, n
<1>9. Gives(Heap!Balance(g, n + 1), k, e, J)
  BY <1>8, AroundGives
<1> QED
  BY <1>2, <1>9 DEF e, J

\* and in place of the root.
LEMMA EvictedGives ==
  ASSUME HeapInv, Len(heap) # 0,
         NEW k \in Keys, k \notin DOMAIN index, NEW v \in CachedValues
  PROVE  /\ heap[1].key \in DOMAIN index
         /\ Gives(Heap!Evicted(k, v), k, Heap!Entry(k, v), DOMAIN index \ {heap[1].key})
<1> DEFINE n == Len(heap)
           e == Heap!Entry(k, v)
           gone == heap[1].key
           J == DOMAIN index \ {gone}
           d == [heap EXCEPT ![1] = e]
           new == Append(Heap!Forgotten(gone), k)
           g == [data |-> d, index |-> Heap!IndexOf(k, 1, {gone}), order |-> new]
<1>1. e \in HeapEntries /\ e.key = k
  BY DEF Heap!Entry, HeapEntries
<1>2. Heap!Evicted(k, v) = Heap!Balance(g, 1)
  BY DEF Heap!Evicted
<1>3. /\ n \in Nat /\ heap \in Seq(HeapEntries) /\ 1 \in 1 .. n
      /\ gone \in DOMAIN index /\ index[gone] = 1
      /\ \A x \in DOMAIN index : index[x] \in 1 .. n /\ heap[index[x]].key = x
      /\ \A j \in 1 .. n : heap[j].key \in DOMAIN index /\ index[heap[j].key] = j
  <2>1. n \in Nat /\ 1 \in 1 .. n
    BY NowIs
  <2> QED
    BY <2>1, NowIs
<1> HIDE DEF e, n, gone
<1>4. d \in Seq(HeapEntries) /\ Len(d) = n /\ \A j \in 1 .. n : d[j] = IF j = 1 THEN e ELSE heap[j]
  BY <1>1, <1>3, ExceptSeq DEF n
<1>5. Heap!IndexOf(k, 1, {gone}) = [x \in J \cup {k} |-> IF x = k THEN 1 ELSE index[x]]
  BY DEF Heap!IndexOf
<1>6. /\ Rows(new, J \cup {k}) /\ KeepsOrder(new, ticks, J)
      /\ \A x \in J : Heap!Place(new, x) < Heap!Place(new, k)
  BY <1>3, TickedIs
<1>7. /\ g.data = d /\ g.index = Heap!IndexOf(k, 1, {gone}) /\ g.order = new
      /\ g = [data |-> g.data, index |-> g.index, order |-> g.order]
  OBVIOUS
<1> HIDE DEF g, d, new
<1>8. PutAt(g, 1, k, e, J)
  <2>1. \A j \in 1 .. n : j # 1 => g.data[j] = heap[j] /\ heap[j].key \in J
    BY <1>3, <1>4, <1>7
  <2>2. n <= MaxSize
    BY DEF HeapInv, n
  <2>3. \A x \in J : index[x] \in 1 .. n /\ index[x] # 1
    BY <1>3 DEF gone
  <2>4. J \subseteq DOMAIN index /\ k \notin J
    OBVIOUS
  <2>5. Len(g.data) = n /\ g.data[1] = e /\ g.data \in Seq(HeapEntries)
    BY <1>3, <1>4, <1>7
  <2> HIDE DEF J
  <2> QED
    BY <2>1, <2>2, <2>3, <2>4, <2>5, <1>1, <1>3, <1>5, <1>6, <1>7 DEF PutAt, n
<1>9. Gives(Heap!Balance(g, 1), k, e, J)
  BY <1>8, AroundGives
<1> QED
  BY <1>2, <1>3, <1>9 DEF e, gone

\* Another pin or one less; the entry moves when it is the first or the last.
LEMMA PinnedIs ==
  ASSUME NEW h, InOrder(h), NEW k \in DOMAIN h.index, NEW n \in {1, -1},
         At(h, k).pins + n \in Nat, NEW r, r = Heap!Pinned(h, k, n)
  PROVE  /\ InOrder(r) /\ Len(r.data) = Len(h.data)
         /\ DOMAIN r.index = DOMAIN h.index /\ r.order = h.order
         /\ At(r, k) = [At(h, k) EXCEPT !.pins = @ + n]
         /\ \A x \in DOMAIN h.index : x # k => At(r, x) = At(h, x)
<1> DEFINE i == h.index[k]
           e == h.data[i]
           f == [e EXCEPT !.pins = @ + n]
           g == [data |-> [h.data EXCEPT ![i] = f], index |-> h.index, order |-> h.order]
<1>1. /\ WellFormed(h) /\ i \in 1 .. Len(h.data) /\ h.data \in Seq(HeapEntries)
      /\ DOMAIN h.data = 1 .. Len(h.data)
      /\ h = [data |-> h.data, index |-> h.index, order |-> h.order]
      /\ e \in HeapEntries /\ e.key = k /\ e.pins + n \in Nat
  BY WeightsOf DEF InOrder, WellFormed, Indexed, At
<1>2. f \in HeapEntries /\ f.key = k /\ f.pins = e.pins + n /\ e.pins \in Nat
  BY <1>1 DEF HeapEntries
<1>3. [h EXCEPT !.data[i].pins = @ + n] = g
  <2>1. ASSUME NEW d, NEW x, NEW o, NEW l, h = [data |-> d, index |-> x, order |-> o]
        PROVE  [h EXCEPT !.data[l].pins = @ + n]
                 = [data |-> [d EXCEPT ![l] = [d[l] EXCEPT !.pins = @ + n]], index |-> x, order |-> o]
    BY <2>1
  <2> HIDE DEF i
  <2> QED
    BY <1>1, <2>1
<1>4. r = IF {e.pins, f.pins} = {0, 1} THEN Heap!Balance(g, i) ELSE g
  <2> DEFINE m == [h EXCEPT !.data[i].pins = @ + n]
  <2>1. r = IF {e.pins, m.data[i].pins} = {0, 1} THEN Heap!Balance(m, i) ELSE m
    BY DEF Heap!Pinned
  <2>2. g.data[i] = f
    BY <1>1
  <2> HIDE DEF m, f, i, e, g
  <2> QED
    BY <2>1, <2>2, <1>3 DEF m
<1> HIDE DEF f, i
<1>5. /\ g.data \in Seq(HeapEntries) /\ Len(g.data) = Len(h.data)
      /\ \A j \in 1 .. Len(h.data) : g.data[j] = IF j = i THEN f ELSE h.data[j]
      /\ g.index = h.index /\ g.order = h.order
      /\ g = [data |-> g.data, index |-> g.index, order |-> g.order]
  BY <1>1, <1>2, ExceptSeq
<1> HIDE DEF g, e
<1>6. WellFormed(g)
  <2>1. ASSUME NEW x \in DOMAIN h.index
        PROVE  h.index[x] \in 1 .. Len(h.data) /\ g.data[h.index[x]].key = x
    <3>1. h.index[x] \in 1 .. Len(h.data) /\ h.data[h.index[x]].key = x
      BY <1>1 DEF WellFormed, Indexed
    <3> QED
      BY <3>1, <1>1, <1>2, <1>5 DEF e
  <2>2. ASSUME NEW j \in 1 .. Len(h.data)
        PROVE  g.data[j].key \in DOMAIN h.index /\ h.index[g.data[j].key] = j
    <3>1. h.data[j].key \in DOMAIN h.index /\ h.index[h.data[j].key] = j
      BY <1>1 DEF WellFormed, Indexed
    <3> QED
      BY <3>1, <1>1, <1>2, <1>5 DEF e
  <2>3. h.index = [x \in DOMAIN h.index |-> h.index[x]] /\ Rows(h.order, DOMAIN h.index)
    BY <1>1 DEF WellFormed
  <2>4. Indexed(g)
    BY <2>1, <2>2, <1>5 DEF Indexed
  <2> QED
    BY <2>3, <2>4, <1>5 DEF WellFormed
<1>7. ChangedAt(g, h, i)
  BY <1>1, <1>5, <1>6 DEF ChangedAt, KeepsOrder
<1>8. InOrder(r) /\ Alike(r, g)
  <2>1. CASE {e.pins, f.pins} = {0, 1}
    <3>1. Around(g, i)
      BY <1>7, ChangedIsAround
    <3> QED
      BY <3>1, <2>1, <1>4, BalanceIs
  <2>2. CASE {e.pins, f.pins} # {0, 1}
    <3>1. e.pins > 0 /\ f.pins > 0
      BY <2>2, <1>1, <1>2
    <3>2. g.data[i].pins > 0 /\ h.data[i].pins > 0
      BY <3>1, <1>1, <1>5 DEF e
    <3>3. InOrder(g)
      BY <3>2, <1>1, <1>7, PinnedStays
    <3> QED
      BY <3>3, <2>2, <1>4 DEF Alike
  <2> QED
    BY <2>1, <2>2
<1>9. /\ At(g, k) = f
      /\ \A x \in DOMAIN h.index : x # k => At(g, x) = At(h, x)
  <2>1. ASSUME NEW x \in DOMAIN h.index, x # k PROVE At(g, x) = At(h, x)
    <3>1. h.index[x] \in 1 .. Len(h.data) /\ h.index[x] # i
      BY <2>1, <1>1 DEF WellFormed, Indexed, i, e
    <3> QED
      BY <3>1, <1>5 DEF At
  <2>2. At(g, k) = f
    BY <1>1, <1>5 DEF At, i
  <2> QED
    BY <2>1, <2>2
<1>10. At(h, k) = e
  BY DEF At, e, i
<1> QED
  BY <1>5, <1>8, <1>9, <1>10 DEF Alike, At, f

\* The root, when it is not pinned, may be evicted.
LEMMA RootGoesFirst ==
  ASSUME HeapInv, Len(heap) # 0, heap[1].pins = 0, NEW j \in DOMAIN index, j # heap[1].key
  PROVE  LET e == At(Now, j)
         IN  \/ e.pins > 0
             \/ e.reused /\ ~heap[1].reused
             \/ e.reused = heap[1].reused /\ <<heap[1].key, j>> \in Pairs(ticks)
<1> DEFINE e == heap[1]
           f == heap[index[j]]
           n == Len(ticks)
           a == Heap!Place(ticks, e.key)
           b == Heap!Place(ticks, j)
<1>1. /\ 1 \in 1 .. Len(heap) /\ index[j] \in 1 .. Len(heap)
      /\ e \in HeapEntries /\ f \in HeapEntries
      /\ e.key \in DOMAIN index /\ f.key = j /\ Rows(ticks, DOMAIN index)
  BY NowIs
<1>2. W(Now, 1) <= W(Now, index[j])
  BY <1>1, RootIsLeast, NowIs DEF HeapInv
<1>3. Weight(ticks, e) <= Weight(ticks, f)
  BY <1>2, NowIs DEF W
<1>4. n \in Nat /\ a \in 1 .. n /\ b \in 1 .. n /\ a # b
  BY <1>1, PlaceIs, PlacesDiffer
<1>5. /\ e.reused \in BOOLEAN /\ f.reused \in BOOLEAN
      /\ f.pins \in Nat
  BY <1>1 DEF HeapEntries
<1>6. /\ Weight(ticks, e) = (IF e.reused THEN n ELSE 0) + a
      /\ Weight(ticks, f) = IF f.pins > 0 THEN 2 * n + 1 ELSE (IF f.reused THEN n ELSE 0) + b
  BY <1>1 DEF Weight
<1>7. a < b => <<e.key, j>> \in Pairs(ticks)
  BY <1>1, PairsAre
<1>8. At(Now, j) = f
  BY NowIs DEF At
<1> HIDE DEF a, b, n, e, f
<1>9. f.pins > 0 \/ (f.reused /\ ~e.reused) \/ (f.reused = e.reused /\ a < b)
  <2>1. CASE f.pins > 0
    BY <2>1
  <2>2. CASE ~(f.pins > 0)
    <3>1. (IF e.reused THEN n ELSE 0) + a <= (IF f.reused THEN n ELSE 0) + b
      BY <2>2, <1>3, <1>6
    <3>2. CASE e.reused /\ f.reused
      <4>1. a < b
        BY <3>1, <3>2, <1>4
      <4>2. f.reused = e.reused
        BY <3>2, <1>5
      <4> QED
        BY <4>1, <4>2
    <3>3. CASE ~e.reused /\ ~f.reused
      <4>1. a < b
        BY <3>1, <3>3, <1>4
      <4>2. f.reused = e.reused
        BY <3>3, <1>5
      <4> QED
        BY <4>1, <4>2
    <3>4. CASE e.reused /\ ~f.reused
      BY <3>1, <3>4, <1>4
    <3>5. CASE ~e.reused /\ f.reused
      BY <3>5
    <3> QED
      BY <3>2, <3>3, <3>4, <3>5
  <2> QED
    BY <2>1, <2>2
<1> QED
  BY <1>7, <1>8, <1>9 DEF e, f

-----------------------------------------------------------------------------
\* The heap stands for the promised map.

\* What is held under each key.
Held == [k \in DOMAIN index |->
           [value |-> heap[index[k]].value,
            reused |-> heap[index[k]].reused,
            pins |-> heap[index[k]].pins]]

Content(e) == [value |-> e.value, reused |-> e.reused, pins |-> e.pins]

\* What is held under a key is the content of its entry.
LEMMA HeldIs ==
  ASSUME NEW k \in DOMAIN index PROVE Held[k] = Content(At(Now, k))
  BY DEF Held, Content, At, Now

\* Sets are as large there as here.
LEMMA HeapSizes ==
  ASSUME HeapInv PROVE Heap!Reused!Cardinality(DOMAIN index) = Len(heap)
<1> DEFINE n == Len(heap)
           K == DOMAIN index
<1>1. n \in Nat /\ IsFiniteSet(1 .. n) /\ Cardinality(1 .. n) = n
  <2>1. n \in Nat
    BY NowIs
  <2> HIDE DEF n
  <2>2. Cardinality(1 .. n) = IF 1 > n THEN 0 ELSE n - 1 + 1
    BY <2>1, FS_Interval
  <2> QED
    BY <2>1, <2>2, FS_Interval
<1> DEFINE f == [i \in 1 .. n |-> heap[i].key]
<1>2. f \in Bijection(1 .. n, K)
  <2>1. \A i \in 1 .. n : heap[i].key \in K /\ index[heap[i].key] = i
    BY NowIs
  <2>2. \A k \in K : index[k] \in 1 .. n /\ heap[index[k]].key = k
    BY NowIs
  <2> HIDE DEF n, K
  <2>3. f \in [1 .. n -> K] /\ \A i, j \in 1 .. n : f[i] = f[j] => i = j
    BY <2>1
  <2>4. \A k \in K : \E i \in 1 .. n : f[i] = k
    BY <2>2
  <2> QED
    BY <2>3, <2>4 DEF Bijection, Injection, Surjection, IsInjective
<1> HIDE DEF f, n, K
<1>3. Cardinality(K) = n
  BY <1>1, <1>2, FS_Bijection DEF ExistsBijection
<1>4. Heap!Reused!Cardinality(K) = Cardinality(K)
  BY DEF Heap!Reused!Cardinality, Cardinality
<1> QED
  BY <1>3, <1>4 DEF n, K

\* The entries and the pairs left when all but J go and e comes in at k, used last.
Renewed(k, e, J) == [x \in J \cup {k} |-> IF x = k THEN Content(e) ELSE Held[x]]

Touched(k, J) == {p \in Pairs(ticks) : p[1] \in J /\ p[2] \in J} \cup (J \X {k})

\* What the next state holds.
LEMMA GivesThen ==
  ASSUME HeapInv, NEW r, NEW k, NEW e, NEW J, Gives(r, k, e, J), Heap!Become(r)
  PROVE  /\ HeapInv'
         /\ Held' = Renewed(k, e, J)
         /\ Pairs(ticks)' = Touched(k, J)
<1>1. heap' = r.data /\ index' = r.index /\ ticks' = r.order
  BY DEF Heap!Become
<1>2. InOrder(r) /\ Len(r.data) <= MaxSize /\ r = [data |-> r.data, index |-> r.index, order |-> r.order]
  BY DEF Gives, InOrder, WellFormed
<1>3. Now' = r
  BY <1>1, <1>2 DEF Now
<1>4. HeapInv'
  BY <1>1, <1>2, <1>3 DEF HeapInv
<1>5. Held' = [x \in DOMAIN r.index |-> Content(At(r, x))]
  BY <1>1 DEF Held, Content, At
<1>6. /\ J \subseteq DOMAIN index /\ k \notin J /\ DOMAIN r.index = J \cup {k}
      /\ At(r, k) = e /\ \A x \in J : At(r, x) = At(Now, x)
  BY DEF Gives
<1>7. \A x \in J : Content(At(r, x)) = Held[x]
  BY <1>6, HeldIs
<1>8. Held' = Renewed(k, e, J)
  BY <1>5, <1>6, <1>7 DEF Renewed
<1>9. Pairs(ticks)' = Pairs(r.order)
  BY <1>1 DEF Pairs
<1> QED
  BY <1>4, <1>8, <1>9 DEF Gives, Touched

\* What __setitem__ stores.
Stores(k, v, p, e, J) ==
  \/ /\ k \in DOMAIN index /\ J = DOMAIN index \ {k}
     /\ Content(e) = [value |-> v, reused |-> TRUE, pins |-> heap[index[k]].pins + p]
  \/ /\ k \notin DOMAIN index
     /\ Content(e) = [value |-> v, reused |-> FALSE, pins |-> p]
     /\ \/ Len(heap) < MaxSize /\ J = DOMAIN index
        \/ Len(heap) = MaxSize /\ heap[1].pins = 0 /\ J = DOMAIN index \ {heap[1].key}

\* __setitem__ gives a heap with the new entry, be the key there or not.
LEMMA SetGives ==
  ASSUME HeapInv, MaxSize \in Nat \ {0}, NEW k \in Keys, NEW v \in CachedValues, ~Heap!AllPinned(k)
  PROVE  \E e \in HeapEntries : \E J : Gives(Heap!AfterSet(k, v), k, e, J) /\ Stores(k, v, 0, e, J)
<1>1. CASE k \in DOMAIN index
  <2> DEFINE o == heap[index[k]]
             d == [o EXCEPT !.value = v]
             e == [d EXCEPT !.reused = TRUE]
             J == DOMAIN index \ {k}
  <2>1. o \in HeapEntries /\ o.key = k
    BY <1>1, NowIs
  <2> HIDE DEF o
  <2>2. d \in HeapEntries /\ d.key = k /\ d.pins = o.pins /\ d.value = v
    BY <2>1 DEF HeapEntries
  <2>3. Heap!AfterSet(k, v) = Heap!Accessed(index[k], d)
    BY <1>1 DEF Heap!AfterSet, Heap!Updated, o
  <2> HIDE DEF d
  <2>4. e \in HeapEntries /\ e.value = v /\ e.reused = TRUE /\ e.pins = o.pins + 0
    <3>1. e \in HeapEntries /\ e.value = d.value /\ e.reused = TRUE /\ e.pins = d.pins
      BY <2>2 DEF HeapEntries
    <3>2. o.pins \in Nat
      BY <2>1 DEF HeapEntries
    <3> HIDE DEF e
    <3> QED
      BY <2>2, <3>1, <3>2
  <2>5. Gives(Heap!Accessed(index[k], d), k, e, J)
    BY <1>1, <2>2, AccessedGives DEF o
  <2> HIDE DEF e, J
  <2>6. Stores(k, v, 0, e, J)
    BY <1>1, <2>4 DEF Stores, Content, J, o
  <2> QED
    BY <2>3, <2>4, <2>5, <2>6
<1>2. CASE k \notin DOMAIN index
  <2> DEFINE e == Heap!Entry(k, v)
  <2>1. e \in HeapEntries /\ Content(e) = [value |-> v, reused |-> FALSE, pins |-> 0]
    BY DEF Heap!Entry, HeapEntries, Content
  <2> HIDE DEF e
  <2>2. Len(heap) \in Nat /\ Len(heap) <= MaxSize
    BY NowIs DEF HeapInv
  <2>3. CASE Len(heap) < MaxSize
    <3>1. Heap!AfterSet(k, v) = Heap!Added(k, v)
      BY <1>2, <2>3 DEF Heap!AfterSet
    <3>2. Gives(Heap!Added(k, v), k, e, DOMAIN index)
      BY <1>2, <2>3, AddedGives DEF e
    <3>3. Stores(k, v, 0, e, DOMAIN index)
      BY <1>2, <2>1, <2>3 DEF Stores
    <3> QED
      BY <2>1, <3>1, <3>2, <3>3
  <2>4. CASE Len(heap) = MaxSize
    <3> DEFINE J == DOMAIN index \ {heap[1].key}
    <3>1. Heap!AfterSet(k, v) = Heap!Evicted(k, v)
      BY <1>2, <2>2, <2>4 DEF Heap!AfterSet
    <3>2. Gives(Heap!Evicted(k, v), k, e, J)
      BY <1>2, <2>4, EvictedGives DEF e
    <3>3. heap[1].pins = 0
      <4>1. 1 \in 1 .. Len(heap)
        BY <2>2, <2>4
      <4>2. heap[1].pins \in Nat
        BY <4>1, NowIs DEF HeapEntries
      <4> QED
        BY <4>2, <1>2, <2>4 DEF Heap!AllPinned
    <3>4. Stores(k, v, 0, e, J)
      BY <1>2, <2>1, <2>4, <3>3 DEF Stores
    <3> HIDE DEF J
    <3> QED
      BY <2>1, <3>1, <3>2, <3>4
  <2> QED
    BY <2>2, <2>3, <2>4
<1> QED
  BY <1>1, <1>2

\* With a pin more it stores that.
LEMMA PinGives ==
  ASSUME NEW h, NEW k, NEW v, NEW e \in HeapEntries, NEW J, Gives(h, k, e, J), Stores(k, v, 0, e, J),
         HeapInv
  PROVE  LET f == [e EXCEPT !.pins = @ + 1]
         IN  Gives(Heap!Pinned(h, k, 1), k, f, J) /\ Stores(k, v, 1, f, J)
<1> DEFINE f == [e EXCEPT !.pins = @ + 1]
           r == Heap!Pinned(h, k, 1)
<1>1. /\ InOrder(h) /\ k \in DOMAIN h.index /\ At(h, k) = e /\ e.pins \in Nat
  BY DEF Gives, HeapEntries
<1>2. At(h, k).pins + 1 \in Nat
  BY <1>1
<1> HIDE DEF r
<1>3. /\ InOrder(r) /\ Len(r.data) = Len(h.data)
      /\ DOMAIN r.index = DOMAIN h.index /\ r.order = h.order
      /\ At(r, k) = [At(h, k) EXCEPT !.pins = @ + 1]
      /\ \A x \in DOMAIN h.index : x # k => At(r, x) = At(h, x)
  BY <1>1, <1>2, PinnedIs DEF r
<1>4. At(r, k) = f
  BY <1>1, <1>3
<1>5. f.value = e.value /\ f.reused = e.reused /\ f.pins = e.pins + 1
  BY DEF HeapEntries
<1> HIDE DEF f
<1>6. Gives(r, k, f, J)
  BY <1>3, <1>4 DEF Gives
<1>7. Stores(k, v, 1, f, J)
  <2>1. CASE k \in DOMAIN index
    <3>1. heap[index[k]].pins \in Nat
      BY <2>1, NowIs DEF HeapEntries
    <3>2. /\ J = DOMAIN index \ {k}
          /\ Content(e) = [value |-> v, reused |-> TRUE, pins |-> heap[index[k]].pins + 0]
      BY <2>1 DEF Stores
    <3>3. e.value = v /\ e.reused = TRUE /\ e.pins = heap[index[k]].pins
      BY <3>1, <3>2 DEF Content
    <3> QED
      BY <2>1, <3>2, <3>3, <1>5 DEF Stores, Content
  <2>2. CASE k \notin DOMAIN index
    <3>1. Content(e) = [value |-> v, reused |-> FALSE, pins |-> 0]
      BY <2>2 DEF Stores
    <3>2. e.value = v /\ e.reused = FALSE /\ e.pins = 0
      BY <3>1 DEF Content
    <3>3. f.value = v /\ f.reused = FALSE /\ f.pins = 1
      BY <3>2, <1>5
    <3>4. Content(f) = [value |-> v, reused |-> FALSE, pins |-> 1]
      BY <3>3 DEF Content
    <3> QED
      BY <2>2, <3>4 DEF Stores
  <2> QED
    BY <2>1, <2>2
<1> QED
  BY <1>6, <1>7 DEF f, r

\* What is promised, in these terms.
LEMMA MapIs ==
  /\ Heap!Reused!Cached = DOMAIN index
  /\ \A k, K : Heap!Reused!Used(k, K) = Touched(k, K)
  /\ \A v, r, p : Heap!Reused!Entry(v, r, p) = [value |-> v, reused |-> r, pins |-> p]
<1>1. Heap!Reused!Cached = DOMAIN index
  BY DEF Heap!Reused!Cached
<1>2. ASSUME NEW k, NEW K
      PROVE  Heap!Reused!Used(k, K) = Touched(k, K)
  BY DEF Heap!Reused!Used, Pairs, Touched
<1> QED
  BY <1>1, <1>2 DEF Heap!Reused!Entry

\* What __setitem__ stores is what is promised, be it with a pin or without.
LEMMA StoreIsPromised ==
  ASSUME HeapInv, MaxSize \in Nat \ {0}, NEW k \in Keys, NEW v \in CachedValues, NEW p \in {0, 1},
         NEW e \in HeapEntries, NEW J, Stores(k, v, p, e, J),
         NEW r, Gives(r, k, e, J), Heap!Become(r)
  PROVE  Heap!Reused!Store(k, v, p)
<1>0. Held' = Renewed(k, e, J) /\ Pairs(ticks)' = Touched(k, J)
  BY GivesThen
<1>1. /\ Held' = [x \in J \cup {k} |-> IF x = k THEN Content(e) ELSE Held[x]]
      /\ Pairs(ticks)' = Touched(k, J)
  BY <1>0 DEF Renewed
<1>2. CASE k \in DOMAIN index
  <2>1. /\ J = DOMAIN index \ {k}
        /\ Content(e) = [value |-> v, reused |-> TRUE, pins |-> heap[index[k]].pins + p]
    BY <1>2 DEF Stores
  <2>2. Held' = [Held EXCEPT ![k] = Heap!Reused!Entry(v, TRUE, @.pins + p)]
    <3>1. DOMAIN Held = DOMAIN index /\ J \cup {k} = DOMAIN index /\ Held[k].pins = heap[index[k]].pins
      BY <1>2, <2>1 DEF Held
    <3>2. Held = [x \in DOMAIN index |-> Held[x]]
      BY DEF Held
    <3>3. Heap!Reused!Entry(v, TRUE, Held[k].pins + p) = Content(e)
      BY <2>1, <3>1, MapIs
    <3> QED
      BY <1>1, <1>2, <3>1, <3>2, <3>3
  <2>3. Pairs(ticks)' = Heap!Reused!Used(k, Heap!Reused!Cached \ {k})
    BY <1>1, <2>1, MapIs
  <2>4. Heap!Reused!Rewrite(k, v, p)
    <3>1. k \in Heap!Reused!Cached
      BY <1>2, MapIs
    <3> QED
      BY <2>2, <2>3, <3>1 DEF Heap!Reused!Rewrite, Held, Pairs
  <2> QED
    BY <2>4 DEF Heap!Reused!Store
<1>3. CASE k \notin DOMAIN index /\ Len(heap) < MaxSize
  <2>1. J = DOMAIN index /\ Content(e) = [value |-> v, reused |-> FALSE, pins |-> p]
    BY <1>3, NowIs DEF Stores
  <2>2. Held' = [x \in Heap!Reused!Cached \cup {k} |->
                   IF x = k THEN Heap!Reused!Entry(v, FALSE, p) ELSE Held[x]]
    BY <1>1, <2>1, MapIs
  <2>3. Pairs(ticks)' = Heap!Reused!Used(k, Heap!Reused!Cached)
    BY <1>1, <2>1, MapIs
  <2>4. k \notin Heap!Reused!Cached /\ Heap!Reused!Cardinality(Heap!Reused!Cached) < MaxSize
    BY <1>3, MapIs, HeapSizes
  <2>5. Heap!Reused!Insert(k, v, p)
    BY <2>2, <2>3, <2>4 DEF Heap!Reused!Insert, Held, Pairs
  <2> QED
    BY <2>5 DEF Heap!Reused!Store
<1>4. CASE k \notin DOMAIN index /\ ~(Len(heap) < MaxSize)
  <2> DEFINE gone == heap[1].key
  <2>1. /\ Len(heap) = MaxSize /\ heap[1].pins = 0 /\ J = DOMAIN index \ {gone}
        /\ Content(e) = [value |-> v, reused |-> FALSE, pins |-> p]
    BY <1>4 DEF Stores
  <2>2. 1 \in 1 .. Len(heap) /\ Len(heap) # 0
    BY <2>1, NowIs
  <2>3. gone \in DOMAIN index /\ index[gone] = 1
    BY <2>2, NowIs
  <2>4. Held' = [x \in (Heap!Reused!Cached \ {gone}) \cup {k} |->
                   IF x = k THEN Heap!Reused!Entry(v, FALSE, p) ELSE Held[x]]
    BY <1>1, <2>1, MapIs
  <2>5. Pairs(ticks)' = Heap!Reused!Used(k, Heap!Reused!Cached \ {gone})
    BY <1>1, <2>1, MapIs
  <2>6. k \notin Heap!Reused!Cached /\ Heap!Reused!Cardinality(Heap!Reused!Cached) = MaxSize
    BY <1>4, <2>1, MapIs, HeapSizes
  <2>7. Heap!Reused!Evictable(gone)
    <3>1. Held[gone] = [value |-> heap[1].value, reused |-> heap[1].reused, pins |-> heap[1].pins]
      BY <2>3 DEF Held
    <3>2. Held[gone].pins = 0
      BY <3>1, <2>1
    <3>3. ASSUME NEW j \in DOMAIN index \ {gone}
          PROVE  \/ Held[j].pins > 0
                 \/ Held[j].reused /\ ~Held[gone].reused
                 \/ Held[j].reused = Held[gone].reused /\ <<gone, j>> \in Pairs(ticks)
      <4> DEFINE o == At(Now, j)
      <4>1. \/ o.pins > 0
            \/ o.reused /\ ~heap[1].reused
            \/ o.reused = heap[1].reused /\ <<gone, j>> \in Pairs(ticks)
        BY <2>1, <2>2, RootGoesFirst
      <4>2. Held[j].pins = o.pins /\ Held[j].reused = o.reused
        <5>1. Held[j] = Content(o)
          BY HeldIs
        <5> HIDE DEF o, gone
        <5> QED
          BY <5>1 DEF Content
      <4>3. Held[gone].reused = heap[1].reused
        BY <3>1
      <4> HIDE DEF o, gone
      <4> QED
        BY <4>1, <4>2, <4>3
    <3> HIDE DEF gone
    <3> QED
      BY <3>2, <3>3, MapIs DEF Heap!Reused!Evictable, Held, Pairs
  <2> HIDE DEF gone
  <2>8. Heap!Reused!Replace(gone, k, v, p)
    BY <2>4, <2>5, <2>6, <2>7 DEF Heap!Reused!Replace, Held, Pairs
  <2>9. gone \in Heap!Reused!Cached
    BY <2>3, MapIs
  <2> QED
    BY <2>8, <2>9 DEF Heap!Reused!Store
<1> QED
  BY <1>2, <1>3, <1>4

\* __getitem__ does what is promised.
LEMMA ReadIsPromised ==
  ASSUME HeapInv, NEW k, Heap!Read(k) PROVE HeapInv' /\ Heap!Reused!Read(k)
<1> DEFINE o == heap[index[k]]
           e == [o EXCEPT !.reused = TRUE]
           J == DOMAIN index \ {k}
<1>1. k \in DOMAIN index /\ Heap!Become(Heap!Accessed(index[k], o))
  BY DEF Heap!Read
<1>2. o \in HeapEntries /\ o.key = k
  BY <1>1, NowIs
<1>3. Gives(Heap!Accessed(index[k], o), k, e, J)
  BY <1>1, <1>2, AccessedGives
<1> HIDE DEF o, e, J
<1>4. HeapInv' /\ Held' = Renewed(k, e, J) /\ Pairs(ticks)' = Touched(k, J)
  BY <1>1, <1>3, GivesThen
<1>5. Held' = [Held EXCEPT ![k].reused = TRUE]
  <2>1. Held[k] = [value |-> o.value, reused |-> o.reused, pins |-> o.pins]
    BY <1>1 DEF Held, o
  <2>2. Content(e) = [Held[k] EXCEPT !.reused = TRUE]
    <3>1. e.value = o.value /\ e.reused = TRUE /\ e.pins = o.pins
      BY <1>2 DEF e, HeapEntries
    <3>2. Held[k] \in [value : {o.value}, reused : BOOLEAN, pins : {o.pins}]
      BY <1>2, <2>1 DEF HeapEntries
    <3> DEFINE d == [Held[k] EXCEPT !.reused = TRUE]
    <3>3. d \in [value : {o.value}, reused : BOOLEAN, pins : {o.pins}] /\ d.reused = TRUE
      BY <3>2
    <3> HIDE DEF d
    <3>4. d = [value |-> o.value, reused |-> TRUE, pins |-> o.pins]
      BY <3>3
    <3>5. Content(e) = d
      BY <3>1, <3>4 DEF Content
    <3> QED
      BY <3>5 DEF d
  <2>3. DOMAIN Held = DOMAIN index /\ J \cup {k} = DOMAIN index /\ Held = [x \in DOMAIN index |-> Held[x]]
    BY <1>1 DEF Held, J
  <2> QED
    BY <1>1, <1>4, <2>2, <2>3 DEF Renewed
<1>6. Pairs(ticks)' = Heap!Reused!Used(k, Heap!Reused!Cached \ {k})
  BY <1>4, MapIs DEF J
<1>7. k \in Heap!Reused!Cached
  BY <1>1, MapIs
<1> QED
  BY <1>4, <1>5, <1>6, <1>7 DEF Heap!Reused!Read, Held, Pairs

\* __setitem__ does.
LEMMA WriteIsPromised ==
  ASSUME HeapInv, MaxSize \in Nat \ {0}, NEW k \in Keys, NEW v \in CachedValues, Heap!Write(k, v)
  PROVE  HeapInv' /\ Heap!Reused!Write(k, v)
<1>1. ~Heap!AllPinned(k) /\ Heap!Become(Heap!AfterSet(k, v))
  BY DEF Heap!Write
<1>2. PICK e \in HeapEntries : \E J : Gives(Heap!AfterSet(k, v), k, e, J) /\ Stores(k, v, 0, e, J)
  BY <1>1, SetGives
<1>3. PICK J : Gives(Heap!AfterSet(k, v), k, e, J) /\ Stores(k, v, 0, e, J)
  BY <1>2
<1>4. HeapInv'
  BY <1>1, <1>3, GivesThen
<1>5. Heap!Reused!Store(k, v, 0)
  BY <1>1, <1>3, StoreIsPromised
<1> QED
  BY <1>4, <1>5 DEF Heap!Reused!Write

\* pin does.
LEMMA PinIsPromised ==
  ASSUME HeapInv, MaxSize \in Nat \ {0}, NEW k \in Keys, NEW v \in CachedValues, Heap!Pin(k, v)
  PROVE  HeapInv' /\ Heap!Reused!Pin(k, v)
<1> DEFINE h == Heap!AfterSet(k, v)
           r == Heap!Pinned(h, k, 1)
<1>1. /\ ~Heap!AllPinned(k) /\ Heap!Become(r)
      /\ k \in DOMAIN index => heap[index[k]].pins < MaxPins
  BY DEF Heap!Pin
<1>2. PICK e \in HeapEntries : \E J : Gives(h, k, e, J) /\ Stores(k, v, 0, e, J)
  BY <1>1, SetGives
<1>3. PICK J : Gives(h, k, e, J) /\ Stores(k, v, 0, e, J)
  BY <1>2
<1> DEFINE f == [e EXCEPT !.pins = @ + 1]
<1> HIDE DEF h
<1>4. Gives(r, k, f, J) /\ Stores(k, v, 1, f, J)
  BY <1>3, PinGives
<1>5. f \in HeapEntries
  BY DEF HeapEntries
<1> HIDE DEF r, f
<1>6. HeapInv'
  BY <1>1, <1>4, GivesThen
<1>7. Heap!Reused!Store(k, v, 1)
  BY <1>1, <1>4, <1>5, StoreIsPromised
<1>8. k \in Heap!Reused!Cached => Held[k].pins < MaxPins
  BY <1>1, MapIs DEF Held
<1> QED
  BY <1>6, <1>7, <1>8 DEF Heap!Reused!Pin, Held

\* unpin does.
LEMMA UnpinIsPromised ==
  ASSUME HeapInv, NEW k, Heap!Unpin(k) PROVE HeapInv' /\ Heap!Reused!Unpin(k)
<1> DEFINE r == Heap!Pinned(Now, k, -1)
<1>1. k \in DOMAIN index /\ heap[index[k]].pins > 0 /\ Heap!Become(r)
  BY DEF Heap!Unpin, Now
<1>2. heap[index[k]].pins \in Nat
  BY <1>1, NowIs DEF HeapEntries
<1> HIDE DEF r
<1>3. InOrder(Now) /\ k \in DOMAIN Now.index /\ At(Now, k).pins + -1 \in Nat
  <2>1. Now.data = heap /\ Now.index = index
    BY NowIs
  <2>2. At(Now, k) = heap[index[k]]
    BY <2>1 DEF At
  <2>3. heap[index[k]].pins + -1 \in Nat
    BY <1>1, <1>2
  <2> QED
    BY <1>1, <2>1, <2>2, <2>3 DEF HeapInv
<1>4. /\ InOrder(r) /\ Len(r.data) = Len(Now.data)
      /\ DOMAIN r.index = DOMAIN Now.index /\ r.order = Now.order
      /\ At(r, k) = [At(Now, k) EXCEPT !.pins = @ + -1]
      /\ \A x \in DOMAIN Now.index : x # k => At(r, x) = At(Now, x)
  BY <1>3, PinnedIs DEF r
<1>5. heap' = r.data /\ index' = r.index /\ ticks' = r.order
  BY <1>1 DEF Heap!Become
<1>6. r = [data |-> r.data, index |-> r.index, order |-> r.order]
  BY <1>4 DEF InOrder, WellFormed
<1>7. Now' = r
  BY <1>5, <1>6 DEF Now
<1>8. HeapInv'
  BY <1>4, <1>5, <1>7, NowIs DEF HeapInv
<1>9. Held' = [x \in DOMAIN r.index |-> Content(At(r, x))]
  BY <1>5 DEF Held, Content, At
<1>10. Held' = [Held EXCEPT ![k].pins = @ - 1]
  <2> DEFINE o == At(Now, k)
             f == [o EXCEPT !.pins = @ + -1]
  <2>1. Held[k] = [value |-> o.value, reused |-> o.reused, pins |-> o.pins] /\ o.pins \in Nat
    BY <1>1, <1>2, HeldIs, NowIs DEF Content, At
  <2>2. o \in HeapEntries
    BY <1>1, NowIs DEF At
  <2> HIDE DEF o
  <2>3. f.value = o.value /\ f.reused = o.reused /\ f.pins = o.pins - 1
    BY <2>1, <2>2 DEF HeapEntries
  <2>4. Content(At(r, k)) = [Held[k] EXCEPT !.pins = @ - 1]
    <3>1. At(r, k) = f
      BY <1>4 DEF o
    <3> HIDE DEF f
    <3> QED
      BY <2>1, <2>3, <3>1 DEF Content
  <2>5. \A x \in DOMAIN index : x # k => Content(At(r, x)) = Held[x]
    BY <1>4, HeldIs, NowIs
  <2>6. DOMAIN r.index = DOMAIN index /\ Held = [x \in DOMAIN index |-> Held[x]]
    BY <1>4, NowIs DEF Held
  <2> QED
    BY <1>1, <1>9, <2>4, <2>5, <2>6
<1>11. Pairs(ticks)' = Pairs(ticks)
  BY <1>4, <1>5, NowIs DEF Pairs
<1>12. k \in Heap!Reused!Cached /\ Held[k].pins > 0
  BY <1>1, MapIs DEF Held
<1> QED
  BY <1>8, <1>10, <1>11, <1>12 DEF Heap!Reused!Unpin, Held, Pairs

\* The cache with nothing in it.
Empty == [data |-> <<>>, index |-> <<>>, order |-> <<>>]

\* It is in order.
LEMMA EmptyIs == InOrder(Empty) /\ Len(Empty.data) = 0 /\ Pairs(<<>>) = {}
<1>1. Empty.data = <<>> /\ Empty.index = <<>> /\ Empty.order = <<>>
      /\ Empty = [data |-> Empty.data, index |-> Empty.index, order |-> Empty.order]
  BY DEF Empty
<1>2. /\ Len(<<>>) = 0 /\ <<>> \in Seq(HeapEntries) /\ DOMAIN <<>> = {} /\ <<>> \in Seq({})
      /\ <<>> = [k \in DOMAIN <<>> |-> <<>>[k]]
  BY EmptySeq
<1>3. Rows(<<>>, {})
  BY <1>2 DEF Rows
<1> HIDE DEF Empty
<1>4. Indexed(Empty)
  BY <1>1, <1>2 DEF Indexed
<1>5. WellFormed(Empty)
  BY <1>1, <1>2, <1>3, <1>4 DEF WellFormed
<1>6. InOrder(Empty)
  BY <1>1, <1>2, <1>5 DEF InOrder
<1>7. Pairs(<<>>) = {}
  BY <1>2 DEF Pairs
<1> QED
  BY <1>1, <1>2, <1>6, <1>7

\* It stands for the map with nothing in it.
LEMMA HeapStarts ==
  ASSUME Heap!Reused!CacheConstants, Heap!Init
  PROVE  HeapInv /\ Heap!Reused!Init
<1>0. MaxSize \in Nat \ {0}
  BY DEF Heap!Reused!CacheConstants
<1>1. heap = <<>> /\ index = <<>> /\ ticks = <<>>
  BY DEF Heap!Init
<1>2. HeapInv
  <2>1. Now = Empty
    BY <1>1 DEF Now, Empty
  <2>2. Len(heap) = 0
    BY <1>1, EmptyIs DEF Empty
  <2> QED
    BY <1>0, <2>1, <2>2, EmptyIs DEF HeapInv
<1>3. Held = <<>>
  BY <1>1 DEF Held
<1>4. Pairs(ticks) = {}
  BY <1>1, EmptyIs
<1> QED
  BY <1>2, <1>3, <1>4 DEF Heap!Reused!Init, Held, Pairs

\* clear does.
LEMMA ClearIsPromised ==
  ASSUME HeapInv, MaxSize \in Nat \ {0}, Heap!Clear PROVE HeapInv' /\ Heap!Reused!Clear
<1>1. heap' = <<>> /\ index' = <<>> /\ ticks' = <<>>
  BY DEF Heap!Clear
<1>2. HeapInv'
  <2>1. Now' = Empty
    BY <1>1 DEF Now, Empty
  <2>2. Len(heap') = 0
    BY <1>1, EmptyIs DEF Empty
  <2> QED
    BY <2>1, <2>2, EmptyIs DEF HeapInv
<1>3. Held' = <<>>
  BY <1>1 DEF Held
<1>4. Pairs(ticks)' = {}
  <2>1. Pairs(ticks)' = Pairs(<<>>)
    BY <1>1 DEF Pairs
  <2> QED
    BY <2>1, EmptyIs
<1> QED
  BY <1>2, <1>3, <1>4 DEF Heap!Reused!Clear, Held, Pairs

\* So does every step.
LEMMA HeapSteps ==
  ASSUME Heap!Reused!CacheConstants, HeapInv, [Heap!Next]_(Heap!vars)
  PROVE  HeapInv' /\ [Heap!Reused!Next]_(Heap!Reused!vars)
<1>0. MaxSize \in Nat \ {0}
  BY DEF Heap!Reused!CacheConstants
<1>1. ASSUME NEW k \in Keys, Heap!Read(k) PROVE HeapInv' /\ Heap!Reused!Next
  BY <1>1, ReadIsPromised DEF Heap!Reused!Next
<1>2. ASSUME NEW k \in Keys, Heap!Unpin(k) PROVE HeapInv' /\ Heap!Reused!Next
  BY <1>2, UnpinIsPromised DEF Heap!Reused!Next
<1>3. ASSUME NEW k \in Keys, NEW v \in CachedValues, Heap!Write(k, v) PROVE HeapInv' /\ Heap!Reused!Next
  BY <1>3, <1>0, WriteIsPromised DEF Heap!Reused!Next
<1>4. ASSUME NEW k \in Keys, NEW v \in CachedValues, Heap!Pin(k, v) PROVE HeapInv' /\ Heap!Reused!Next
  BY <1>4, <1>0, PinIsPromised DEF Heap!Reused!Next
<1>5. ASSUME Heap!Clear PROVE HeapInv' /\ Heap!Reused!Next
  BY <1>5, <1>0, ClearIsPromised DEF Heap!Reused!Next
<1>6. ASSUME UNCHANGED Heap!vars PROVE HeapInv' /\ UNCHANGED Heap!Reused!vars
  <2>1. heap' = heap /\ index' = index /\ ticks' = ticks
    BY <1>6 DEF Heap!vars
  <2>2. Now' = Now
    BY <2>1 DEF Now
  <2>3. HeapInv'
    BY <2>1, <2>2 DEF HeapInv
  <2>4. UNCHANGED Heap!Reused!vars
    BY <2>1 DEF Heap!Reused!vars
  <2> QED
    BY <2>3, <2>4
<1> QED
  BY <1>1, <1>2, <1>3, <1>4, <1>5, <1>6 DEF Heap!Next

\* GenericCache.check_valid, "Asserts that all of the cache's invariants hold": the index
\* says where each key is, and no entry has a smaller sort key than its parent.
CheckValid ==
  /\ \A k \in DOMAIN index : index[k] \in DOMAIN heap /\ heap[index[k]].key = k
  /\ \A i \in DOMAIN heap :
       /\ heap[i].key \in DOMAIN index /\ index[heap[i].key] = i
       /\ \A j \in Heap!Children(Now, i) : ~Heap!OutOfOrder(Now, i, j)

\* It follows from the invariant.
LEMMA HeapIsValid == HeapInv => CheckValid
<1> SUFFICES ASSUME HeapInv PROVE CheckValid
  OBVIOUS
<1> DEFINE n == Len(heap)
<1>1. /\ DOMAIN heap = 1 .. n /\ n \in Nat
      /\ \A k \in DOMAIN index : index[k] \in 1 .. n /\ heap[index[k]].key = k
      /\ \A i \in 1 .. n : heap[i].key \in DOMAIN index /\ index[heap[i].key] = i
      /\ Now.data = heap /\ WellFormed(Now)
  BY NowIs
<1>2. ASSUME NEW i \in 1 .. n, NEW j \in Heap!Children(Now, i)
      PROVE  ~Heap!OutOfOrder(Now, i, j)
  <2>1. j \in 1 .. n /\ (j = 2 * i \/ j = 2 * i + 1)
    BY <1>1 DEF Heap!Children
  <2>2. i \in Nat /\ j \in 2 .. n
    BY <1>1, <2>1
  <2>3. j \div 2 = i
    BY <2>1, <2>2, Doubles
  <2>4. W(Now, i) <= W(Now, j)
    BY <1>1, <2>2, <2>3 DEF HeapInv, InOrder
  <2>5. /\ W(Now, i) \in Nat /\ W(Now, j) \in Nat
        /\ Heap!OutOfOrder(Now, i, j) <=> W(Now, j) < W(Now, i)
    BY <1>1, <2>1, WeightsOf
  <2> QED
    BY <2>4, <2>5
<1> QED
  BY <1>1, <1>2 DEF CheckValid

\* What check_valid asserts is true after every operation.
THEOREM HeapStaysValid ==
  ASSUME Heap!Reused!CacheConstants
  PROVE  Heap!Spec => []CheckValid
<1>1. Heap!Init => HeapInv
  BY HeapStarts
<1>2. HeapInv /\ [Heap!Next]_(Heap!vars) => HeapInv'
  BY HeapSteps
<1>3. HeapInv => CheckValid
  BY HeapIsValid
<1> QED
  BY <1>1, <1>2, <1>3, PTL DEF Heap!Spec

\* LRUReusedCache keeps its promise: every operation on the heap is one on the promised map;
\* in particular __balance always leaves the entry at the root that has to go first.
THEOREM HeapImplements ==
  ASSUME Heap!Reused!CacheConstants
  PROVE  Heap!Spec => ImplementsReused
<1>1. Heap!Init => HeapInv /\ Heap!Reused!Init
  BY HeapStarts
<1>2. HeapInv /\ [Heap!Next]_(Heap!vars) => HeapInv' /\ [Heap!Reused!Next]_(Heap!Reused!vars)
  BY HeapSteps
<1> QED
  BY <1>1, <1>2, PTL DEF Heap!Spec, ImplementsReused, Heap!ImplementsReused, Heap!Reused!Spec
=============================================================================
