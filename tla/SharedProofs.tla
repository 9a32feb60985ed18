----------------------------- MODULE SharedProofs -----------------------------
(***************************************************************************)
(* Proofs about StackframeLimiter, for any number of threads, any nesting  *)
(* and any limits, and what follows from them and from the proofs about    *)
(* the other components for Shared: every step of the whole is a step of   *)
(* one component and a stuttering step of the others, so that each keeps   *)
(* its promise next to the others.                                         *)
(***************************************************************************)
EXTENDS Shared, FiniteSetTheorems, TLAPS

\* The set of open contexts is finite, so that it can be counted.
LEMMA OpenIsFinite == IsFiniteSet(Open)
<1>1. IsFiniteSet(Levels)
  BY FS_Interval, LimiterConstants DEF Levels
<1>2. IsFiniteSet(Threads \X Levels)
  BY <1>1, FS_Product, LimiterConstants
<1>3. Open \subseteq Threads \X Levels
  BY DEF Open
<1> QED
  BY <1>2, <1>3, FS_Subset

\* Opening one more context in thread t adds exactly one element to Open.
LEMMA OpenGrows ==
  ASSUME TypeOK, NEW t \in Threads, top[t] + 1 \in Levels,
         top' = [top EXCEPT ![t] = @ + 1]
  PROVE  /\ IsFiniteSet(Open')
         /\ Cardinality(Open') = Cardinality(Open) + 1
<1> DEFINE c == <<t, top[t] + 1>>
<1>1. c \notin Open
  BY LimiterConstants DEF TypeOK, Open, Levels
<1>2. Open' = Open \cup {c}
  BY LimiterConstants DEF TypeOK, Open, Levels
<1> HIDE DEF c
<1> QED
  BY <1>1, <1>2, OpenIsFinite, FS_AddElement

\* Closing the innermost context of t removes exactly one element from Open.
LEMMA OpenShrinks ==
  ASSUME TypeOK, NEW t \in Threads, top[t] > 0,
         top' = [top EXCEPT ![t] = @ - 1]
  PROVE  /\ IsFiniteSet(Open')
         /\ Cardinality(Open') = Cardinality(Open) - 1
         /\ Cardinality(Open) > 0
<1> DEFINE c == <<t, top[t]>>
<1>1. c \in Open
  BY LimiterConstants DEF TypeOK, Open, Levels
<1>2. Open' = Open \ {c}
  BY LimiterConstants DEF TypeOK, Open, Levels
<1>3. Cardinality(Open) \in Nat
  BY OpenIsFinite, FS_CardinalityType
<1>4. Cardinality(Open) # 0
  BY <1>1, OpenIsFinite, FS_EmptySet
<1> HIDE DEF c
<1> QED
  BY <1>1, <1>2, <1>3, <1>4, OpenIsFinite, FS_RemoveElement

\* What the counter's correctness rests on, as one invariant.
CountInv == TypeOK /\ LockHolderEnters /\ ActiveCountsOpenContexts

\* Before any context is open, the counter is zero.
LEMMA CountInvInit == Init => CountInv
<1> SUFFICES ASSUME Init PROVE CountInv
  OBVIOUS
<1>1. TypeOK
  BY LimiterConstants DEF Init, TypeOK, Frame
<1>2. Open = {}
  BY DEF Init, Open, Levels
<1> QED
  BY <1>1, <1>2, FS_EmptySet DEF Init, CountInv, LockHolderEnters, ActiveCountsOpenContexts

\* Every step of a thread, under the lock or outside of it, keeps the count.
LEMMA CountInvStep == CountInv /\ [Next]_vars => CountInv'
<1> SUFFICES ASSUME CountInv, [Next]_vars PROVE CountInv'
  OBVIOUS
<1> USE LimiterConstants DEF CountInv
<1>1. ASSUME NEW t \in Threads, EnterLock(t) PROVE CountInv'
  <2> DEFINE l == top[t] + 1
  <2>0. PICK d \in Depths : frame' = [frame EXCEPT ![t][l] = [old |-> limit, new |-> d + Reserve]]
    BY <1>1 DEF EnterLock
  <2>a. [old |-> limit, new |-> d + Reserve] \in Frame
    BY DEF TypeOK, Frame
  <2>b. frame' \in [Threads -> [Levels -> Frame]]
    BY <2>0, <2>a DEF TypeOK
  <2>1. TypeOK'
    BY <1>1, <2>b DEF TypeOK, EnterLock
  <2>2. LockHolderEnters'
    BY <1>1 DEF EnterLock, LockHolderEnters
  <2>3. Open' = Open
    BY <1>1 DEF EnterLock, Open
  <2> QED
    BY <1>1, <2>1, <2>2, <2>3 DEF EnterLock, ActiveCountsOpenContexts
<1>2. ASSUME NEW t \in Threads, EnterContext(t) \/ EnterContextWarns(t) PROVE CountInv'
  <2>1. top[t] + 1 \in Levels /\ top' = [top EXCEPT ![t] = @ + 1]
    BY <1>2 DEF EnterContext, EnterContextWarns, LockHolderEnters
  <2>2. Entering(t) \in Frame
    BY <2>1 DEF TypeOK, Entering
  <2>a. /\ Entering(t).old \in Nat
        /\ Entering(t).new \in Nat
    BY <2>2 DEF Frame
  <2>b. EnterKnown(t) \in SUBSET Nat /\ EnterOriginal(t) \in Nat \cup {None}
    BY <2>a DEF TypeOK, EnterKnown, EnterOriginal
  <2>c. top' \in [Threads -> Levels \cup {0}]
    BY <2>1 DEF TypeOK
  <2>3. TypeOK'
    BY <1>2, <2>a, <2>b, <2>c DEF TypeOK, EnterContext, EnterContextWarns
  <2>4. LockHolderEnters'
    BY <1>2 DEF EnterContext, EnterContextWarns, LockHolderEnters
  <2>5. Cardinality(Open') = Cardinality(Open) + 1
    BY <2>1, OpenGrows
  <2>6. active' = active + 1 /\ original' # None
    BY <1>2, <2>2 DEF TypeOK, EnterContext, EnterContextWarns, EnterOriginal, Frame,
                      ActiveCountsOpenContexts
  <2>7. ActiveCountsOpenContexts'
    BY <2>5, <2>6 DEF TypeOK, ActiveCountsOpenContexts
  <2> QED
    BY <2>3, <2>4, <2>7
<1>3. ASSUME NEW t \in Threads, EnterContextRaises(t) PROVE CountInv'
  <2>1. Entering(t) \in Frame
    BY <1>3 DEF TypeOK, Entering, LockHolderEnters, EnterContextRaises
  <2>2. TypeOK'
    BY <1>3, <2>1 DEF TypeOK, EnterContextRaises, Frame
  <2>3. Open' = Open
    BY <1>3 DEF EnterContextRaises, Open
  <2> QED
    BY <1>3, <2>2, <2>3 DEF EnterContextRaises, ActiveCountsOpenContexts, LockHolderEnters
<1>4. ASSUME NEW t \in Threads, ExitContext(t) PROVE CountInv'
  <2>1. top[t] > 0 /\ top' = [top EXCEPT ![t] = @ - 1] /\ active' = active - 1
    BY <1>4 DEF ExitContext
  <2>2. /\ Cardinality(Open') = Cardinality(Open) - 1
        /\ Cardinality(Open) > 0
    BY <2>1, OpenShrinks
  <2>3. active > 0 /\ original \in Nat
    BY <2>2 DEF TypeOK, ActiveCountsOpenContexts
  <2>a. top[t] \in Levels /\ top[t] - 1 \in Levels \cup {0}
    BY <2>1 DEF TypeOK, Levels
  <2>b. frame[t][top[t]] \in Frame
    BY <2>a DEF TypeOK
  <2>4. ExitTarget(t) \in Nat
    BY <2>3, <2>b DEF ExitTarget, Frame
  <2>c. top' \in [Threads -> Levels \cup {0}]
    BY <2>1, <2>a DEF TypeOK
  <2>d. known' \in SUBSET Nat
    BY <1>4, <2>3, <2>4 DEF TypeOK, ExitContext
  <2>5. TypeOK'
    BY <1>4, <2>3, <2>4, <2>c, <2>d DEF TypeOK, ExitContext
  <2>6. ActiveCountsOpenContexts'
    BY <1>4, <2>1, <2>2, <2>3 DEF TypeOK, ActiveCountsOpenContexts, ExitContext
  <2> QED
    BY <1>4, <2>5, <2>6 DEF ExitContext, LockHolderEnters
<1>5. ASSUME NEW v \in OutsideLimits, OutsideSet(v) PROVE CountInv'
  <2>1. TypeOK'
    BY <1>5 DEF TypeOK, OutsideSet
  <2>2. Open' = Open
    BY <1>5 DEF OutsideSet, Open
  <2> QED
    BY <1>5, <2>1, <2>2 DEF OutsideSet, ActiveCountsOpenContexts, LockHolderEnters
<1>6. CASE UNCHANGED vars
  <2>1. Open' = Open
    BY <1>6 DEF vars, Open
  <2> QED
    BY <1>6, <2>1 DEF vars, TypeOK, ActiveCountsOpenContexts, LockHolderEnters
<1> QED
  BY <1>1, <1>2, <1>3, <1>4, <1>5, <1>6 DEF Next

\* In every reachable state the variables have their types, the recursion limit
\* included: enter_context and exit_context never install None.
THEOREM TypeCorrect == Spec => []TypeOK
<1>1. CountInv => TypeOK
  BY DEF CountInv
<1> QED
  BY <1>1, CountInvInit, CountInvStep, PTL DEF Spec

\* The counter of StackframeLimiter equals the number of contexts that are open,
\* whatever the threads interleave, error path of __enter__ included.
THEOREM CounterCorrect == Spec => []ActiveCountsOpenContexts
<1>1. CountInv => ActiveCountsOpenContexts
  BY DEF CountInv
<1> QED
  BY <1>1, CountInvInit, CountInvStep, PTL DEF Spec

-----------------------------------------------------------------------------
\* With the counter correct, the bookkeeping of the limit is inductive.
LEMMA LimitStep ==
  ASSUME ~strict, CountInv, LimitIsAccountedFor, [Next]_vars
  PROVE  LimitIsAccountedFor'
<1> USE LimiterConstants DEF CountInv
<1>1. ASSUME NEW t \in Threads, EnterLock(t) PROVE LimitIsAccountedFor'
  BY <1>1 DEF TypeOK, EnterLock, LimitIsAccountedFor, Entering, Frame
<1>2. ASSUME NEW t \in Threads, EnterContext(t) PROVE LimitIsAccountedFor'
  BY <1>2 DEF TypeOK, EnterContext, LimitIsAccountedFor, EnterKnown, EnterOriginal
<1>3. ASSUME NEW t \in Threads, EnterContextWarns(t) PROVE LimitIsAccountedFor'
  BY <1>3 DEF TypeOK, EnterContextWarns, LimitIsAccountedFor, EnterKnown, EnterOriginal
<1>4. ASSUME NEW t \in Threads, EnterContextRaises(t) PROVE LimitIsAccountedFor'
  BY <1>4 DEF EnterContextRaises
<1>5. ASSUME NEW t \in Threads, ExitContext(t) PROVE LimitIsAccountedFor'
  <2>1. active > 0
    <3>1. Cardinality(Open) > 0
      BY <1>5, OpenShrinks DEF ExitContext
    <3> QED
      BY <3>1 DEF ActiveCountsOpenContexts
  <2> QED
    BY <1>5, <2>1 DEF TypeOK, ExitContext, ExitTarget, LimitIsAccountedFor
<1>6. ASSUME NEW v \in OutsideLimits, OutsideSet(v) PROVE LimitIsAccountedFor'
  BY <1>6 DEF TypeOK, OutsideSet, LimitIsAccountedFor, Entering
<1>7. CASE UNCHANGED vars
  BY <1>7 DEF vars, LimitIsAccountedFor, Entering
<1> QED
  BY <1>1, <1>2, <1>3, <1>4, <1>5, <1>6, <1>7 DEF Next

\* Unless warnings are errors, the recursion limit is the outside world's own
\* whenever no context is open, for any number of threads that overlap in any
\* order.
THEOREM LimitRestored == Spec => []RestoresOutsideLimit
<1> DEFINE Accounted == ~strict => LimitIsAccountedFor
<1>1. Init => Accounted
  BY DEF Init, LimitIsAccountedFor
<1>2. CountInv /\ Accounted /\ [Next]_vars => Accounted'
  <2>1. [Next]_vars => strict' = strict
    BY DEF Next, vars, EnterLock, EnterContext, EnterContextWarns, EnterContextRaises,
           ExitContext, OutsideSet
  <2> QED
    BY <2>1, LimitStep
<1>3. Accounted => RestoresOutsideLimit
  BY DEF LimitIsAccountedFor, RestoresOutsideLimit
<1> HIDE DEF Accounted
<1> QED
  BY <1>1, <1>2, <1>3, CountInvInit, CountInvStep, PTL DEF Spec
-----------------------------------------------------------------------------
\* The whole implements the specification of every component.
LEMMA RunsLimiter == SharedSpec => Spec
<1>1. SharedInit => Init
  BY DEF SharedInit
<1>2. [SharedNext]_SharedVars => [Next]_vars
  BY DEF SharedNext, LimiterStep, RandomStep, ExecutionStep, DirectoryStep, WriterStep,
         SharedVars
<1> QED
  BY <1>1, <1>2, PTL DEF SharedSpec, Spec

\* The whole is a behaviour of GlobalRandom.
LEMMA RunsRandom == SharedSpec => Random!Spec
<1>1. SharedInit => Random!Init
  BY DEF SharedInit
<1>2. [SharedNext]_SharedVars => [Random!Next]_(Random!vars)
  <2>1. Random!vars = RandomVars
    BY DEF Random!vars, RandomVars
  <2> QED
    BY <2>1 DEF SharedNext, LimiterStep, RandomStep, ExecutionStep, DirectoryStep,
                WriterStep, SharedVars, Random!vars, RandomVars
<1> QED
  BY <1>1, <1>2, PTL DEF SharedSpec, Random!Spec

\* The whole is a behaviour of TestExecution.
LEMMA RunsExecution == SharedSpec => Execution!Spec
<1>1. SharedInit => Execution!Init
  BY DEF SharedInit
<1>2. [SharedNext]_SharedVars => [Execution!Next]_(Execution!vars)
  <2>1. Execution!vars = ExecutionVars
    BY DEF Execution!vars, ExecutionVars
  <2> QED
    BY <2>1 DEF SharedNext, LimiterStep, RandomStep, ExecutionStep, DirectoryStep,
                WriterStep, SharedVars, Execution!vars, ExecutionVars
<1> QED
  BY <1>1, <1>2, PTL DEF SharedSpec, Execution!Spec

\* The whole is a behaviour of DirectoryDatabase.
LEMMA RunsDirectory == SharedSpec => Directory!Spec
<1>1. SharedInit => Directory!Init
  BY DEF SharedInit
<1>2. [SharedNext]_SharedVars => [Directory!Next]_(Directory!vars)
  <2>1. Directory!vars = DirectoryVars
    BY DEF Directory!vars, DirectoryVars
  <2> QED
    BY <2>1 DEF SharedNext, LimiterStep, RandomStep, ExecutionStep, DirectoryStep,
                WriterStep, SharedVars, Directory!vars, DirectoryVars
<1> QED
  BY <1>1, <1>2, PTL DEF SharedSpec, Directory!Spec

\* The whole is a behaviour of BackgroundWriter.
LEMMA RunsWriter == SharedSpec => Writer!Spec
<1>1. SharedInit => Writer!Init
  BY DEF SharedInit
<1>2. [SharedNext]_SharedVars => [Writer!Next]_(Writer!vars)
  <2>1. Writer!vars = WriterVars
    BY DEF Writer!vars, WriterVars
  <2> QED
    BY <2>1 DEF SharedNext, LimiterStep, RandomStep, ExecutionStep, DirectoryStep,
                WriterStep, SharedVars, Writer!vars, WriterVars
<1> QED
  BY <1>1, <1>2, PTL DEF SharedSpec, Writer!Spec

-----------------------------------------------------------------------------
\* When no context is open every managed generator is where the code outside left it,
\* as long as no contexts of two threads overlapped.
THEOREM SharedRandomRestored == SharedSpec => []AloneRestoresOutside
<1>1. Random!Spec => []Random!AloneRestoresOutside
  BY SharedConstants, Random!TurnsRestoreOutside
<1> QED
  BY <1>1, RunsRandom, PTL DEF AloneRestoresOutside

\* A draw gets the note only if somebody used random during it.
THEOREM SharedWarningsJust == SharedSpec => WarnsOnlyOfUse
<1>1. Random!Spec => Random!WarnsOnlyOfUse
  BY SharedConstants, Random!NotedDrawsUsed
<1> QED
  BY <1>1, RunsRandom, PTL DEF WarnsOnlyOfUse

\* A test case misses its deadline only if its thread was alone.
THEOREM SharedDeadlineAlone == SharedSpec => []DeadlineOnlyAlone
<1>1. Execution!Spec => []Execution!DeadlineOnlyAlone
  BY SharedConstants, Execution!OnlyAloneIsLate
<1> QED
  BY <1>1, RunsExecution, PTL DEF DeadlineOnlyAlone

\* A reliable test is never called flaky, but for a thread that joins.
THEOREM SharedReliable == SharedSpec => []ReliableIsNotFlaky
<1>1. Execution!Spec => []Execution!ReliableIsNotFlaky
  BY SharedConstants, Execution!ReliableStaysReliable
<1> QED
  BY <1>1, RunsExecution, PTL DEF ReliableIsNotFlaky

\* What a call found to fail reaches its caller.
THEOREM SharedFailuresReported == SharedSpec => []FailuresAreReported
<1>1. Execution!Spec => []Execution!FailuresAreReported
  BY SharedConstants, Execution!FailuresReachTheCaller
<1> QED
  BY <1>1, RunsExecution, PTL DEF FailuresAreReported

\* What a process saved under keys of its own is there until it is deleted, whatever
\* the others do and whoever dies, with one device.
THEOREM SharedSavesStay == SharedSpec => []OwnSavesStick
<1>1. Directory!Spec => []Directory!OwnSavesStick
  BY SharedConstants, Directory!OwnSavesStay
<1> QED
  BY <1>1, RunsDirectory, PTL DEF OwnSavesStick

\* While a client waits for writes, some thread can go on with them, unless one raised.
THEOREM SharedFetchesEnd == SharedSpec => []FetchIsNotStuck
<1>1. Writer!Spec => []Writer!FetchIsNotStuck
  BY SharedConstants, Writer!FetchesEnd
<1> QED
  BY <1>1, RunsWriter, PTL DEF FetchIsNotStuck

\* A fetch waits for all writes, and sees them unless two workers were started.
THEOREM SharedFetchesCurrent == SharedSpec => FetchSeesWrites
<1>1. Writer!Spec => Writer!FetchSeesWrites
  BY SharedConstants, Writer!FetchIsCurrent
<1> QED
  BY <1>1, RunsWriter, PTL DEF FetchSeesWrites
=============================================================================
