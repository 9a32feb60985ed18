-------------------------- MODULE StackframeLimiter --------------------------
(***************************************************************************)
(* The process-wide recursion limit as Hypothesis manages it: the          *)
(* context manager ensure_free_stackframes and the StackframeLimiter       *)
(* singleton behind it (internal/conjecture/junkdrawer.py).                *)
(*                                                                         *)
(* Every test case runs inside two nested contexts, one opened by the      *)
(* engine and one by core.execute_once, and several threads may run tests  *)
(* at once.  All of them share ONE recursion limit, which code outside     *)
(* Hypothesis may also change.  The limiter's own state is guarded by a    *)
(* lock; the limit itself is not, so outside code can change it between    *)
(* the read at the head of __enter__ and the check in enter_context.       *)
(***************************************************************************)
EXTENDS Integers, FiniteSets

CONSTANTS
  Threads,          \* threads that run tests
  MaxNesting,       \* contexts one thread may have open inside each other
  Depths,           \* stack depths at which a context may be entered
  Reserve,          \* frames a context adds on top of its depth (2000 in the code)
  OutsideLimits,    \* limits that code outside Hypothesis may install
  WarningFilters,   \* whether HypothesisWarning may be raised (python -W error)
  None              \* no thread, no recorded limit

ASSUME LimiterConstants ==
  /\ MaxNesting \in Nat
  /\ IsFiniteSet(Threads)
  /\ Depths \subseteq Nat
  /\ Reserve \in Nat
  /\ OutsideLimits \subseteq Nat
  /\ OutsideLimits # {}
  /\ WarningFilters \subseteq BOOLEAN
  /\ None \notin Nat
  /\ None \notin Threads

VARIABLES
  limit,     \* sys.getrecursionlimit()
  active,    \* _active_contexts
  known,     \* _known_limits
  original,  \* _original_limit
  lock,      \* holder of _stackframe_limiter_lock across a step, or None
  top,       \* top[t]: number of contexts thread t has open
  frame,     \* frame[t][l]: old_limit and new_limit of t's context at level l
  outside,   \* history: the limit that code outside Hypothesis last installed
  strict     \* the warnings filter of this process: warnings are errors

vars == <<limit, active, known, original, lock, top, frame, outside, strict>>

Levels == 1 .. MaxNesting

Frame == [old : Nat, new : Nat]

\* The contexts that are open: thread and nesting level.
Open == {c \in Threads \X Levels : c[2] <= top[c[1]]}

\* Every variable of the limiter keeps its type.
TypeOK ==
  /\ limit \in Nat
  /\ active \in Nat
  /\ known \in SUBSET Nat
  /\ original \in Nat \cup {None}
  /\ lock \in Threads \cup {None}
  /\ top \in [Threads -> Levels \cup {0}]
  /\ frame \in [Threads -> [Levels -> Frame]]
  /\ outside \in Nat
  /\ strict \in BOOLEAN

Init ==
  /\ limit \in OutsideLimits
  /\ outside = limit
  /\ active = 0
  /\ known = {}
  /\ original = None
  /\ lock = None
  /\ top = [t \in Threads |-> 0]
  /\ frame = [t \in Threads |-> [l \in Levels |-> [old |-> 0, new |-> 0]]]
  /\ strict \in WarningFilters

-----------------------------------------------------------------------------
\* __enter__ up to the call of enter_context: take the lock, read the current
\* limit, compute the new one.  Within a thread an inner context is entered
\* from a deeper frame than the one around it.
EnterLock(t) ==
  LET l == top[t] + 1 IN
  /\ lock = None
  /\ l \in Levels
  /\ \E d \in Depths :
       /\ l > 1 => d + Reserve > frame[t][l - 1].new
       /\ frame' = [frame EXCEPT ![t][l] = [old |-> limit, new |-> d + Reserve]]
  /\ lock' = t
  /\ UNCHANGED <<limit, active, known, original, top, outside, strict>>

\* The frame that the thread holding the lock is about to enter.
Entering(t) == frame[t][top[t] + 1]

\* Mutant: the first context does not record the original limit.
EnterOriginalForgotten(t) == original

\* What enter_context has recorded when it reaches its check of the limit.
EnterOriginal(t) == IF active = 0 THEN Entering(t).old ELSE original
EnterKnown(t)    == IF active = 0 THEN known \cup {Entering(t).old} ELSE known

\* enter_context, when the current limit is one the limiter knows.
EnterContext(t) ==
  /\ lock = t
  /\ limit \in EnterKnown(t)
  /\ limit' = Entering(t).new
  /\ known' = EnterKnown(t) \cup {Entering(t).new}
  /\ original' = EnterOriginal(t)
  /\ active' = active + 1
  /\ top' = [top EXCEPT ![t] = @ + 1]
  /\ lock' = None
  /\ UNCHANGED <<frame, outside, strict>>

\* enter_context, when somebody else changed the limit: it only warns.
EnterContextWarns(t) ==
  /\ lock = t
  /\ limit \notin EnterKnown(t)
  /\ ~strict
  /\ known' = EnterKnown(t)
  /\ original' = EnterOriginal(t)
  /\ active' = active + 1
  /\ top' = [top EXCEPT ![t] = @ + 1]
  /\ lock' = None
  /\ UNCHANGED <<limit, frame, outside, strict>>

\* Mutant: no exit_context on the error path, so __enter__ leaks a context.
EnterContextLeaks(t) ==
  /\ lock = t
  /\ limit \notin EnterKnown(t)
  /\ strict
  /\ active' = active + 1
  /\ original' = EnterOriginal(t)
  /\ known' = EnterKnown(t)
  /\ lock' = None
  /\ UNCHANGED <<limit, top, frame, outside, strict>>

\* The same when the warning is an error: __enter__ undoes the bookkeeping with
\* exit_context(old_limit, check=False) and re-raises, so no context is open.
EnterContextRaises(t) ==
  /\ lock = t
  /\ limit \notin EnterKnown(t)
  /\ strict
  /\ limit' = Entering(t).old
  /\ known' = IF active = 0 THEN {Entering(t).old}
                            ELSE known \cup {Entering(t).old}
  /\ lock' = None
  /\ UNCHANGED <<active, original, top, frame, outside, strict>>

\* Mutant: every exit restores the limit its own enter saw, as if contexts of
\* different threads closed in the reverse order of their opening.
ExitTargetOwnOld(t) == frame[t][top[t]].old

\* The limit exit_context wants to install.
ExitTarget(t) == IF active = 1 THEN original ELSE frame[t][top[t]].old

\* Mutant: the warning about a changed limit returns before the bookkeeping.
ExitContextReturnsEarly(t) ==
  /\ lock = None
  /\ top[t] > 0
  /\ top' = [top EXCEPT ![t] = @ - 1]
  /\ IF limit \in known
     THEN /\ limit' = ExitTarget(t)
          /\ active' = active - 1
          /\ known' = IF active = 1 THEN {original} ELSE known \cup {limit'}
          /\ original' = IF active = 1 THEN None ELSE original
     ELSE UNCHANGED <<limit, active, known, original, strict>>
  /\ UNCHANGED <<lock, frame, outside, strict>>

\* __exit__: exit_context(old_limit) under the lock.  A limit the limiter does
\* not know is left alone, with a warning (which, when raised, leaves the same
\* state behind).
ExitContext(t) ==
  /\ lock = None
  /\ top[t] > 0
  /\ limit' = IF limit \in known THEN ExitTarget(t) ELSE limit
  /\ known' = IF active = 1 THEN {original}
              ELSE IF limit \in known THEN known \cup {ExitTarget(t)} ELSE known
  /\ original' = IF active = 1 THEN None ELSE original
  /\ active' = active - 1
  /\ top' = [top EXCEPT ![t] = @ - 1]
  /\ UNCHANGED <<lock, frame, outside, strict>>

\* Code outside Hypothesis installs a limit.  While contexts are open or being
\* entered it does not happen to pick one of the limiter's own values: the
\* comment on StackframeLimiter sets that coincidence aside.
OutsideSet(v) ==
  /\ v # limit
  /\ (active > 0 \/ lock # None) => v \notin known
  /\ limit' = v
  /\ outside' = v
  /\ UNCHANGED <<active, known, original, lock, top, frame, strict>>

Next ==
  \/ \E t \in Threads :
       \/ EnterLock(t)
       \/ EnterContext(t)
       \/ EnterContextWarns(t)
       \/ EnterContextRaises(t)
       \/ ExitContext(t)
  \/ \E v \in OutsideLimits : OutsideSet(v)

Spec == Init /\ [][Next]_vars

-----------------------------------------------------------------------------
\* The limiter's counter is exactly the number of contexts open in all threads
\* (junkdrawer.py, enter_context/exit_context and the error path of __enter__):
\* it decides who restores the original limit, and a leak would keep the raised
\* limit for the rest of the process.
ActiveCountsOpenContexts ==
  /\ active = Cardinality(Open)
  /\ (original = None) <=> (active = 0)

\* When no context is open the recursion limit is the one the outside world
\* chose last: overlapping, non-nested exits of several threads neither leak a
\* limit of the limiter's nor undo a change made during a test ("The recursion
\* limit will not be reset, since it was changed during test execution").  When the
\* warning is an error it does not hold: EnterContextRaises installs the limit
\* that __enter__ read before.
RestoresOutsideLimit == ~strict /\ active = 0 => limit = outside

\* ensure_free_stackframes "ensures there are at least N free stackframes":
\* while a context is open the limit is at least the one it asked for, unless
\* outside code changed it (to a limit the limiter does not know).
KeepsFramesFree ==
  \A c \in Open : limit \in known => limit >= frame[c[1]][c[2]].new

\* The strengthening that makes RestoresOutsideLimit inductive when a warning is
\* not an error.  A limit the limiter knows stands for the recorded original
\* one; a limit it does not know was installed from outside.
LimitIsAccountedFor ==
  /\ active = 0 => limit = outside
  /\ active > 0 /\ limit \in known => outside = original
  /\ active > 0 /\ limit \notin known => limit = outside
  /\ lock # None /\ active = 0 => limit = Entering(lock).old \/ limit \notin known

\* The holder of the lock is about to open a context within its bound.
LockHolderEnters == lock # None => top[lock] + 1 \in Levels
=============================================================================
