----------------------------- MODULE GlobalRandom -----------------------------
(***************************************************************************)
(* The global random generators as Hypothesis manages them: the contexts   *)
(* deterministic_PRNG and random_module (internal/entropy.py,              *)
(* strategies/_internal/core.py), which seed every registered generator    *)
(* and restore it at their end, and the check around every draw that warns *)
(* of strategies that use `random` (control.py).                           *)
(*                                                                         *)
(* The contexts of a thread are inside each other; those of two threads    *)
(* interleave, one call of a generator being a step.                       *)
(***************************************************************************)
EXTENDS Integers, Sequences

CONSTANTS
  Threads,      \* threads that run tests
  Generators,   \* the generators that may be registered
  Global,       \* the module random, which always is
  Seeds,        \* the seeds that random_module() may use
  TestSeed,     \* the seed of deterministic_PRNG
  MaxNesting,   \* bound: contexts of one thread inside each other
  MaxUses,      \* bound: numbers drawn from a generator after it was seeded
  None          \* no state

GlobalRandomConstants ==
  /\ Global \in Generators
  /\ TestSeed \in Seeds
  /\ MaxNesting \in Nat /\ MaxUses \in Nat
  /\ None \notin [seed : Seeds \cup Generators, drawn : 0 .. MaxUses]

VARIABLES
  state,        \* the state of every generator
  managed,      \* RANDOMS_TO_MANAGE
  known,        \* _known_random_state_hashes
  top,          \* top[t]: the number of contexts thread t has open
  frame,        \* frame[t][l]: what its context at level l is doing
  before,       \* before[t]: state_before of the draw that t watches, or None
  used,         \* history: somebody used random while t watched
  outside,      \* history: the states that have to be there in the end
  overlapped    \* history: two threads once had contexts open at a time

vars == <<state, managed, known, top, frame, before, used, outside, overlapped>>
watching == <<before, used>>

States == [seed : Seeds \cup Generators, drawn : 0 .. MaxUses]
Seeded(s) == [seed |-> s, drawn |-> 0]
Levels == 1 .. MaxNesting
Idle == [at |-> "inside", seed |-> TestSeed, todo |-> <<>>, saved |-> <<>>]

Range(s) == {s[i] : i \in DOMAIN s}
Without(s, i) == [j \in 1 .. Len(s) - 1 |-> s[IF j < i THEN j ELSE j + 1]]
Current(t) == frame[t][top[t]]
At(t, at) == top[t] > 0 /\ Current(t).at = at
Become(t, f) == frame' = [frame EXCEPT ![t][top[t]] = f]

Init ==
  /\ state = [r \in Generators |-> Seeded(r)]
  /\ managed = <<Global>>
  /\ known = {}
  /\ top = [t \in Threads |-> 0]
  /\ frame = [t \in Threads |-> [l \in Levels |-> Idle]]
  /\ before = [t \in Threads |-> None]
  /\ used = [t \in Threads |-> FALSE]
  /\ outside = state
  /\ overlapped = FALSE

-----------------------------------------------------------------------------
\* A context begins: of a test case, or of random_module() in one of its draws.
Enter(t, s) ==
  /\ top[t] < MaxNesting
  /\ IF top[t] = 0 THEN s = TestSeed ELSE At(t, "inside") /\ before[t] # None
  /\ top' = [top EXCEPT ![t] = @ + 1]
  /\ frame' = [frame EXCEPT ![t][top[t] + 1] =
                 [at |-> "save", seed |-> s, todo |-> managed, saved |-> <<>>]]
  /\ overlapped' = (overlapped \/ \E u \in Threads \ {t} : top[u] > 0)
  /\ UNCHANGED <<state, managed, known, watching, outside>>

\* The next generator, or the end of seed_all.
AfterSeeding(f, saved) ==
  [f EXCEPT !.at = IF Len(f.todo) = 1 THEN "inside" ELSE "save",
            !.todo = Tail(@), !.saved = saved]

\* Mutant: the state that seeding will lead to is not announced.
SaveUnannounced(t) ==
  /\ At(t, "save")
  /\ LET r == Head(Current(t).todo) IN
     IF r \in Range(managed)
     THEN Become(t, [Current(t) EXCEPT !.at = "seed", !.saved = Append(@, <<r, state[r]>>)])
     ELSE Become(t, AfterSeeding(Current(t), Current(t).saved))
  /\ UNCHANGED <<state, managed, known, top, watching, outside, overlapped>>

\* states[k] = r.getstate(), unless r was collected.
Save(t) ==
  /\ At(t, "save")
  /\ LET f == Current(t)
         r == Head(f.todo)
     IN IF r \in Range(managed)
        THEN /\ Become(t, [f EXCEPT !.at = "seed", !.saved = Append(@, <<r, state[r]>>)])
             /\ known' = known \cup (IF r = Global THEN {Seeded(f.seed)} ELSE {})
        ELSE Become(t, AfterSeeding(f, f.saved)) /\ UNCHANGED known
  /\ UNCHANGED <<state, managed, top, watching, outside, overlapped>>

\* r.seed(seed)
Seed(t) ==
  /\ At(t, "seed")
  /\ LET f == Current(t) IN
     /\ state' = [state EXCEPT ![Head(f.todo)] = Seeded(f.seed)]
     /\ Become(t, AfterSeeding(f, f.saved))
  /\ UNCHANGED <<managed, known, top, watching, outside, overlapped>>

\* The context ends: restore_all.
Exit(t) ==
  /\ At(t, "inside") /\ before[t] = None
  /\ Become(t, [Current(t) EXCEPT !.at = "mark"])
  /\ UNCHANGED <<state, managed, known, top, watching, outside, overlapped>>

Restored(t) ==
  IF Len(Current(t).saved) = 1
  THEN top' = [top EXCEPT ![t] = @ - 1] /\ Become(t, Idle)
  ELSE /\ Become(t, [Current(t) EXCEPT !.at = "mark", !.saved = Tail(@)])
       /\ UNCHANGED top

\* The state that comes back will be known, unless the generator is gone.
Mark(t) ==
  /\ At(t, "mark")
  /\ LET f == Current(t)
         r == Head(f.saved)[1]
     IN IF r \in Range(managed)
        THEN /\ Become(t, [f EXCEPT !.at = "restore"])
             /\ known' = known \cup (IF r = Global THEN {Head(f.saved)[2]} ELSE {})
             /\ UNCHANGED top
        ELSE Restored(t) /\ UNCHANGED known
  /\ UNCHANGED <<state, managed, watching, outside, overlapped>>

\* Mutant: a generator that was used keeps the state it has.
RestoreUnused(t) ==
  /\ At(t, "restore")
  /\ LET r == Head(Current(t).saved)[1] IN
     state' = [state EXCEPT ![r] =
                 IF @.drawn > 0 THEN @ ELSE Head(Current(t).saved)[2]]
  /\ Restored(t)
  /\ UNCHANGED <<managed, known, watching, outside, overlapped>>

\* r.setstate(state)
Restore(t) ==
  /\ At(t, "restore")
  /\ state' = [state EXCEPT ![Head(Current(t).saved)[1]] = Head(Current(t).saved)[2]]
  /\ Restored(t)
  /\ UNCHANGED <<managed, known, watching, outside, overlapped>>

-----------------------------------------------------------------------------
\* Some context will restore generator r.
Promised(r) ==
  \E t \in Threads, l \in Levels :
    l <= top[t] /\ \E i \in DOMAIN frame[t][l].saved : frame[t][l].saved[i][1] = r

\* A test case, or code between tests, draws a number from r; one that is not
\* registered is nobody's concern.
Use(t, r) ==
  /\ r \in Range(managed)
  /\ At(t, "inside") \/ \A u \in Threads : top[u] = 0
  /\ state[r].drawn < MaxUses
  /\ state' = [state EXCEPT ![r].drawn = @ + 1]
  /\ used' = [u \in DOMAIN used |-> used[u] \/ (r = Global /\ before[u] # None)]
  /\ outside' = IF Promised(r) THEN outside ELSE [outside EXCEPT ![r] = state'[r]]
  /\ UNCHANGED <<managed, known, top, frame, before, overlapped>>

\* register_random, or numpy seen for the first time, wherever the threads are;
\* what an open context had of a generator that is gone is not meant for r.
Register(r) ==
  /\ r \notin Range(managed)
  /\ \A t \in Threads, l \in Levels :
       l <= top[t] => r \notin Range(frame[t][l].todo) /\ ~Promised(r)
  /\ managed' = Append(managed, r)
  /\ UNCHANGED <<state, known, top, frame, watching, outside, overlapped>>

\* Only the managed references, which are weak, were left of r: its name stands
\* for another generator now.
Collect(r) ==
  /\ r # Global
  /\ \A t \in Threads : ~At(t, "seed") /\ ~At(t, "restore")
  /\ \E i \in DOMAIN managed : managed[i] = r /\ managed' = Without(managed, i)
  /\ state' = [state EXCEPT ![r] = Seeded(r)]
  /\ outside' = [outside EXCEPT ![r] = Seeded(r)]
  /\ UNCHANGED <<known, top, frame, watching, overlapped>>

\* deprecate_random_in_strategy: an argument is about to be drawn...
Watch(t) ==
  /\ At(t, "inside") /\ before[t] = None
  /\ before' = [before EXCEPT ![t] = state[Global]]
  /\ UNCHANGED <<state, managed, known, top, frame, used, outside, overlapped>>

\* ... and was drawn.
Unwatch(t) ==
  /\ At(t, "inside") /\ before[t] # None
  /\ before' = [before EXCEPT ![t] = None]
  /\ used' = [used EXCEPT ![t] = FALSE]
  /\ UNCHANGED <<state, managed, known, top, frame, outside, overlapped>>

\* Whether it gets the deprecation note.
Noted(t) == state[Global] # before[t] /\ state[Global] \notin known

Next ==
  \/ \E t \in Threads :
       \/ \E s \in Seeds : Enter(t, s)
       \/ Save(t) \/ Seed(t) \/ Exit(t) \/ Mark(t) \/ Restore(t)
       \/ \E r \in Generators : Use(t, r)
       \/ Watch(t) \/ Unwatch(t)
  \/ \E r \in Generators : Register(r) \/ Collect(r)

Spec == Init /\ [][Next]_vars

-----------------------------------------------------------------------------
\* A context "handles random.seed without polluting global state" and random_module
\* "restores the previous state afterwards": when no context is open, every
\* registered generator is where the code outside left it.  Two threads whose
\* contexts overlap restore what the other one seeded.
RestoresOutside ==
  (\A t \in Threads : top[t] = 0) => \A r \in Range(managed) : state[r] = outside[r]

\* It holds as long as the threads take turns, whatever tests and strategies
\* draw, register and drop meanwhile.
AloneRestoresOutside == ~overlapped => RestoresOutside

\* "missed alarms, not false alarms": a draw gets the deprecation note only if
\* somebody used random since it began, however the contexts of other threads
\* seed and restore it meanwhile.
WarnsOnlyOfUse == [][\A t \in Threads : Unwatch(t) /\ Noted(t) => used[t]]_vars
=============================================================================
