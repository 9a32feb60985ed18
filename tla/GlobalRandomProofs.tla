-------------------------- MODULE GlobalRandomProofs --------------------------
(***************************************************************************)
(* Proofs about GlobalRandom, for any number of threads and generators,    *)
(* any nesting of contexts and any number of draws.                        *)
(***************************************************************************)
EXTENDS GlobalRandom, TLAPS

Frames ==
  [at : {"save", "seed", "inside", "mark", "restore"}, seed : Seeds,
   todo : Seq(Generators), saved : Seq(Generators \X States)]

TypeOK ==
  /\ state \in [Generators -> States]
  /\ managed \in Seq(Generators)
  /\ known \subseteq States
  /\ top \in [Threads -> 0 .. MaxNesting]
  /\ frame \in [Threads -> [Levels -> Frames]]
  /\ before \in [Threads -> States \cup {None}]
  /\ used \in [Threads -> BOOLEAN]
  /\ outside \in [Generators -> States]
  /\ overlapped \in BOOLEAN

\* The generators of a list of saved states.
Names(saved) == {saved[i][1] : i \in DOMAIN saved}
Distinct(s) == \A i, j \in DOMAIN s : i # j => s[i] # s[j]
NamesDistinct(saved) == \A i, j \in DOMAIN saved : i # j => saved[i][1] # saved[j][1]

\* What an open context has in its lists: the generators it has still to seed, and
\* the states of others, that of the global generator being one or the other.
FrameOK(f, m) ==
  /\ Distinct(f.todo) /\ NamesDistinct(f.saved)
  /\ f.at = "save" =>
       f.todo # <<>> /\ Range(f.todo) \cap Names(f.saved) = {}
         /\ Global \in Range(f.todo) \cup Names(f.saved)
  /\ f.at = "seed" =>
       /\ f.todo # <<>> /\ Range(Tail(f.todo)) \cap Names(f.saved) = {}
       /\ Head(f.todo) \in Range(m) \cap Names(f.saved)
       /\ Global \in Range(Tail(f.todo)) \cup Names(f.saved)
  /\ f.at = "inside" => Global \in Names(f.saved)
  /\ f.at \in {"mark", "restore"} => f.saved # <<>>
  /\ f.at = "restore" => Head(f.saved)[1] \in Range(m)

\* Contexts are well formed; all but the innermost of a thread are waiting for it.
FramesOK ==
  /\ Distinct(managed) /\ Global \in Range(managed)
  /\ \A t \in Threads, l \in Levels : l <= top[t] => FrameOK(frame[t][l], managed)
  /\ \A t \in Threads, l \in Levels : l < top[t] => frame[t][l].at = "inside"

\* While threads take turns, one thread has contexts open.
Alone ==
  \A t, u \in Threads : top[t] > 0 /\ top[u] > 0 => t = u

\* Context l of thread t will give the generator p[1] its state p[2] back.
Saves == Generators \X States
Holds(t, l, p) ==
  l <= top[t] /\ \E i \in DOMAIN frame[t][l].saved : frame[t][l].saved[i] = p

\* The outermost context that has a state of a generator has the one that has to be
\* there in the end; a generator that nobody will restore, or which is not managed,
\* is in it.
Promises ==
  /\ \A t \in Threads, l \in Levels, p \in Saves :
       /\ Holds(t, l, p) /\ p[1] \in Range(managed)
       /\ \A k \in Levels, q \in Saves : k < l /\ Holds(t, k, q) => q[1] # p[1]
       => p[2] = outside[p[1]]
  /\ \A r \in Generators :
       \/ r \notin Range(managed)
       \/ \A t \in Threads, l \in Levels, p \in Saves : Holds(t, l, p) => p[1] # r
       => state[r] = outside[r]

Owed ==
  {h \in Threads \X Levels \X Saves : Holds(h[1], h[2], h[3])}

PromisesKept == ~overlapped => Alone /\ Promises

\* A watched draw during which nobody used random sees the state it began with, or
\* one that was announced before it came about.
ChangesAreKnown ==
  /\ \A t \in Threads : before[t] # None /\ ~used[t] =>
       state[Global] = before[t] \/ state[Global] \in known
  /\ \A t \in Threads, l \in Levels :
       /\ frame[t][l].at = "seed" /\ Head(frame[t][l].todo) = Global =>
            Seeded(frame[t][l].seed) \in known
       /\ frame[t][l].at = "restore" /\ Head(frame[t][l].saved)[1] = Global =>
            Head(frame[t][l].saved)[2] \in known

-----------------------------------------------------------------------------
\* What Append, Tail and Without do to the elements of a list without duplicates.
LEMMA EmptyIsShort == ASSUME NEW S, NEW s \in Seq(S) PROVE s = <<>> <=> Len(s) = 0
  OBVIOUS

\* Membership in a list.
LEMMA InRange == ASSUME NEW s, NEW x PROVE x \in Range(s) <=> \E i \in DOMAIN s : s[i] = x
  BY DEF Range

\* What is in a list when an element is appended.
LEMMA AppendElements ==
  ASSUME NEW S, NEW s \in Seq(S), NEW e \in S
  PROVE  /\ Append(s, e) \in Seq(S) /\ Append(s, e) # <<>>
         /\ Range(Append(s, e)) = Range(s) \cup {e}
         /\ Distinct(s) /\ e \notin Range(s) => Distinct(Append(s, e))
<1>1. /\ Append(s, e) \in Seq(S) /\ Len(Append(s, e)) = Len(s) + 1 /\ Len(s) \in Nat
      /\ DOMAIN s = 1 .. Len(s) /\ DOMAIN Append(s, e) = 1 .. Len(s) + 1
      /\ \A i \in 1 .. Len(s) : Append(s, e)[i] = s[i]
      /\ Append(s, e)[Len(s) + 1] = e
  OBVIOUS
<1>2. Append(s, e) # <<>>
  BY <1>1
<1>3. Range(Append(s, e)) = Range(s) \cup {e}
  BY <1>1 DEF Range
<1>4. Distinct(s) /\ e \notin Range(s) => Distinct(Append(s, e))
  BY <1>1 DEF Range, Distinct
<1> QED
  BY <1>1, <1>2, <1>3, <1>4

\* What is in a list but for its head.
LEMMA TailElements ==
  ASSUME NEW S, NEW s \in Seq(S), s # <<>>
  PROVE  /\ Tail(s) \in Seq(S) /\ Head(s) \in S
         /\ Range(s) = {Head(s)} \cup Range(Tail(s))
         /\ Distinct(s) => Distinct(Tail(s)) /\ Head(s) \notin Range(Tail(s))
         /\ Tail(s) = <<>> <=> Len(s) = 1
<1>1. Tail(s) \in Seq(S) /\ Head(s) \in S
  OBVIOUS
<1>2. /\ DOMAIN Tail(s) = 1 .. Len(s) - 1 /\ DOMAIN s = 1 .. Len(s) /\ Len(s) \in Nat \ {0}
      /\ \A j \in DOMAIN Tail(s) : Tail(s)[j] = s[j + 1] /\ j + 1 \in DOMAIN s /\ j + 1 # 1
      /\ Head(s) = s[1] /\ 1 \in DOMAIN s
  OBVIOUS
<1>3. \A j \in DOMAIN s \ {1} : \E k \in DOMAIN Tail(s) : s[j] = Tail(s)[k]
  <2> TAKE j \in DOMAIN s \ {1}
  <2>1. j - 1 \in DOMAIN Tail(s) /\ s[j] = Tail(s)[j - 1]
    BY <1>2
  <2> QED
    BY <2>1
<1>4. Range(s) = {Head(s)} \cup Range(Tail(s))
  <2>1. ASSUME NEW x \in Range(s) PROVE x = Head(s) \/ x \in Range(Tail(s))
    <3>1. PICK i \in DOMAIN s : s[i] = x
      BY InRange
    <3> QED
      BY <1>2, <1>3, <3>1, InRange
  <2>2. ASSUME NEW x \in Range(Tail(s)) PROVE x \in Range(s)
    <3>1. PICK i \in DOMAIN Tail(s) : Tail(s)[i] = x
      BY InRange
    <3> QED
      BY <1>2, <3>1, InRange
  <2>3. Head(s) \in Range(s)
    BY <1>2, InRange
  <2> QED
    BY <2>1, <2>2, <2>3
<1>5. Distinct(s) => Distinct(Tail(s)) /\ Head(s) \notin Range(Tail(s))
  BY <1>2 DEF Range, Distinct
<1>6. Tail(s) = <<>> <=> Len(s) = 1
  <2>1. Tail(s) = <<>> <=> Len(Tail(s)) = 0
    BY <1>1, EmptyIsShort
  <2>2. Len(Tail(s)) = Len(s) - 1 /\ Len(s) \in Nat
    OBVIOUS
  <2> QED
    BY <2>1, <2>2
<1> QED
  BY <1>1, <1>4, <1>5, <1>6
\* A selection of a list without repetitions has none, and is part of it.
LEMMA SelectedElements ==
  ASSUME NEW s, NEW q, NEW m \in [DOMAIN q -> DOMAIN s], Distinct(s),
         \A j \in DOMAIN q : q[j] = s[m[j]],
         \A j, k \in DOMAIN q : j # k => m[j] # m[k]
  PROVE  Distinct(q)
  BY DEF Distinct

\* What is in a list without repetitions when one element is removed.
LEMMA RemoveElement ==
  ASSUME NEW S, NEW s \in Seq(S), NEW i \in DOMAIN s, Distinct(s)
  PROVE  /\ Without(s, i) \in Seq(S) /\ Distinct(Without(s, i))
         /\ Range(Without(s, i)) = Range(s) \ {s[i]}
<1> DEFINE m == [j \in 1 .. Len(s) - 1 |-> IF j < i THEN j ELSE j + 1]
           q == Without(s, i)
<1>1. Len(s) \in Nat /\ DOMAIN s = 1 .. Len(s) /\ i \in 1 .. Len(s)
  OBVIOUS
<1>2. q \in Seq(S)
  <2>1. \A j \in 1 .. Len(s) - 1 : q[j] \in S
    BY <1>1 DEF Without
  <2>2. Len(s) - 1 \in Nat
    BY <1>1
  <2>3. q \in [1 .. Len(s) - 1 -> S]
    BY <2>1 DEF Without
  <2> QED
    BY <2>3, <2>2
<1>3. DOMAIN q = 1 .. Len(s) - 1
  BY DEF Without
<1>4. \A j \in DOMAIN q : q[j] = s[m[j]]
  BY <1>3 DEF Without
<1>5. m \in [DOMAIN q -> DOMAIN s] /\ \A j \in DOMAIN q : m[j] # i
  BY <1>1, <1>3
<1>6. \A j, k \in DOMAIN q : j # k => m[j] # m[k]
  BY <1>1, <1>3
<1>7. ASSUME NEW k \in DOMAIN s, k # i PROVE \E j \in DOMAIN q : m[j] = k
  <2>1. CASE k < i
    <3>1. k \in DOMAIN q /\ m[k] = k
      BY <1>1, <1>3, <2>1
    <3> QED
      BY <3>1
  <2>2. CASE ~(k < i)
    <3>1. k - 1 \in DOMAIN q /\ m[k - 1] = k
      BY <1>1, <1>3, <1>7, <2>2
    <3> QED
      BY <3>1
  <2> QED
    BY <2>1, <2>2
<1> HIDE DEF m, q
<1>8. Distinct(q)
  BY <1>4, <1>5, <1>6, SelectedElements
<1>9. ASSUME NEW x \in Range(q) PROVE x \in Range(s) /\ x # s[i]
  <2>1. PICK j \in DOMAIN q : q[j] = x
    BY InRange
  <2>2. m[j] \in DOMAIN s /\ m[j] # i /\ s[m[j]] = x
    BY <1>4, <1>5, <2>1
  <2> QED
    BY <2>2, InRange DEF Distinct
<1>10. ASSUME NEW x \in Range(s) \ {s[i]} PROVE x \in Range(q)
  <2>1. PICK k \in DOMAIN s : s[k] = x /\ k # i
    BY InRange
  <2>2. PICK j \in DOMAIN q : m[j] = k
    BY <1>7, <2>1
  <2> QED
    BY <1>4, <2>1, <2>2, InRange
<1>11. Range(q) = Range(s) \ {s[i]}
  BY <1>9, <1>10
<1> QED
  BY <1>2, <1>8, <1>11 DEF q

\* The same of the generators of a list of saved states.
LEMMA InNames == ASSUME NEW s, NEW x PROVE x \in Names(s) <=> \E i \in DOMAIN s : s[i][1] = x
  BY DEF Names

\* Saving the state of a generator adds its name.
LEMMA AppendNames ==
  ASSUME NEW s \in Seq(Generators \X States), NEW e \in Generators \X States
  PROVE  /\ Append(s, e) \in Seq(Generators \X States)
         /\ Names(Append(s, e)) = Names(s) \cup {e[1]}
         /\ NamesDistinct(s) /\ e[1] \notin Names(s) => NamesDistinct(Append(s, e))
<1>1. /\ Append(s, e) \in Seq(Generators \X States)
      /\ Len(Append(s, e)) = Len(s) + 1 /\ Len(s) \in Nat
      /\ DOMAIN s = 1 .. Len(s) /\ DOMAIN Append(s, e) = 1 .. Len(s) + 1
      /\ \A i \in 1 .. Len(s) : Append(s, e)[i] = s[i]
      /\ Append(s, e)[Len(s) + 1] = e
  OBVIOUS
<1>2. Names(Append(s, e)) = Names(s) \cup {e[1]}
  BY <1>1 DEF Names
<1>3. NamesDistinct(s) /\ e[1] \notin Names(s) => NamesDistinct(Append(s, e))
  BY <1>1 DEF Names, NamesDistinct
<1> QED
  BY <1>1, <1>2, <1>3

\* Restoring the first saved state removes its name, unless it was saved twice.
LEMMA TailNames ==
  ASSUME NEW s \in Seq(Generators \X States), s # <<>>
  PROVE  /\ Tail(s) \in Seq(Generators \X States) /\ Head(s) \in Generators \X States
         /\ Names(s) = {Head(s)[1]} \cup Names(Tail(s))
         /\ NamesDistinct(s) => NamesDistinct(Tail(s)) /\ Head(s)[1] \notin Names(Tail(s))
         /\ Tail(s) = <<>> <=> Len(s) = 1
         /\ Head(s) = s[1] /\ 1 \in DOMAIN s
         /\ \A j \in DOMAIN Tail(s) : Tail(s)[j] = s[j + 1] /\ j + 1 \in DOMAIN s /\ j + 1 # 1
<1>1. Tail(s) \in Seq(Generators \X States) /\ Head(s) \in Generators \X States
  OBVIOUS
<1>2. /\ DOMAIN Tail(s) = 1 .. Len(s) - 1 /\ DOMAIN s = 1 .. Len(s) /\ Len(s) \in Nat \ {0}
      /\ \A j \in DOMAIN Tail(s) : Tail(s)[j] = s[j + 1] /\ j + 1 \in DOMAIN s /\ j + 1 # 1
      /\ Head(s) = s[1] /\ 1 \in DOMAIN s
  OBVIOUS
<1>3. \A j \in DOMAIN s \ {1} : \E k \in DOMAIN Tail(s) : s[j] = Tail(s)[k]
  <2> TAKE j \in DOMAIN s \ {1}
  <2>1. j - 1 \in DOMAIN Tail(s) /\ s[j] = Tail(s)[j - 1]
    BY <1>2
  <2> QED
    BY <2>1
<1>4. Names(s) = {Head(s)[1]} \cup Names(Tail(s))
  <2>1. ASSUME NEW x \in Names(s) PROVE x = Head(s)[1] \/ x \in Names(Tail(s))
    <3>1. PICK i \in DOMAIN s : s[i][1] = x
      BY InNames
    <3> QED
      BY <1>2, <1>3, <3>1, InNames
  <2>2. ASSUME NEW x \in Names(Tail(s)) PROVE x \in Names(s)
    <3>1. PICK i \in DOMAIN Tail(s) : Tail(s)[i][1] = x
      BY InNames
    <3> QED
      BY <1>2, <3>1, InNames
  <2>3. Head(s)[1] \in Names(s)
    BY <1>2, InNames
  <2> QED
    BY <2>1, <2>2, <2>3
<1>5. NamesDistinct(s) => NamesDistinct(Tail(s)) /\ Head(s)[1] \notin Names(Tail(s))
  BY <1>2 DEF Names, NamesDistinct
<1>6. Tail(s) = <<>> <=> Len(s) = 1
  <2>1. Tail(s) = <<>> <=> Len(Tail(s)) = 0
    BY <1>1, EmptyIsShort
  <2>2. Len(Tail(s)) = Len(s) - 1 /\ Len(s) \in Nat
    OBVIOUS
  <2> QED
    BY <2>1, <2>2
<1> QED
  BY <1>1, <1>2, <1>4, <1>5, <1>6

-----------------------------------------------------------------------------
FrameInv == TypeOK /\ FramesOK

\* Before any context is open, the lists are well formed.
LEMMA FrameInvInit == ASSUME GlobalRandomConstants, Init PROVE FrameInv
<1> USE DEF GlobalRandomConstants
<1>1. \A r \in Seeds \cup Generators : Seeded(r) \in States
  BY DEF Seeded, States
<1>2. Idle \in Frames
  BY DEF Idle, Frames
<1>3. TypeOK
  <2>1. managed \in Seq(Generators)
    BY DEF Init
  <2>2. state \in [Generators -> States] /\ outside \in [Generators -> States]
    BY <1>1 DEF Init
  <2>3. top \in [Threads -> 0 .. MaxNesting]
    BY DEF Init
  <2>4. frame \in [Threads -> [Levels -> Frames]]
    BY <1>2 DEF Init
  <2> QED
    BY <2>1, <2>2, <2>3, <2>4 DEF Init, TypeOK
<1>4. FramesOK
  BY DEF Init, FramesOK, Distinct, Range, Levels
<1> QED
  BY <1>3, <1>4 DEF FrameInv

\* The innermost frame of a thread changes.
LEMMA BecomeChanges ==
  ASSUME FrameInv, NEW t \in Threads, top[t] > 0, NEW f \in Frames, Become(t, f)
  PROVE  /\ frame'[t][top[t]] = f
         /\ \A u \in Threads, k \in Levels : u # t \/ k # top[t] => frame'[u][k] = frame[u][k]
<1>1. top[t] \in Levels
  BY DEF FrameInv, TypeOK, Levels
<1>2. PICK l \in Levels : l = top[t]
  BY <1>1
<1>3. frame' = [frame EXCEPT ![t][l] = f]
  BY <1>2 DEF Become
<1>4. frame \in [Threads -> [Levels -> Frames]]
  BY DEF FrameInv, TypeOK
<1>5. /\ frame'[t][l] = f
      /\ \A u \in Threads, k \in Levels : u # t \/ k # l => frame'[u][k] = frame[u][k]
  BY <1>3, <1>4
<1> QED
  BY <1>2, <1>5

\* The context that a thread is in.
LEMMA CurrentIsOpen ==
  ASSUME FrameInv, NEW t \in Threads, top[t] > 0
  PROVE  /\ top[t] \in Levels /\ Current(t) \in Frames /\ FrameOK(Current(t), managed)
         /\ Current(t) = frame[t][top[t]]
<1>1. top[t] \in 0 .. MaxNesting
  BY DEF FrameInv, TypeOK
<1>2. top[t] \in Levels /\ top[t] <= top[t]
  BY <1>1 DEF Levels
<1> QED
  BY <1>2 DEF FrameInv, TypeOK, FramesOK, Current

\* Frames stay well formed when only the innermost one changes, to one that is.
LEMMA InnermostChanges ==
  ASSUME FrameInv, NEW t \in Threads, top[t] > 0, NEW f \in Frames, FrameOK(f, managed),
         Become(t, f), UNCHANGED <<managed, top>>
  PROVE  FramesOK' /\ frame' \in [Threads -> [Levels -> Frames]]
<1>1. top[t] \in Levels
  BY CurrentIsOpen
<1>2. frame' = [frame EXCEPT ![t][top[t]] = f] /\ frame \in [Threads -> [Levels -> Frames]]
  BY DEF Become, FrameInv, TypeOK
<1>3. /\ frame' \in [Threads -> [Levels -> Frames]]
      /\ frame'[t][top[t]] = f
      /\ \A u \in Threads, k \in Levels : u # t \/ k # top[t] => frame'[u][k] = frame[u][k]
  BY <1>1, <1>2
<1>4. ASSUME NEW u \in Threads, NEW k \in Levels, k <= top[u]
      PROVE  FrameOK(frame'[u][k], managed)
  BY <1>3, <1>4 DEF FrameInv, FramesOK
<1>5. ASSUME NEW u \in Threads, NEW k \in Levels, k < top[u]
      PROVE  frame'[u][k].at = "inside"
  <2>1. u # t \/ k # top[t]
    BY <1>1, <1>5 DEF Levels
  <2> QED
    BY <1>3, <1>5, <2>1 DEF FrameInv, FramesOK
<1> QED
  BY <1>3, <1>4, <1>5 DEF FrameInv, FramesOK

\* ... or goes away.
LEMMA InnermostCloses ==
  ASSUME MaxNesting \in Nat, FrameInv, NEW t \in Threads, top[t] > 0, Become(t, Idle), Idle \in Frames,
         top' = [top EXCEPT ![t] = @ - 1], UNCHANGED managed
  PROVE  /\ FramesOK' /\ frame' \in [Threads -> [Levels -> Frames]]
         /\ top' \in [Threads -> 0 .. MaxNesting]
<1>1. top[t] \in Levels
  BY CurrentIsOpen
<1>2. frame' = [frame EXCEPT ![t][top[t]] = Idle] /\ frame \in [Threads -> [Levels -> Frames]]
  BY DEF Become, FrameInv, TypeOK
<1>3. /\ frame' \in [Threads -> [Levels -> Frames]]
      /\ \A u \in Threads, k \in Levels : u # t \/ k # top[t] => frame'[u][k] = frame[u][k]
  BY <1>1, <1>2
<1>4. top' \in [Threads -> 0 .. MaxNesting]
  <2>1. top[t] - 1 \in 0 .. MaxNesting
    BY <1>1 DEF Levels
  <2> QED
    BY <2>1 DEF FrameInv, TypeOK
<1>5. ASSUME NEW u \in Threads, NEW k \in Levels, k <= top'[u]
      PROVE  FrameOK(frame'[u][k], managed) /\ (k < top'[u] => frame'[u][k].at = "inside")
  <2>1. k <= top[u] /\ (u # t \/ k # top[t]) /\ (k < top'[u] => k < top[u])
    BY <1>1, <1>5 DEF FrameInv, TypeOK, Levels
  <2> QED
    BY <1>3, <2>1 DEF FrameInv, FramesOK
<1>6. top' \in [Threads -> Int]
  BY <1>4
<1> QED
  BY <1>3, <1>4, <1>5 DEF FrameInv, FramesOK, Levels

\* A generator is done with: the next one, or the context is open.
LEMMA NextToSeed ==
  ASSUME FrameInv, NEW f \in Frames, NEW saved \in Seq(Generators \X States),
         Distinct(f.todo), NamesDistinct(saved), f.todo # <<>>,
         Range(Tail(f.todo)) \cap Names(saved) = {},
         Global \in Range(Tail(f.todo)) \cup Names(saved)
  PROVE  AfterSeeding(f, saved) \in Frames /\ FrameOK(AfterSeeding(f, saved), managed)
<1> DEFINE g == AfterSeeding(f, saved)
<1>1. f.todo \in Seq(Generators)
  BY DEF Frames
<1>2. /\ Tail(f.todo) \in Seq(Generators) /\ Distinct(Tail(f.todo))
      /\ Tail(f.todo) = <<>> <=> Len(f.todo) = 1
  BY <1>1, TailElements
<1>3. /\ g \in Frames /\ g.todo = Tail(f.todo) /\ g.saved = saved
      /\ g.at = IF Len(f.todo) = 1 THEN "inside" ELSE "save"
  BY <1>2 DEF AfterSeeding, Frames
<1>4. Len(f.todo) = 1 => Range(Tail(f.todo)) = {}
  BY <1>2 DEF Range
<1> HIDE DEF g
<1>5. FrameOK(g, managed)
  BY <1>2, <1>3, <1>4 DEF FrameOK
<1> QED
  BY <1>3, <1>5 DEF g

\* Restoring a generator keeps the lists of the context well formed.
LEMMA RestoredKeepsFrames ==
  ASSUME GlobalRandomConstants, FrameInv, NEW t \in Threads, top[t] > 0,
         Current(t).at \in {"mark", "restore"}, Restored(t), UNCHANGED managed
  PROVE  /\ FramesOK' /\ frame' \in [Threads -> [Levels -> Frames]]
         /\ top' \in [Threads -> 0 .. MaxNesting]
<1> DEFINE f == Current(t)
<1>1. f \in Frames /\ FrameOK(f, managed)
  BY CurrentIsOpen
<1>2. f.saved \in Seq(Generators \X States) /\ f.saved # <<>>
  BY <1>1 DEF Frames, FrameOK
<1>3. /\ Tail(f.saved) \in Seq(Generators \X States)
      /\ NamesDistinct(f.saved) => NamesDistinct(Tail(f.saved))
      /\ Tail(f.saved) = <<>> <=> Len(f.saved) = 1
  BY <1>2, TailNames
<1>4. CASE Len(f.saved) = 1
  <2>1. Idle \in Frames
    BY DEF Idle, Frames, GlobalRandomConstants
  <2> QED
    BY <1>4, <2>1, InnermostCloses DEF Restored, GlobalRandomConstants
<1>5. CASE Len(f.saved) # 1
  <2> DEFINE g == [f EXCEPT !.at = "mark", !.saved = Tail(@)]
  <2>1. g \in Frames /\ g.at = "mark" /\ g.saved = Tail(f.saved) /\ g.todo = f.todo
    BY <1>1, <1>3 DEF Frames
  <2>2. Become(t, g) /\ UNCHANGED top
    BY <1>5 DEF Restored
  <2> HIDE DEF g
  <2>3. FrameOK(g, managed)
    BY <1>1, <1>3, <1>5, <2>1 DEF FrameOK
  <2> QED
    BY <2>1, <2>2, <2>3, InnermostChanges DEF FrameInv, TypeOK
<1> QED
  BY <1>4, <1>5

\* Every step of deterministic_PRNG keeps the lists of every open context well formed.
LEMMA FrameInvStep == ASSUME GlobalRandomConstants, FrameInv, [Next]_vars PROVE FrameInv'
<1> USE DEF FrameInv
<1>c. /\ Global \in Generators /\ TestSeed \in Seeds /\ MaxNesting \in Nat /\ MaxUses \in Nat
      /\ \A r \in Seeds \cup Generators : Seeded(r) \in States
  BY DEF GlobalRandomConstants, Seeded, States
<1>1. ASSUME NEW t \in Threads, NEW s \in Seeds, Enter(t, s) PROVE FrameInv'
  <2> DEFINE l == top[t] + 1
             f == [at |-> "save", seed |-> s, todo |-> managed, saved |-> <<>>]
  <2>1. l \in Levels /\ top' \in [Threads -> 0 .. MaxNesting]
    BY <1>1, <1>c DEF TypeOK, Enter, Levels
  <2>2. f \in Frames
    BY DEF TypeOK, Frames
  <2>3. FrameOK(f, managed)
    BY DEF FrameOK, FramesOK, Names, NamesDistinct, Range
  <2>4. frame' = [frame EXCEPT ![t][l] = f]
    BY <1>1 DEF Enter
  <2> HIDE DEF f
  <2>5. /\ frame' \in [Threads -> [Levels -> Frames]]
        /\ frame'[t][l] = f
        /\ \A u \in Threads, k \in Levels : u # t \/ k # l => frame'[u][k] = frame[u][k]
    BY <2>1, <2>2, <2>4 DEF TypeOK
  <2>6. managed' = managed /\ top' = [top EXCEPT ![t] = l]
    BY <1>1 DEF Enter
  <2>7. ASSUME NEW u \in Threads, NEW k \in Levels, k <= top'[u]
        PROVE  FrameOK(frame'[u][k], managed)
    <3>1. u # t \/ k # l => k <= top[u]
      BY <2>1, <2>6, <2>7 DEF TypeOK, Levels
    <3> QED
      BY <2>3, <2>5, <3>1 DEF FramesOK
  <2>8. ASSUME NEW u \in Threads, NEW k \in Levels, k < top'[u]
        PROVE  frame'[u][k].at = "inside"
    <3>1. CASE u = t /\ k = top[t]
      <4>1. At(t, "inside") /\ k # l
        BY <1>1, <3>1 DEF Enter, Levels, TypeOK
      <4> QED
        BY <2>5, <3>1, <4>1 DEF At, Current
    <3>2. CASE ~(u = t /\ k = top[t])
      <4>1. k < top[u] /\ (u # t \/ k # l)
        BY <2>1, <2>6, <2>8, <3>2 DEF TypeOK, Levels
      <4> QED
        BY <2>5, <4>1 DEF FramesOK
    <3> QED
      BY <3>1, <3>2
  <2>9. TypeOK'
    BY <1>1, <2>1, <2>5 DEF TypeOK, Enter, watching
  <2> QED
    BY <2>6, <2>7, <2>8, <2>9 DEF FramesOK
<1>2. ASSUME NEW t \in Threads, Save(t) PROVE FrameInv'
  <2> DEFINE f == Current(t)
             r == Head(f.todo)
             e == <<r, state[r]>>
             g == [f EXCEPT !.at = "seed", !.saved = Append(@, e)]
  <2>1. f \in Frames /\ FrameOK(f, managed) /\ f.at = "save" /\ top[t] > 0
    BY <1>2, CurrentIsOpen DEF Save, At
  <2>2. /\ f.todo \in Seq(Generators) /\ f.todo # <<>> /\ Distinct(f.todo)
        /\ f.saved \in Seq(Generators \X States) /\ NamesDistinct(f.saved)
        /\ f.seed \in Seeds
    BY <2>1 DEF Frames, FrameOK
  <2>3. /\ r \in Generators /\ r \notin Range(Tail(f.todo))
        /\ Range(f.todo) = {r} \cup Range(Tail(f.todo))
    BY <2>2, TailElements
  <2>4. e \in Generators \X States /\ e[1] = r
    BY <2>3 DEF TypeOK
  <2>5. CASE r \in Range(managed)
    <3>1. /\ Append(f.saved, e) \in Seq(Generators \X States)
          /\ Names(Append(f.saved, e)) = Names(f.saved) \cup {r}
          /\ NamesDistinct(Append(f.saved, e))
      BY <2>1, <2>2, <2>3, <2>4, AppendNames DEF FrameOK
    <3>2. /\ g \in Frames /\ g.at = "seed" /\ g.todo = f.todo
          /\ g.saved = Append(f.saved, e)
      BY <2>1, <3>1 DEF Frames
    <3>3. Become(t, g) /\ UNCHANGED <<managed, top>>
      BY <1>2, <2>5 DEF Save
    <3> HIDE DEF g, e, r
    <3>4. FrameOK(g, managed)
      BY <2>1, <2>2, <2>3, <2>5, <3>1, <3>2 DEF FrameOK, r
    <3>5. FramesOK' /\ frame' \in [Threads -> [Levels -> Frames]]
      BY <2>1, <3>2, <3>3, <3>4, InnermostChanges
    <3>6. known' \subseteq States
      BY <1>2, <1>c, <2>2 DEF Save, TypeOK
    <3> QED
      BY <1>2, <3>5, <3>6 DEF TypeOK, Save, watching
  <2>6. CASE r \notin Range(managed)
    <3>1. r # Global
      BY <2>6 DEF FramesOK
    <3>2. AfterSeeding(f, f.saved) \in Frames /\ FrameOK(AfterSeeding(f, f.saved), managed)
      BY <2>1, <2>2, <2>3, <3>1, NextToSeed DEF FrameOK
    <3>3. Become(t, AfterSeeding(f, f.saved)) /\ UNCHANGED <<known, managed, top>>
      BY <1>2, <2>6 DEF Save
    <3>4. FramesOK' /\ frame' \in [Threads -> [Levels -> Frames]]
      BY <2>1, <3>2, <3>3, InnermostChanges
    <3> QED
      BY <1>2, <3>3, <3>4 DEF TypeOK, Save, watching
  <2> QED
    BY <2>5, <2>6
<1>3. ASSUME NEW t \in Threads, Seed(t) PROVE FrameInv'
  <2> DEFINE f == Current(t)
  <2>1. f \in Frames /\ FrameOK(f, managed) /\ f.at = "seed" /\ top[t] > 0
    BY <1>3, CurrentIsOpen DEF Seed, At
  <2>2. /\ f.saved \in Seq(Generators \X States) /\ f.seed \in Seeds
        /\ f.todo \in Seq(Generators) /\ f.todo # <<>>
    BY <2>1 DEF Frames, FrameOK
  <2>3. AfterSeeding(f, f.saved) \in Frames /\ FrameOK(AfterSeeding(f, f.saved), managed)
    BY <2>1, <2>2, NextToSeed DEF FrameOK
  <2>4. /\ Become(t, AfterSeeding(f, f.saved)) /\ UNCHANGED <<managed, top>>
        /\ state' = [state EXCEPT ![Head(f.todo)] = Seeded(f.seed)]
    BY <1>3 DEF Seed
  <2>5. FramesOK' /\ frame' \in [Threads -> [Levels -> Frames]]
    BY <2>1, <2>3, <2>4, InnermostChanges
  <2>6. state' \in [Generators -> States]
    BY <1>c, <2>2, <2>4 DEF TypeOK
  <2> QED
    BY <1>3, <2>5, <2>6 DEF TypeOK, Seed, watching
<1>4. ASSUME NEW t \in Threads, Exit(t) PROVE FrameInv'
  <2> DEFINE f == Current(t)
             g == [f EXCEPT !.at = "mark"]
  <2>1. f \in Frames /\ FrameOK(f, managed) /\ f.at = "inside" /\ top[t] > 0
    BY <1>4, CurrentIsOpen DEF Exit, At
  <2>2. g \in Frames /\ g.at = "mark" /\ g.saved = f.saved /\ g.todo = f.todo
    BY <2>1 DEF Frames
  <2>3. Become(t, g) /\ UNCHANGED <<managed, top>>
    BY <1>4 DEF Exit
  <2> HIDE DEF g
  <2>4. FrameOK(g, managed)
    <3>1. f.saved # <<>>
      BY <2>1 DEF FrameOK, Names
    <3> QED
      BY <2>1, <2>2, <3>1 DEF FrameOK
  <2>5. FramesOK' /\ frame' \in [Threads -> [Levels -> Frames]]
    BY <2>1, <2>2, <2>3, <2>4, InnermostChanges
  <2> QED
    BY <1>4, <2>5 DEF TypeOK, Exit, watching
<1>5. ASSUME NEW t \in Threads, Mark(t) PROVE FrameInv'
  <2> DEFINE f == Current(t)
             r == Head(f.saved)[1]
             g == [f EXCEPT !.at = "restore"]
  <2>1. f \in Frames /\ FrameOK(f, managed) /\ f.at = "mark" /\ top[t] > 0
    BY <1>5, CurrentIsOpen DEF Mark, At
  <2>2. Head(f.saved) \in Generators \X States
    BY <2>1, TailNames DEF Frames, FrameOK
  <2>3. CASE r \in Range(managed)
    <3>1. g \in Frames /\ g.at = "restore" /\ g.saved = f.saved /\ g.todo = f.todo
      BY <2>1 DEF Frames
    <3>2. Become(t, g) /\ UNCHANGED <<managed, top>>
      BY <1>5, <2>3 DEF Mark
    <3> HIDE DEF g
    <3>3. FrameOK(g, managed)
      BY <2>1, <2>3, <3>1 DEF FrameOK
    <3>4. FramesOK' /\ frame' \in [Threads -> [Levels -> Frames]]
      BY <2>1, <3>1, <3>2, <3>3, InnermostChanges
    <3>5. known' \subseteq States
      BY <1>5, <2>2 DEF Mark, TypeOK
    <3> QED
      BY <1>5, <3>2, <3>4, <3>5 DEF TypeOK, Mark, watching
  <2>4. CASE r \notin Range(managed)
    <3>1. Restored(t) /\ UNCHANGED <<known, managed>>
      BY <1>5, <2>4 DEF Mark
    <3> QED
      BY <1>5, <2>1, <3>1, RestoredKeepsFrames DEF TypeOK, Mark, watching
  <2> QED
    BY <2>3, <2>4
<1>6. ASSUME NEW t \in Threads, Restore(t) PROVE FrameInv'
  <2> DEFINE f == Current(t)
  <2>1. f \in Frames /\ FrameOK(f, managed) /\ f.at = "restore" /\ top[t] > 0
    BY <1>6, CurrentIsOpen DEF Restore, At
  <2>2. Head(f.saved) \in Generators \X States
    BY <2>1, TailNames DEF Frames, FrameOK
  <2>3. /\ Restored(t) /\ UNCHANGED <<known, managed>>
        /\ state' = [state EXCEPT ![Head(f.saved)[1]] = Head(f.saved)[2]]
    BY <1>6 DEF Restore
  <2>4. state' \in [Generators -> States]
    BY <2>2, <2>3 DEF TypeOK
  <2> QED
    BY <1>6, <2>1, <2>3, <2>4, RestoredKeepsFrames DEF TypeOK, Restore, watching
<1>7. ASSUME NEW t \in Threads, NEW r \in Generators, Use(t, r) PROVE FrameInv'
  <2>1. state[r].drawn + 1 \in 0 .. MaxUses /\ state[r] \in States
    BY <1>7, <1>c DEF Use, TypeOK, States
  <2>2. state' \in [Generators -> States]
    BY <1>7, <2>1 DEF Use, TypeOK, States
  <2>3. outside' \in [Generators -> States]
    BY <1>7, <2>2 DEF Use, TypeOK
  <2>4. used' \in [Threads -> BOOLEAN]
    BY <1>7 DEF Use, TypeOK
  <2>5. UNCHANGED <<managed, known, top, frame, before, overlapped>>
    BY <1>7 DEF Use
  <2> QED
    BY <2>2, <2>3, <2>4, <2>5 DEF TypeOK, FramesOK
<1>8. ASSUME NEW t \in Threads, Watch(t) \/ Unwatch(t) PROVE FrameInv'
  <2>1. UNCHANGED <<state, managed, known, top, frame, outside, overlapped>>
    BY <1>8 DEF Watch, Unwatch
  <2>2. before' \in [Threads -> States \cup {None}] /\ used' \in [Threads -> BOOLEAN]
    BY <1>8, <1>c DEF Watch, Unwatch, TypeOK
  <2> QED
    BY <2>1, <2>2 DEF TypeOK, FramesOK
<1>9. ASSUME NEW r \in Generators, Register(r) PROVE FrameInv'
  <2>1. UNCHANGED <<state, known, top, frame, watching, outside, overlapped>>
    BY <1>9 DEF Register
  <2>2. /\ managed' \in Seq(Generators) /\ Distinct(managed')
        /\ Range(managed') = Range(managed) \cup {r}
    BY <1>9, AppendElements DEF Register, TypeOK, FramesOK
  <2>3. ASSUME NEW t \in Threads, NEW l \in Levels, l <= top[t]
        PROVE  FrameOK(frame[t][l], managed')
    <3>1. FrameOK(frame[t][l], managed)
      BY <2>3 DEF FramesOK
    <3> QED
      BY <2>2, <3>1 DEF FrameOK
  <2> QED
    BY <2>1, <2>2, <2>3 DEF TypeOK, FramesOK, watching
<1>10. ASSUME NEW r \in Generators, Collect(r) PROVE FrameInv'
  <2>1. UNCHANGED <<known, top, frame, watching, overlapped>> /\ r # Global
    BY <1>10 DEF Collect
  <2>2. /\ managed' \in Seq(Generators) /\ Distinct(managed')
        /\ Range(managed') = Range(managed) \ {r}
    BY <1>10, RemoveElement DEF Collect, TypeOK, FramesOK
  <2>3. ASSUME NEW t \in Threads, NEW l \in Levels, l <= top[t]
        PROVE  FrameOK(frame[t][l], managed')
    <3>1. frame[t][l].at \notin {"seed", "restore"}
      <4>1. CASE l = top[t]
        BY <1>10, <4>1 DEF Collect, At, Current, Levels
      <4>2. CASE l < top[t]
        BY <4>2 DEF FramesOK
      <4> QED
        BY <2>3, <4>1, <4>2 DEF Levels, TypeOK
    <3> QED
      BY <2>3, <3>1 DEF FramesOK, FrameOK
  <2>4. state' \in [Generators -> States] /\ outside' \in [Generators -> States]
    BY <1>10, <1>c DEF Collect, TypeOK
  <2> QED
    BY <2>1, <2>2, <2>3, <2>4 DEF TypeOK, FramesOK, watching
<1>11. CASE UNCHANGED vars
  BY <1>11 DEF vars, TypeOK, FramesOK, watching
<1> QED
  BY <1>1, <1>2, <1>3, <1>4, <1>5, <1>6, <1>7, <1>8, <1>9, <1>10, <1>11 DEF Next

-----------------------------------------------------------------------------
\* What random_module() and deterministic_PRNG make of the global generator is
\* announced before it comes about.
LEMMA KnownStep ==
  ASSUME GlobalRandomConstants, FrameInv, ChangesAreKnown, [Next]_vars
  PROVE  ChangesAreKnown'
<1> USE DEF FrameInv
<1>c. Global \in Generators /\ TestSeed \in Seeds /\ None \notin States
  BY DEF GlobalRandomConstants, States
\* A frame whose announcement is made.
<1> DEFINE Announced(f, k) ==
      /\ f.at = "seed" /\ Head(f.todo) = Global => Seeded(f.seed) \in k
      /\ f.at = "restore" /\ Head(f.saved)[1] = Global => Head(f.saved)[2] \in k
<1>d. /\ \A t \in Threads, l \in Levels : Announced(frame[t][l], known)
      /\ \A t \in Threads : before[t] # None /\ ~used[t] =>
           state[Global] = before[t] \/ state[Global] \in known
  BY DEF ChangesAreKnown
<1> HIDE DEF Announced
\* Such a frame stays one when more is known.
<1>m. ASSUME NEW f, NEW k, NEW m, k \subseteq m, Announced(f, k) PROVE Announced(f, m)
  BY <1>m DEF Announced
\* Steps that leave random alone and announce what a new frame needs.
<1>f. ASSUME NEW t \in Threads, NEW l \in Levels, NEW f \in Frames,
             frame' = [frame EXCEPT ![t][l] = f], known \subseteq known', Announced(f, known'),
             UNCHANGED watching, state'[Global] = state[Global] \/ state'[Global] \in known
      PROVE  ChangesAreKnown'
  <2>1. ASSUME NEW u \in Threads, NEW k \in Levels PROVE Announced(frame'[u][k], known')
    BY <1>d, <1>f, <1>m DEF TypeOK
  <2>2. ASSUME NEW u \in Threads, before'[u] # None, ~used'[u]
        PROVE  state'[Global] = before'[u] \/ state'[Global] \in known'
    BY <1>d, <1>f, <2>2 DEF watching
  <2> QED
    BY <2>1, <2>2 DEF ChangesAreKnown, Announced
<1>r. ASSUME NEW t \in Threads, top[t] > 0, Current(t).at \in {"mark", "restore"}, Restored(t),
             UNCHANGED <<known, watching>>,
             state'[Global] = state[Global] \/ state'[Global] \in known
      PROVE  ChangesAreKnown'
  <2> DEFINE f == Current(t)
  <2>1. f \in Frames /\ FrameOK(f, managed) /\ top[t] \in Levels
    BY <1>r, CurrentIsOpen
  <2>2. f.saved \in Seq(Generators \X States) /\ Tail(f.saved) \in Seq(Generators \X States)
    BY <1>r, <2>1, TailNames DEF Frames, FrameOK
  <2> DEFINE g == IF Len(f.saved) = 1 THEN Idle ELSE [f EXCEPT !.at = "mark", !.saved = Tail(@)]
  <2>3. g \in Frames /\ g.at \in {"inside", "mark"}
    <3>1. Idle \in Frames /\ Idle.at = "inside"
      BY <1>c DEF Frames, Idle
    <3>2. [f EXCEPT !.at = "mark", !.saved = Tail(@)] \in Frames
      BY <2>1, <2>2 DEF Frames
    <3>3. [f EXCEPT !.at = "mark", !.saved = Tail(@)].at = "mark"
      BY <2>1 DEF Frames
    <3> QED
      BY <3>1, <3>2, <3>3
  <2>4. frame' = [frame EXCEPT ![t][top[t]] = g]
    BY <1>r DEF Restored, Become
  <2> HIDE DEF g
  <2> QED
    BY <1>f, <1>r, <2>1, <2>3, <2>4 DEF Announced
<1>1. ASSUME NEW t \in Threads, NEW s \in Seeds, Enter(t, s) PROVE ChangesAreKnown'
  <2> DEFINE f == [at |-> "save", seed |-> s, todo |-> managed, saved |-> <<>>]
  <2>1. f \in Frames /\ Announced(f, known)
    BY DEF TypeOK, Frames, Announced
  <2>2. top[t] + 1 \in Levels /\ frame' = [frame EXCEPT ![t][top[t] + 1] = f]
    BY <1>1 DEF TypeOK, Enter, Levels, GlobalRandomConstants
  <2> QED
    BY <1>1, <1>f, <2>1, <2>2 DEF Enter
<1>2. ASSUME NEW t \in Threads, Save(t) PROVE ChangesAreKnown'
  <2> DEFINE f == Current(t)
             r == Head(f.todo)
             g == [f EXCEPT !.at = "seed", !.saved = Append(@, <<r, state[r]>>)]
  <2>1. f \in Frames /\ FrameOK(f, managed) /\ f.at = "save" /\ top[t] \in Levels
    BY <1>2, CurrentIsOpen DEF Save, At
  <2>2. /\ r \in Generators /\ Tail(f.todo) \in Seq(Generators)
        /\ Append(f.saved, <<r, state[r]>>) \in Seq(Generators \X States)
    BY <2>1, TailElements, AppendNames DEF Frames, FrameOK, TypeOK
  <2>3. CASE r \in Range(managed)
    <3>1. g \in Frames /\ g.at = "seed" /\ g.todo = f.todo /\ g.seed = f.seed
      BY <2>1, <2>2 DEF Frames
    <3>2. /\ frame' = [frame EXCEPT ![t][top[t]] = g]
          /\ known' = known \cup (IF r = Global THEN {Seeded(f.seed)} ELSE {})
      BY <1>2, <2>3 DEF Save, Become
    <3> HIDE DEF g
    <3>3. Announced(g, known')
      BY <3>1, <3>2 DEF Announced
    <3> QED
      BY <1>2, <1>f, <2>1, <3>1, <3>2, <3>3 DEF Save
  <2>4. CASE r \notin Range(managed)
    <3> DEFINE h == AfterSeeding(f, f.saved)
    <3>1. h \in Frames /\ h.at \in {"inside", "save"}
      BY <2>1, <2>2 DEF Frames, AfterSeeding
    <3>2. frame' = [frame EXCEPT ![t][top[t]] = h] /\ known' = known
      BY <1>2, <2>4 DEF Save, Become
    <3> HIDE DEF h
    <3> QED
      BY <1>2, <1>f, <2>1, <3>1, <3>2 DEF Save, Announced
  <2> QED
    BY <2>3, <2>4
<1>3. ASSUME NEW t \in Threads, Seed(t) PROVE ChangesAreKnown'
  <2> DEFINE f == Current(t)
             h == AfterSeeding(f, f.saved)
  <2>1. f \in Frames /\ FrameOK(f, managed) /\ f.at = "seed" /\ top[t] \in Levels
    BY <1>3, CurrentIsOpen DEF Seed, At
  <2>2. Tail(f.todo) \in Seq(Generators)
    BY <2>1, TailElements DEF Frames, FrameOK
  <2>3. h \in Frames /\ h.at \in {"inside", "save"}
    BY <2>1, <2>2 DEF Frames, AfterSeeding
  <2>4. /\ frame' = [frame EXCEPT ![t][top[t]] = h]
        /\ state' = [state EXCEPT ![Head(f.todo)] = Seeded(f.seed)]
    BY <1>3 DEF Seed, Become
  <2>5. state'[Global] = state[Global] \/ state'[Global] \in known
    <3>1. CASE Head(f.todo) = Global
      BY <1>c, <1>d, <2>1, <2>4, <3>1, CurrentIsOpen DEF Announced, TypeOK, Current
    <3>2. CASE Head(f.todo) # Global
      BY <2>4, <3>2
    <3> QED
      BY <3>1, <3>2
  <2> HIDE DEF h
  <2> QED
    BY <1>3, <1>f, <2>1, <2>3, <2>4, <2>5 DEF Seed, Announced
<1>4. ASSUME NEW t \in Threads, Exit(t) PROVE ChangesAreKnown'
  <2> DEFINE g == [Current(t) EXCEPT !.at = "mark"]
  <2>1. Current(t) \in Frames /\ top[t] \in Levels
    BY <1>4, CurrentIsOpen DEF Exit, At
  <2>2. g \in Frames /\ g.at = "mark"
    BY <2>1 DEF Frames
  <2>3. frame' = [frame EXCEPT ![t][top[t]] = g]
    BY <1>4 DEF Exit, Become
  <2> HIDE DEF g
  <2> QED
    BY <1>4, <1>f, <2>1, <2>2, <2>3 DEF Exit, Announced
<1>5. ASSUME NEW t \in Threads, Mark(t) PROVE ChangesAreKnown'
  <2> DEFINE f == Current(t)
             r == Head(f.saved)[1]
             g == [f EXCEPT !.at = "restore"]
  <2>1. f \in Frames /\ f.at = "mark" /\ top[t] \in Levels /\ top[t] > 0
    BY <1>5, CurrentIsOpen DEF Mark, At
  <2>2. CASE r \in Range(managed)
    <3>1. g \in Frames /\ g.at = "restore" /\ g.saved = f.saved
      BY <2>1 DEF Frames
    <3>2. /\ frame' = [frame EXCEPT ![t][top[t]] = g]
          /\ known' = known \cup (IF r = Global THEN {Head(f.saved)[2]} ELSE {})
      BY <1>5, <2>2 DEF Mark, Become
    <3> HIDE DEF g
    <3>3. Announced(g, known')
      BY <3>1, <3>2 DEF Announced
    <3> QED
      BY <1>5, <1>f, <2>1, <3>1, <3>2, <3>3 DEF Mark
  <2>3. CASE r \notin Range(managed)
    BY <1>5, <1>r, <2>1, <2>3 DEF Mark
  <2> QED
    BY <2>2, <2>3
<1>6. ASSUME NEW t \in Threads, Restore(t) PROVE ChangesAreKnown'
  <2> DEFINE f == Current(t)
  <2>1. f.at = "restore" /\ top[t] \in Levels /\ top[t] > 0 /\ f = frame[t][top[t]]
    BY <1>6, CurrentIsOpen DEF Restore, At
  <2>2. state' = [state EXCEPT ![Head(f.saved)[1]] = Head(f.saved)[2]]
    BY <1>6 DEF Restore
  <2>3. state'[Global] = state[Global] \/ state'[Global] \in known
    <3>1. CASE Head(f.saved)[1] = Global
      BY <1>c, <1>d, <2>1, <2>2, <3>1 DEF Announced, TypeOK
    <3>2. CASE Head(f.saved)[1] # Global
      BY <2>2, <3>2
    <3> QED
      BY <3>1, <3>2
  <2> QED
    BY <1>6, <1>r, <2>1, <2>3 DEF Restore
<1>7. ASSUME NEW t \in Threads, NEW r \in Generators, Use(t, r) PROVE ChangesAreKnown'
  <2>1. ASSUME NEW u \in Threads, before'[u] # None, ~used'[u]
        PROVE  state'[Global] = before'[u] \/ state'[Global] \in known'
    <3>1. r # Global /\ ~used[u] /\ before[u] # None
      BY <1>7, <2>1 DEF Use, TypeOK
    <3>2. state'[Global] = state[Global] /\ before' = before /\ known' = known
      BY <1>7, <3>1 DEF Use
    <3> QED
      BY <1>d, <3>1, <3>2
  <2> QED
    BY <1>7, <1>d, <2>1 DEF Use, ChangesAreKnown, Announced
<1>8. ASSUME NEW t \in Threads, Watch(t) \/ Unwatch(t) PROVE ChangesAreKnown'
  <2>1. ASSUME NEW u \in Threads, before'[u] # None, ~used'[u]
        PROVE  state'[Global] = before'[u] \/ state'[Global] \in known'
    BY <1>8, <1>d, <2>1 DEF Watch, Unwatch, TypeOK
  <2> QED
    BY <1>8, <1>d, <2>1 DEF Watch, Unwatch, ChangesAreKnown, Announced
<1>9. ASSUME NEW r \in Generators, Register(r) \/ Collect(r) PROVE ChangesAreKnown'
  <2>1. UNCHANGED <<known, frame, before, used>> /\ state'[Global] = state[Global]
    BY <1>9, <1>c DEF Register, Collect, TypeOK, watching
  <2> QED
    BY <1>d, <2>1 DEF ChangesAreKnown, Announced
<1>10. CASE UNCHANGED vars
  BY <1>10 DEF vars, ChangesAreKnown, watching
<1> QED
  BY <1>1, <1>2, <1>3, <1>4, <1>5, <1>6, <1>7, <1>8, <1>9, <1>10 DEF Next

\* A draw gets the note that its strategy used random only if somebody did since
\* the draw began, for any number of threads that seed and restore it meanwhile.
THEOREM NotedDrawsUsed == ASSUME GlobalRandomConstants PROVE Spec => WarnsOnlyOfUse
<1>1. Init => ChangesAreKnown
  BY DEF Init, ChangesAreKnown, Idle
<1>2. ChangesAreKnown => \A t \in Threads : Unwatch(t) /\ Noted(t) => used[t]
  BY DEF ChangesAreKnown, Unwatch, Noted
<1> QED
  BY <1>1, <1>2, FrameInvInit, FrameInvStep, KnownStep, PTL DEF Spec, WarnsOnlyOfUse

-----------------------------------------------------------------------------
\* What the innermost context of a thread will restore, after a step of it.
LEMMA SavedAreSaves ==
  ASSUME FrameInv, NEW t \in Threads, NEW l \in Levels, NEW i \in DOMAIN frame[t][l].saved
  PROVE  frame[t][l].saved[i] \in Saves
<1>1. frame[t][l].saved \in Seq(Saves)
  BY DEF FrameInv, TypeOK, Frames, Saves
<1> QED
  BY <1>1

\* A generator is promised when some open context holds a state of it.
LEMMA PromisedHolds ==
  ASSUME FrameInv, NEW r
  PROVE  Promised(r) <=> \E t \in Threads, l \in Levels, p \in Saves : Holds(t, l, p) /\ p[1] = r
  BY SavedAreSaves DEF Promised, Holds

\* A context whose saved states do not change owes what it owed.
LEMMA HoldsSame ==
  ASSUME FrameInv, NEW t \in Threads, top[t] > 0, NEW f \in Frames,
         f.saved = Current(t).saved, Become(t, f), UNCHANGED top
  PROVE  Owed' = Owed
<1>1. top[t] \in Levels /\ Current(t) = frame[t][top[t]]
  BY CurrentIsOpen
<1>2. /\ frame'[t][top[t]] = f
      /\ \A u \in Threads, k \in Levels : u # t \/ k # top[t] => frame'[u][k] = frame[u][k]
  BY <1>1, BecomeChanges
<1>3. \A u \in Threads, k \in Levels : frame'[u][k].saved = frame[u][k].saved
  BY <1>1, <1>2
<1> QED
  BY <1>3 DEF Owed, Holds

\* A context that saves one more state holds it, and the others hold what they held.
LEMMA HoldsMore ==
  ASSUME FrameInv, NEW t \in Threads, top[t] > 0, NEW f \in Frames, NEW e \in Saves,
         f.saved = Append(Current(t).saved, e), Become(t, f), UNCHANGED top
  PROVE  \A u \in Threads, k \in Levels, p \in Saves :
           Holds(u, k, p)' <=> Holds(u, k, p) \/ (u = t /\ k = top[t] /\ p = e)
<1>1. top[t] \in Levels /\ Current(t) = frame[t][top[t]] /\ Current(t) \in Frames
  BY CurrentIsOpen
<1>2. /\ frame'[t][top[t]] = f
      /\ \A u \in Threads, k \in Levels : u # t \/ k # top[t] => frame'[u][k] = frame[u][k]
  BY <1>1, BecomeChanges
<1>3. \A p : (\E i \in DOMAIN f.saved : f.saved[i] = p)
             <=> (\E i \in DOMAIN Current(t).saved : Current(t).saved[i] = p) \/ p = e
  <2>1. Current(t).saved \in Seq(Saves)
    BY <1>1 DEF Frames, Saves
  <2>2. Range(f.saved) = Range(Current(t).saved) \cup {e}
    BY <2>1, AppendElements
  <2> QED
    BY <2>2, InRange
<1>4. top[t] <= top[t]
  BY <1>1 DEF Levels
<1>5. ASSUME NEW u \in Threads, NEW k \in Levels, NEW p \in Saves
      PROVE  Holds(u, k, p)' <=> Holds(u, k, p) \/ (u = t /\ k = top[t] /\ p = e)
  <2>1. CASE u = t /\ k = top[t]
    <3>1. Holds(u, k, p) <=> \E i \in DOMAIN Current(t).saved : Current(t).saved[i] = p
      BY <1>1, <1>4, <2>1 DEF Holds
    <3>2. Holds(u, k, p)' <=> \E i \in DOMAIN f.saved : f.saved[i] = p
      BY <1>2, <1>4, <2>1 DEF Holds
    <3> QED
      BY <1>3, <2>1, <3>1, <3>2
  <2>2. CASE ~(u = t /\ k = top[t])
    BY <1>2, <2>2 DEF Holds
  <2> QED
    BY <2>1, <2>2
<1> QED
  BY <1>5

\* A context that restored its first saved state holds the rest.
LEMMA HoldsLess ==
  ASSUME GlobalRandomConstants, FrameInv, NEW t \in Threads, top[t] > 0,
         Current(t).at \in {"mark", "restore"}, Restored(t)
  PROVE  /\ Head(Current(t).saved) \in Saves
         /\ Holds(t, top[t], Head(Current(t).saved))
         /\ \A u \in Threads, k \in Levels, p \in Saves :
              Holds(u, k, p)' <=>
                Holds(u, k, p) /\ ~(u = t /\ k = top[t] /\ p = Head(Current(t).saved))
<1> DEFINE f == Current(t)
           g == frame'[t][top[t]]
<1>1. /\ top[t] \in Levels /\ f = frame[t][top[t]] /\ f \in Frames /\ FrameOK(f, managed)
      /\ top[t] \in Nat
  BY CurrentIsOpen DEF Levels
<1>2. f.saved \in Seq(Generators \X States) /\ f.saved # <<>> /\ NamesDistinct(f.saved)
  BY <1>1 DEF Frames, FrameOK
<1>3. /\ Head(f.saved) \in Saves /\ Head(f.saved) = f.saved[1] /\ 1 \in DOMAIN f.saved
      /\ Head(f.saved)[1] \notin Names(Tail(f.saved))
      /\ Tail(f.saved) \in Seq(Generators \X States)
      /\ Tail(f.saved) = <<>> <=> Len(f.saved) = 1
  BY <1>2, TailNames DEF Saves
<1>4. Range(f.saved) = {Head(f.saved)} \cup Range(Tail(f.saved))
  BY <1>2, TailElements
<1>5. Head(f.saved) \notin Range(Tail(f.saved))
  BY <1>3, InRange, InNames
<1>6. /\ g.saved = Tail(f.saved)
      /\ \A u \in Threads, k \in Levels : u # t \/ k # top[t] => frame'[u][k] = frame[u][k]
  <2>1. CASE Len(f.saved) = 1
    <3>1. Idle \in Frames /\ Idle.saved = <<>>
      BY DEF Idle, Frames, GlobalRandomConstants
    <3>2. Become(t, Idle)
      BY <2>1 DEF Restored
    <3> QED
      BY <1>1, <1>3, <2>1, <3>1, <3>2, BecomeChanges
  <2>2. CASE Len(f.saved) # 1
    <3> DEFINE h == [f EXCEPT !.at = "mark", !.saved = Tail(@)]
    <3>1. h \in Frames /\ h.saved = Tail(f.saved)
      BY <1>1, <1>3 DEF Frames
    <3>2. Become(t, h)
      BY <2>2 DEF Restored
    <3> HIDE DEF h
    <3> QED
      BY <1>1, <3>1, <3>2, BecomeChanges
  <2> QED
    BY <2>1, <2>2
\* When the context is closed, nothing is left in it.
<1>7. \A u \in Threads, k \in Levels :
        \/ k <= top'[u] <=> k <= top[u]
        \/ u = t /\ k = top[t] /\ Tail(f.saved) = <<>>
  BY <1>1, <1>3 DEF Restored, FrameInv, TypeOK, Levels
<1> HIDE DEF f, g
<1>8. ASSUME NEW u \in Threads, NEW k \in Levels, NEW p \in Saves, u = t /\ k = top[t]
      PROVE  Holds(u, k, p)' <=> Holds(u, k, p) /\ p # Head(f.saved)
  <2>1. Holds(u, k, p) <=> p \in Range(f.saved)
    BY <1>1, <1>8, InRange DEF Holds
  <2>2. Holds(u, k, p)' <=> k <= top'[u] /\ p \in Range(Tail(f.saved))
    BY <1>6, <1>8, InRange DEF Holds, g
  <2>3. Tail(f.saved) = <<>> => Range(Tail(f.saved)) = {}
    BY DEF Range
  <2> QED
    BY <1>1, <1>4, <1>5, <1>7, <1>8, <2>1, <2>2, <2>3
<1>9. ASSUME NEW u \in Threads, NEW k \in Levels, NEW p \in Saves, ~(u = t /\ k = top[t])
      PROVE  Holds(u, k, p)' <=> Holds(u, k, p)
  BY <1>6, <1>7, <1>9 DEF Holds
<1>10. Holds(t, top[t], Head(f.saved))
  BY <1>1, <1>3 DEF Holds
<1> QED
  BY <1>3, <1>8, <1>9, <1>10 DEF f

\* While threads take turns, every step keeps what is promised.
LEMMA PromisesStep ==
  ASSUME GlobalRandomConstants, FrameInv, PromisesKept, [Next]_vars
  PROVE  PromisesKept'
<1> SUFFICES ASSUME ~overlapped' PROVE Alone' /\ Promises'
  BY DEF PromisesKept
<1>0. ~overlapped
  BY DEF Next, vars, Enter, Save, Seed, Exit, Mark, Restore, Use, Register, Collect, Watch, Unwatch
<1> USE DEF FrameInv
<1>p. Alone /\ Promises
  BY <1>0 DEF PromisesKept
<1>a. Alone'
  <2>1. ASSUME NEW u \in Threads, top'[u] > 0
        PROVE  top[u] > 0 \/ \A v \in Threads \ {u} : top'[v] = 0
    <3>1. CASE \E s \in Seeds : Enter(u, s)
      <4>1. ASSUME NEW v \in Threads \ {u} PROVE top'[v] = top[v] /\ ~(top[v] > 0)
        BY <3>1, <4>1 DEF Enter, TypeOK
      <4>2. \A v \in Threads : top[v] \in Nat
        BY DEF TypeOK
      <4> QED
        BY <4>1, <4>2
    <3>2. CASE \E t \in Threads : t # u /\ \E s \in Seeds : Enter(t, s)
      BY <2>1, <3>2 DEF Enter, TypeOK
    <3>3. CASE UNCHANGED top
      BY <2>1, <3>3
    <3>4. CASE \E t \in Threads : top' = [top EXCEPT ![t] = @ - 1]
      BY <2>1, <3>4 DEF TypeOK
    <3> QED
      BY <3>1, <3>2, <3>3, <3>4 DEF Next, vars, Save, Seed, Exit, Mark, Restore, Restored, Use,
                                    Register, Collect, Watch, Unwatch
  <2> QED
    BY <1>p, <2>1 DEF Alone
\* The steps that change neither what the contexts will restore nor, unless some
\* context will restore it, any generator.
<1>s. ASSUME UNCHANGED <<managed, outside, Owed>>,
             \A r \in Generators :
               \/ state'[r] = state[r]
               \/ /\ r \in Range(managed)
                  /\ \E u \in Threads, k \in Levels, p \in Saves : Holds(u, k, p) /\ p[1] = r
      PROVE  Promises'
  <2>1. ASSUME NEW u \in Threads, NEW k \in Levels, NEW p \in Saves
        PROVE  Holds(u, k, p)' <=> Holds(u, k, p)
    <3>1. /\ Holds(u, k, p)  <=> <<u, k, p>> \in Owed
          /\ Holds(u, k, p)' <=> <<u, k, p>> \in Owed'
      BY DEF Owed
    <3> QED
      BY <1>s, <3>1
  <2> QED
    BY <1>p, <1>s, <2>1 DEF Promises
\* What is owed, from what every context holds.
<1>o. ASSUME \A u \in Threads, k \in Levels, p \in Saves : Holds(u, k, p)' <=> Holds(u, k, p)
      PROVE  Owed' = Owed
  BY <1>o DEF Owed
<1>1. ASSUME NEW t \in Threads, NEW s \in Seeds, Enter(t, s) PROVE Promises'
  <2> DEFINE f == [at |-> "save", seed |-> s, todo |-> managed, saved |-> <<>>]
             l == top[t] + 1
  <2>1. f \in Frames /\ f.saved = <<>>
    BY DEF TypeOK, Frames
  <2>2. l \in Levels /\ frame' = [frame EXCEPT ![t][l] = f] /\ top' = [top EXCEPT ![t] = l]
    BY <1>1 DEF TypeOK, Enter, Levels, GlobalRandomConstants
  <2> HIDE DEF f
  <2> HIDE DEF l
  <2>3. /\ frame' \in [Threads -> [Levels -> Frames]]
        /\ frame'[t][l] = f
        /\ \A u \in Threads, k \in Levels : u # t \/ k # l => frame'[u][k] = frame[u][k]
    BY <2>1, <2>2 DEF TypeOK
  <2>4. ASSUME NEW u \in Threads, NEW k \in Levels, NEW p \in Saves
        PROVE  Holds(u, k, p)' <=> Holds(u, k, p)
    <3>1. CASE u = t /\ k = l
      <4>1. ~(k <= top[u])
        BY <3>1 DEF TypeOK, l
      <4>2. DOMAIN frame'[u][k].saved = {}
        BY <2>1, <2>3, <3>1
      <4> QED
        BY <4>1, <4>2 DEF Holds
    <3>2. CASE ~(u = t /\ k = l)
      <4>1. k <= top'[u] <=> k <= top[u]
        BY <2>2, <3>2 DEF TypeOK, Levels, l
      <4> QED
        BY <2>3, <3>2, <4>1 DEF Holds
    <3> QED
      BY <3>1, <3>2
  <2>5. UNCHANGED <<managed, outside, state>>
    BY <1>1 DEF Enter
  <2> QED
    BY <1>p, <1>o, <2>4, <2>5, <1>s
<1>2. ASSUME NEW t \in Threads, Save(t) PROVE Promises'
  <2> DEFINE f == Current(t)
             r == Head(f.todo)
             e == <<r, state[r]>>
             g == [f EXCEPT !.at = "seed", !.saved = Append(@, e)]
  <2>1. /\ f \in Frames /\ FrameOK(f, managed) /\ f.at = "save" /\ f = frame[t][top[t]]
        /\ top[t] \in Levels /\ top[t] > 0
    BY <1>2, CurrentIsOpen DEF Save, At
  <2>2. /\ f.saved \in Seq(Generators \X States)
        /\ r \in Generators /\ r \in Range(f.todo) /\ Tail(f.todo) \in Seq(Generators)
    BY <2>1, TailElements DEF Frames, FrameOK
  <2>3. e \in Saves /\ Append(f.saved, e) \in Seq(Generators \X States)
    BY <2>2, AppendNames DEF TypeOK, Saves
  <2>4. CASE r \in Range(managed)
    <3>1. g \in Frames /\ g.saved = Append(f.saved, e)
      BY <2>1, <2>3 DEF Frames
    <3>2. Become(t, g) /\ UNCHANGED <<managed, top, state, outside>>
      BY <1>2, <2>4 DEF Save
    <3> HIDE DEF g
    <3>3. \A u \in Threads, k \in Levels, p \in Saves :
            Holds(u, k, p)' <=> Holds(u, k, p) \/ (u = t /\ k = top[t] /\ p = e)
      <4> HIDE DEF e
      <4> QED
        BY <2>1, <2>3, <3>1, <3>2, HoldsMore
    \* Nothing of this generator was saved in this context, and in no other thread's.
    <3>4. ASSUME NEW u \in Threads, NEW k \in Levels, NEW p \in Saves, Holds(u, k, p), p[1] = r
          PROVE  u = t /\ k < top[t]
      <4>1. u = t
        <5>1. top[u] > 0
          BY <3>4 DEF Holds, Levels, TypeOK
        <5> QED
          BY <1>p, <2>1, <5>1 DEF Alone
      <4>2. k # top[t]
        <5>1. r \notin Names(f.saved)
          BY <2>1, <2>2 DEF FrameOK
        <5> QED
          BY <2>1, <3>4, <4>1, <5>1, InNames DEF Holds
      <4> QED
        BY <3>4, <4>1, <4>2 DEF Holds, Levels, TypeOK
    <3>5. e[1] = r /\ e[2] = state[r]
      OBVIOUS
    <3> HIDE DEF e, r
    <3>6. ASSUME NEW u \in Threads, NEW l \in Levels, NEW p \in Saves, Holds(u, l, p)',
                 p[1] \in Range(managed),
                 \A k \in Levels, q \in Saves : k < l /\ Holds(u, k, q)' => q[1] # p[1]
          PROVE  p[2] = outside[p[1]]
      <4>1. CASE Holds(u, l, p)
        BY <1>p, <3>3, <3>6, <4>1 DEF Promises
      <4>2. CASE u = t /\ l = top[t] /\ p = e
        <5>1. ASSUME NEW v \in Threads, NEW k \in Levels, NEW q \in Saves, Holds(v, k, q)
              PROVE  q[1] # r
          BY <3>3, <3>4, <3>5, <3>6, <4>2, <5>1
        <5>2. state[r] = outside[r]
          BY <1>p, <2>2, <5>1 DEF Promises
        <5> QED
          BY <3>5, <4>2, <5>2
      <4> QED
        BY <3>3, <3>6, <4>1, <4>2
    <3>7. ASSUME NEW x \in Generators,
                 \/ x \notin Range(managed)
                 \/ \A u \in Threads, l \in Levels, p \in Saves : Holds(u, l, p)' => p[1] # x
          PROVE  state[x] = outside[x]
      BY <1>p, <3>3, <3>7 DEF Promises
    <3> QED
      BY <3>2, <3>6, <3>7 DEF Promises
  <2>5. CASE r \notin Range(managed)
    <3> DEFINE h == AfterSeeding(f, f.saved)
    <3>1. h \in Frames /\ h.saved = f.saved
      BY <2>1, <2>2 DEF Frames, AfterSeeding
    <3>2. Become(t, h) /\ UNCHANGED <<managed, top, state, outside>>
      BY <1>2, <2>5 DEF Save
    <3> HIDE DEF h
    <3>3. Owed' = Owed
      BY <2>1, <3>1, <3>2, HoldsSame
    <3> QED
      BY <1>p, <3>2, <3>3, <1>s
  <2> QED
    BY <2>4, <2>5
<1>3. ASSUME NEW t \in Threads, Seed(t) PROVE Promises'
  <2> DEFINE f == Current(t)
             r == Head(f.todo)
             h == AfterSeeding(f, f.saved)
  <2>1. /\ f \in Frames /\ FrameOK(f, managed) /\ f.at = "seed" /\ f = frame[t][top[t]]
        /\ top[t] \in Levels /\ top[t] > 0
    BY <1>3, CurrentIsOpen DEF Seed, At
  <2>2. Tail(f.todo) \in Seq(Generators) /\ r \in Range(managed) /\ r \in Names(f.saved)
    BY <2>1, TailElements DEF Frames, FrameOK
  <2>3. h \in Frames /\ h.saved = f.saved
    BY <2>1, <2>2 DEF Frames, AfterSeeding
  <2>4. /\ Become(t, h) /\ UNCHANGED <<managed, top, outside>>
        /\ state' = [state EXCEPT ![r] = Seeded(f.seed)]
    BY <1>3 DEF Seed
  <2>5. \E p \in Saves : Holds(t, top[t], p) /\ p[1] = r
    <3>1. PICK i \in DOMAIN f.saved : f.saved[i][1] = r
      BY <2>2, InNames
    <3>2. f.saved[i] \in Saves /\ top[t] <= top[t]
      BY <2>1, SavedAreSaves DEF Levels
    <3> QED
      BY <2>1, <3>1, <3>2 DEF Holds
  <2> HIDE DEF h, r
  <2>6. \A x \in Generators : x # r => state'[x] = state[x]
    BY <2>4 DEF TypeOK
  <2>7. Owed' = Owed
    BY <2>1, <2>3, <2>4, HoldsSame
  <2> QED
    BY <1>p, <2>1, <2>2, <2>4, <2>5, <2>6, <2>7, <1>s
<1>4. ASSUME NEW t \in Threads, Exit(t) PROVE Promises'
  <2> DEFINE g == [Current(t) EXCEPT !.at = "mark"]
  <2>1. Current(t) \in Frames /\ top[t] > 0
    BY <1>4, CurrentIsOpen DEF Exit, At
  <2>2. g \in Frames /\ g.saved = Current(t).saved
    BY <2>1 DEF Frames
  <2>3. Become(t, g) /\ UNCHANGED <<managed, top, state, outside>>
    BY <1>4 DEF Exit
  <2> HIDE DEF g
  <2>4. Owed' = Owed
    BY <2>1, <2>2, <2>3, HoldsSame
  <2> QED
    BY <1>p, <2>3, <2>4, <1>s
\* The innermost context is done with generator r, which is back or was collected.
<1>r. ASSUME NEW t \in Threads, top[t] > 0, Current(t).at \in {"mark", "restore"}, Restored(t),
             UNCHANGED <<managed, outside>>, NEW e \in Saves, e = Head(Current(t).saved),
             \A x \in Generators : x # e[1] => state'[x] = state[x],
             \/ e[1] \notin Range(managed) /\ state' = state
             \/ e[1] \in Range(managed) /\ state'[e[1]] = e[2]
      PROVE  Promises'
  <2>1. /\ top[t] \in Levels /\ Holds(t, top[t], e)
        /\ \A u \in Threads, k \in Levels, p \in Saves :
             Holds(u, k, p)' <=> Holds(u, k, p) /\ ~(u = t /\ k = top[t] /\ p = e)
    BY <1>r, HoldsLess, CurrentIsOpen
  <2>2. ASSUME NEW u \in Threads, NEW l \in Levels, NEW p \in Saves, Holds(u, l, p)',
               p[1] \in Range(managed),
               \A k \in Levels, q \in Saves : k < l /\ Holds(u, k, q)' => q[1] # p[1]
        PROVE  p[2] = outside[p[1]]
    <3>1. ASSUME NEW k \in Levels, NEW q \in Saves, k < l, Holds(u, k, q) PROVE q[1] # p[1]
      <4>1. l <= top[u]
        BY <2>1, <2>2 DEF Holds
      <4>2. ~(u = t /\ k = top[t])
        BY <3>1, <4>1 DEF Levels, TypeOK
      <4> QED
        BY <2>1, <2>2, <3>1, <4>2
    <3> QED
      BY <1>p, <2>1, <2>2, <3>1 DEF Promises
  <2>3. ASSUME NEW x \in Generators,
               \/ x \notin Range(managed)
               \/ \A u \in Threads, l \in Levels, p \in Saves : Holds(u, l, p)' => p[1] # x
        PROVE  state'[x] = outside[x]
    <3>1. CASE x # e[1]
      BY <1>p, <1>r, <2>1, <2>3, <3>1 DEF Promises
    <3>2. CASE x = e[1] /\ x \notin Range(managed)
      BY <1>p, <1>r, <3>2 DEF Promises
    <3>3. CASE x = e[1] /\ x \in Range(managed)
      <4>1. ASSUME NEW k \in Levels, NEW q \in Saves, k < top[t], Holds(t, k, q)
            PROVE  q[1] # e[1]
        BY <2>1, <2>3, <3>3, <4>1 DEF Levels
      <4>2. e[2] = outside[e[1]]
        BY <1>p, <2>1, <3>3, <4>1 DEF Promises
      <4> QED
        BY <1>r, <3>3, <4>2
    <3> QED
      BY <3>1, <3>2, <3>3
  <2> QED
    BY <1>r, <2>2, <2>3 DEF Promises
<1>5. ASSUME NEW t \in Threads, Mark(t) PROVE Promises'
  <2> DEFINE f == Current(t)
             r == Head(f.saved)[1]
             g == [f EXCEPT !.at = "restore"]
  <2>1. f \in Frames /\ FrameOK(f, managed) /\ f.at = "mark" /\ top[t] > 0
    BY <1>5, CurrentIsOpen DEF Mark, At
  <2>2. Head(f.saved) \in Saves
    BY <2>1, TailNames DEF Frames, FrameOK, Saves
  <2>3. CASE r \in Range(managed)
    <3>1. g \in Frames /\ g.saved = f.saved
      BY <2>1 DEF Frames
    <3>2. Become(t, g) /\ UNCHANGED <<managed, top, state, outside>>
      BY <1>5, <2>3 DEF Mark
    <3> HIDE DEF g
    <3>3. Owed' = Owed
      BY <2>1, <3>1, <3>2, HoldsSame
    <3> QED
      BY <1>p, <3>2, <3>3, <1>s
  <2>4. CASE r \notin Range(managed)
    BY <1>5, <1>r, <2>1, <2>2, <2>4 DEF Mark
  <2> QED
    BY <2>3, <2>4
<1>6. ASSUME NEW t \in Threads, Restore(t) PROVE Promises'
  <2> DEFINE f == Current(t)
             e == Head(f.saved)
  <2>1. f \in Frames /\ FrameOK(f, managed) /\ f.at = "restore" /\ top[t] > 0
    BY <1>6, CurrentIsOpen DEF Restore, At
  <2>2. e \in Saves /\ e[1] \in Generators /\ e[1] \in Range(managed)
    BY <2>1, TailNames DEF Frames, FrameOK, Saves
  <2>3. /\ Restored(t) /\ UNCHANGED <<managed, outside>>
        /\ state' = [state EXCEPT ![e[1]] = e[2]]
    BY <1>6 DEF Restore
  <2>4. state'[e[1]] = e[2] /\ \A x \in Generators : x # e[1] => state'[x] = state[x]
    BY <2>2, <2>3 DEF TypeOK
  <2> QED
    BY <1>r, <2>1, <2>2, <2>3, <2>4
<1>7. ASSUME NEW t \in Threads, NEW r \in Generators, Use(t, r) PROVE Promises'
  <2>1. /\ UNCHANGED <<managed, top, frame>> /\ r \in Range(managed)
        /\ \A x \in Generators : x # r => state'[x] = state[x]
        /\ outside' = IF Promised(r) THEN outside ELSE [outside EXCEPT ![r] = state'[r]]
    BY <1>7 DEF Use, TypeOK
  <2>2. \A u \in Threads, k \in Levels, p \in Saves : Holds(u, k, p)' <=> Holds(u, k, p)
    BY <2>1 DEF Holds
  <2>3. CASE Promised(r)
    <3>1. \E u \in Threads, k \in Levels, p \in Saves : Holds(u, k, p) /\ p[1] = r
      BY <2>3, PromisedHolds
    <3> QED
      BY <1>p, <2>1, <2>2, <2>3, <3>1, <1>o, <1>s
  <2>4. CASE ~Promised(r)
    <3>1. /\ \A x \in Generators : x # r => outside'[x] = outside[x]
          /\ outside'[r] = state'[r]
      BY <2>1, <2>4 DEF TypeOK
    <3>2. \A u \in Threads, k \in Levels, p \in Saves :
            Holds(u, k, p) => p[1] # r /\ p[1] \in Generators
      BY <2>4, PromisedHolds DEF Saves
    <3> QED
      BY <1>p, <2>1, <2>2, <3>1, <3>2 DEF Promises
  <2> QED
    BY <2>3, <2>4
<1>8. ASSUME NEW t \in Threads, Watch(t) \/ Unwatch(t) PROVE Promises'
  BY <1>8, <1>p DEF Watch, Unwatch, Promises, Holds
<1>9. ASSUME NEW r \in Generators, Register(r) PROVE Promises'
  <2>1. UNCHANGED <<state, top, frame, outside>> /\ r \notin Range(managed)
    BY <1>9 DEF Register
  <2>2. Range(managed') = Range(managed) \cup {r}
    BY <1>9, AppendElements DEF Register, TypeOK
  <2>3. ASSUME NEW u \in Threads, NEW k \in Levels, NEW p \in Saves, Holds(u, k, p)
        PROVE  p[1] # r
    BY <1>9, <2>3 DEF Register, Promised, Holds
  <2> QED
    BY <1>p, <2>1, <2>2, <2>3 DEF Promises, Holds
<1>10. ASSUME NEW r \in Generators, Collect(r) PROVE Promises'
  <2>1. Range(managed') = Range(managed) \ {r}
    BY <1>10, RemoveElement DEF Collect, TypeOK, FramesOK
  <2>2. /\ UNCHANGED <<top, frame>> /\ state'[r] = outside'[r]
        /\ \A x \in Generators : x # r => state'[x] = state[x] /\ outside'[x] = outside[x]
    BY <1>10 DEF Collect, TypeOK
  <2>3. \A u \in Threads, k \in Levels, p \in Saves : Holds(u, k, p)' <=> Holds(u, k, p)
    BY <2>2 DEF Holds
  <2>4. \A p \in Saves : p[1] \in Generators
    BY DEF Saves
  <2> QED
    BY <1>p, <2>1, <2>2, <2>3, <2>4 DEF Promises
<1>11. CASE UNCHANGED vars
  <2>1. \A u \in Threads, k \in Levels, p \in Saves : Holds(u, k, p)' <=> Holds(u, k, p)
    BY <1>11 DEF vars, Holds
  <2>2. UNCHANGED <<managed, outside, state>>
    BY <1>11 DEF vars
  <2> QED
    BY <1>a, <1>o, <2>1, <2>2, <1>s
<1> QED
  BY <1>a, <1>1, <1>2, <1>3, <1>4, <1>5, <1>6, <1>7, <1>8, <1>9, <1>10, <1>11 DEF Next

\* As long as threads take turns, when no context is open every registered
\* generator is where the code outside left it, however contexts are nested, and
\* whatever is drawn from the generators, registered and collected meanwhile.
THEOREM TurnsRestoreOutside ==
  ASSUME GlobalRandomConstants PROVE Spec => []AloneRestoresOutside
<1>1. Init => PromisesKept
  BY DEF Init, PromisesKept, Alone, Promises, Holds, Levels
<1>2. FrameInv /\ PromisesKept => AloneRestoresOutside
  <2> SUFFICES ASSUME FrameInv, PromisesKept, ~overlapped, \A t \in Threads : top[t] = 0,
                      NEW r \in Range(managed)
               PROVE  state[r] = outside[r]
    BY DEF AloneRestoresOutside, RestoresOutside
  <2>1. r \in Generators
    BY DEF FrameInv, TypeOK, Range
  <2>2. \A t \in Threads, l \in Levels, p \in Saves : ~Holds(t, l, p)
    BY DEF Holds, Levels
  <2> QED
    BY <2>1, <2>2 DEF PromisesKept, Promises
<1> QED
  BY <1>1, <1>2, FrameInvInit, FrameInvStep, PromisesStep, PTL DEF Spec
=============================================================================
