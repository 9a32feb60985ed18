------------------------ MODULE BackgroundWriterProofs ------------------------
(***************************************************************************)
(* Proofs about BackgroundWriter, for any number of clients, keys and      *)
(* values, any number of writes, and any order of the threads' steps.      *)
(***************************************************************************)
EXTENDS BackgroundWriter, FiniteSetTheorems, TLAPS

Databases == SUBSET (Keys \X Values)

TypeOK ==
  /\ db \in Databases
  /\ queue \in Seq(Writes)
  /\ unfinished \in Nat
  /\ started \in Nat
  /\ worker \in [Workers -> [at : {"get", "apply", "done", "dead"}, write : Writes \cup {None}]]
  /\ thread \in BOOLEAN
  /\ client \in [Clients -> [at : {"idle", "start", "put", "join"}, write : Writes \cup {None}]]
  /\ calls \in Nat
  /\ asked \in Seq(Databases) /\ asked # <<>>

\* What threads hold between their steps is a write, and none is put without a thread
\* that was started, though another client may still find that there is none.
HandsOK ==
  /\ \A c \in Clients : client[c].at \in {"start", "put"} => client[c].write \in Writes
  /\ \A w \in Workers : worker[w].at = "apply" => worker[w].write \in Writes
  /\ thread <=> started > 0
  /\ \A c \in Clients : client[c].at = "put" => thread
  /\ queue # <<>> => thread
  /\ \A w \in Workers : w > started => worker[w].at = "get"
  /\ refused = {} => \A w \in Workers : worker[w].at # "dead"

\* The tasks that are not done are those in the queue and in the hands of workers.
Taken == {w \in Workers : worker[w].at # "get"}
UnfinishedIsCounted == unfinished = Len(queue) + Cardinality(Taken)

WriterInv == TypeOK /\ HandsOK /\ UnfinishedIsCounted

\* A single worker applies the writes in the order of their requests: the database is
\* the one that was asked for up to some write, the next one is in its hands, or was
\* just applied, and the others are in the queue.
InHand == IF worker[1].at = "apply" THEN 1 ELSE 0
Applying == Len(asked) - Len(queue) - InHand
InOrder ==
  started <= 1 /\ refused = {} =>
    /\ Applying \in 1 .. Len(asked) /\ db = asked[Applying]
    /\ InHand = 1 => asked[Applying + 1] = Applied(asked[Applying], worker[1].write)
    /\ \A i \in 1 .. Len(queue) :
         asked[Applying + InHand + i] = Applied(asked[Applying + InHand + i - 1], queue[i])

-----------------------------------------------------------------------------
\* Only the empty sequence has no elements.
LEMMA EmptyIsShort == ASSUME NEW S, NEW s \in Seq(S) PROVE s = <<>> <=> Len(s) = 0
  OBVIOUS

\* What is left of a queue when its first element is taken.
LEMMA TakeFirst ==
  ASSUME NEW S, NEW s \in Seq(S), s # <<>>
  PROVE  /\ Head(s) \in S /\ Head(s) = s[1] /\ Tail(s) \in Seq(S)
         /\ Len(s) \in Nat \ {0} /\ Len(Tail(s)) = Len(s) - 1
         /\ \A i \in 1 .. Len(s) - 1 : Tail(s)[i] = s[i + 1]
  OBVIOUS

\* What a queue is when an element joins at its end.
LEMMA AppendLast ==
  ASSUME NEW S, NEW s \in Seq(S), NEW e \in S
  PROVE  /\ Append(s, e) \in Seq(S) /\ Append(s, e) # <<>>
         /\ Len(s) \in Nat /\ Len(Append(s, e)) = Len(s) + 1
         /\ Append(s, e)[Len(s) + 1] = e
         /\ \A i \in 1 .. Len(s) : Append(s, e)[i] = s[i]
<1>1. Append(s, e) \in Seq(S) /\ Len(Append(s, e)) = Len(s) + 1 /\ Len(s) \in Nat
  OBVIOUS
<1>2. Append(s, e) # <<>>
  BY <1>1, EmptyIsShort
<1> QED
  BY <1>1, <1>2

\* Doing a write to a database gives a database.
LEMMA AppliedType ==
  ASSUME NEW d \in Databases, NEW w \in Writes PROVE Applied(d, w) \in Databases
  BY DEF Databases, Writes, Save, Delete, Move, Applied

\* Workers are finitely many, and numbered from one.
LEMMA WorkersFinite ==
  ASSUME WriterConstants
  PROVE  IsFiniteSet(Workers) /\ 1 \in Workers /\ Workers \subseteq Nat
<1>1. Cardinality(Clients) \in Nat /\ Cardinality(Clients) # 0
  BY FS_CardinalityType, FS_EmptySet DEF WriterConstants
<1> QED
  BY <1>1, FS_Interval DEF Workers

\* A worker takes a task, or is done with it.
LEMMA TakenGrows ==
  ASSUME WriterConstants, TypeOK, NEW w \in Workers, worker[w].at = "get", NEW r,
         r.at # "get", worker' = [worker EXCEPT ![w] = r]
  PROVE  Cardinality(Taken') = Cardinality(Taken) + 1 /\ Cardinality(Taken) \in Nat
<1>1. IsFiniteSet(Taken)
  BY WorkersFinite, FS_Subset DEF Taken
<1>2. Taken' = Taken \cup {w} /\ w \notin Taken
  BY DEF Taken, TypeOK
<1> QED
  BY <1>1, <1>2, FS_AddElement, FS_CardinalityType

\* A worker that finishes has one task less in its hands.
LEMMA TakenShrinks ==
  ASSUME WriterConstants, TypeOK, NEW w \in Workers, worker[w].at # "get", NEW r,
         r.at = "get", worker' = [worker EXCEPT ![w] = r]
  PROVE  Cardinality(Taken') = Cardinality(Taken) - 1 /\ Cardinality(Taken) \in Nat
<1>1. IsFiniteSet(Taken)
  BY WorkersFinite, FS_Subset DEF Taken
<1>2. Taken' = Taken \ {w} /\ w \in Taken
  BY DEF Taken, TypeOK
<1> QED
  BY <1>1, <1>2, FS_RemoveElement, FS_CardinalityType

\* A worker that goes on with its task still has it.
LEMMA TakenStays ==
  ASSUME TypeOK, NEW w \in Workers, worker[w].at # "get", NEW r, r.at # "get",
         worker' = [worker EXCEPT ![w] = r]
  PROVE  Taken' = Taken
  BY DEF Taken, TypeOK

\* When there is no task that is not done, there is none.
LEMMA NothingLeft ==
  ASSUME WriterConstants, WriterInv, unfinished = 0
  PROVE  queue = <<>> /\ \A w \in Workers : worker[w].at = "get"
<1>1. IsFiniteSet(Taken)
  BY WorkersFinite, FS_Subset DEF Taken
<1>2. Len(queue) \in Nat /\ Cardinality(Taken) \in Nat
  BY <1>1, FS_CardinalityType DEF WriterInv, TypeOK
<1>3. Len(queue) = 0 /\ Cardinality(Taken) = 0
  BY <1>2 DEF WriterInv, UnfinishedIsCounted
<1>4. Taken = {}
  BY <1>1, <1>3, FS_EmptySet
<1> QED
  BY <1>3, <1>4, EmptyIsShort DEF WriterInv, TypeOK, Taken

-----------------------------------------------------------------------------
\* Before any call there are no tasks and no workers.
LEMMA WriterInvInit == ASSUME WriterConstants, Init PROVE WriterInv
<1>1. TypeOK
  <2>1. queue \in Seq(Writes) /\ asked \in Seq(Databases) /\ asked # <<>>
    BY DEF Init, Databases
  <2>2. worker \in [Workers -> [at : {"get", "apply", "done", "dead"}, write : Writes \cup {None}]]
    BY DEF Init
  <2>3. client \in [Clients -> [at : {"idle", "start", "put", "join"}, write : Writes \cup {None}]]
    BY DEF Init, Idle
  <2> QED
    BY <2>1, <2>2, <2>3 DEF Init, TypeOK, Databases
<1>2. HandsOK
  BY WorkersFinite DEF Init, HandsOK, Idle
<1>3. Taken = {} /\ Len(queue) = 0
  BY DEF Init, Taken
<1> QED
  BY <1>1, <1>2, <1>3, FS_EmptySet DEF Init, WriterInv, UnfinishedIsCounted

\* Every step of a caller or of a worker keeps the count of unfinished tasks.
LEMMA WriterInvStep == ASSUME WriterConstants, WriterInv, [Next]_vars PROVE WriterInv'
<1> USE DEF WriterInv
<1> DEFINE Clients_ == [at : {"idle", "start", "put", "join"}, write : Writes \cup {None}]
           Workers_ == [at : {"get", "apply", "done", "dead"}, write : Writes \cup {None}]
\* A client's step that leaves the workers alone.
<1>c. ASSUME NEW c \in Clients, NEW r \in Clients_, client' = [client EXCEPT ![c] = r],
             r.at \in {"start", "put"} => r.write \in Writes, r.at = "put" => thread',
             UNCHANGED <<db, queue, unfinished, worker, refused, asked>>,
             started' \in Nat, thread' \in BOOLEAN, calls' \in Nat,
             thread' <=> started' > 0, thread => thread', started' >= started
      PROVE  WriterInv'
  <2>1. client' \in [Clients -> Clients_]
    BY <1>c DEF TypeOK
  <2>2. TypeOK'
    BY <1>c, <2>1 DEF TypeOK
  <2>3. \A x \in Clients : client'[x] = IF x = c THEN r ELSE client[x]
    BY <1>c DEF TypeOK
  <2>4. \A w \in Workers : w > started' => w > started
    BY <1>c, WorkersFinite DEF TypeOK
  <2>5. HandsOK'
    BY <1>c, <2>3, <2>4 DEF HandsOK
  <2>6. UnfinishedIsCounted'
    BY <1>c DEF UnfinishedIsCounted, Taken
  <2> QED
    BY <2>2, <2>5, <2>6
\* A worker's step.
<1>w. ASSUME NEW w \in Workers, NEW r \in Workers_, worker' = [worker EXCEPT ![w] = r],
             r.at = "apply" => r.write \in Writes, w > started => r.at = "get",
             refused = {} => r.at # "dead", UNCHANGED <<started, thread, client, refused>>,
             queue' # <<>> => queue # <<>>
      PROVE  worker' \in [Workers -> Workers_] /\ HandsOK'
  <2>1. worker' \in [Workers -> Workers_]
    BY <1>w DEF TypeOK
  <2>2. \A x \in Workers : worker'[x] = IF x = w THEN r ELSE worker[x]
    BY <1>w DEF TypeOK
  <2> QED
    BY <1>w, <2>1, <2>2 DEF HandsOK
<1>1. ASSUME NEW c \in Clients, NEW w \in Writes, Request(c, w) PROVE WriterInv'
  <2> DEFINE r == [at |-> IF thread THEN "put" ELSE "start", write |-> w]
  <2>1. /\ r \in Clients_ /\ r.write \in Writes /\ (r.at = "put" => thread)
        /\ client' = [client EXCEPT ![c] = r]
    BY <1>1 DEF Request
  <2>2. /\ UNCHANGED <<db, queue, unfinished, started, worker, thread, refused, asked>>
        /\ calls' \in Nat /\ started \in Nat /\ thread \in BOOLEAN
        /\ thread <=> started > 0
    BY <1>1 DEF Request, TypeOK, HandsOK
  <2>3. started' >= started /\ started' \in Nat /\ thread' \in BOOLEAN /\ calls' \in Nat
    BY <2>2
  <2>4. (thread' <=> started' > 0) /\ (thread => thread') /\ (r.at = "put" => thread')
    BY <2>1, <2>2
  <2> HIDE DEF r
  <2> QED
    BY <1>c, <2>1, <2>2, <2>3, <2>4
<1>2. ASSUME NEW c \in Clients, StartThread(c) PROVE WriterInv'
  <2> DEFINE r == [client[c] EXCEPT !.at = "put"]
  <2>1. r \in Clients_ /\ r.write \in Writes /\ client' = [client EXCEPT ![c] = r]
    BY <1>2 DEF StartThread, Step, TypeOK, HandsOK
  <2>2. /\ UNCHANGED <<db, queue, unfinished, worker, refused, asked, calls>>
        /\ calls \in Nat /\ thread' = TRUE /\ started' = started + 1 /\ started \in Nat
    BY <1>2 DEF StartThread, TypeOK
  <2>3. started' \in Nat /\ started' > 0 /\ started' >= started
    BY <2>2
  <2> HIDE DEF r
  <2> QED
    BY <1>c, <2>1, <2>2, <2>3
<1>3. ASSUME NEW c \in Clients, Put(c) PROVE WriterInv'
  <2>1. client[c].write \in Writes /\ thread /\ asked[Len(asked)] \in Databases
    <3>1. Len(asked) \in 1 .. Len(asked)
      BY EmptyIsShort DEF TypeOK
    <3> QED
      BY <1>3, <3>1 DEF Put, HandsOK, TypeOK
  <2>2. /\ queue' \in Seq(Writes) /\ Len(queue') = Len(queue) + 1 /\ Len(queue) \in Nat
        /\ asked' \in Seq(Databases) /\ asked' # <<>>
    BY <1>3, <2>1, AppliedType, AppendLast DEF Put, TypeOK
  <2>3. client' \in [Clients -> Clients_]
    BY <1>3 DEF Put, TypeOK, Idle
  <2>4. TypeOK'
    BY <1>3, <2>2, <2>3 DEF Put, TypeOK
  <2>5. HandsOK'
    BY <1>3, <2>1 DEF Put, HandsOK, Idle, TypeOK
  <2>6. IsFiniteSet(Taken) /\ Cardinality(Taken) \in Nat /\ Taken' = Taken
    BY <1>3, WorkersFinite, FS_Subset, FS_CardinalityType DEF Taken, Put
  <2> QED
    BY <1>3, <2>2, <2>4, <2>5, <2>6 DEF Put, UnfinishedIsCounted, TypeOK
<1>4. ASSUME NEW c \in Clients, BeginFetch(c) PROVE WriterInv'
  <2> DEFINE r == [client[c] EXCEPT !.at = "join"]
  <2>1. r \in Clients_ /\ r.at = "join" /\ client' = [client EXCEPT ![c] = r]
    BY <1>4 DEF BeginFetch, Step, TypeOK
  <2>2. /\ UNCHANGED <<db, queue, unfinished, started, worker, thread, calls, refused, asked>>
        /\ calls \in Nat /\ started \in Nat /\ thread \in BOOLEAN /\ (thread <=> started > 0)
    BY <1>4 DEF BeginFetch, TypeOK, HandsOK
  <2>3. started' >= started /\ started' \in Nat /\ thread' \in BOOLEAN /\ calls' \in Nat
    BY <2>2
  <2>4. (thread' <=> started' > 0) /\ (thread => thread') /\ (r.at = "put" => thread')
    BY <2>1, <2>2
  <2> HIDE DEF r
  <2> QED
    BY <1>c, <2>1, <2>2, <2>3, <2>4
<1>5. ASSUME NEW c \in Clients, Fetch(c) PROVE WriterInv'
  <2> DEFINE r == [client[c] EXCEPT !.at = "idle"]
  <2>1. r \in Clients_ /\ r.at = "idle" /\ client' = [client EXCEPT ![c] = r]
    BY <1>5 DEF Fetch, Step, TypeOK
  <2>2. /\ UNCHANGED <<db, queue, unfinished, started, worker, thread, calls, refused, asked>>
        /\ calls \in Nat /\ started \in Nat /\ thread \in BOOLEAN /\ (thread <=> started > 0)
    BY <1>5 DEF Fetch, TypeOK, HandsOK
  <2>3. started' >= started /\ started' \in Nat /\ thread' \in BOOLEAN /\ calls' \in Nat
    BY <2>2
  <2>4. (thread' <=> started' > 0) /\ (thread => thread') /\ (r.at = "put" => thread')
    BY <2>1, <2>2
  <2> HIDE DEF r
  <2> QED
    BY <1>c, <2>1, <2>2, <2>3, <2>4
<1>6. ASSUME NEW w \in Workers, Get(w) PROVE WriterInv'
  <2> DEFINE r == [at |-> "apply", write |-> Head(queue)]
  <2>1. /\ Head(queue) \in Writes /\ Tail(queue) \in Seq(Writes)
        /\ Len(Tail(queue)) = Len(queue) - 1 /\ Len(queue) \in Nat
    BY <1>6, TakeFirst DEF Get, CanGet, TypeOK
  <2>2. r \in Workers_ /\ r.at = "apply" /\ r.write = Head(queue)
    BY <2>1
  <2>3. worker' = [worker EXCEPT ![w] = r] /\ worker[w].at = "get" /\ ~(w > started)
    BY <1>6, WorkersFinite DEF Get, CanGet, TypeOK
  <2> HIDE DEF r
  <2>4. worker' \in [Workers -> Workers_] /\ HandsOK'
    BY <1>6, <1>w, <2>1, <2>2, <2>3 DEF Get, CanGet
  <2>5. Cardinality(Taken') = Cardinality(Taken) + 1 /\ Cardinality(Taken) \in Nat
    BY <2>2, <2>3, TakenGrows
  <2> QED
    <3>1. UNCHANGED <<db, unfinished, started, thread, client, calls, refused, asked>>
      BY <1>6 DEF Get
    <3>2. queue' = Tail(queue)
      BY <1>6 DEF Get
    <3>3. UnfinishedIsCounted'
      BY <2>1, <2>5, <3>1, <3>2 DEF UnfinishedIsCounted
    <3> QED
      BY <2>1, <2>4, <3>1, <3>2, <3>3 DEF TypeOK
<1>7. ASSUME NEW w \in Workers, Apply(w) PROVE WriterInv'
  <2> DEFINE r == [at |-> "done", write |-> None]
  <2>1. r \in Workers_ /\ r.at = "done" /\ worker' = [worker EXCEPT ![w] = r]
    BY <1>7 DEF Apply
  <2>2. worker[w].at = "apply" /\ worker[w].write \in Writes
    BY <1>7 DEF Apply, HandsOK
  <2> HIDE DEF r
  <2>3. worker' \in [Workers -> Workers_] /\ HandsOK'
    BY <1>7, <1>w, <2>1, <2>2 DEF Apply, HandsOK
  <2>4. Taken' = Taken
    BY <2>1, <2>2, TakenStays
  <2>5. db' \in Databases
    BY <1>7, <2>2, AppliedType DEF Apply, TypeOK
  <2> QED
    BY <1>7, <2>3, <2>4, <2>5 DEF Apply, TypeOK, UnfinishedIsCounted
<1>8. ASSUME NEW w \in Workers, Raise(w) PROVE WriterInv'
  <2> DEFINE r == [worker[w] EXCEPT !.at = "dead"]
  <2>1. r \in Workers_ /\ r.at = "dead" /\ worker' = [worker EXCEPT ![w] = r]
    BY <1>8 DEF Raise, TypeOK
  <2>2. worker[w].at = "apply" /\ refused # {}
    BY <1>8 DEF Raise
  <2> HIDE DEF r
  <2>3. worker' \in [Workers -> Workers_] /\ HandsOK'
    BY <1>8, <1>w, <2>1, <2>2 DEF Raise, HandsOK
  <2>4. Taken' = Taken
    BY <2>1, <2>2, TakenStays
  <2> QED
    BY <1>8, <2>3, <2>4 DEF Raise, TypeOK, UnfinishedIsCounted
<1>9. ASSUME NEW w \in Workers, TaskDone(w) PROVE WriterInv'
  <2> DEFINE r == [worker[w] EXCEPT !.at = "get"]
  <2>1. r \in Workers_ /\ r.at = "get" /\ worker' = [worker EXCEPT ![w] = r]
    BY <1>9 DEF TaskDone, TypeOK
  <2>2. worker[w].at = "done"
    BY <1>9 DEF TaskDone
  <2> HIDE DEF r
  <2>3. worker' \in [Workers -> Workers_] /\ HandsOK'
    BY <1>9, <1>w, <2>1, <2>2 DEF TaskDone, HandsOK
  <2>4. /\ Cardinality(Taken') = Cardinality(Taken) - 1 /\ Cardinality(Taken) \in Nat
        /\ Cardinality(Taken) # 0 /\ Len(queue) \in Nat
    <3>1. w \in Taken /\ IsFiniteSet(Taken)
      BY <2>2, WorkersFinite, FS_Subset DEF Taken
    <3> QED
      <4>1. worker[w].at # "get"
        BY <2>2
      <4>2. /\ Cardinality(Taken') = Cardinality(Taken) - 1 /\ Cardinality(Taken) \in Nat
        BY <2>1, <4>1, TakenShrinks
      <4>3. Cardinality(Taken) # 0
        BY <3>1, FS_EmptySet
      <4> QED
        BY <4>2, <4>3 DEF TypeOK
  <2> QED
    BY <1>9, <2>3, <2>4 DEF TaskDone, TypeOK, UnfinishedIsCounted
<1>10. CASE UNCHANGED vars
  BY <1>10 DEF vars, TypeOK, HandsOK, UnfinishedIsCounted, Taken
<1> QED
  BY <1>1, <1>2, <1>3, <1>4, <1>5, <1>6, <1>7, <1>8, <1>9, <1>10 DEF Next, Client, Worker

\* A fetch, and the finalizer of the process, never waits in vain: while writes are
\* not finished, a worker has one or can take one, or a client is about to put one,
\* whatever the race in _ensure_thread, as long as the database behind raises nothing.
THEOREM FetchesEnd == ASSUME WriterConstants PROVE Spec => []FetchIsNotStuck
<1>1. WriterInv => FetchIsNotStuck
  <2> SUFFICES ASSUME WriterInv, refused = {}, unfinished > 0
               PROVE  \E w \in Workers : CanGet(w) \/ worker[w].at \in {"apply", "done"}
    BY DEF FetchIsNotStuck
  <2> USE DEF WriterInv
  <2>1. CASE Taken # {}
    BY <2>1 DEF Taken, HandsOK, TypeOK
  <2>2. CASE Taken = {}
    <3>1. queue # <<>>
      BY <2>2, FS_EmptySet DEF UnfinishedIsCounted, TypeOK
    <3>2. 1 \in Workers /\ 1 <= started
      BY <3>1, WorkersFinite DEF HandsOK, TypeOK
    <3> QED
      BY <2>2, <3>1, <3>2 DEF Taken, CanGet
  <2> QED
    BY <2>1, <2>2
<1> QED
  BY <1>1, WriterInvInit, WriterInvStep, PTL DEF Spec

-----------------------------------------------------------------------------
\* Of one worker, the first is the only one to have taken anything.
LEMMA FirstWorks ==
  ASSUME WriterConstants, WriterInv, started <= 1, refused = {},
         NEW w \in Workers, w <= started \/ worker[w].at # "get"
  PROVE  w = 1
<1>1. w \in Nat /\ w >= 1 /\ started \in Nat
  BY WorkersFinite DEF Workers, WriterInv, TypeOK
<1>2. w <= started
  BY <1>1 DEF WriterInv, HandsOK
<1> QED
  BY <1>1, <1>2

\* Every step keeps the writes in the order in which they were asked for.
LEMMA InOrderStep ==
  ASSUME WriterConstants, WriterInv, InOrder, [Next]_vars PROVE InOrder'
<1> SUFFICES ASSUME started' <= 1, refused' = {} PROVE InOrder'
  BY DEF InOrder
<1> USE DEF WriterInv
<1>s. started \in Nat /\ started <= started' /\ refused' = refused
  BY DEF TypeOK, Next, Client, Worker, vars, Request, StartThread, Put, BeginFetch, Fetch, Get,
         Apply, Raise, TaskDone
<1> DEFINE n == Applying
<1>i. /\ started <= 1 /\ refused = {}
      /\ n \in 1 .. Len(asked) /\ db = asked[n]
      /\ InHand = 1 => asked[n + 1] = Applied(asked[n], worker[1].write)
      /\ \A i \in 1 .. Len(queue) :
           asked[n + InHand + i] = Applied(asked[n + InHand + i - 1], queue[i])
  <2>1. started' \in Nat
    BY WriterInvStep DEF TypeOK
  <2>2. started <= 1 /\ refused = {}
    BY <1>s, <2>1
  <2> HIDE DEF n
  <2> QED
    BY <2>2 DEF InOrder, n
<1>l. /\ Len(asked) \in Nat /\ Len(queue) \in Nat /\ InHand \in {0, 1}
      /\ n = Len(asked) - Len(queue) - InHand
  BY DEF TypeOK, InHand, Applying
\* A step that touches neither the lists nor what is in the worker's hands.
<1>u. ASSUME UNCHANGED <<db, queue, asked>>, worker'[1].at = "apply" <=> worker[1].at = "apply",
             worker'[1].at = "apply" => worker'[1].write = worker[1].write
      PROVE  InOrder'
  <2>1. InHand' = InHand /\ Applying' = n
    BY <1>u DEF InHand, Applying
  <2>2. InHand = 1 => worker'[1].write = worker[1].write
    BY <1>u DEF InHand
  <2> HIDE DEF n
  <2> QED
    BY <1>i, <1>u, <2>1, <2>2 DEF InOrder
<1>1. ASSUME NEW c \in Clients,
             \/ \E w \in Writes : Request(c, w)
             \/ StartThread(c) \/ BeginFetch(c) \/ Fetch(c)
      PROVE  InOrder'
  <2>1. UNCHANGED <<db, queue, asked, worker>>
    BY <1>1 DEF Request, StartThread, BeginFetch, Fetch
  <2> QED
    BY <1>u, <2>1
<1>2. ASSUME NEW c \in Clients, Put(c) PROVE InOrder'
  <2> DEFINE e == Applied(asked[Len(asked)], client[c].write)
             m == Len(queue) + 1
  <2>1. /\ UNCHANGED <<db, worker, started, refused>>
        /\ queue' = Append(queue, client[c].write) /\ asked' = Append(asked, e)
    BY <1>2 DEF Put
  <2>2. client[c].write \in Writes
    BY <1>2 DEF Put, HandsOK
  <2>3. e \in Databases
    <3>1. Len(asked) \in 1 .. Len(asked)
      BY EmptyIsShort DEF TypeOK
    <3>2. asked[Len(asked)] \in Databases
      BY <3>1 DEF TypeOK
    <3> QED
      BY <2>2, <3>2, AppliedType
  <2>4. /\ Len(queue') = m /\ queue'[m] = client[c].write
        /\ \A i \in 1 .. Len(queue) : queue'[i] = queue[i]
    BY <2>1, <2>2, AppendLast DEF TypeOK
  <2> HIDE DEF e
  <2>5. /\ Len(asked') = Len(asked) + 1 /\ asked'[Len(asked) + 1] = e
        /\ \A i \in 1 .. Len(asked) : asked'[i] = asked[i]
    BY <2>1, <2>3, AppendLast DEF TypeOK
  <2>6. InHand' = InHand
    BY <2>1 DEF InHand
  <2>7. Applying' = n
    BY <1>l, <2>4, <2>5, <2>6 DEF Applying
  <2> HIDE DEF n
  <2>8. n \in 1 .. Len(asked') /\ db' = asked'[n]
    BY <1>i, <1>l, <2>1, <2>5
  <2>9. InHand = 1 => asked'[n + 1] = Applied(asked'[n], worker'[1].write)
    BY <1>i, <1>l, <2>1, <2>5
  <2>10. ASSUME NEW i \in 1 .. m
         PROVE  asked'[n + InHand + i] = Applied(asked'[n + InHand + i - 1], queue'[i])
    <3>1. CASE i \in 1 .. Len(queue)
      <4>1. n + InHand + i \in 1 .. Len(asked) /\ n + InHand + i - 1 \in 1 .. Len(asked)
        BY <1>i, <1>l, <3>1
      <4> QED
        BY <1>i, <2>4, <2>5, <3>1, <4>1
    <3>2. CASE i = m
      <4>1. n + InHand + i = Len(asked) + 1 /\ n + InHand + i - 1 = Len(asked)
        BY <1>l, <3>2
      <4>2. Len(asked) \in 1 .. Len(asked)
        BY <1>i, <1>l
      <4> QED
        BY <2>4, <2>5, <3>2, <4>1, <4>2 DEF e
    <3> QED
      BY <1>l, <3>1, <3>2
  <2> QED
    BY <2>4, <2>6, <2>7, <2>8, <2>9, <2>10 DEF InOrder
<1>3. ASSUME NEW w \in Workers, Get(w) PROVE InOrder'
  <2>1. w = 1
    BY <1>3, <1>i, FirstWorks DEF Get, CanGet
  <2>2. /\ UNCHANGED <<db, asked, started, refused>> /\ queue' = Tail(queue)
        /\ worker'[1] = [at |-> "apply", write |-> Head(queue)]
    BY <1>3, <2>1 DEF Get, TypeOK
  <2>3. InHand = 0 /\ InHand' = 1
    BY <1>3, <2>1, <2>2 DEF Get, CanGet, InHand
  <2>4. /\ Head(queue) = queue[1] /\ Len(queue) # 0 /\ Len(queue') = Len(queue) - 1
        /\ \A i \in 1 .. Len(queue) - 1 : queue'[i] = queue[i + 1]
    BY <1>3, <2>2, TakeFirst DEF Get, CanGet, TypeOK
  <2>5. Applying' = n
    BY <1>l, <2>2, <2>3, <2>4 DEF Applying
  <2> HIDE DEF n
  <2>6. asked[n + 1] = Applied(asked[n], worker'[1].write)
    <3>1. 1 \in 1 .. Len(queue) /\ n + InHand + 1 = n + 1 /\ n + InHand + 1 - 1 = n
      BY <1>i, <1>l, <2>3, <2>4
    <3> QED
      BY <1>i, <2>2, <2>4, <3>1
  <2>7. ASSUME NEW i \in 1 .. Len(queue')
        PROVE  asked[n + 1 + i] = Applied(asked[n + 1 + i - 1], queue'[i])
    <3>1. /\ i + 1 \in 1 .. Len(queue) /\ i \in 1 .. Len(queue) - 1
          /\ n + InHand + (i + 1) = n + 1 + i /\ n + InHand + (i + 1) - 1 = n + 1 + i - 1
      BY <1>i, <1>l, <2>3, <2>4
    <3> QED
      BY <1>i, <2>4, <3>1
  <2> QED
    BY <1>i, <2>2, <2>3, <2>5, <2>6, <2>7 DEF InOrder
<1>4. ASSUME NEW w \in Workers, Apply(w) PROVE InOrder'
  <2>1. w = 1 /\ worker[1].at = "apply"
    BY <1>4, <1>i, FirstWorks DEF Apply
  <2>2. /\ UNCHANGED <<asked, queue, started, refused>> /\ db' = Applied(db, worker[1].write)
        /\ worker'[1].at = "done"
    BY <1>4, <2>1 DEF Apply, TypeOK
  <2>3. InHand = 1 /\ InHand' = 0
    BY <2>1, <2>2 DEF InHand
  <2>4. Applying' = n + 1
    BY <1>l, <2>2, <2>3 DEF Applying
  <2> HIDE DEF n
  <2>5. n + 1 \in 1 .. Len(asked) /\ db' = asked[n + 1]
    BY <1>i, <1>l, <2>2, <2>3
  <2>6. ASSUME NEW i \in 1 .. Len(queue)
        PROVE  asked[n + 1 + 0 + i] = Applied(asked[n + 1 + 0 + i - 1], queue[i])
    <3>1. n + InHand + i = n + 1 + 0 + i /\ n + InHand + i - 1 = n + 1 + 0 + i - 1
      BY <1>i, <2>3
    <3> QED
      BY <1>i, <3>1
  <2> QED
    BY <2>2, <2>3, <2>4, <2>5, <2>6 DEF InOrder
<1>5. ASSUME NEW w \in Workers, Raise(w) PROVE InOrder'
  BY <1>5, <1>i DEF Raise
<1>6. ASSUME NEW w \in Workers, TaskDone(w) PROVE InOrder'
  <2>1. w = 1 /\ worker[1].at = "done"
    BY <1>6, <1>i, FirstWorks DEF TaskDone
  <2>2. UNCHANGED <<db, asked, queue>> /\ worker'[1].at = "get"
    BY <1>6, <2>1 DEF TaskDone, TypeOK
  <2> QED
    BY <1>u, <2>1, <2>2
<1>7. CASE UNCHANGED vars
  BY <1>7, <1>u DEF vars
<1>8. ASSUME NEW c \in Clients, Client(c) PROVE InOrder'
  <2>1. CASE Put(c)
    BY <1>2, <2>1
  <2>2. CASE ~Put(c)
    BY <1>1, <1>8, <2>2 DEF Client
  <2> QED
    BY <2>1, <2>2
<1>9. ASSUME NEW w \in Workers, Worker(w) PROVE InOrder'
  BY <1>3, <1>4, <1>5, <1>6, <1>9 DEF Worker
<1> QED
  BY <1>7, <1>8, <1>9 DEF Next

\* A fetch reads when no write is in the queue or in a worker's hands and, if there
\* never was more than one worker, what it reads is what all the writes put before
\* make of the database in their order.
THEOREM FetchIsCurrent == ASSUME WriterConstants PROVE Spec => FetchSeesWrites
<1>1. Init => InOrder
  <2> SUFFICES ASSUME Init PROVE InOrder
    OBVIOUS
  <2>1. Len(asked) = 1 /\ asked[1] = {} /\ Len(queue) = 0 /\ InHand = 0
    BY WorkersFinite DEF Init, InHand
  <2> QED
    BY <2>1 DEF Init, InOrder, Applying
<1>2. WriterInv /\ InOrder =>
        \A c \in Clients : Fetch(c) /\ refused = {} =>
          /\ queue = <<>> /\ \A w \in Workers : worker[w].at = "get"
          /\ started <= 1 => db = asked[Len(asked)]
  <2> SUFFICES ASSUME WriterInv, InOrder, refused = {}, unfinished = 0
               PROVE  /\ queue = <<>> /\ \A w \in Workers : worker[w].at = "get"
                      /\ started <= 1 => db = asked[Len(asked)]
    BY DEF Fetch
  <2>1. queue = <<>> /\ \A w \in Workers : worker[w].at = "get"
    BY NothingLeft
  <2>2. Len(queue) = 0 /\ InHand = 0 /\ Len(asked) \in Nat
    BY <2>1, WorkersFinite DEF InHand, WriterInv, TypeOK
  <2> QED
    BY <2>1, <2>2 DEF InOrder, Applying
<1> QED
  BY <1>1, <1>2, WriterInvInit, WriterInvStep, InOrderStep, PTL DEF Spec, FetchSeesWrites
=============================================================================
