--------------------------- MODULE BackgroundWriter ---------------------------
(***************************************************************************)
(* BackgroundWriteDatabase (database.py): writes are queued, and a worker  *)
(* thread applies them to the database behind; fetch waits until there are *)
(* none left, and so does the finalizer that runs when the process exits.  *)
(*                                                                         *)
(* The database behind is a set of <<key, value>>; it may raise an error.  *)
(***************************************************************************)
EXTENDS Integers, Sequences, FiniteSets

CONSTANTS
  Clients,    \* threads that use the database
  Keys, Values,
  Refused,    \* writes at which the database behind raises: the cases explored
  MaxCalls,   \* bound: writes that are requested
  None        \* no write

Workers == 1 .. Cardinality(Clients)

Save(k, v)    == [method |-> "save", src |-> k, dest |-> k, value |-> v]
Delete(k, v)  == [method |-> "delete", src |-> k, dest |-> k, value |-> v]
Move(k, d, v) == [method |-> "move", src |-> k, dest |-> d, value |-> v]

Writes == {Save(k, v) : k \in Keys, v \in Values}
            \cup {Delete(k, v) : k \in Keys, v \in Values}
            \cup {Move(k, d, v) : k \in Keys, d \in Keys, v \in Values}

WriterConstants == Clients # {} /\ IsFiniteSet(Clients)

VARIABLES
  db,          \* the database behind
  queue,       \* _queue
  unfinished,  \* _queue.unfinished_tasks
  started,     \* the number of worker threads ever started
  worker,      \* what every worker is doing, and the write it took
  thread,      \* _thread is set
  client,      \* what every client is doing
  calls,       \* the number of writes requested
  refused,     \* the writes at which the database behind raises
  asked        \* history: the database after each write, had they been applied at once

vars == <<db, queue, unfinished, started, worker, thread, client, calls, refused, asked>>

\* save, delete and move of the database behind.
Applied(d, w) ==
  CASE w.method = "save"   -> d \cup {<<w.src, w.value>>}
    [] w.method = "delete" -> d \ {<<w.src, w.value>>}
    [] w.method = "move"   -> (d \ {<<w.src, w.value>>}) \cup {<<w.dest, w.value>>}

Idle == [at |-> "idle", write |-> None]
Step(c, at) == client' = [client EXCEPT ![c].at = at]

Init ==
  /\ db = {} /\ queue = <<>> /\ unfinished = 0
  /\ started = 0 /\ worker = [w \in Workers |-> [at |-> "get", write |-> None]]
  /\ thread = FALSE
  /\ client = [c \in Clients |-> Idle]
  /\ calls = 0
  /\ refused \in Refused
  /\ asked = <<{}>>

-----------------------------------------------------------------------------
\* _ensure_thread: is there a thread?
Request(c, w) ==
  /\ client[c] = Idle /\ calls < MaxCalls
  /\ calls' = calls + 1
  /\ client' = [client EXCEPT ![c] = [at |-> IF thread THEN "put" ELSE "start", write |-> w]]
  /\ UNCHANGED <<db, queue, unfinished, started, worker, thread, refused, asked>>

\* There was none, and there is now; another client may have found none as well.
StartThread(c) ==
  /\ client[c].at = "start"
  /\ thread' = TRUE
  /\ started' = started + 1
  /\ Step(c, "put")
  /\ UNCHANGED <<db, queue, unfinished, worker, calls, refused, asked>>

\* _queue.put
Put(c) ==
  /\ client[c].at = "put"
  /\ queue' = Append(queue, client[c].write)
  /\ unfinished' = unfinished + 1
  /\ asked' = Append(asked, Applied(asked[Len(asked)], client[c].write))
  /\ client' = [client EXCEPT ![c] = Idle]
  /\ UNCHANGED <<db, started, worker, thread, calls, refused>>

\* fetch, or the finalizer at the end of the process: _join, whose timeout only
\* makes it look again.
BeginFetch(c) ==
  /\ client[c] = Idle
  /\ Step(c, "join")
  /\ UNCHANGED <<db, queue, unfinished, started, worker, thread, calls, refused, asked>>

\* Mutant: the database behind is read without waiting.
FetchAtOnce(c) ==
  /\ client[c].at = "join"
  /\ Step(c, "idle")
  /\ UNCHANGED <<db, queue, unfinished, started, worker, thread, calls, refused, asked>>

\* Nothing is left to wait for: the database behind is read.
Fetch(c) ==
  /\ client[c].at = "join" /\ unfinished = 0
  /\ Step(c, "idle")
  /\ UNCHANGED <<db, queue, unfinished, started, worker, thread, calls, refused, asked>>

-----------------------------------------------------------------------------
\* _worker: get, apply, task_done.  The loop ends when the database raises.
CanGet(w) == w <= started /\ worker[w].at = "get" /\ queue # <<>>

Get(w) ==
  /\ CanGet(w)
  /\ worker' = [worker EXCEPT ![w] = [at |-> "apply", write |-> Head(queue)]]
  /\ queue' = Tail(queue)
  /\ UNCHANGED <<db, unfinished, started, thread, client, calls, refused, asked>>

Apply(w) ==
  /\ worker[w].at = "apply" /\ worker[w].write \notin refused
  /\ db' = Applied(db, worker[w].write)
  /\ worker' = [worker EXCEPT ![w] = [at |-> "done", write |-> None]]
  /\ UNCHANGED <<queue, unfinished, started, thread, client, calls, refused, asked>>

Raise(w) ==
  /\ worker[w].at = "apply" /\ worker[w].write \in refused
  /\ worker' = [worker EXCEPT ![w].at = "dead"]
  /\ UNCHANGED <<db, queue, unfinished, started, thread, client, calls, refused, asked>>

\* Mutant: the task is never reported as done.
TaskForgotten(w) ==
  /\ worker[w].at = "done"
  /\ worker' = [worker EXCEPT ![w].at = "get"]
  /\ UNCHANGED <<db, queue, unfinished, started, thread, client, calls, refused, asked>>

TaskDone(w) ==
  /\ worker[w].at = "done"
  /\ worker' = [worker EXCEPT ![w].at = "get"]
  /\ unfinished' = unfinished - 1
  /\ UNCHANGED <<db, queue, started, thread, client, calls, refused, asked>>

Client(c) == (\E w \in Writes : Request(c, w)) \/ StartThread(c) \/ Put(c) \/ BeginFetch(c) \/ Fetch(c)
Worker(w) == Get(w) \/ Apply(w) \/ Raise(w) \/ TaskDone(w)

Next == (\E c \in Clients : Client(c)) \/ (\E w \in Workers : Worker(w))

Spec == Init /\ [][Next]_vars

-----------------------------------------------------------------------------
\* "Calls to fetch wait for any enqueued writes to finish": when fetch reads, no
\* write is under way, and it finds what all the writes requested before make of
\* the database in the order they were requested, unless the race in
\* _ensure_thread started a second worker and one write overtook another.
FetchSeesWrites ==
  [][\A c \in Clients : Fetch(c) /\ refused = {} =>
       /\ queue = <<>> /\ \A w \in Workers : worker[w].at = "get"
       /\ started <= 1 => db = asked[Len(asked)]]_vars

\* Every fetch ends, and so does the process, whose finalizer joins without a bound
\* ("avoid an unbounded timeout during gc", but _join starts over when its timeout
\* passes): while there is something to wait for, some thread can go on.  A write that
\* raises breaks this, since its task stays unfinished and its worker is dead.
FetchIsNotStuck ==
  (refused = {} /\ unfinished > 0) =>
    \/ \E w \in Workers : CanGet(w) \/ worker[w].at \in {"apply", "done"}
    \/ \E c \in Clients : client[c].at \in {"start", "put"}
=============================================================================
