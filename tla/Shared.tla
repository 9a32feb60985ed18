-------------------------------- MODULE Shared --------------------------------
(***************************************************************************)
(* What the threads and processes that run tests share: the recursion      *)
(* limit, the global random generators, the test itself, the directory of  *)
(* examples and the writer in the background.  They run side by side, a    *)
(* step being one of any component; no component reads what another keeps. *)
(*                                                                         *)
(* The components but the limiter are taken with what is proved of them.   *)
(***************************************************************************)
EXTENDS StackframeLimiter

CONSTANTS
  Generators, Global, Seeds, TestSeed, MaxUses,      \* of GlobalRandom
  Cases, Origins, Tests, MaxRuns,                    \* of TestExecution
  Procs, Keys, Values, Meta, Owners, CrossDevice,    \* of DirectoryDatabase
  Written, Refused, MaxCalls                         \* of BackgroundWriter

VARIABLES
  state, managed, hashes, depth, context, before, used, left, overlapped,
  test, thread_overlap, call, company, joined,
  dirs, files, torn, handles, stack, owner, exdev, pending, kept,
  db, queue, unfinished, started, worker, thread, client, calls, refused, asked

RandomVars    == <<state, managed, hashes, depth, context, before, used, left, overlapped>>
ExecutionVars == <<test, thread_overlap, call, company, joined>>
DirectoryVars == <<dirs, files, torn, handles, stack, owner, exdev, pending, kept>>
WriterVars    == <<db, queue, unfinished, started, worker, thread, client, calls, refused, asked>>

Random == INSTANCE GlobalRandomProofs WITH
  known <- hashes, top <- depth, frame <- context, outside <- left
Execution == INSTANCE TestExecutionProofs
Directory == INSTANCE DirectoryDatabaseProofs
Writer == INSTANCE BackgroundWriterProofs WITH Clients <- Threads, Values <- Written

ASSUME SharedConstants ==
  /\ Random!GlobalRandomConstants /\ Execution!TestConstants
  /\ Directory!DatabaseConstants /\ Writer!WriterConstants

-----------------------------------------------------------------------------
SharedVars == <<vars, RandomVars, ExecutionVars, DirectoryVars, WriterVars>>

SharedInit == Init /\ Random!Init /\ Execution!Init /\ Directory!Init /\ Writer!Init

LimiterStep   == Next /\ UNCHANGED <<RandomVars, ExecutionVars, DirectoryVars, WriterVars>>
RandomStep    == Random!Next /\ UNCHANGED <<vars, ExecutionVars, DirectoryVars, WriterVars>>
ExecutionStep == Execution!Next /\ UNCHANGED <<vars, RandomVars, DirectoryVars, WriterVars>>
DirectoryStep == Directory!Next /\ UNCHANGED <<vars, RandomVars, ExecutionVars, WriterVars>>
WriterStep    == Writer!Next /\ UNCHANGED <<vars, RandomVars, ExecutionVars, DirectoryVars>>

SharedNext == LimiterStep \/ RandomStep \/ ExecutionStep \/ DirectoryStep \/ WriterStep

SharedSpec == SharedInit /\ [][SharedNext]_SharedVars

-----------------------------------------------------------------------------
\* A context "handles random.seed without polluting global state" (entropy.py) and
\* random_module "restores the previous state afterwards" (core.py of the strategies).
\* With the contexts of two threads overlapping they do not.
RestoresOutside == Random!RestoresOutside

\* They do as long as the threads take turns.
AloneRestoresOutside == Random!AloneRestoresOutside

\* "missed alarms, not false alarms" (control.py): only use of random during a draw is noted.
WarnsOnlyOfUse == Random!WarnsOnlyOfUse

\* core.py "disable[s] the deadline check under concurrent threads".
DeadlineOnlyAlone == Execution!DeadlineOnlyAlone

\* core.py reports a test as flaky only if it is not reliable or a thread joined.
ReliableIsNotFlaky == Execution!ReliableIsNotFlaky

\* core.py: what a call found to fail is what its caller sees.
FailuresAreReported == Execution!FailuresAreReported

\* database.py: "Save value under key"; it stays until somebody asks for it to be
\* deleted, if the processes use keys of their own.
OwnSavesStick == Directory!OwnSavesStick

\* The same of keys that they share, which the code does not keep.
SavesStick == Directory!SavesStick

\* database.py: "Calls to fetch wait for any enqueued writes to finish".
FetchSeesWrites == Writer!FetchSeesWrites

\* While fetch or the finalizer waits for writes, some thread can go on with them.
FetchIsNotStuck == Writer!FetchIsNotStuck
=============================================================================
