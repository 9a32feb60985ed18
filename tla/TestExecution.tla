---------------------------- MODULE TestExecution ----------------------------
(***************************************************************************)
(* One test decorated with @given (core.py), called by several threads:    *)
(* @reproduce_failure, the explicit examples, the engine, and the replay   *)
(* of the failures it found, down to what the caller sees.                 *)
(*                                                                         *)
(* The engine is external here (ConjectureRunner models it): it runs test  *)
(* cases in any order and keeps the smallest failure of every origin.      *)
(* Test cases are numbers, the smaller the simpler.  Running one takes     *)
(* time: other threads come and go between its Begin and its end.          *)
(***************************************************************************)
EXTENDS Integers, Sequences, SequencesExt

CONSTANTS
  Threads,     \* threads that call the test
  Cases,       \* its test cases
  Origins,     \* where in the test an exception may come from
  Tests,       \* the tests explored, with their settings
  MaxRuns,     \* bound: test cases one engine runs
  None         \* no test case, no exception

\* A test may do one of a set of things with a case: end as it says, in time,
\* near the deadline (up to a quarter above it) or slowly.
Ends == {"return", "assume", "stop", "skip"} \cup Origins
Behaviors == [ends : Ends, time : {"fast", "near", "slow"}]
Failures == Origins \cup {"deadline", "assertion", "invalid", "flaky"}

TestConstants ==
  /\ Cases \subseteq Nat /\ None \notin Cases /\ None \notin Failures
  /\ Origins \cap {"return", "assume", "stop", "skip", "deadline", "assertion", "invalid",
                   "flaky", "did_not_reproduce", "unsatisfiable"} = {}
  /\ \A x \in Tests :
    /\ \A c \in Cases : x.does[c] \subseteq Behaviors /\ x.does[c] # {}
    /\ x.cleans \in [Cases -> Origins \cup {None}]  \* a cleanup() that raises
    /\ x.examples \in Seq([case : Cases, raises : SUBSET Ends])  \* @example(), with .xfail()
    /\ x.blob \in Cases \cup {None}                 \* @reproduce_failure
    /\ x.phases \subseteq {"explicit", "reuse", "generate"}
    /\ x.deadline \in BOOLEAN /\ x.report_multiple_bugs \in BOOLEAN

VARIABLES
  test,            \* the test
  thread_overlap,  \* for the threads in it, whether they were ever not alone
  call,            \* call[t]: how far the call of thread t is
  company,         \* history: the threads not alone during the test case they run
  joined           \* history: those that were alone until another came

vars == <<test, thread_overlap, call, company, joined>>

Reliable == \A c \in Cases : \A x, y \in test.does[c] : x = y

\* A call: what it is at, the test case it runs, the examples left to run, the
\* errors to report, what the engine ran and how often, the failures it holds, those
\* left to replay, and how the call ended.
NoCall ==
  [at |-> "new", runs |-> None, examples |-> <<>>, errors |-> <<>>,
   concluded |-> <<>>, count |-> 0, failing |-> <<>>, replays |-> {}, verdict |-> {}]

Go(t, r) == call' = [call EXCEPT ![t] = r]
Others(t) == DOMAIN thread_overlap \ {t}

Init ==
  /\ test \in Tests
  /\ thread_overlap = <<>>
  /\ call = [t \in Threads |-> NoCall]
  /\ company = {} /\ joined = {}

-----------------------------------------------------------------------------
\* Mutant: only the thread that comes learns that it is not alone.
EnterUnnoticed(t) ==
  /\ call[t].at = "new"
  /\ thread_overlap' = [u \in DOMAIN thread_overlap \cup {t} |->
                          IF u = t THEN DOMAIN thread_overlap # {} ELSE thread_overlap[u]]
  /\ Go(t, [NoCall EXCEPT !.at = IF test.blob # None THEN "reproduce" ELSE "explicit",
                          !.examples = test.examples])
  /\ company' = company \cup {u \in Threads : call[u].runs # None}
  /\ joined' = joined \cup {u \in DOMAIN thread_overlap : ~thread_overlap[u]}
  /\ UNCHANGED test

\* wrapped_test: a thread that enters overlaps with all that are there.
Enter(t) ==
  /\ call[t].at = "new"
  /\ thread_overlap' = [u \in DOMAIN thread_overlap \cup {t} |-> DOMAIN thread_overlap # {}]
  /\ Go(t, [NoCall EXCEPT !.at = IF test.blob # None THEN "reproduce" ELSE "explicit",
                          !.examples = test.examples])
  /\ company' = company \cup {u \in Threads : call[u].runs # None}
  /\ joined' = joined \cup {u \in DOMAIN thread_overlap : ~thread_overlap[u]}
  /\ UNCHANGED test

\* finally: del thread_overlap[threadid]
Leave(t) ==
  /\ call[t].at = "end"
  /\ thread_overlap' = [u \in Others(t) |-> thread_overlap[u]]
  /\ Go(t, [call[t] EXCEPT !.at = "out"])
  /\ UNCHANGED <<test, company, joined>>

\* The call ends with errors, or passes.
End(t, errors) ==
  Go(t, [NoCall EXCEPT !.at = "end", !.verdict = errors, !.failing = call[t].failing])

-----------------------------------------------------------------------------
\* execute_once of case c.
Begin(t, c) ==
  /\ call[t].runs = None
  /\ Go(t, [call[t] EXCEPT !.runs = c])
  /\ company' = IF Others(t) = {} THEN company \ {t} ELSE company \cup {t}
  /\ UNCHANGED <<test, thread_overlap, joined>>

\* Mutant: the final replay is the one that is given more time.
TooSlowTwice(overlap, time, is_final) ==
  /\ test.deadline /\ ~overlap
  /\ time \in IF is_final THEN {"slow"} ELSE {"near", "slow"}

\* The deadline is raised by a quarter but for the last run, and does not count for
\* threads that are not alone.
TooSlow(overlap, time, is_final) ==
  /\ test.deadline /\ ~overlap
  /\ time \in IF is_final THEN {"near", "slow"} ELSE {"slow"}

\* What comes out of the test for case c, if it does x, and, last, out of
\* BuildContext.__exit__.
Raised(overlap, c, x, is_final) ==
  IF test.cleans[c] # None THEN test.cleans[c]
  ELSE IF x.ends = "return" /\ TooSlow(overlap, x.time, is_final) THEN "deadline"
  ELSE x.ends

Runs(t, at) == call[t].at = at /\ call[t].runs # None

-----------------------------------------------------------------------------
\* @reproduce_failure
BeginReproduction(t) == call[t].at = "reproduce" /\ Begin(t, test.blob)

Reproduced(t) ==
  /\ Runs(t, "reproduce")
  /\ \E x \in test.does[call[t].runs] :
       LET e == Raised(thread_overlap[t], call[t].runs, x, TRUE) IN
       End(t, {IF e \in {"return", "stop", "assume"} THEN "did_not_reproduce" ELSE e})
  /\ UNCHANGED <<test, thread_overlap, company, joined>>

-----------------------------------------------------------------------------
\* execute_explicit_examples
BeginExample(t) ==
  /\ call[t].at = "explicit" /\ call[t].examples # <<>> /\ "explicit" \in test.phases
  /\ Begin(t, Head(call[t].examples).case)

\* The error that an example which ended with e makes, or None.
ExampleError(e, raises) ==
  IF e = "assume" THEN None
  ELSE IF raises = {} THEN IF e = "return" THEN None ELSE e
  ELSE IF e = "return" THEN "assertion"
  ELSE IF e \notin raises THEN e
  ELSE IF e \in {"skip", "stop"} THEN "invalid" ELSE None

\* The next example, if another bug may be reported with this one.
ExampleEnds(t) ==
  /\ Runs(t, "explicit")
  /\ \E x \in test.does[call[t].runs] :
       LET m == Head(call[t].examples)
           error == ExampleError(Raised(thread_overlap[t], call[t].runs, x, TRUE), m.raises)
           more == error = None \/ (test.report_multiple_bugs /\ error \in Failures)
       IN Go(t, [call[t] EXCEPT !.runs = None,
                   !.examples = IF more THEN Tail(@) ELSE <<>>,
                   !.errors = IF error = None THEN @ ELSE Append(@, error)])
  /\ UNCHANGED <<test, thread_overlap, company, joined>>

\* _raise_to_user: one error for every origin; a skip hides the others.
RaiseExamples(t) ==
  /\ call[t].at = "explicit" /\ call[t].runs = None
  /\ call[t].examples = <<>> /\ call[t].errors # <<>>
  /\ End(t, IF Last(call[t].errors) = "skip" THEN {"skip"} ELSE ToSet(call[t].errors))
  /\ UNCHANGED <<test, thread_overlap, company, joined>>

\* The examples passed, or are not to be run.
StartEngine(t) ==
  /\ call[t].at = "explicit" /\ call[t].runs = None /\ call[t].errors = <<>>
  /\ "explicit" \in test.phases => call[t].examples = <<>>
  /\ IF test.phases \cap {"reuse", "generate"} # {}
     THEN Go(t, [call[t] EXCEPT !.at = "engine"])
     ELSE End(t, IF "explicit" \in test.phases /\ test.examples # <<>> THEN {} ELSE {"skip"})
  /\ UNCHANGED <<test, thread_overlap, company, joined>>

-----------------------------------------------------------------------------
\* run_engine: runner.run() and _execute_once_for_engine
BeginCase(t, c) ==
  /\ call[t].at = "engine" /\ call[t].count < MaxRuns
  /\ Begin(t, c)

\* How the case concluded for the engine: an error of a frozen case is passed over.
Conclusion(e, x) ==
  CASE e \in Failures -> IF x.ends = "stop" THEN "stop" ELSE e
    [] OTHER -> e

\* The failures the engine holds, after case c concluded with e.
Holding(failing, e, c) ==
  IF e \in Failures /\ (e \notin DOMAIN failing \/ failing[e] > c)
  THEN [o \in DOMAIN failing \cup {e} |-> IF o = e THEN c ELSE failing[o]]
  ELSE failing

\* A skip stops the engine; another conclusion than the last time is flaky.
CaseEnds(t) ==
  /\ Runs(t, "engine")
  /\ \E x \in test.does[call[t].runs] :
       LET c == call[t].runs
           r == call[t]
           e == Conclusion(Raised(thread_overlap[t], c, x, FALSE), x)
       IN IF e = "skip" THEN End(t, {"skip"})
          ELSE IF c \in DOMAIN r.concluded /\ r.concluded[c] # e THEN End(t, {"flaky"})
          ELSE Go(t, [r EXCEPT !.runs = None, !.count = @ + 1,
                        !.concluded = [d \in DOMAIN @ \cup {c} |-> IF d = c THEN e ELSE @[d]],
                        !.failing = Holding(@, e, c)])
  /\ UNCHANGED <<test, thread_overlap, company, joined>>

\* Mutant: the other bugs are dropped though all should be reported.
FalsifyingLast(failing) ==
  {{o} : o \in {p \in DOMAIN failing : \A q \in DOMAIN failing : failing[p] <= failing[q]}}

\* What falsifying_test_cases may be: all that failed, or only the smallest unless
\* several bugs are reported.
Falsifying(failing) ==
  IF test.report_multiple_bugs THEN {DOMAIN failing}
  ELSE {{o} : o \in {p \in DOMAIN failing : \A q \in DOMAIN failing : failing[p] <= failing[q]}}

\* Nothing was run; or nothing failed; or the failures are replayed.
EngineStops(t) ==
  /\ call[t].at = "engine" /\ call[t].runs = None
  /\ LET r == call[t] IN
        IF r.count = 0
        THEN End(t, IF "explicit" \in test.phases /\ test.examples # <<>> THEN {} ELSE {"skip"})
        ELSE IF DOMAIN r.failing # {}
        THEN \E replays \in Falsifying(r.failing) :
               Go(t, [r EXCEPT !.at = "replay", !.replays = replays])
        ELSE End(t, IF \E c \in DOMAIN r.concluded : r.concluded[c] = "return"
                    THEN {} ELSE {"unsatisfiable"})
  /\ UNCHANGED <<test, thread_overlap, company, joined>>

-----------------------------------------------------------------------------
\* sorted(interesting_test_cases.values(), key=sort_key, reverse=True)
BeginReplay(t) ==
  /\ call[t].at = "replay"
  /\ LET r == call[t] IN
     \E o \in r.replays :
       /\ \A p \in r.replays : r.failing[p] <= r.failing[o]
       /\ Begin(t, r.failing[o])

\* Whatever is raised now is reported, in place of the failure if it is another.
ReplayEnds(t) ==
  /\ Runs(t, "replay")
  /\ \E x \in test.does[call[t].runs], o \in call[t].replays :
       LET e == Raised(thread_overlap[t], call[t].runs, x, TRUE)
           error == IF e \in {"return", "stop", "assume"} THEN "flaky" ELSE e
       IN /\ call[t].failing[o] = call[t].runs
          /\ Go(t, [call[t] EXCEPT !.runs = None, !.replays = @ \ {o},
                      !.errors = Append(@, error)])
  /\ UNCHANGED <<test, thread_overlap, company, joined>>

RaiseFailures(t) ==
  /\ call[t].at = "replay" /\ call[t].runs = None /\ call[t].replays = {}
  /\ End(t, ToSet(call[t].errors))
  /\ UNCHANGED <<test, thread_overlap, company, joined>>

Next == \E t \in Threads :
  \/ Enter(t) \/ Leave(t)
  \/ BeginReproduction(t) \/ Reproduced(t)
  \/ BeginExample(t) \/ ExampleEnds(t) \/ RaiseExamples(t) \/ StartEngine(t)
  \/ (\E c \in Cases : BeginCase(t, c)) \/ CaseEnds(t) \/ EngineStops(t)
  \/ BeginReplay(t) \/ ReplayEnds(t) \/ RaiseFailures(t)

Spec == Init /\ [][Next]_vars

-----------------------------------------------------------------------------
\* "we disable the deadline check under concurrent threads, since cpython may switch
\* away from a thread for arbitrarily long": a test case misses its deadline only if
\* no other thread was in the test while it ran.
DeadlineOnlyAlone ==
  \A t \in company : call[t].runs # None => ~TooSlow(thread_overlap[t], "slow", FALSE)

\* A test whose every case always ends in the same way, after the same time, is not
\* reported as flaky wherever that time lies about the deadline, unless another
\* thread comes before the replay: the deadline does not count then, and the replay
\* is said to have kept it.
ReliableIsNotFlaky ==
  \A t \in Threads \ joined : Reliable => "flaky" \notin call[t].verdict

\* Failures the engine holds are not lost: the call raises an error then and, if
\* several bugs are to be reported and the test is reliable, every one of them.
FailuresAreReported ==
  \A t \in Threads : call[t].at = "end" /\ DOMAIN call[t].failing # {} =>
    /\ call[t].verdict # {}
    /\ (Reliable /\ t \notin joined /\ test.report_multiple_bugs) =>
         "skip" \in call[t].verdict \/ DOMAIN call[t].failing \subseteq call[t].verdict
=============================================================================
