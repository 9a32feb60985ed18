------------------------- MODULE TestExecutionProofs -------------------------
(***************************************************************************)
(* Proofs about TestExecution, for any test, any number of threads that    *)
(* call it and any number of test cases run.                               *)
(***************************************************************************)
EXTENDS TestExecution, TLAPS

\* The functions from a part of S to T.
Partial(S, T) == UNION {[D -> T] : D \in SUBSET S}

Running == {"reproduce", "explicit", "engine", "replay"}
Examples == [case : Cases, raises : SUBSET Ends]
Conclusions == Ends \cup {"deadline"}
Reports == Ends \cup Failures \cup {"did_not_reproduce", "unsatisfiable"}
Calls ==
  [at : Running \cup {"new", "end", "out"}, runs : Cases \cup {None}, examples : Seq(Examples),
   errors : Seq(Reports), concluded : Partial(Cases, Conclusions), count : Nat,
   failing : Partial(Failures, Cases), replays : SUBSET Failures, verdict : SUBSET Reports]

TypeOK ==
  /\ test \in Tests
  /\ DOMAIN thread_overlap \subseteq Threads
  /\ \A t \in DOMAIN thread_overlap : thread_overlap[t] \in BOOLEAN
  /\ call \in [Threads -> Calls]
  /\ company \subseteq Threads /\ joined \subseteq Threads

\* Threads in the test overlap as soon as there are two, and only they run test cases:
\* a thread whose test case has company knows it.
OverlapInv ==
  /\ \A t \in Threads : t \in DOMAIN thread_overlap <=> call[t].at \notin {"new", "out"}
  /\ \A t, u \in DOMAIN thread_overlap : t # u => thread_overlap[t]
  /\ \A t \in Threads : call[t].runs # None => call[t].at \in Running
  /\ \A t \in company : call[t].runs # None => thread_overlap[t]

\* A case of a reliable test concludes for the engine as it did before.
Concludes(overlap, c, e) ==
  \A x \in test.does[c] : Conclusion(Raised(overlap, c, x, FALSE), x) = e
Settled(r, overlap) ==
  /\ \A c \in DOMAIN r.concluded : Concludes(overlap, c, r.concluded[c])
  /\ \A o \in DOMAIN r.failing : Concludes(overlap, r.failing[o], o)

\* Every failure to replay is one that the engine holds, and if the test is reliable,
\* what is reported of those that were replayed is that they failed.
Replaying(r) ==
  /\ r.replays \subseteq DOMAIN r.failing
  /\ r.replays # {} \/ r.errors # <<>>
Replayed(r) ==
  /\ "flaky" \notin ToSet(r.errors)
  /\ test.report_multiple_bugs => DOMAIN r.failing \subseteq r.replays \cup ToSet(r.errors)

\* What a call reports at its end.
Reported(r) == DOMAIN r.failing # {} => r.verdict # {}
ReportedAll(r) ==
  /\ "flaky" \notin r.verdict
  /\ test.report_multiple_bugs => "skip" \in r.verdict \/ DOMAIN r.failing \subseteq r.verdict

CallOK(r, overlap, reliable) ==
  /\ r.at = "new" => r = NoCall
  /\ r.at = "reproduce" => test.blob # None
  /\ r.at \in Running => r.verdict = {}
  /\ r.at \in {"reproduce", "explicit"} => r.failing = <<>> /\ r.concluded = <<>>
  /\ r.at = "explicit" =>
       "flaky" \notin ToSet(r.errors) /\ (r.runs # None => r.examples # <<>>)
  /\ r.at = "engine" => r.errors = <<>> /\ (DOMAIN r.failing # {} => r.count > 0)
  /\ r.at = "replay" => Replaying(r)
  /\ r.at \in {"end", "out"} => Reported(r)
  /\ reliable /\ r.at \in {"engine", "replay"} => Settled(r, overlap)
  /\ reliable /\ r.at = "replay" => Replayed(r)
  /\ reliable /\ r.at \in {"end", "out"} => ReportedAll(r)

CallInv(t) == CallOK(call[t], thread_overlap[t], Reliable /\ t \notin joined)
CallsInv == \A t \in Threads : CallInv(t)
Inv == TypeOK /\ OverlapInv /\ CallsInv

-----------------------------------------------------------------------------
\* The values of a partial function.
LEMMA PartialType ==
  ASSUME NEW S, NEW T, NEW f \in Partial(S, T)
  PROVE  DOMAIN f \subseteq S /\ \A x \in DOMAIN f : f[x] \in T
  BY DEF Partial

\* A partial function with one more value is one.
LEMMA PartialExtends ==
  ASSUME NEW S, NEW T, NEW f \in Partial(S, T), NEW x \in S, NEW y \in T
  PROVE  [z \in DOMAIN f \cup {x} |-> IF z = x THEN y ELSE f[z]] \in Partial(S, T)
<1> DEFINE g == [z \in DOMAIN f \cup {x} |-> IF z = x THEN y ELSE f[z]]
           D == DOMAIN f \cup {x}
<1>1. D \in SUBSET S
  BY PartialType
<1>2. g \in [D -> T]
  BY PartialType
<1> QED
  BY <1>1, <1>2 DEF Partial

\* The empty function is a partial function.
LEMMA EmptyPartial ==
  ASSUME NEW S, NEW T PROVE <<>> \in Partial(S, T) /\ DOMAIN <<>> = {}
<1>1. DOMAIN <<>> = {}
  OBVIOUS
<1>2. <<>> \in [{} -> T] /\ {} \in SUBSET S
  OBVIOUS
<1> QED
  BY <1>1, <1>2 DEF Partial

\* What is in a list when an element is appended.
LEMMA AppendSet ==
  ASSUME NEW S, NEW s \in Seq(S), NEW e \in S
  PROVE  /\ Append(s, e) \in Seq(S) /\ Append(s, e) # <<>>
         /\ ToSet(Append(s, e)) = ToSet(s) \cup {e}
<1>1. /\ Append(s, e) \in Seq(S) /\ Len(Append(s, e)) = Len(s) + 1 /\ Len(s) \in Nat
      /\ \A i \in 1 .. Len(s) : Append(s, e)[i] = s[i]
      /\ Append(s, e)[Len(s) + 1] = e
  OBVIOUS
<1>2. Len(<<>>) = 0
  OBVIOUS
<1>3. DOMAIN s = 1 .. Len(s) /\ DOMAIN Append(s, e) = 1 .. Len(s) + 1
  BY <1>1
<1>4. DOMAIN Append(s, e) = DOMAIN s \cup {Len(s) + 1}
  BY <1>1, <1>3
<1>5. ToSet(Append(s, e)) = ToSet(s) \cup {e}
  BY <1>1, <1>3, <1>4 DEF ToSet
<1> QED
  BY <1>1, <1>2, <1>5

\* Nothing is in the empty list.
LEMMA NoErrors == ToSet(<<>>) = {}
  BY DEF ToSet

\* What is in a list, its last element among it.
LEMMA ErrorsType ==
  ASSUME NEW S, NEW s \in Seq(S)
  PROVE  ToSet(s) \subseteq S /\ (s # <<>> => Last(s) \in ToSet(s) /\ ToSet(s) # {})
<1>1. \A i \in 1 .. Len(s) : s[i] \in S
  OBVIOUS
<1>2. DOMAIN s = 1 .. Len(s) /\ Len(s) \in Nat
  OBVIOUS
<1>3. s # <<>> => Len(s) \in 1 .. Len(s)
  OBVIOUS
<1> QED
  BY <1>1, <1>2, <1>3 DEF ToSet, Last

-----------------------------------------------------------------------------
\* The words for what is not an exception of the test are none of its exceptions.
LEMMA WordsApart ==
  ASSUME TestConstants
  PROVE  /\ Conclusions \cap Failures = Origins \cup {"deadline"}
         /\ {"return", "assume", "stop", "skip", "flaky", "assertion", "invalid"}
              \cap (Origins \cup {"deadline"}) = {}
         /\ "flaky" \notin Conclusions /\ Conclusions \subseteq Reports
         /\ Failures \subseteq Reports
  BY DEF TestConstants, Conclusions, Ends, Failures, Reports

\* What a run of the test raises, too late or not, is a conclusion.
LEMMA RaisedType ==
  ASSUME TestConstants, test \in Tests, NEW overlap \in BOOLEAN, NEW c \in Cases,
         NEW x \in test.does[c], NEW is_final \in BOOLEAN
  PROVE  Raised(overlap, c, x, is_final) \in Conclusions /\ x.ends \in Ends
<1>1. x \in Behaviors /\ test.cleans \in [Cases -> Origins \cup {None}]
  BY DEF TestConstants
<1>2. x.ends \in Ends
  BY <1>1 DEF Behaviors
<1>3. test.cleans[c] # None => test.cleans[c] \in Ends
  BY <1>1 DEF Ends
<1> QED
  BY <1>2, <1>3 DEF Raised, Conclusions

\* What the engine makes of it is one too.
LEMMA ConclusionType ==
  ASSUME NEW e \in Conclusions, NEW x
  PROVE  Conclusion(e, x) \in Conclusions
  BY DEF Conclusion, Conclusions, Ends

\* A case that failed for the engine fails in the same way when it is replayed, if the
\* deadline counts then as it did.
LEMMA FailsAgain ==
  ASSUME TestConstants, test \in Tests, NEW overlap \in BOOLEAN, NEW c \in Cases,
         NEW x \in test.does[c],
         Conclusion(Raised(overlap, c, x, FALSE), x) \in Failures
  PROVE  /\ Raised(overlap, c, x, TRUE) = Conclusion(Raised(overlap, c, x, FALSE), x)
         /\ Raised(overlap, c, x, TRUE) \notin {"return", "stop", "assume", "flaky"}
<1> DEFINE e == Raised(overlap, c, x, FALSE)
<1>1. e \in Conclusions /\ x.ends \in Ends
  BY RaisedType
<1>2. e \in Failures /\ e = Conclusion(e, x)
  <2>1. "stop" \notin Failures
    BY DEF TestConstants, Failures
  <2> QED
    BY <2>1 DEF Conclusion
<1>3. e \notin {"return", "stop", "assume", "flaky"}
  BY <1>1, <1>2, WordsApart
<1>4. Raised(overlap, c, x, TRUE) = e
  BY <1>3 DEF Raised, TooSlow
<1> QED
  BY <1>2, <1>3, <1>4

-----------------------------------------------------------------------------
\* Before any call, nothing is settled and nobody is in the test.
LEMMA InitInv == ASSUME TestConstants PROVE Init => Inv
<1> SUFFICES ASSUME Init PROVE Inv
  OBVIOUS
<1>1. DOMAIN thread_overlap = {}
  BY EmptyPartial DEF Init
<1>2. NoCall \in Calls
  BY EmptyPartial DEF NoCall, Calls
<1>3. TypeOK /\ OverlapInv
  BY <1>1, <1>2 DEF Init, TypeOK, OverlapInv, NoCall, Running
<1>4. \A t \in Threads : CallInv(t)
  BY DEF Init, CallInv, CallOK, NoCall
<1> QED
  BY <1>3, <1>4 DEF Inv, CallsInv

\* The calls of other threads are as they were, unless another one joins them.
LEMMA OthersKeep ==
  ASSUME CallsInv, NEW t \in Threads, NEW u \in Threads,
         call'[u] = call[u], test' = test, joined \subseteq joined',
         \/ call[u].at \in {"new", "out"}
         \/ u \in joined'
         \/ thread_overlap'[u] = thread_overlap[u]
  PROVE  CallInv(u)'
<1> DEFINE r == call[u]
           o == thread_overlap[u]
           p == thread_overlap'[u]
           was == Reliable /\ u \notin joined
           is == (Reliable /\ u \notin joined)'
<1>1. CallOK(r, o, was)
  BY DEF CallsInv, CallInv
<1>2. is => was /\ (p = o \/ r.at \in {"new", "out"})
  BY DEF Reliable
<1> QED
  BY <1>1, <1>2 DEF CallInv, CallOK, Settled, Concludes, Raised, TooSlow, Replayed, Replaying,
     Reported, ReportedAll, NoCall

\* A step of a thread in the test that leaves it there with no case to run.
LEMMA StepInside ==
  ASSUME Inv, NEW t \in Threads, NEW r \in Calls, Go(t, r),
         UNCHANGED <<test, thread_overlap, company, joined>>,
         call[t].at \in Running, r.at \in Running \cup {"end"}, r.runs = None,
         CallOK(r, thread_overlap[t], Reliable /\ t \notin joined)
  PROVE  Inv'
<1>1. TypeOK'
  BY DEF Inv, TypeOK, Go
<1>2. OverlapInv'
  BY DEF Inv, TypeOK, OverlapInv, Go, Running
<1>3. ASSUME NEW u \in Threads PROVE CallInv(u)'
  <2>1. CASE u = t
    <3>1. call'[t] = r
      BY DEF Inv, TypeOK, Go
    <3> QED
      BY <2>1, <3>1 DEF CallInv, CallOK, Settled, Concludes, Raised, TooSlow, Replayed, Replaying,
         Reported, ReportedAll, NoCall, Reliable
  <2>2. CASE u # t
    <3>1. call'[u] = call[u]
      BY <2>2 DEF Inv, TypeOK, Go
    <3> QED
      BY <2>2, <3>1, OthersKeep DEF Inv
  <2> QED
    BY <2>1, <2>2
<1> QED
  BY <1>1, <1>2, <1>3 DEF Inv, CallsInv

\* A call ends; when it holds failures it ends with errors.
LEMMA StepEnds ==
  ASSUME TestConstants, Inv, NEW t \in Threads, NEW errors \in SUBSET Reports, End(t, errors),
         UNCHANGED <<test, thread_overlap, company, joined>>, call[t].at \in Running,
         DOMAIN call[t].failing # {} => errors # {},
         Reliable /\ t \notin joined =>
           /\ "flaky" \notin errors
           /\ test.report_multiple_bugs =>
                "skip" \in errors \/ DOMAIN call[t].failing \subseteq errors
  PROVE  Inv'
<1> DEFINE r == [NoCall EXCEPT !.at = "end", !.verdict = errors, !.failing = call[t].failing]
<1>1. call[t] \in Calls
  BY DEF Inv, TypeOK
<1>2. NoCall \in Calls
  BY EmptyPartial DEF NoCall, Calls
<1>3. r \in Calls
  BY <1>1, <1>2 DEF Calls
<1>4. /\ r.at = "end" /\ r.runs = None /\ r.verdict = errors
      /\ r.failing = call[t].failing
  BY DEF NoCall
<1>5. CallOK(r, thread_overlap[t], Reliable /\ t \notin joined)
  BY <1>4 DEF CallOK, Reported, ReportedAll, Running
<1>6. Go(t, r)
  BY DEF End
<1> HIDE DEF r
<1> QED
  BY <1>3, <1>4, <1>5, <1>6, StepInside

\* A call begins to run the test on a case.
LEMMA StepBegins ==
  ASSUME Inv, NEW t \in Threads, NEW c \in Cases, Begin(t, c), call[t].at \in Running,
         call[t].at = "explicit" => call[t].examples # <<>>
  PROVE  Inv'
<1> DEFINE r == [call[t] EXCEPT !.runs = c]
<1>1. call[t] \in Calls /\ t \in DOMAIN thread_overlap /\ call' = [call EXCEPT ![t] = r]
  BY DEF Inv, TypeOK, OverlapInv, Running, Begin, Go
<1>2. r \in Calls
  BY <1>1 DEF Calls
<1>3. /\ r.at = call[t].at /\ r.runs = c /\ r.failing = call[t].failing
      /\ r.concluded = call[t].concluded /\ r.errors = call[t].errors
      /\ r.replays = call[t].replays /\ r.count = call[t].count
      /\ r.examples = call[t].examples /\ r.verdict = call[t].verdict
  BY <1>1 DEF Calls
<1> HIDE DEF r
<1>4. call'[t] = r /\ \A u \in Threads \ {t} : call'[u] = call[u]
  BY <1>1 DEF Inv, TypeOK
<1>5. TypeOK'
  BY <1>1, <1>2 DEF Inv, TypeOK, Begin
<1>6. OverlapInv'
  <2>1. company' \subseteq company \cup {t}
    BY DEF Begin
  <2>2. t \in company' => thread_overlap[t]
    <3>1. t \in company' => Others(t) # {}
      BY DEF Begin
    <3> QED
      BY <1>1, <3>1 DEF Others, Inv, OverlapInv
  <2>3. UNCHANGED thread_overlap
    BY DEF Begin
  <2> QED
    BY <1>3, <1>4, <2>1, <2>2, <2>3 DEF Inv, TypeOK, OverlapInv, Running
<1>7. ASSUME NEW u \in Threads PROVE CallInv(u)'
  <2>0. UNCHANGED <<test, thread_overlap, joined>>
    BY DEF Begin
  <2>1. CASE u = t
    <3>1. CallOK(call[t], thread_overlap[t], Reliable /\ t \notin joined)
      BY DEF Inv, CallsInv, CallInv
    <3>2. r.at \in Running
      BY <1>3
    <3> QED
      BY <2>0, <2>1, <3>1, <3>2, <1>3, <1>4 DEF CallInv, CallOK, Settled, Concludes, Raised, TooSlow,
         Replayed, Replaying, Reliable, Running
  <2>2. CASE u # t
    BY <1>4, <2>0, <2>2, OthersKeep DEF Inv
  <2> QED
    BY <2>1, <2>2
<1> QED
  BY <1>5, <1>6, <1>7 DEF Inv, CallsInv

\* A thread calls the test: it is noted in thread_overlap.
LEMMA StepEnters ==
  ASSUME TestConstants, Inv, NEW t \in Threads, Enter(t) PROVE Inv'
<1> DEFINE r == [NoCall EXCEPT !.at = IF test.blob # None THEN "reproduce" ELSE "explicit",
                               !.examples = test.examples]
<1>1. call' = [call EXCEPT ![t] = r] /\ UNCHANGED test
  BY DEF Enter, Go
<1>2. r \in Calls
  <2>1. test.examples \in Seq(Examples)
    BY DEF Inv, TypeOK, TestConstants, Examples
  <2>2. NoCall \in Calls
    BY EmptyPartial DEF NoCall, Calls
  <2>3. (IF test.blob # None THEN "reproduce" ELSE "explicit") \in Running
    BY DEF Running
  <2> QED
    BY <2>1, <2>2, <2>3 DEF Calls
<1>3. /\ r.at \in {"reproduce", "explicit"} /\ r.runs = None /\ r.failing = <<>>
      /\ r.concluded = <<>> /\ r.errors = <<>> /\ r.verdict = {}
      /\ r.at = "reproduce" => test.blob # None
  BY DEF NoCall
<1> HIDE DEF r
<1>4. call'[t] = r /\ \A u \in Threads \ {t} : call'[u] = call[u]
  BY <1>1 DEF Inv, TypeOK
<1>5. /\ call[t].at = "new" /\ t \notin DOMAIN thread_overlap /\ call[t].runs = None
      /\ DOMAIN thread_overlap' = DOMAIN thread_overlap \cup {t}
      /\ \A u \in DOMAIN thread_overlap' : thread_overlap'[u] = (DOMAIN thread_overlap # {})
  BY DEF Enter, Inv, OverlapInv, Running
<1>6. \A u \in Threads : call[u].runs # None => u \in DOMAIN thread_overlap
  BY DEF Inv, OverlapInv, Running
<1>7. TypeOK'
  BY <1>1, <1>2, <1>5 DEF Inv, TypeOK, Enter
<1>8. OverlapInv'
  <2>1. \A u \in Threads : u \in DOMAIN thread_overlap' <=> call'[u].at \notin {"new", "out"}
    BY <1>3, <1>4, <1>5 DEF Inv, OverlapInv
  <2>2. \A u, v \in DOMAIN thread_overlap' : u # v => thread_overlap'[u]
    BY <1>5
  <2>3. \A u \in Threads : call'[u].runs # None => call'[u].at \in Running
    BY <1>3, <1>4 DEF Inv, OverlapInv
  <2>4. \A u \in company' : call'[u].runs # None => thread_overlap'[u]
    <3> SUFFICES ASSUME NEW u \in company', call'[u].runs # None PROVE thread_overlap'[u]
      OBVIOUS
    <3>1. u \in Threads /\ u # t /\ call[u].runs # None
      BY <1>3, <1>4 DEF Enter, Inv, TypeOK
    <3> QED
      BY <3>1, <1>5, <1>6
  <2> QED
    BY <2>1, <2>2, <2>3, <2>4 DEF OverlapInv
<1>9. ASSUME NEW u \in Threads PROVE CallInv(u)'
  <2>1. CASE u = t
    BY <1>1, <1>3, <1>4, <2>1, NoErrors DEF CallInv, CallOK
  <2>2. CASE u # t
    <3>1. joined \subseteq joined'
      BY DEF Enter
    <3>2. CASE u \notin DOMAIN thread_overlap
      BY <1>1, <1>4, <2>2, <3>1, <3>2, OthersKeep DEF Inv, OverlapInv
    <3>3. CASE u \in DOMAIN thread_overlap
      <4>1. thread_overlap'[u] = TRUE /\ thread_overlap[u] \in BOOLEAN
        BY <1>5, <3>3 DEF Inv, TypeOK
      <4>2. ~thread_overlap[u] => u \in joined'
        BY <3>3 DEF Enter
      <4>3. u \in joined' \/ thread_overlap'[u] = thread_overlap[u]
        BY <4>1, <4>2
      <4> QED
        BY <1>1, <1>4, <2>2, <3>1, <4>3, OthersKeep DEF Inv
    <3> QED
      BY <3>2, <3>3
  <2> QED
    BY <2>1, <2>2
<1> QED
  BY <1>7, <1>8, <1>9 DEF Inv, CallsInv

\* The call is over: the entry of the thread is removed.
LEMMA StepLeaves ==
  ASSUME Inv, NEW t \in Threads, Leave(t) PROVE Inv'
<1> DEFINE r == [call[t] EXCEPT !.at = "out"]
<1>1. /\ call[t] \in Calls /\ call[t].at = "end" /\ call' = [call EXCEPT ![t] = r]
      /\ UNCHANGED <<test, company, joined>>
  BY DEF Inv, TypeOK, Leave, Go
<1>2. r \in Calls
  BY <1>1 DEF Calls
<1>3. /\ r.at = "out" /\ r.runs = call[t].runs /\ r.failing = call[t].failing
      /\ r.verdict = call[t].verdict
  BY <1>1 DEF Calls
<1> HIDE DEF r
<1>4. call'[t] = r /\ \A u \in Threads \ {t} : call'[u] = call[u]
  BY <1>1 DEF Inv, TypeOK
<1>5. /\ DOMAIN thread_overlap' = DOMAIN thread_overlap \ {t}
      /\ \A u \in DOMAIN thread_overlap' : thread_overlap'[u] = thread_overlap[u]
  BY DEF Leave, Others
<1>6. TypeOK'
  BY <1>1, <1>2, <1>5 DEF Inv, TypeOK
<1>7. OverlapInv'
  <2>1. r.runs = None
    BY <1>1, <1>3 DEF Inv, OverlapInv, Running
  <2>2. \A u \in Threads : call'[u].runs # None => u \in DOMAIN thread_overlap'
    BY <1>4, <1>5, <2>1 DEF Inv, OverlapInv, Running
  <2>3. \A u \in Threads : u \in DOMAIN thread_overlap' <=> call'[u].at \notin {"new", "out"}
    BY <1>3, <1>4, <1>5 DEF Inv, OverlapInv
  <2>4. \A u, v \in DOMAIN thread_overlap' : u # v => thread_overlap'[u]
    BY <1>5 DEF Inv, OverlapInv
  <2>5. \A u \in Threads : call'[u].runs # None => call'[u].at \in Running
    BY <1>4, <2>1 DEF Inv, OverlapInv
  <2>6. \A u \in company' : call'[u].runs # None => thread_overlap'[u]
    BY <1>1, <1>4, <1>5, <2>1, <2>2 DEF Inv, TypeOK, OverlapInv
  <2> QED
    BY <2>3, <2>4, <2>5, <2>6 DEF OverlapInv
<1>8. ASSUME NEW u \in Threads PROVE CallInv(u)'
  <2>1. CASE u = t
    <3>1. CallOK(call[t], thread_overlap[t], Reliable /\ t \notin joined)
      BY DEF Inv, CallsInv, CallInv
    <3> QED
      BY <1>1, <1>3, <1>4, <2>1, <3>1 DEF CallInv, CallOK, Reported, ReportedAll, Reliable,
         Running
  <2>2. CASE u # t
    <3>1. call[u].at \in {"new", "out"} \/ thread_overlap'[u] = thread_overlap[u]
      BY <1>5, <2>2 DEF Inv, OverlapInv
    <3> QED
      BY <1>1, <1>4, <2>2, <3>1, OthersKeep DEF Inv
  <2> QED
    BY <2>1, <2>2
<1> QED
  BY <1>6, <1>7, <1>8 DEF Inv, CallsInv

-----------------------------------------------------------------------------
\* What is reported by way of _raise_to_user is never "flaky" before the engine runs.
LEMMA StepReproduced ==
  ASSUME TestConstants, Inv, NEW t \in Threads, Reproduced(t) PROVE Inv'
<1>1. PICK x \in test.does[call[t].runs] :
        LET e == Raised(thread_overlap[t], call[t].runs, x, TRUE) IN
        End(t, {IF e \in {"return", "stop", "assume"} THEN "did_not_reproduce" ELSE e})
  BY DEF Reproduced
<1> DEFINE e == Raised(thread_overlap[t], call[t].runs, x, TRUE)
           error == IF e \in {"return", "stop", "assume"} THEN "did_not_reproduce" ELSE e
<1>2. call[t] \in Calls /\ call[t].at = "reproduce" /\ call[t].runs # None
  BY DEF Reproduced, Runs, Inv, TypeOK
<1>3. call[t].runs \in Cases /\ thread_overlap[t] \in BOOLEAN
  BY <1>2 DEF Calls, Inv, TypeOK, OverlapInv, Running
<1>4. e \in Conclusions
  BY <1>3, RaisedType DEF Inv, TypeOK
<1>5. error \in Reports /\ error # "flaky"
  BY <1>4, WordsApart DEF Reports
<1>6. call[t].failing = <<>>
  BY <1>2 DEF Inv, CallsInv, CallInv, CallOK
<1>7. DOMAIN call[t].failing = {}
  BY <1>6, EmptyPartial
<1>8. End(t, {error})
  BY <1>1
<1> HIDE DEF error
<1> QED
  BY <1>2, <1>5, <1>7, <1>8, StepEnds DEF Reproduced, Running

\* An explicit example ends.
LEMMA StepExampleEnds ==
  ASSUME TestConstants, Inv, NEW t \in Threads, ExampleEnds(t) PROVE Inv'
<1> DEFINE m == Head(call[t].examples)
           Error(x) == ExampleError(Raised(thread_overlap[t], call[t].runs, x, TRUE), m.raises)
           More(x) == Error(x) = None \/ (test.report_multiple_bugs /\ Error(x) \in Failures)
           After(x) == [call[t] EXCEPT !.runs = None,
                          !.examples = IF More(x) THEN Tail(@) ELSE <<>>,
                          !.errors = IF Error(x) = None THEN @ ELSE Append(@, Error(x))]
<1>1. PICK x \in test.does[call[t].runs] : Go(t, After(x))
  BY DEF ExampleEnds
<1> DEFINE r == After(x)
           e == Raised(thread_overlap[t], call[t].runs, x, TRUE)
<1>2. call[t] \in Calls /\ call[t].at = "explicit" /\ call[t].runs # None
  BY DEF ExampleEnds, Runs, Inv, TypeOK
<1>3. call[t].runs \in Cases /\ thread_overlap[t] \in BOOLEAN
  BY <1>2 DEF Calls, Inv, TypeOK, OverlapInv, Running
<1>4. e \in Conclusions
  BY <1>3, RaisedType DEF Inv, TypeOK
<1>5. Error(x) # None => Error(x) \in Reports /\ Error(x) # "flaky"
  BY <1>4, WordsApart DEF ExampleError, Reports, Failures
<1> HIDE DEF e, Error, More
<1>6. (IF More(x) THEN Tail(call[t].examples) ELSE <<>>) \in Seq(Examples)
  <2>1. call[t].examples \in Seq(Examples) /\ call[t].examples # <<>>
    BY <1>2 DEF Calls, Inv, CallsInv, CallInv, CallOK
  <2>2. Tail(call[t].examples) \in Seq(Examples)
    BY <2>1
  <2> QED
    BY <2>2
<1>7. PICK s \in Seq(Reports) :
        /\ s = IF Error(x) = None THEN call[t].errors ELSE Append(call[t].errors, Error(x))
        /\ "flaky" \notin ToSet(s)
  <2>1. call[t].errors \in Seq(Reports) /\ "flaky" \notin ToSet(call[t].errors)
    BY <1>2 DEF Calls, Inv, CallsInv, CallInv, CallOK
  <2>2. CASE Error(x) = None
    BY <2>1, <2>2
  <2>3. CASE Error(x) # None
    <3> DEFINE error == Error(x)
    <3>1. error \in Reports /\ error # "flaky"
      BY <1>5, <2>3
    <3> HIDE DEF error
    <3>2. /\ Append(call[t].errors, error) \in Seq(Reports)
          /\ "flaky" \notin ToSet(Append(call[t].errors, error))
      BY <2>1, <3>1, AppendSet
    <3> QED
      BY <2>3, <3>2 DEF error
  <2> QED
    BY <2>2, <2>3
<1>8. r \in Calls
  BY <1>2, <1>6, <1>7 DEF Calls
<1>9. /\ r.at = "explicit" /\ r.runs = None /\ r.errors = s /\ r.verdict = call[t].verdict
      /\ r.failing = call[t].failing /\ r.concluded = call[t].concluded
  BY <1>2, <1>7 DEF Calls
<1>10. Go(t, r)
  BY <1>1
<1> HIDE DEF After, r
<1>11. CallOK(r, thread_overlap[t], Reliable /\ t \notin joined)
  BY <1>2, <1>7, <1>9 DEF CallOK, Inv, CallsInv, CallInv, Running
<1> QED
  BY <1>2, <1>8, <1>9, <1>10, <1>11, StepInside DEF ExampleEnds, Running

\* The failures of explicit examples are raised.
LEMMA StepRaiseExamples ==
  ASSUME TestConstants, Inv, NEW t \in Threads, RaiseExamples(t) PROVE Inv'
<1> DEFINE errors == IF Last(call[t].errors) = "skip" THEN {"skip"} ELSE ToSet(call[t].errors)
<1>1. call[t] \in Calls /\ call[t].at = "explicit" /\ call[t].errors # <<>>
  BY DEF RaiseExamples, Inv, TypeOK
<1>2. call[t].failing = <<>> /\ "flaky" \notin ToSet(call[t].errors)
  BY <1>1 DEF Inv, CallsInv, CallInv, CallOK
<1>3. ToSet(call[t].errors) \subseteq Reports /\ "skip" \in Reports
  BY <1>1, ErrorsType DEF Calls, Reports, Ends
<1>4. errors \in SUBSET Reports /\ "flaky" \notin errors
  BY <1>2, <1>3
<1>5. End(t, errors) /\ UNCHANGED <<test, thread_overlap, company, joined>>
  BY DEF RaiseExamples
<1>6. DOMAIN call[t].failing = {}
  BY <1>2, EmptyPartial
<1> HIDE DEF errors
<1> QED
  BY <1>1, <1>4, <1>5, <1>6, StepEnds DEF Running

\* The engine starts.
LEMMA StepStartEngine ==
  ASSUME TestConstants, Inv, NEW t \in Threads, StartEngine(t) PROVE Inv'
<1> DEFINE r == [call[t] EXCEPT !.at = "engine"]
<1>1. /\ call[t] \in Calls /\ call[t].at = "explicit" /\ call[t].errors = <<>>
      /\ call[t].runs = None /\ UNCHANGED <<test, thread_overlap, company, joined>>
  BY DEF StartEngine, Inv, TypeOK
<1>2. call[t].failing = <<>> /\ call[t].concluded = <<>> /\ call[t].verdict = {}
  BY <1>1 DEF Inv, CallsInv, CallInv, CallOK, Running
<1>3. DOMAIN call[t].failing = {} /\ DOMAIN call[t].concluded = {}
  BY <1>2, EmptyPartial
<1>4. CASE Go(t, r)
  <2>1. r \in Calls
    BY <1>1 DEF Calls, Running
  <2>2. /\ r.at = "engine" /\ r.runs = None /\ r.errors = <<>> /\ r.verdict = {}
        /\ r.failing = call[t].failing /\ r.concluded = call[t].concluded
    BY <1>1, <1>2 DEF Calls
  <2> HIDE DEF r
  <2>3. CallOK(r, thread_overlap[t], Reliable /\ t \notin joined)
    BY <1>3, <2>2 DEF CallOK, Settled
  <2> QED
    BY <1>1, <1>4, <2>1, <2>2, <2>3, StepInside DEF Running
<1>5. ASSUME NEW errors \in {{}, {"skip"}}, End(t, errors) PROVE Inv'
  <2>1. errors \in SUBSET Reports /\ "flaky" \notin errors
    BY DEF Reports, Ends
  <2> QED
    BY <1>1, <1>3, <1>5, <2>1, StepEnds DEF Running
<1>6. \/ Go(t, r)
      \/ End(t, IF "explicit" \in test.phases /\ test.examples # <<>> THEN {} ELSE {"skip"})
  BY DEF StartEngine
<1> QED
  BY <1>4, <1>5, <1>6

-----------------------------------------------------------------------------
\* A test case of the engine ends.
LEMMA StepCaseEnds ==
  ASSUME TestConstants, Inv, NEW t \in Threads, CaseEnds(t) PROVE Inv'
<1> DEFINE c == call[t].runs
           overlap == thread_overlap[t]
           E(x) == Conclusion(Raised(overlap, c, x, FALSE), x)
           After(x) == [call[t] EXCEPT !.runs = None, !.count = @ + 1,
                          !.concluded = [d \in DOMAIN @ \cup {c} |-> IF d = c THEN E(x) ELSE @[d]],
                          !.failing = Holding(@, E(x), c)]
<1>1. PICK x \in test.does[c] :
        IF E(x) = "skip" THEN End(t, {"skip"})
        ELSE IF c \in DOMAIN call[t].concluded /\ call[t].concluded[c] # E(x) THEN End(t, {"flaky"})
        ELSE Go(t, After(x))
  BY DEF CaseEnds
<1> DEFINE e == E(x)
<1>2. /\ call[t] \in Calls /\ call[t].at = "engine" /\ c # None
      /\ UNCHANGED <<test, thread_overlap, company, joined>>
  BY DEF CaseEnds, Runs, Inv, TypeOK
<1>3. c \in Cases /\ overlap \in BOOLEAN
  BY <1>2 DEF Calls, Inv, TypeOK, OverlapInv, Running
<1>4. e \in Conclusions
  BY <1>3, RaisedType, ConclusionType DEF Inv, TypeOK
<1>5. Reliable => Concludes(overlap, c, e)
  BY <1>3 DEF Reliable, Concludes
<1>6. CallOK(call[t], overlap, Reliable /\ t \notin joined)
  BY DEF Inv, CallsInv, CallInv
<1>7. CASE End(t, {"skip"})
  <2>1. {"skip"} \in SUBSET Reports
    BY DEF Reports, Ends
  <2> QED
    BY <1>2, <1>7, <2>1, StepEnds DEF Running
<1>8. CASE c \in DOMAIN call[t].concluded /\ call[t].concluded[c] # e /\ End(t, {"flaky"})
  <2>1. {"flaky"} \in SUBSET Reports
    BY DEF Reports, Failures
  <2>2. ~(Reliable /\ t \notin joined)
    BY <1>1, <1>2, <1>6, <1>8 DEF CallOK, Settled, Concludes
  <2> QED
    BY <1>2, <1>8, <2>1, <2>2, StepEnds DEF Running
<1>9. CASE Go(t, After(x))
  <2> DEFINE r == After(x)
             concluded == [d \in DOMAIN call[t].concluded \cup {c} |->
                             IF d = c THEN e ELSE call[t].concluded[d]]
             failing == Holding(call[t].failing, e, c)
  <2>1. concluded \in Partial(Cases, Conclusions)
    <3>1. call[t].concluded \in Partial(Cases, Conclusions)
      BY <1>2 DEF Calls
    <3> HIDE DEF e, c
    <3> QED
      BY <1>3, <1>4, <3>1, PartialExtends
  <2>2. failing \in Partial(Failures, Cases)
    <3>1. call[t].failing \in Partial(Failures, Cases)
      BY <1>2 DEF Calls
    <3>2. CASE e \in Failures
      <4>1. [o \in DOMAIN call[t].failing \cup {e} |-> IF o = e THEN c ELSE call[t].failing[o]]
              \in Partial(Failures, Cases)
        BY <1>3, <3>1, <3>2, PartialExtends
      <4> QED
        BY <3>1, <4>1 DEF Holding
    <3> QED
      BY <3>1, <3>2 DEF Holding
  <2>3. \A o \in DOMAIN failing :
          \/ o \in DOMAIN call[t].failing /\ failing[o] = call[t].failing[o]
          \/ o = e /\ failing[o] = c
    BY DEF Holding
  <2>0. r = [call[t] EXCEPT !.runs = None, !.count = @ + 1, !.concluded = concluded,
                            !.failing = failing]
    OBVIOUS
  <2> HIDE DEF concluded, failing, e, E, After, r
  <2>4. r \in Calls
    <3>1. call[t].count + 1 \in Nat
      BY <1>2 DEF Calls
    <3> DEFINE n == call[t].count + 1
    <3>2. r = [call[t] EXCEPT !.runs = None, !.count = n, !.concluded = concluded,
                              !.failing = failing]
      BY <2>0
    <3> HIDE DEF n
    <3> QED
      BY <1>2, <2>1, <2>2, <3>1, <3>2 DEF Calls, n
  <2>5. /\ r.at = "engine" /\ r.runs = None /\ r.errors = call[t].errors
        /\ r.verdict = call[t].verdict
        /\ r.count = call[t].count + 1 /\ call[t].count \in Nat
        /\ r.failing = failing /\ r.concluded = concluded
    BY <1>2, <2>0 DEF Calls
  <2>6. Reliable /\ t \notin joined => Settled(r, overlap)
    <3> SUFFICES ASSUME Reliable, t \notin joined PROVE Settled(r, overlap)
      OBVIOUS
    <3>1. Settled(call[t], overlap) /\ Concludes(overlap, c, e)
      BY <1>2, <1>5, <1>6 DEF CallOK
    <3>2. ASSUME NEW d \in DOMAIN concluded PROVE Concludes(overlap, d, concluded[d])
      BY <3>1 DEF Settled, concluded
    <3>3. ASSUME NEW o \in DOMAIN failing PROVE Concludes(overlap, failing[o], o)
      BY <2>3, <3>1 DEF Settled
    <3> QED
      BY <2>5, <3>2, <3>3 DEF Settled
  <2>7. CallOK(r, overlap, Reliable /\ t \notin joined)
    BY <1>2, <1>6, <2>5, <2>6 DEF CallOK, Running
  <2> QED
    BY <1>2, <1>9, <2>4, <2>5, <2>7, StepInside DEF r, Running
<1> QED
  BY <1>1, <1>7, <1>8, <1>9

\* The engine stops, with failures or without.
LEMMA StepEngineStops ==
  ASSUME TestConstants, Inv, NEW t \in Threads, EngineStops(t) PROVE Inv'
<1>1. /\ call[t] \in Calls /\ call[t].at = "engine" /\ call[t].runs = None
      /\ UNCHANGED <<test, thread_overlap, company, joined>>
  BY DEF EngineStops, Inv, TypeOK
<1>2. CallOK(call[t], thread_overlap[t], Reliable /\ t \notin joined)
  BY DEF Inv, CallsInv, CallInv
<1>3. ASSUME NEW errors \in {{}, {"skip"}, {"unsatisfiable"}}, End(t, errors),
             DOMAIN call[t].failing = {}
      PROVE  Inv'
  <2>1. errors \in SUBSET Reports /\ "flaky" \notin errors
    BY <1>3 DEF Reports, Ends
  <2> QED
    BY <1>1, <1>3, <2>1, StepEnds DEF Running
<1>4. CASE call[t].count = 0
  <2>1. DOMAIN call[t].failing = {}
    BY <1>1, <1>2, <1>4 DEF CallOK
  <2>2. End(t, IF "explicit" \in test.phases /\ test.examples # <<>> THEN {} ELSE {"skip"})
    BY <1>4 DEF EngineStops
  <2> QED
    BY <1>3, <2>1, <2>2
<1>5. CASE call[t].count # 0 /\ DOMAIN call[t].failing # {}
  <2> DEFINE After(replays) == [call[t] EXCEPT !.at = "replay", !.replays = replays]
  <2>1. PICK replays \in Falsifying(call[t].failing) : Go(t, After(replays))
    BY <1>5 DEF EngineStops
  <2> DEFINE r == After(replays)
  <2>2. /\ replays \subseteq DOMAIN call[t].failing /\ replays # {}
        /\ test.report_multiple_bugs => replays = DOMAIN call[t].failing
    BY <1>5 DEF Falsifying
  <2>3. replays \in SUBSET Failures
    BY <1>1, <2>2, PartialType DEF Calls
  <2>4. r \in Calls
    BY <1>1, <2>3 DEF Calls, Running
  <2>5. /\ r.at = "replay" /\ r.runs = None /\ r.errors = call[t].errors
        /\ r.replays = replays /\ r.failing = call[t].failing
        /\ r.concluded = call[t].concluded /\ r.verdict = call[t].verdict
    BY <1>1 DEF Calls
  <2> HIDE DEF After, r
  <2>6. CallOK(r, thread_overlap[t], Reliable /\ t \notin joined)
    BY <1>1, <1>2, <2>2, <2>5, NoErrors DEF CallOK, Replaying, Replayed, Settled, Running
  <2> QED
    BY <1>1, <2>1, <2>4, <2>5, <2>6, StepInside DEF r, Running
<1>6. CASE call[t].count # 0 /\ DOMAIN call[t].failing = {}
  <2>1. End(t, IF \E c \in DOMAIN call[t].concluded : call[t].concluded[c] = "return"
               THEN {} ELSE {"unsatisfiable"})
    BY <1>6 DEF EngineStops
  <2> QED
    BY <1>3, <1>6, <2>1
<1> QED
  BY <1>4, <1>5, <1>6

-----------------------------------------------------------------------------
\* A failure was replayed for the report.
LEMMA StepReplayEnds ==
  ASSUME TestConstants, Inv, NEW t \in Threads, ReplayEnds(t) PROVE Inv'
<1> DEFINE overlap == thread_overlap[t]
           E(x) == Raised(overlap, call[t].runs, x, TRUE)
           Error(x) == IF E(x) \in {"return", "stop", "assume"} THEN "flaky" ELSE E(x)
           After(x, o) == [call[t] EXCEPT !.runs = None, !.replays = @ \ {o},
                             !.errors = Append(@, Error(x))]
<1>1. PICK x \in test.does[call[t].runs], o \in call[t].replays :
        call[t].failing[o] = call[t].runs /\ Go(t, After(x, o))
  BY DEF ReplayEnds
<1> DEFINE r == After(x, o)
           error == Error(x)
<1>2. /\ call[t] \in Calls /\ call[t].at = "replay" /\ call[t].runs # None
      /\ UNCHANGED <<test, thread_overlap, company, joined>>
  BY DEF ReplayEnds, Runs, Inv, TypeOK
<1>3. call[t].runs \in Cases /\ overlap \in BOOLEAN /\ call[t].errors \in Seq(Reports)
  BY <1>2 DEF Calls, Inv, TypeOK, OverlapInv, Running
<1>4. CallOK(call[t], overlap, Reliable /\ t \notin joined)
  BY DEF Inv, CallsInv, CallInv
<1>5. E(x) \in Conclusions
  BY <1>3, RaisedType DEF Inv, TypeOK
<1>6. error \in Reports
  BY <1>5, WordsApart DEF Failures
<1>7. o \in DOMAIN call[t].failing /\ o \in Failures
  BY <1>1, <1>2, <1>4 DEF CallOK, Replaying, Calls
<1>8. Reliable /\ t \notin joined => error = o /\ o # "flaky"
  <2> SUFFICES ASSUME Reliable, t \notin joined PROVE error = o /\ o # "flaky"
    OBVIOUS
  <2>1. Concludes(overlap, call[t].runs, o)
    BY <1>1, <1>2, <1>4, <1>7 DEF CallOK, Settled
  <2>2. Conclusion(Raised(overlap, call[t].runs, x, FALSE), x) = o
    BY <1>1, <2>1 DEF Concludes
  <2>3. E(x) = o /\ E(x) \notin {"return", "stop", "assume", "flaky"}
    BY <1>3, <1>7, <2>2, FailsAgain DEF Inv, TypeOK
  <2> QED
    BY <2>3
<1>9. r = [call[t] EXCEPT !.runs = None, !.replays = @ \ {o}, !.errors = Append(@, error)]
  OBVIOUS
<1>10. Go(t, r)
  BY <1>1
<1> HIDE DEF error, Error, After, r, E
<1>11. /\ Append(call[t].errors, error) \in Seq(Reports)
       /\ Append(call[t].errors, error) # <<>>
       /\ ToSet(Append(call[t].errors, error)) = ToSet(call[t].errors) \cup {error}
  BY <1>3, <1>6, AppendSet
<1>12. r \in Calls
  BY <1>2, <1>9, <1>11 DEF Calls
<1>13. /\ r.at = "replay" /\ r.runs = None /\ r.failing = call[t].failing
       /\ r.concluded = call[t].concluded /\ r.replays = call[t].replays \ {o}
       /\ r.errors = Append(call[t].errors, error) /\ r.verdict = call[t].verdict
  BY <1>2, <1>9 DEF Calls
<1>14. CallOK(r, overlap, Reliable /\ t \notin joined)
  <2>1. Replaying(r)
    BY <1>2, <1>4, <1>11, <1>13 DEF CallOK, Replaying
  <2>2. Reliable /\ t \notin joined => Settled(r, overlap)
    BY <1>2, <1>4, <1>13 DEF CallOK, Settled
  <2>3. Reliable /\ t \notin joined => Replayed(r)
    BY <1>2, <1>4, <1>8, <1>11, <1>13 DEF CallOK, Replayed
  <2> QED
    BY <1>2, <1>4, <1>13, <2>1, <2>2, <2>3 DEF CallOK, Running
<1> QED
  BY <1>2, <1>10, <1>12, <1>13, <1>14, StepInside DEF Running

\* The failures are raised.
LEMMA StepRaiseFailures ==
  ASSUME TestConstants, Inv, NEW t \in Threads, RaiseFailures(t) PROVE Inv'
<1>1. /\ call[t] \in Calls /\ call[t].at = "replay" /\ call[t].replays = {}
      /\ End(t, ToSet(call[t].errors)) /\ UNCHANGED <<test, thread_overlap, company, joined>>
  BY DEF RaiseFailures, Inv, TypeOK
<1>2. CallOK(call[t], thread_overlap[t], Reliable /\ t \notin joined)
  BY DEF Inv, CallsInv, CallInv
<1>3. call[t].errors \in Seq(Reports) /\ call[t].errors # <<>>
  BY <1>1, <1>2 DEF Calls, CallOK, Replaying
<1>4. ToSet(call[t].errors) \in SUBSET Reports /\ ToSet(call[t].errors) # {}
  BY <1>3, ErrorsType
<1>5. Reliable /\ t \notin joined => Replayed(call[t])
  BY <1>1, <1>2 DEF CallOK
<1> QED
  BY <1>1, <1>4, <1>5, StepEnds DEF Replayed, Running

-----------------------------------------------------------------------------
\* Every step keeps the invariant.
LEMMA NextInv == ASSUME TestConstants PROVE Inv /\ [Next]_vars => Inv'
<1> SUFFICES ASSUME Inv, [Next]_vars PROVE Inv'
  OBVIOUS
<1>1. CASE UNCHANGED vars
  <2>1. TypeOK' /\ OverlapInv'
    BY <1>1 DEF vars, Inv, TypeOK, OverlapInv
  <2>2. ASSUME NEW u \in Threads PROVE CallInv(u)'
    BY <1>1, OthersKeep DEF vars, Inv
  <2> QED
    BY <2>1, <2>2 DEF Inv, CallsInv
<1>2. ASSUME NEW t \in Threads, Enter(t) PROVE Inv'
  BY <1>2, StepEnters
<1>3. ASSUME NEW t \in Threads, Leave(t) PROVE Inv'
  BY <1>3, StepLeaves
<1>4. ASSUME NEW t \in Threads, BeginReproduction(t) PROVE Inv'
  <2>1. call[t].at = "reproduce" /\ Begin(t, test.blob)
    BY <1>4 DEF BeginReproduction
  <2>2. test.blob \in Cases
    BY <2>1 DEF Inv, TypeOK, CallsInv, CallInv, CallOK, TestConstants
  <2> QED
    BY <2>1, <2>2, StepBegins DEF Running
<1>5. ASSUME NEW t \in Threads, BeginExample(t) PROVE Inv'
  <2>1. call[t] \in Calls /\ call[t].at = "explicit" /\ call[t].examples # <<>>
    BY <1>5 DEF BeginExample, Inv, TypeOK
  <2>2. Head(call[t].examples) \in Examples
    BY <2>1 DEF Calls
  <2>3. Head(call[t].examples).case \in Cases
    BY <2>2 DEF Examples
  <2> QED
    BY <1>5, <2>1, <2>3, StepBegins DEF BeginExample, Running
<1>6. ASSUME NEW t \in Threads, NEW c \in Cases, BeginCase(t, c) PROVE Inv'
  BY <1>6, StepBegins DEF BeginCase, Running
<1>7. ASSUME NEW t \in Threads, BeginReplay(t) PROVE Inv'
  <2>1. call[t] \in Calls /\ call[t].at = "replay"
    BY <1>7 DEF BeginReplay, Inv, TypeOK
  <2>2. Replaying(call[t])
    BY <2>1 DEF Inv, CallsInv, CallInv, CallOK
  <2>3. PICK o \in call[t].replays : Begin(t, call[t].failing[o])
    BY <1>7 DEF BeginReplay
  <2>4. call[t].failing[o] \in Cases
    BY <2>1, <2>2, <2>3, PartialType DEF Calls, Replaying
  <2> QED
    BY <2>1, <2>3, <2>4, StepBegins DEF Running
<1> QED
  BY <1>1, <1>2, <1>3, <1>4, <1>5, <1>6, <1>7, StepReproduced, StepExampleEnds,
     StepRaiseExamples, StepStartEngine, StepCaseEnds, StepEngineStops, StepReplayEnds,
     StepRaiseFailures DEF Next

\* The invariant that the theorems of this module follow from.
LEMMA AlwaysInv == ASSUME TestConstants PROVE Spec => []Inv
<1>1. Init => Inv
  BY InitInv
<1>2. Inv /\ [Next]_vars => Inv'
  BY NextInv
<1> QED
  BY <1>1, <1>2, PTL DEF Spec

\* However many threads call a test, a test case can miss its deadline only if no other
\* thread was in the test while it ran.
THEOREM OnlyAloneIsLate == ASSUME TestConstants PROVE Spec => []DeadlineOnlyAlone
<1>1. Inv => DeadlineOnlyAlone
  BY DEF Inv, OverlapInv, DeadlineOnlyAlone, TooSlow
<1> QED
  BY <1>1, AlwaysInv, PTL

\* A test whose cases always end in the same way is not reported as flaky, whatever its
\* examples, failures and times are, unless a thread joins one that was alone.
THEOREM ReliableStaysReliable == ASSUME TestConstants PROVE Spec => []ReliableIsNotFlaky
<1>1. Inv => ReliableIsNotFlaky
  <2> SUFFICES ASSUME Inv, NEW t \in Threads \ joined, Reliable
               PROVE  "flaky" \notin call[t].verdict
    BY DEF ReliableIsNotFlaky
  <2>1. call[t] \in Calls /\ CallOK(call[t], thread_overlap[t], TRUE)
    BY DEF Inv, TypeOK, CallsInv, CallInv
  <2>2. CASE call[t].at = "new"
    BY <2>1, <2>2 DEF CallOK, NoCall
  <2>3. CASE call[t].at \in Running
    BY <2>1, <2>3 DEF CallOK
  <2>4. CASE call[t].at \in {"end", "out"}
    BY <2>1, <2>4 DEF CallOK, ReportedAll
  <2> QED
    BY <2>1, <2>2, <2>3, <2>4 DEF Calls
<1> QED
  BY <1>1, AlwaysInv, PTL

\* No failure the engine holds is lost on the way to the caller.
THEOREM FailuresReachTheCaller == ASSUME TestConstants PROVE Spec => []FailuresAreReported
<1>1. Inv => FailuresAreReported
  BY DEF Inv, CallsInv, CallInv, CallOK, Reported, ReportedAll, FailuresAreReported
<1> QED
  BY <1>1, AlwaysInv, PTL
=============================================================================
