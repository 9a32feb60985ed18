------------------------- MODULE StateMachineProofs -------------------------
(***************************************************************************)
(* The feature flags never disable all the rules of a state machine, its   *)
(* initialize rules come first, the program it prints replays what it did, *)
(* and its bundles keep what was returned to them: for every set of rules, *)
(* bundles, targets and arguments, every value and every number of steps.  *)
(***************************************************************************)
EXTENDS StateMachine, FiniteSetTheorems, SequenceTheorems, TLAPS

\* A rule is enabled, or some may still be the last hope: those were not disabled.
HopeLeft ==
  /\ enabled \cap disabled = {}
  /\ oneof \subseteq Rules
  /\ oneof \cap disabled = {}
  /\ oneof = {} => \E r \in Rules : r \in enabled

FlagStep == \E r \in Rules : Flags!Enable(r) \/ Flags!Disable(r)

\* No answer of is_enabled takes the hope away.
LEMMA FlagStepKeepsHope ==
  ASSUME HopeLeft, FlagStep
  PROVE  HopeLeft'
<1>1. PICK r \in Rules : Flags!Enable(r) \/ Flags!Disable(r)
  BY DEF FlagStep
<1>2. CASE Flags!Enable(r)
  <2>1. CASE r \in oneof
    BY <1>2, <2>1 DEF HopeLeft, Flags!Enable
  <2>2. CASE r \notin oneof
    BY <1>2, <2>2 DEF HopeLeft, Flags!Enable
  <2> QED BY <2>1, <2>2
<1>3. CASE Flags!Disable(r)
  <2>1. oneof' = {} => oneof = {}
    BY <1>3 DEF Flags!Disable, Flags!MayDisable
  <2> QED BY <1>3, <2>1 DEF HopeLeft, Flags!Disable, Flags!MayDisable
<1> QED BY <1>1, <1>2, <1>3

\* The flags of a test case change when the filter looks at a rule, and only then.
LEMMA OnlyLooksChangeFlags ==
  ASSUME Next
  PROVE  FlagStep \/ UNCHANGED flags
<1>1. CASE \E r \in Rules : LookDisabled(r) \/ LookTakes(r) \/ LookKeeps(r)
  BY <1>1 DEF FlagStep, LookDisabled, LookTakes, LookKeeps
<1>2. CASE \E r \in Rules : ChooseAllowed(r)
  BY <1>2 DEF ChooseAllowed
<1>3. CASE \E r \in Initializers : SelectInitialize(r)
  BY <1>3 DEF SelectInitialize
<1>4. CASE Overrun \/ CheckInvariants \/ Stop \/ GoOn \/ SelectRules \/ NoneAllowed
  BY <1>4 DEF Overrun, CheckInvariants, Stop, GoOn, SelectRules, NoneAllowed
<1>5. CASE DrawArgument \/ RejectArgument \/ Teardown
  BY <1>5 DEF DrawArgument, RejectArgument, Teardown
<1>6. CASE ExecuteReturns \/ ExecuteNone \/ ExecuteRaises
  BY <1>6 DEF ExecuteReturns, ExecuteNone, ExecuteRaises
<1> QED BY <1>1, <1>2, <1>3, <1>4, <1>5, <1>6 DEF Next

\* SomeRuleStaysEnabled: whatever is asked in whatever order, FeatureFlags leaves a
\* rule that is not disabled.
THEOREM RulesStayEnabled == Spec => []SomeRuleStaysEnabled
<1>1. Init => HopeLeft
  BY StateMachineConstants DEF Init, Flags!FlagsInit, HopeLeft
<1>2. HopeLeft /\ [Next]_vars => HopeLeft'
  <2> SUFFICES ASSUME HopeLeft, [Next]_vars PROVE HopeLeft'
    OBVIOUS
  <2>1. CASE FlagStep
    BY <2>1, FlagStepKeepsHope
  <2>2. CASE UNCHANGED flags
    BY <2>2 DEF HopeLeft, flags
  <2>3. UNCHANGED vars => UNCHANGED flags
    BY DEF vars
  <2> QED BY <2>1, <2>2, <2>3, OnlyLooksChangeFlags
<1>3. HopeLeft => SomeRuleStaysEnabled
  BY DEF HopeLeft, SomeRuleStaysEnabled, Flags!SomeFeatureStaysEnabled
<1> QED BY <1>1, <1>2, <1>3, PTL DEF Spec
-----------------------------------------------------------------------------
\* What is still to run was not called, and no rule runs before it.
InitializersLead ==
  /\ \E S : calls \in Seq(S)
  /\ toInit \subseteq Initializers
  /\ pc = "filter" => toInit = {}
  /\ pc = "draw" => rule \in toInit \/ (rule \in Rules /\ toInit = {})
  /\ \A k \in DOMAIN calls : calls[k].rule \notin toInit
  /\ toInit # {} => \A k \in DOMAIN calls : calls[k].rule \in Initializers
  /\ InitializersComeFirst

\* A call of the rule that was drawn keeps the order.
LEMMA CallKeepsLead ==
  ASSUME InitializersLead, Drew, NEW results, Called(results), pc' # "filter", pc' # "draw"
  PROVE  InitializersLead'
<1> DEFINE c == [rule |-> rule, args |-> Passed, results |-> results]
<1>1. calls' = Append(calls, c) /\ toInit' = toInit \ {rule} /\ c.rule = rule
  BY DEF Called, Drew
<1>2. PICK S : calls \in Seq(S)
  BY DEF InitializersLead
<1>3. calls \in Seq(S \cup {c})
  BY <1>2, SeqMonotonic
<1>4. /\ calls' \in Seq(S \cup {c})
      /\ Len(calls') = Len(calls) + 1
      /\ \A i \in 1 .. Len(calls) : calls'[i] = calls[i]
      /\ calls'[Len(calls) + 1] = c
  BY <1>1, <1>3, AppendProperties
<1>5. DOMAIN calls = 1 .. Len(calls) /\ DOMAIN calls' = 1 .. Len(calls) + 1 /\ Len(calls) \in Nat
  BY <1>3, <1>4, LenProperties
<1> HIDE DEF c
<1>6. rule \in toInit \/ (rule \in Rules /\ toInit = {})
  BY DEF InitializersLead, Drew
<1>7. \A k \in DOMAIN calls' : calls'[k].rule \notin toInit'
  BY <1>1, <1>4, <1>5 DEF InitializersLead
<1>8. toInit' # {} => \A k \in DOMAIN calls' : calls'[k].rule \in Initializers
  BY <1>1, <1>4, <1>5, <1>6 DEF InitializersLead
<1>9. InitializersComeFirst'
  <2> SUFFICES ASSUME NEW j \in DOMAIN calls', NEW i \in 1 .. j - 1,
                      calls'[j].rule \in Initializers
               PROVE  calls'[i].rule \in Initializers \ {calls'[j].rule}
    BY DEF InitializersComeFirst
  <2>1. i \in DOMAIN calls /\ calls'[i] = calls[i]
    BY <1>4, <1>5
  <2>2. CASE j \in DOMAIN calls
    BY <1>4, <1>5, <2>1, <2>2 DEF InitializersLead, InitializersComeFirst
  <2>3. CASE j \notin DOMAIN calls
    <3>1. calls'[j].rule = rule
      BY <1>1, <1>4, <1>5, <2>3
    <3>2. rule \in toInit
      BY <1>6, <3>1, StateMachineConstants
    <3> QED BY <2>1, <3>1, <3>2 DEF InitializersLead
  <2> QED BY <2>2, <2>3
<1>10. \E T : calls' \in Seq(T)
  BY <1>4
<1>11. toInit' \subseteq Initializers
  BY <1>1 DEF InitializersLead
<1> QED BY <1>7, <1>8, <1>9, <1>10, <1>11 DEF InitializersLead

\* Every other step leaves the calls alone.
LEMMA SelectionKeepsLead ==
  ASSUME InitializersLead, UNCHANGED <<calls, toInit>>,
         pc' = "filter" => toInit = {},
         pc' = "draw" => rule' \in toInit \/ (rule' \in Rules /\ toInit = {})
  PROVE  InitializersLead'
BY DEF InitializersLead, InitializersComeFirst

\* InitializersComeFirst: all initialize rules run before any rule, none of them twice.
THEOREM InitializersRunFirst == Spec => []InitializersComeFirst
<1>1. Init => InitializersLead
  <2> SUFFICES ASSUME Init PROVE InitializersLead
    OBVIOUS
  <2>1. calls = <<>> /\ toInit = Initializers /\ pc = "check"
    BY DEF Init
  <2>2. calls \in Seq({}) /\ DOMAIN calls = {}
    BY <2>1
  <2> QED BY <2>1, <2>2 DEF InitializersLead, InitializersComeFirst
<1>2. InitializersLead /\ [Next]_vars => InitializersLead'
  <2> SUFFICES ASSUME InitializersLead, [Next]_vars PROVE InitializersLead'
    OBVIOUS
  <2>1. CASE Overrun \/ CheckInvariants \/ Stop \/ GoOn \/ NoneAllowed \/ RejectArgument \/ Teardown
    <3>1. UNCHANGED <<calls, toInit>> /\ pc' \notin {"filter", "draw"}
      BY <2>1 DEF Overrun, CheckInvariants, Stop, GoOn, NoneAllowed, RejectArgument, Teardown,
                  Ends, machine, history
    <3> QED BY <3>1, SelectionKeepsLead
  <2>2. CASE \E r \in Initializers : SelectInitialize(r)
    <3>1. UNCHANGED <<calls, toInit>> /\ pc' = "draw" /\ rule' \in toInit
      BY <2>2 DEF SelectInitialize, Take, machine, history
    <3> QED BY <3>1, SelectionKeepsLead
  <2>3. CASE SelectRules
    <3>1. UNCHANGED <<calls, toInit>> /\ toInit = {} /\ pc' # "draw"
      BY <2>3 DEF SelectRules, Ends, machine, history
    <3> QED BY <3>1, SelectionKeepsLead
  <2>4. CASE \E r \in Rules : LookDisabled(r) \/ LookKeeps(r)
    <3>1. UNCHANGED <<calls, toInit, pc>> /\ pc = "filter"
      BY <2>4 DEF LookDisabled, LookKeeps, machine, history
    <3> QED BY <3>1, SelectionKeepsLead DEF InitializersLead
  <2>5. CASE \E r \in Rules : LookTakes(r) \/ ChooseAllowed(r)
    <3>1. UNCHANGED <<calls, toInit>> /\ pc = "filter" /\ pc' = "draw" /\ rule' \in Rules
      BY <2>5 DEF LookTakes, ChooseAllowed, Take, machine, history
    <3> QED BY <3>1, SelectionKeepsLead DEF InitializersLead
  <2>6. CASE DrawArgument
    <3>1. UNCHANGED <<calls, toInit, rule, pc>>
      BY <2>6 DEF DrawArgument
    <3> QED BY <3>1, SelectionKeepsLead DEF InitializersLead
  <2>7. CASE ExecuteReturns
    <3>1. PICK results : Called(results)
      BY <2>7 DEF ExecuteReturns
    <3>2. Drew /\ pc' = "check"
      BY <2>7 DEF ExecuteReturns
    <3> QED BY <3>1, <3>2, CallKeepsLead
  <2>8. CASE ExecuteNone \/ ExecuteRaises
    <3>1. Drew /\ Called(<<>>) /\ pc' \in {"check", "teardown"}
      BY <2>8 DEF ExecuteNone, ExecuteRaises, Ends
    <3> QED BY <3>1, CallKeepsLead
  <2>9. CASE UNCHANGED vars
    <3>1. UNCHANGED <<calls, toInit, rule, pc>>
      BY <2>9 DEF vars, machine, history
    <3> QED BY <3>1, SelectionKeepsLead DEF InitializersLead
  <2> QED BY <2>1, <2>2, <2>3, <2>4, <2>5, <2>6, <2>7, <2>8, <2>9 DEF Next
<1>3. InitializersLead => InitializersComeFirst
  BY DEF InitializersLead
<1> QED BY <1>1, <1>2, <1>3, PTL DEF Spec
-----------------------------------------------------------------------------
\* A multiple of n that is less than n away from 0 is 0.
LEMMA SmallMultiple ==
  ASSUME NEW n \in Nat \ {0}, NEW d \in Int, d * n < n, -n < d * n
  PROVE  d = 0
<1>1. CASE d >= 1
  <2>1. d * n = n + (d - 1) * n /\ (d - 1) * n >= 0
    BY <1>1
  <2> QED BY <2>1
<1>2. CASE d <= -1
  <2>1. d * n = -n + (d + 1) * n /\ (d + 1) * n <= 0
    BY <1>2
  <2> QED BY <2>1
<1> QED BY <1>1, <1>2

\* Division with remainder: what \div and % give, and nothing else does.
LEMMA Division ==
  ASSUME NEW a \in Nat, NEW n \in Nat \ {0}
  PROVE  a \div n \in Nat /\ a % n \in 0 .. n - 1 /\ a = (a \div n) * n + (a % n)
<1>1. a \div n \in Int /\ a % n \in 0 .. n - 1 /\ a = (a \div n) * n + (a % n)
  OBVIOUS
<1>2. a \div n >= 0
  <2> SUFFICES ASSUME a \div n <= -1 PROVE FALSE
    BY <1>1
  <2>1. (a \div n + 1) * n <= 0
    BY <1>1
  <2>2. (a \div n + 1) * n = (a \div n) * n + n
    BY <1>1
  <2> QED BY <1>1, <2>1, <2>2
<1> QED BY <1>1, <1>2

\* A number has one quotient and one remainder.
LEMMA DivisionUnique ==
  ASSUME NEW a \in Nat, NEW n \in Nat \ {0}, NEW q \in Nat, NEW r \in 0 .. n - 1, a = q * n + r
  PROVE  q = a \div n /\ r = a % n
<1> DEFINE p == a \div n
           s == a % n
<1>1. p \in Nat /\ s \in 0 .. n - 1 /\ a = p * n + s
  BY Division
<1> HIDE DEF p, s
<1>2. (q - p) * n = q * n - p * n
  BY <1>1
<1>3. (q - p) * n < n /\ -n < (q - p) * n
  BY <1>1, <1>2
<1>4. q - p \in Int
  BY <1>1
<1>5. q - p = 0
  BY <1>3, <1>4, SmallMultiple
<1>6. q = p
  BY <1>1, <1>5
<1>7. r = s
  BY <1>1, <1>6
<1> QED BY <1>6, <1>7 DEF p, s

\* Place numbers the pairs of a target and a result: target by target.
LEMMA PlaceOf ==
  ASSUME NEW m \in Nat, NEW n \in Nat, NEW t \in 1 .. m, NEW j \in 1 .. n
  PROVE  /\ (t - 1) * n + j \in 1 .. m * n
         /\ Place((t - 1) * n + j, m, n) = <<t, j>>
<1> DEFINE k == (t - 1) * n + j
<1>1. (t - 1) * n \in Nat /\ t * n <= m * n /\ t * n = (t - 1) * n + n
  <2>1. (m - t) * n >= 0 /\ (m - t) * n = m * n - t * n
    OBVIOUS
  <2> QED BY <2>1
<1>2. k - 1 = (t - 1) * n + (j - 1) /\ k - 1 \in Nat /\ k \in 1 .. m * n
  BY <1>1
<1>3. t - 1 = (k - 1) \div n /\ j - 1 = (k - 1) % n
  <2> DEFINE q == t - 1
             r == j - 1
  <2>1. q \in Nat /\ r \in 0 .. n - 1 /\ n \in Nat \ {0}
    OBVIOUS
  <2>2. k - 1 = q * n + r
    BY <1>2
  <2> SUFFICES ASSUME NEW a, a = k - 1 PROVE q = a \div n /\ r = a % n
    OBVIOUS
  <2>3. a \in Nat /\ a = q * n + r
    BY <1>2, <2>2
  <2> HIDE DEF k, q, r
  <2> QED BY <2>1, <2>3, DivisionUnique
<1> HIDE DEF k
<1>4. Place(k, m, n) = <<t, j>>
  BY <1>3 DEF Place
<1> QED BY <1>2, <1>4 DEF k

\* The place of every new name is that of a target and a result.
LEMMA PlaceIn ==
  ASSUME NEW m \in Nat, NEW n \in Nat, NEW k \in 1 .. m * n
  PROVE  /\ n > 0
         /\ Place(k, m, n)[1] \in 1 .. m
         /\ Place(k, m, n)[2] \in 1 .. n
         /\ k = (Place(k, m, n)[1] - 1) * n + Place(k, m, n)[2]
<1> DEFINE q == (k - 1) \div n
           r == (k - 1) % n
<1>1. n \in Nat \ {0}
  <2>1. n = 0 => m * n = 0
    OBVIOUS
  <2> QED BY <2>1
<1>2. q \in Nat /\ r \in 0 .. n - 1 /\ k - 1 = q * n + r
  <2> SUFFICES ASSUME NEW a \in Nat, a = k - 1 PROVE a \div n \in Nat /\ a % n \in 0 .. n - 1 /\ a = (a \div n) * n + (a % n)
    <3>1. k - 1 \in Nat
      OBVIOUS
    <3> QED BY <3>1
  <2> QED BY <1>1, Division
<1>3. Place(k, m, n) = <<1 + q, 1 + r>>
  BY DEF Place
<1> HIDE DEF q, r
<1>4. q < m
  <2> SUFFICES ASSUME q >= m PROVE FALSE
    BY <1>2
  <2>1. q * n = m * n + (q - m) * n /\ (q - m) * n >= 0
    BY <1>1, <1>2
  <2> QED BY <1>2, <2>1
<1> QED BY <1>1, <1>2, <1>3, <1>4




\* There are fewer elements before one of A than A has.
LEMMA RankSmaller ==
  ASSUME NEW A \in SUBSET Int, IsFiniteSet(A), NEW k \in A
  PROVE  /\ Rank(A, k) \in Nat /\ Rank(A, k) < Cardinality(A)
         /\ \A l \in A : k < l => Rank(A, k) < Rank(A, l)
<1> DEFINE below(l) == {j \in A : j < l}
<1>1. \A l : below(l) \in SUBSET A
  OBVIOUS
<1>2. \A l : IsFiniteSet(below(l)) /\ Cardinality(below(l)) \in Nat
  BY <1>1, FS_Subset, FS_CardinalityType
<1>3. ASSUME NEW U, IsFiniteSet(U), below(k) \subseteq U, k \in U
      PROVE  Cardinality(below(k)) < Cardinality(U)
  <2>1. k \notin below(k)
    OBVIOUS
  <2>2. Cardinality(below(k)) # Cardinality(U)
    BY <1>3, <2>1, FS_Subset
  <2>3. Cardinality(below(k)) <= Cardinality(U)
    BY <1>3, FS_Subset
  <2>4. Cardinality(U) \in Nat
    BY <1>3, FS_CardinalityType
  <2> QED BY <1>2, <2>2, <2>3, <2>4
<1>4. Cardinality(below(k)) < Cardinality(A)
  BY <1>1, <1>3
<1>5. ASSUME NEW l \in A, k < l PROVE Cardinality(below(k)) < Cardinality(below(l))
  <2>1. k \in Int /\ l \in Int
    OBVIOUS
  <2>2. ASSUME NEW j \in A, j < k PROVE j < l
    <3>1. j \in Int
      OBVIOUS
    <3> QED BY <1>5, <2>1, <2>2, <3>1
  <2>3. below(k) \subseteq below(l) /\ k \in below(l)
    BY <1>5, <2>2
  <2> QED BY <1>2, <1>3, <2>3
<1> QED BY <1>2, <1>4, <1>5 DEF Rank

\* One element less.
LEMMA WithoutElement ==
  ASSUME NEW S, IsFiniteSet(S), NEW e \in S
  PROVE  IsFiniteSet(S \ {e}) /\ Cardinality(S \ {e}) = Cardinality(S) - 1
BY FS_RemoveElement

\* Ranks number the elements of a finite set from 0 on.
LEMMA RankOnto ==
  ASSUME NEW A \in SUBSET Int, IsFiniteSet(A), NEW i \in 1 .. Cardinality(A)
  PROVE  \E k \in A : Rank(A, k) = i - 1
<1> SUFFICES ASSUME \A k \in A : Rank(A, k) # i - 1 PROVE FALSE
  OBVIOUS
<1> DEFINE c == Cardinality(A)
           T == (0 .. c - 1) \ {i - 1}
           f == [k \in A |-> Rank(A, k)]
<1>1. c \in Nat
  BY FS_CardinalityType
<1>2. IsFiniteSet(T) /\ Cardinality(T) = c - 1
  <2>1. c >= 1 /\ c - 1 \in Nat /\ i - 1 \in 0 .. c - 1
    BY <1>1
  <2> HIDE DEF c
  <2>2. IsFiniteSet(0 .. c - 1) /\ Cardinality(0 .. c - 1) = c
    BY <1>1, <2>1, FS_Interval
  <2> SUFFICES ASSUME NEW S, S = 0 .. c - 1, NEW e \in S, e = i - 1
               PROVE  IsFiniteSet(S \ {e}) /\ Cardinality(S \ {e}) = c - 1
    BY <2>1
  <2>3. IsFiniteSet(S) /\ Cardinality(S) = c
    BY <2>2
  <2> QED BY <2>3, WithoutElement
<1>3. f \in [A -> T]
  <2> SUFFICES ASSUME NEW k \in A PROVE Rank(A, k) \in T
    OBVIOUS
  <2>1. Rank(A, k) \in Nat /\ Rank(A, k) < c
    BY RankSmaller
  <2> QED BY <1>1, <2>1
<1>4. PICK k \in A, l \in A : k # l /\ f[k] = f[l]
  <2>1. Cardinality(T) < Cardinality(A)
    BY <1>1, <1>2
  <2> HIDE DEF T, f
  <2> QED BY <1>2, <1>3, <2>1, FS_PigeonHole
<1>5. Rank(A, k) = Rank(A, l) /\ (k < l \/ l < k)
  BY <1>4
<1>6. Rank(A, k) \in Nat /\ Rank(A, l) \in Nat
  BY RankSmaller
<1>7. k < l => Rank(A, k) < Rank(A, l)
  BY RankSmaller
<1>8. l < k => Rank(A, l) < Rank(A, k)
  BY RankSmaller
<1> QED BY <1>5, <1>6, <1>7, <1>8
-----------------------------------------------------------------------------
\* Where the names of bundle b are.
Of(b, s) == {k \in DOMAIN s : s[k][1] = b}

\* The names of bundle b in a sequence are among its names.
LEMMA OfBundleType ==
  ASSUME NEW S, NEW s \in Seq(S), NEW b
  PROVE  /\ IsFiniteSet(Of(b, s)) /\ Of(b, s) \in SUBSET Int
         /\ OfBundle(b, s) \in Seq(S)
         /\ Len(OfBundle(b, s)) = Cardinality(Of(b, s))
         /\ \A i \in 1 .. Cardinality(Of(b, s)) :
              \E k \in Of(b, s) : Rank(Of(b, s), k) = i - 1 /\ OfBundle(b, s)[i] = s[k]
<1> DEFINE A == Of(b, s)
           ith(i) == CHOOSE k \in A : Rank(A, k) = i - 1
<1>1. DOMAIN s = 1 .. Len(s) /\ Len(s) \in Nat
  BY LenProperties
<1>2. IsFiniteSet(A) /\ A \in SUBSET Int
  <2>1. IsFiniteSet(1 .. Len(s))
    BY <1>1, FS_Interval
  <2> QED BY <1>1, <2>1, FS_Subset DEF Of
<1>3. Cardinality(A) \in Nat
  BY <1>2, FS_CardinalityType
<1>4. A \subseteq DOMAIN s
  BY DEF Of
<1>5. OfBundle(b, s) = [i \in 1 .. Cardinality(A) |-> s[ith(i)]]
  BY DEF OfBundle, Of
<1> HIDE DEF A
<1>6. \A i \in 1 .. Cardinality(A) : ith(i) \in A /\ Rank(A, ith(i)) = i - 1
  BY <1>2, RankOnto
<1> HIDE DEF ith
<1>7. \A i \in 1 .. Cardinality(A) : s[ith(i)] \in S
  BY <1>1, <1>4, <1>6, ElementOfSeq
<1>8. OfBundle(b, s) \in Seq(S) /\ Len(OfBundle(b, s)) = Cardinality(A)
  BY <1>3, <1>5, <1>7
<1>9. \A i \in 1 .. Cardinality(A) : \E k \in A : Rank(A, k) = i - 1 /\ OfBundle(b, s)[i] = s[k]
  BY <1>5, <1>6
<1> QED BY <1>2, <1>8, <1>9 DEF A

\* Counters are numbers.
LEMMA CounterType ==
  ASSUME names \in Seq(NameSet)
  PROVE  \A b : Counter(b) \in Nat
<1> SUFFICES ASSUME NEW b PROVE Counter(b) \in Nat
  OBVIOUS
<1>1. DOMAIN names = 1 .. Len(names) /\ Len(names) \in Nat
  BY LenProperties
<1>2. IsFiniteSet(DOMAIN names)
  BY <1>1, FS_Interval
<1>3. {i \in DOMAIN names : names[i][1] = b} \in SUBSET DOMAIN names
  OBVIOUS
<1> QED BY <1>2, <1>3, FS_Subset, FS_CardinalityType DEF Counter

\* New names are of the targets, and no two are equal.
LEMMA NewNamesType ==
  ASSUME names \in Seq(NameSet), NEW ts \in Seq(Bundles), NEW n \in Nat
  PROVE  LET new == NewNames(ts, n)
             m   == Len(ts)
             for(b) == {k \in 1 .. m * n : ts[Place(k, m, n)[1]] = b}
         IN /\ new \in Seq(NameSet) /\ Len(new) = m * n /\ m * n \in Nat
            /\ \A k \in 1 .. m * n :
                 LET b == ts[Place(k, m, n)[1]] IN
                 /\ b \in Bundles
                 /\ new[k] = <<b, Counter(b) + Rank(for(b), k)>>
            /\ \A k, l \in 1 .. m * n : new[k] = new[l] => k = l
<1> DEFINE new == NewNames(ts, n)
           m   == Len(ts)
           target(k) == ts[Place(k, m, n)[1]]
           for(b) == {k \in 1 .. m * n : target(k) = b}
<1>1. m \in Nat /\ m * n \in Nat
  BY LenProperties
<1>2. ASSUME NEW k \in 1 .. m * n PROVE target(k) \in Bundles
  <2>1. Place(k, m, n)[1] \in 1 .. m
    BY <1>1, PlaceIn
  <2> QED BY <2>1, ElementOfSeq
<1>3. new = [k \in 1 .. m * n |-> <<target(k), Counter(target(k)) + Rank(for(target(k)), k)>>]
  BY DEF NewNames
<1>4. ASSUME NEW b PROVE IsFiniteSet(for(b)) /\ for(b) \in SUBSET Int
  <2>1. IsFiniteSet(1 .. m * n)
    BY <1>1, FS_Interval
  <2> QED BY <1>1, <2>1, FS_Subset
<1>5. ASSUME NEW k \in 1 .. m * n PROVE k \in for(target(k))
  OBVIOUS
<1> HIDE DEF target, for
<1>6. ASSUME NEW k \in 1 .. m * n PROVE Rank(for(target(k)), k) \in Nat
  BY <1>4, <1>5, RankSmaller
<1>7. ASSUME NEW k \in 1 .. m * n
      PROVE  <<target(k), Counter(target(k)) + Rank(for(target(k)), k)>> \in NameSet
  BY <1>2, <1>6, CounterType DEF NameSet
<1>8. new \in Seq(NameSet) /\ Len(new) = m * n
  BY <1>1, <1>3, <1>7
<1>9. \A k \in 1 .. m * n : new[k] = <<target(k), Counter(target(k)) + Rank(for(target(k)), k)>>
  BY <1>3
<1> HIDE DEF new
<1>10. ASSUME NEW k \in 1 .. m * n, NEW l \in 1 .. m * n, new[k] = new[l], k < l PROVE FALSE
  <2> DEFINE b == target(k)
  <2>1. target(l) = b /\ Counter(b) + Rank(for(b), k) = Counter(b) + Rank(for(b), l)
    BY <1>9, <1>10
  <2>2. k \in for(b) /\ l \in for(b)
    BY <1>5, <2>1
  <2> HIDE DEF b
  <2>3. Rank(for(b), k) < Rank(for(b), l) /\ Rank(for(b), k) \in Nat
    BY <1>4, <1>10, <2>2, RankSmaller
  <2>4. Rank(for(b), l) \in Nat
    BY <1>4, <2>2, RankSmaller
  <2> QED BY <2>1, <2>3, <2>4, CounterType
<1>11. \A k, l \in 1 .. m * n : new[k] = new[l] => k = l
  <2> SUFFICES ASSUME NEW k \in 1 .. m * n, NEW l \in 1 .. m * n, new[k] = new[l], k # l PROVE FALSE
    OBVIOUS
  <2>1. k < l \/ l < k
    BY <1>1
  <2> QED BY <1>10, <2>1
<1>12. \A k \in 1 .. m * n : target(k) \in Bundles
  BY <1>2
<1> QED BY <1>1, <1>8, <1>9, <1>11, <1>12 DEF new, target, for
-----------------------------------------------------------------------------
\* The new names in batches: n of them for every one of m targets.
Batched(bs, new, m, n) ==
  /\ DOMAIN bs = 1 .. m
  /\ \A t \in 1 .. m :
       /\ DOMAIN bs[t] = 1 .. n
       /\ \A j \in 1 .. n : bs[t][j] = new[(t - 1) * n + j]

Distinct(new) == \A k, l \in 1 .. Len(new) : new[k] = new[l] => k = l

\* What a line binds: its names, and what each of them is bound to.
NamesOf(bs) == UNION {NamesIn(bs[t]) : t \in DOMAIN bs}
Result(results, bs, x) == results[CHOOSE j \in DOMAIN results : \E t \in DOMAIN bs : bs[t][j] = x]
Binding(results, bs) == [x \in NamesOf(bs) |-> Result(results, bs, x)]

\* What the last names are batched to, when new names have been added: target t gets
\* its n results.
LEMMA BatchesOf ==
  ASSUME NEW ns \in Seq(NameSet), NEW new \in Seq(NameSet), NEW n \in Nat,
         Targets[rule] \in Seq(Bundles), Len(new) = Len(Targets[rule]) * n
  PROVE  Batched(Batches(ns \o new, n), new, Len(Targets[rule]), n)
<1> DEFINE m == Len(Targets[rule])
           all == ns \o new
           last == SubSeq(all, Len(all) - m * n + 1, Len(all))
           bs == Batches(all, n)
<1>1. m \in Nat /\ m * n \in Nat /\ Len(ns) \in Nat
  BY LenProperties
<1>2. /\ all \in Seq(NameSet) /\ Len(all) = Len(ns) + m * n
      /\ \A i \in 1 .. m * n : all[Len(ns) + i] = new[i]
  <2>1. /\ all \in Seq(NameSet) /\ Len(all) = Len(ns) + Len(new)
        /\ \A i \in 1 .. Len(ns) + Len(new) : all[i] = IF i <= Len(ns) THEN ns[i] ELSE new[i - Len(ns)]
    BY ConcatProperties
  <2> HIDE DEF all
  <2>2. ASSUME NEW i \in 1 .. m * n PROVE all[Len(ns) + i] = new[i]
    <3> HIDE DEF m
    <3>1. Len(ns) + i \in 1 .. Len(ns) + m * n /\ ~(Len(ns) + i <= Len(ns)) /\ Len(ns) + i - Len(ns) = i
      BY <1>1
    <3> QED BY <2>1, <3>1 DEF m
  <2> QED BY <2>1, <2>2
<1>3. bs = [t \in 1 .. m |-> SubSeq(last, (t - 1) * n + 1, t * n)]
  BY DEF Batches
<1> HIDE DEF bs, all, m
<1>4. /\ last \in Seq(NameSet) /\ Len(last) = m * n
      /\ \A i \in 1 .. m * n : last[i] = new[i]
  <2> DEFINE a == Len(all) - m * n + 1
             b == Len(all)
  <2>1. a \in Int /\ b \in Int /\ a = Len(ns) + 1 /\ b - a + 1 = m * n
    BY <1>1, <1>2
  <2>2. \A i \in a .. b : all[i] \in NameSet
    BY <1>1, <1>2, <2>1, ElementOfSeq
  <2>3. last = SubSeq(all, a, b)
    OBVIOUS
  <2> HIDE DEF a, b, last
  <2>4. /\ last \in Seq(NameSet) /\ Len(last) = IF a <= b THEN b - a + 1 ELSE 0
        /\ \A i \in 1 .. b - a + 1 : last[i] = all[a + i - 1]
    BY <2>1, <2>2, <2>3, SubSeqProperties
  <2>5. \A i \in 1 .. m * n : a + i - 1 = Len(ns) + i
    BY <1>1, <2>1
  <2>6. \A i \in 1 .. m * n : last[i] = new[i]
    BY <1>2, <2>1, <2>4, <2>5
  <2> QED BY <1>1, <2>1, <2>4, <2>6
<1> HIDE DEF last
<1>5. ASSUME NEW t \in 1 .. m
      PROVE  DOMAIN bs[t] = 1 .. n /\ \A j \in 1 .. n : bs[t][j] = new[(t - 1) * n + j]
  <2> DEFINE a == (t - 1) * n + 1
             b == t * n
  <2>1. a \in Int /\ b \in Int /\ b - a + 1 = n /\ a >= 1 /\ b <= m * n
    <3>1. (t - 1) * n \in Nat /\ t * n = (t - 1) * n + n /\ (m - t) * n \in Nat /\ m * n = (m - t) * n + t * n
      BY <1>1
    <3> QED BY <3>1
  <2>2. bs[t] = SubSeq(last, a, b)
    BY <1>3
  <2>3. \A j \in 1 .. n : a + j - 1 = (t - 1) * n + j
    BY <1>1
  <2> HIDE DEF a, b
  <2>4. \A i \in a .. b : last[i] \in NameSet
    <3>1. \A i \in 1 .. Len(last) : last[i] \in NameSet
      BY <1>4, ElementOfSeq
    <3>2. \A i \in a .. b : i \in 1 .. m * n
      BY <1>1, <2>1
    <3> QED BY <1>4, <3>1, <3>2
  <2>5. /\ bs[t] \in Seq(NameSet) /\ Len(bs[t]) = IF a <= b THEN b - a + 1 ELSE 0
        /\ \A i \in 1 .. b - a + 1 : bs[t][i] = last[a + i - 1]
    BY <2>1, <2>2, <2>4, SubSeqProperties
  <2>6. DOMAIN bs[t] = 1 .. n
    BY <2>1, <2>5, LenProperties
  <2>7. \A j \in 1 .. n : a + j - 1 \in 1 .. m * n
    BY <1>1, <2>1
  <2>8. \A j \in 1 .. n : bs[t][j] = new[(t - 1) * n + j]
    BY <1>4, <2>1, <2>3, <2>5, <2>7
  <2> QED BY <2>6, <2>8
<1>6. DOMAIN bs = 1 .. m
  BY <1>3
<1> QED BY <1>5, <1>6 DEF Batched, bs, all, m

\* A line binds the new names, each of them to what the machine holds for it.
LEMMA LineBinds ==
  ASSUME NEW new \in Seq(NameSet), NEW ts \in Seq(Bundles), NEW results \in Seq(Objects),
         Len(new) = Len(ts) * Len(results), Distinct(new),
         NEW bs, Batched(bs, new, Len(ts), Len(results))
  PROVE  /\ Bound(new, ts, results) = Binding(results, bs)
         /\ Bound(new, ts, results) \in [NamesIn(new) -> Objects]
<1> DEFINE m == Len(ts)
           n == Len(results)
<1>1. m \in Nat /\ n \in Nat /\ DOMAIN new = 1 .. m * n /\ DOMAIN results = 1 .. n
  BY LenProperties
<1>0. /\ DOMAIN bs = 1 .. m
      /\ \A t \in 1 .. m : DOMAIN bs[t] = 1 .. n
      /\ \A t \in 1 .. m, j \in 1 .. n : bs[t][j] = new[(t - 1) * n + j]
      /\ \A k, l \in 1 .. m * n : new[k] = new[l] => k = l
  BY DEF Batched, Distinct
<1> HIDE DEF m, n
<1>2. ASSUME NEW t \in 1 .. m, NEW j \in 1 .. n
      PROVE  /\ (t - 1) * n + j \in 1 .. m * n
             /\ Place((t - 1) * n + j, m, n) = <<t, j>>
             /\ bs[t][j] = new[(t - 1) * n + j]
  <2>1. bs[t][j] = new[(t - 1) * n + j]
    BY <1>0
  <2>2. m \in Nat /\ n \in Nat
    BY <1>1
  <2>3. (t - 1) * n + j \in 1 .. m * n /\ Place((t - 1) * n + j, m, n) = <<t, j>>
    BY <2>2, PlaceOf, ZenonT(30)
  <2> QED BY <2>1, <2>3
<1>3. ASSUME NEW k \in 1 .. m * n
      PROVE  /\ Place(k, m, n)[1] \in 1 .. m /\ Place(k, m, n)[2] \in 1 .. n
             /\ bs[Place(k, m, n)[1]][Place(k, m, n)[2]] = new[k]
  <2>1. /\ Place(k, m, n)[1] \in 1 .. m /\ Place(k, m, n)[2] \in 1 .. n
        /\ k = (Place(k, m, n)[1] - 1) * n + Place(k, m, n)[2]
    BY <1>1, PlaceIn
  <2> QED BY <1>2, <2>1
<1>4. NamesOf(bs) = NamesIn(new)
  <2>1. ASSUME NEW t \in 1 .. m, NEW x \in NamesIn(bs[t]) PROVE x \in NamesIn(new)
    <3>1. PICK j \in 1 .. n : x = bs[t][j]
      BY <1>0 DEF NamesIn
    <3>2. (t - 1) * n + j \in DOMAIN new /\ x = new[(t - 1) * n + j]
      BY <1>1, <1>2, <3>1
    <3> QED BY <3>2 DEF NamesIn
  <2>2. ASSUME NEW x \in NamesIn(new) PROVE \E t \in 1 .. m : x \in NamesIn(bs[t])
    <3>1. PICK k \in 1 .. m * n : x = new[k]
      BY <1>1 DEF NamesIn
    <3>2. DOMAIN bs[Place(k, m, n)[1]] = 1 .. n
      BY <1>0, <1>3
    <3>3. x \in NamesIn(bs[Place(k, m, n)[1]])
      BY <1>3, <3>1, <3>2 DEF NamesIn
    <3> QED BY <1>3, <3>3
  <2> QED BY <1>0, <2>1, <2>2 DEF NamesOf
<1>5. ASSUME NEW x \in NamesIn(new)
      PROVE  /\ Bound(new, ts, results)[x] \in Objects
             /\ Bound(new, ts, results)[x] = Result(results, bs, x)
  <2>1. PICK k \in 1 .. m * n : x = new[k]
    BY <1>1 DEF NamesIn
  <2>2. (CHOOSE i \in DOMAIN new : new[i] = x) = k
    BY <1>0, <1>1, <2>1
  <2>3. Bound(new, ts, results)[x] = results[Place(k, m, n)[2]]
    BY <2>2 DEF Bound, m, n
  <2>4. \A j \in DOMAIN results : (\E t \in DOMAIN bs : bs[t][j] = x) <=> j = Place(k, m, n)[2]
    <3> SUFFICES ASSUME NEW j \in 1 .. n
                 PROVE  (\E t \in 1 .. m : bs[t][j] = x) <=> j = Place(k, m, n)[2]
      BY <1>0, <1>1
    <3>1. ASSUME NEW t \in 1 .. m, bs[t][j] = x PROVE j = Place(k, m, n)[2]
      <4>1. (t - 1) * n + j = k
        BY <1>0, <1>2, <2>1, <3>1
      <4>2. Place(k, m, n) = <<t, j>>
        BY <1>2, <4>1
      <4> QED BY <4>2
    <3>2. ASSUME j = Place(k, m, n)[2] PROVE \E t \in 1 .. m : bs[t][j] = x
      BY <1>3, <2>1, <3>2
    <3> QED BY <3>1, <3>2
  <2>5. Place(k, m, n)[2] \in DOMAIN results
    BY <1>1, <1>3
  <2>6. (CHOOSE j \in DOMAIN results : \E t \in DOMAIN bs : bs[t][j] = x) = Place(k, m, n)[2]
    BY <2>4, <2>5
  <2>7. results[Place(k, m, n)[2]] \in Objects
    BY <1>1, <2>5, ElementOfSeq DEF n
  <2> QED BY <2>3, <2>6, <2>7 DEF Result
<1>6. DOMAIN Bound(new, ts, results) = NamesIn(new) /\ Bound(new, ts, results) = [x \in NamesIn(new) |-> Bound(new, ts, results)[x]]
  BY DEF Bound
<1> QED BY <1>4, <1>5, <1>6 DEF Binding
-----------------------------------------------------------------------------
\* A finite set of integers has a least and a greatest element.
LEMMA MinMax ==
  ASSUME NEW A \in SUBSET Int, IsFiniteSet(A), A # {}
  PROVE  Max(A) \in A /\ (\A y \in A : Max(A) >= y) /\ Min(A) \in A
<1>1. Cardinality(A) \in Nat /\ Cardinality(A) # 0
  BY FS_CardinalityType, FS_EmptySet
<1>2. 1 \in 1 .. Cardinality(A) /\ Cardinality(A) \in 1 .. Cardinality(A)
  BY <1>1
<1>3. PICK k \in A : Rank(A, k) = 1 - 1
  BY <1>2, RankOnto
<1>4. PICK l \in A : Rank(A, l) = Cardinality(A) - 1
  BY <1>2, RankOnto
<1>5. ASSUME NEW y \in A PROVE k <= y
  <2> SUFFICES ASSUME y < k PROVE FALSE
    OBVIOUS
  <2>1. Rank(A, y) < Rank(A, k) /\ Rank(A, y) \in Nat
    BY RankSmaller
  <2> QED BY <1>3, <2>1
<1>6. ASSUME NEW y \in A PROVE l >= y
  <2> SUFFICES ASSUME l < y PROVE FALSE
    OBVIOUS
  <2>1. Rank(A, l) < Rank(A, y) /\ Rank(A, y) \in Nat /\ Rank(A, y) < Cardinality(A)
    BY RankSmaller
  <2> QED BY <1>1, <1>4, <2>1
<1>7. \E x \in A : \A y \in A : x >= y
  BY <1>6
<1>8. \E x \in A : \A y \in A : x =< y
  BY <1>5
<1> QED BY <1>7, <1>8 DEF Max, Min

\* A sequence with one more element.
LEMMA Appended ==
  ASSUME NEW S, NEW s \in Seq(S), NEW e \in S
  PROVE  /\ \A i \in 1 .. Len(s) : Append(s, e)[i] = s[i]
         /\ Append(s, e)[Len(s) + 1] = e
         /\ Len(Append(s, e)) = Len(s) + 1
BY AppendProperties

\* The lines among the first k that bind x, and the names that these bind.
Lines(k, x) == {l \in 1 .. k : x \in Binds(l)}
Dom(k) == UNION {Binds(l) : l \in 1 .. k}

\* One more line leaves what the program does before it, and then binds its names.
LEMMA ProgramGrows ==
  ASSUME NEW P, printed \in Seq(P), NEW C, calls \in Seq(C), NEW n \in Nat, Len(printed) = n, Len(calls) = n,
         NEW line \in P, printed' = Append(printed, line), NEW call \in C, calls' = Append(calls, call)
  PROVE  /\ \A k \in 0 .. n : Environment(k)' = Environment(k)
         /\ Environment(n + 1)' =
              Updated(Environment(n), Binding(call.results, line.batches))
<1>1. n \in Nat
  BY LenProperties
<1>2. /\ \A l \in 1 .. n : printed'[l] = printed[l] /\ calls'[l] = calls[l]
      /\ printed'[n + 1] = line /\ calls'[n + 1] = call
  <2>1. (\A l \in 1 .. n : printed'[l] = printed[l]) /\ printed'[n + 1] = line
    BY Appended
  <2>2. (\A l \in 1 .. n : calls'[l] = calls[l]) /\ calls'[n + 1] = call
    BY Appended
  <2> QED BY <2>1, <2>2
<1>3. \A l \in 1 .. n : Binds(l)' = Binds(l)
  BY <1>2 DEF Binds
<1>4. \A l \in 1 .. n : \A x : BoundTo(l, x)' = BoundTo(l, x)
  <2> SUFFICES ASSUME NEW l \in 1 .. n, NEW x PROVE BoundTo(l, x)' = BoundTo(l, x)
    OBVIOUS
  <2>1. printed'[l] = printed[l] /\ calls'[l] = calls[l]
    BY <1>2
  <2> QED BY <2>1, Zenon DEF BoundTo
<1>5. Binds(n + 1)' = NamesOf(line.batches)
  BY <1>2 DEF Binds, NamesOf
<1>6. \A x : BoundTo(n + 1, x)' = Result(call.results, line.batches, x)
  BY <1>2 DEF BoundTo, Result
<1>7. ASSUME NEW k \in Nat, NEW x \in Dom(k)
      PROVE  Max(Lines(k, x)) \in 1 .. k
  <2>1. IsFiniteSet(1 .. k)
    BY FS_Interval
  <2>2. Lines(k, x) \in SUBSET (1 .. k) /\ Lines(k, x) # {}
    BY DEF Lines, Dom
  <2>3. IsFiniteSet(Lines(k, x)) /\ Lines(k, x) \in SUBSET Int
    BY <2>1, <2>2, FS_Subset
  <2>4. Max(Lines(k, x)) \in Lines(k, x)
    BY <2>2, <2>3, MinMax
  <2> QED BY <2>2, <2>4
<1>8. \A k : Environment(k) = [x \in Dom(k) |-> BoundTo(Max(Lines(k, x)), x)]
  BY DEF Environment, Dom, Lines
<1>9. \A k : Environment(k)' = [x \in Dom(k)' |-> BoundTo(Max(Lines(k, x)), x)']
  BY DEF Environment, Dom, Lines
<1>10. ASSUME NEW k \in 0 .. n PROVE Environment(k)' = Environment(k)
  <2>1. Dom(k)' = Dom(k)
    <3>1. \A l \in 1 .. k : Binds(l)' = Binds(l)
      BY <1>1, <1>3
    <3> QED BY <3>1 DEF Dom
  <2>2. ASSUME NEW x PROVE Lines(k, x)' = Lines(k, x)
    BY <1>1, <1>3 DEF Lines
  <2>3. ASSUME NEW x \in Dom(k) PROVE BoundTo(Max(Lines(k, x)), x)' = BoundTo(Max(Lines(k, x)), x)
    <3>1. Max(Lines(k, x)) \in 1 .. n
      BY <1>1, <1>7
    <3> QED BY <1>4, <2>2, <3>1
  <2> QED BY <1>8, <1>9, <2>1, <2>3
<1>11. Environment(n + 1)' =
         Updated(Environment(n), Binding(call.results, line.batches))
  <2> DEFINE B == NamesOf(line.batches)
             g == [x \in B |-> Result(call.results, line.batches, x)]
  <2>1. Dom(n + 1)' = Dom(n) \cup B
    BY <1>1, <1>3, <1>5 DEF Dom
  <2>2. DOMAIN Environment(n) = Dom(n)
    BY <1>8
  <2>3. Updated(Environment(n), g) =
          [x \in Dom(n) \cup B |-> IF x \in B THEN Result(call.results, line.batches, x) ELSE Environment(n)[x]]
    BY <2>2 DEF Updated
  <2>4. ASSUME NEW x \in B
        PROVE  BoundTo(Max(Lines(n + 1, x)), x)' = Result(call.results, line.batches, x)
    <3>1. Lines(n + 1, x)' \subseteq 1 .. n + 1 /\ n + 1 \in Lines(n + 1, x)'
      BY <1>1, <1>5 DEF Lines
    <3>2. Max(Lines(n + 1, x))' = n + 1
      <4> SUFFICES ASSUME NEW A, A = Lines(n + 1, x)' PROVE Max(A) = n + 1
        OBVIOUS
      <4>1. (\A y \in A : n + 1 >= y) /\ n + 1 \in A /\ A \subseteq Int
        BY <1>1, <3>1
      <4> QED BY <1>1, <4>1 DEF Max
    <3> QED BY <1>6, <3>2
  <2>5. ASSUME NEW x \in Dom(n), x \notin B
        PROVE  BoundTo(Max(Lines(n + 1, x)), x)' = Environment(n)[x]
    <3>1. Lines(n + 1, x)' = Lines(n, x)
      BY <1>1, <1>3, <1>5, <2>5 DEF Lines
    <3>2. Max(Lines(n, x)) \in 1 .. n
      BY <1>1, <1>7
    <3>3. Environment(n)[x] = BoundTo(Max(Lines(n, x)), x)
      BY <1>8
    <3> QED BY <1>4, <3>1, <3>2, <3>3
  <2>6. Environment(n + 1)' = [x \in Dom(n) \cup B |-> BoundTo(Max(Lines(n + 1, x)), x)']
    BY <1>9, <2>1
  <2> HIDE DEF B, g
  <2>7. ASSUME NEW x \in Dom(n) \cup B
        PROVE  BoundTo(Max(Lines(n + 1, x)), x)' =
                 IF x \in B THEN Result(call.results, line.batches, x) ELSE Environment(n)[x]
    BY <2>4, <2>5
  <2>8. Environment(n + 1)' = Updated(Environment(n), g)
    BY <2>3, <2>6, <2>7
  <2> QED BY <2>8 DEF B, g, Binding
<1> QED BY <1>10, <1>11
-----------------------------------------------------------------------------
\* What the machine refers to is there, and the program so far does what it did.
NamesAgree ==
  /\ names \in Seq(NameSet)
  /\ values \in [NamesIn(names) -> Objects]
  /\ bundles \in [Bundles -> Seq(NamesIn(names))]
  /\ rule \in Methods
  /\ data \in Seq(NamesIn(names))

\* No more arguments are drawn than the rule has.
ArgumentsLeft == pc = "draw" => Len(data) <= Len(Arguments[rule])

ProgramAgrees ==
  /\ NamesAgree
  /\ ArgumentsLeft
  /\ \E P : printed \in Seq(P)
  /\ \E C : calls \in Seq(C)
  /\ PrintedProgramReplays

\* An object that has a name has a first one, and that is its name.
LEMMA FirstNameIsName ==
  ASSUME names \in Seq(NameSet), values \in [NamesIn(names) -> Objects],
         NEW o, \E n \in DOMAIN values : values[n] = o
  PROVE  FirstName(o) \in NamesIn(names) /\ values[FirstName(o)] = o
<1> DEFINE I == {i \in 1 .. Len(names) : values[names[i]] = o}
<1>1. DOMAIN names = 1 .. Len(names) /\ Len(names) \in Nat
  BY LenProperties
<1>2. I # {}
  BY <1>1 DEF NamesIn
<1>3. IsFiniteSet(I) /\ I \in SUBSET Int
  <2>1. IsFiniteSet(1 .. Len(names))
    BY <1>1, FS_Interval
  <2> QED BY <1>1, <2>1, FS_Subset
<1>4. FirstName(o) = names[Min(I)]
  BY <1>2 DEF FirstName, SelectInSeq
<1>5. Min(I) \in I
  <2> HIDE DEF I
  <2> QED BY <1>2, <1>3, MinMax
<1> QED BY <1>1, <1>4, <1>5 DEF NamesIn

\* What is printed for an argument stands for the object that is passed.
LEMMA PrintsWhatIsPassed ==
  ASSUME NamesAgree, NEW i \in DOMAIN data
  PROVE  LET term == DataToPrint[i] IN
         IF term.name = <<>> THEN Passed[i] = term.object
         ELSE term.name \in DOMAIN values /\ Passed[i] = values[term.name]
<1> DEFINE term == DataToPrint[i]
<1>1. data[i] \in NamesIn(names) /\ DOMAIN values = NamesIn(names)
  BY LenProperties, ElementOfSeq DEF NamesAgree
<1>2. ASSUME NEW n \in NamesIn(names) PROVE n # <<>>
  <2>1. n \in NameSet
    BY LenProperties, ElementOfSeq DEF NamesAgree, NamesIn
  <2>2. PICK b \in Bundles, c \in Nat : n = <<b, c>>
    BY <2>1 DEF NameSet
  <2>3. Len(<<b, c>>) = 2 /\ Len(<<>>) = 0
    OBVIOUS
  <2> QED BY <2>2, <2>3
<1>3. Passed[i] = values[data[i]]
  BY DEF Passed
<1>4. CASE rule \in Rules /\ Arguments[rule][i].reference
  <2>1. term = Name(data[i])
    BY <1>4 DEF DataToPrint
  <2>2. term.name = data[i]
    BY <2>1 DEF Name
  <2> QED BY <1>1, <1>2, <1>3, <2>2
<1>5. CASE ~(rule \in Rules /\ Arguments[rule][i].reference)
  <2> DEFINE o == values[data[i]]
  <2>1. term = PrettyPrint(o)
    BY <1>5 DEF DataToPrint
  <2>2. \E n \in DOMAIN values : values[n] = o
    BY <1>1
  <2> HIDE DEF o, term
  <2>3. FirstName(o) \in NamesIn(names) /\ values[FirstName(o)] = o
    BY <2>2, FirstNameIsName DEF NamesAgree
  <2>4. CASE term = Literal(o)
    <3>1. term.name = <<>> /\ term.object = o
      BY <2>4 DEF Literal
    <3> QED BY <1>3, <3>1 DEF o, term
  <2>5. CASE term = Name(FirstName(o))
    <3>1. term.name = FirstName(o)
      BY <2>5 DEF Name
    <3> QED BY <1>1, <1>2, <1>3, <2>3, <3>1 DEF o, term
  <2> QED BY <2>1, <2>4, <2>5 DEF PrettyPrint
<1> QED BY <1>4, <1>5

\* Binding nothing changes nothing.
LEMMA NothingUpdated ==
  ASSUME NEW D, NEW R, NEW f \in [D -> R], NEW g, DOMAIN g = {}
  PROVE  Updated(f, g) = f
BY DEF Updated

\* A call is printed as what it did.
LEMMA CallKeepsProgram ==
  ASSUME ProgramAgrees, NamesAgree', pc' # "draw", NEW results, NEW bs, Called(results), Output(bs),
         values' = Updated(values, Binding(results, bs))
  PROVE  ProgramAgrees'
<1> DEFINE call == [rule |-> rule, args |-> Passed, results |-> results]
           line == [rule |-> rule, args |-> DataToPrint, batches |-> bs]
<1>1. printed' = Append(printed, line) /\ calls' = Append(calls, call)
  BY DEF Output, Called
<1>2. /\ line.rule = rule /\ line.args = DataToPrint /\ line.batches = bs
      /\ call.rule = rule /\ call.args = Passed /\ call.results = results
  OBVIOUS
<1>3. values' = Updated(values, Binding(call.results, line.batches))
  BY <1>2
<1> HIDE DEF line, call
<1>4. PICK P, C : printed \in Seq(P) /\ calls \in Seq(C)
  BY DEF ProgramAgrees
<1>5. printed \in Seq(P \cup {line}) /\ calls \in Seq(C \cup {call})
  BY <1>4, SeqMonotonic
<1> SUFFICES ASSUME NEW n \in Nat, Len(printed) = n, Len(calls) = n PROVE ProgramAgrees'
  BY <1>4, LenProperties DEF ProgramAgrees, PrintedProgramReplays
<1>6. /\ \A k \in 0 .. n : Environment(k)' = Environment(k)
      /\ Environment(n + 1)' =
           Updated(Environment(n), Binding(call.results, line.batches))
  <2>1. line \in P \cup {line} /\ call \in C \cup {call}
    OBVIOUS
  <2> QED BY <1>1, <1>5, <2>1, ProgramGrows
<1>7. Environment(n) = values
  BY DEF ProgramAgrees, PrintedProgramReplays
<1>8. /\ printed' \in Seq(P \cup {line}) /\ Len(printed') = n + 1
      /\ \A k \in 1 .. n : printed'[k] = printed[k]
      /\ printed'[n + 1] = line
  BY <1>1, <1>5, AppendProperties
<1>9. /\ calls' \in Seq(C \cup {call}) /\ Len(calls') = n + 1
      /\ \A k \in 1 .. n : calls'[k] = calls[k]
      /\ calls'[n + 1] = call
  BY <1>1, <1>5, AppendProperties
<1>10. DOMAIN printed = 1 .. n /\ DOMAIN printed' = 1 .. n + 1
  BY <1>4, <1>8, LenProperties
<1>11. ASSUME NEW k \in 1 .. n + 1
       PROVE  /\ printed'[k].rule = calls'[k].rule
              /\ Len(printed'[k].args) = Len(calls'[k].args)
              /\ \A i \in DOMAIN printed'[k].args :
                   Denotes(printed'[k].args[i], calls'[k].args[i], Environment(k - 1)')
  <2>1. CASE k \in 1 .. n
    <3>1. /\ printed'[k] = printed[k] /\ calls'[k] = calls[k]
          /\ k - 1 \in 0 .. n
      BY <1>8, <1>9, <2>1
    <3>2. Environment(k - 1)' = Environment(k - 1)
      BY <1>6, <3>1
    <3>3. /\ printed[k].rule = calls[k].rule
          /\ Len(printed[k].args) = Len(calls[k].args)
          /\ \A i \in DOMAIN printed[k].args :
               Denotes(printed[k].args[i], calls[k].args[i], Environment(k - 1))
      BY <1>10, <2>1 DEF ProgramAgrees, PrintedProgramReplays
    <3> QED BY <3>1, <3>2, <3>3
  <2>2. CASE k = n + 1
    <3>1. printed'[k] = line /\ calls'[k] = call /\ k - 1 = n /\ Environment(k - 1)' = values
      BY <1>6, <1>7, <1>8, <1>9, <2>2
    <3>2. DOMAIN DataToPrint = DOMAIN data /\ DOMAIN Passed = DOMAIN data
      BY DEF DataToPrint, Passed
    <3>3. Len(DataToPrint) = Len(Passed)
      <4>1. DOMAIN data = 1 .. Len(data) /\ Len(data) \in Nat
        BY LenProperties DEF ProgramAgrees, NamesAgree
      <4>2. DataToPrint \in Seq({DataToPrint[i] : i \in DOMAIN data}) /\ Passed \in Seq({Passed[i] : i \in DOMAIN data})
        BY <4>1 DEF DataToPrint, Passed
      <4>3. 1 .. Len(DataToPrint) = 1 .. Len(data) /\ 1 .. Len(Passed) = 1 .. Len(data)
        BY <3>2, <4>1, <4>2, LenProperties
      <4>4. Len(DataToPrint) \in Nat /\ Len(Passed) \in Nat
        BY <4>2, LenProperties
      <4> QED BY <4>1, <4>3, <4>4
    <3>4. ASSUME NEW i \in DOMAIN data PROVE Denotes(DataToPrint[i], Passed[i], values)
      BY PrintsWhatIsPassed DEF ProgramAgrees, Denotes
    <3> QED BY <1>2, <3>1, <3>2, <3>3, <3>4
  <2> QED BY <2>1, <2>2
<1>12. \A k \in DOMAIN printed' :
         /\ printed'[k].rule = calls'[k].rule
         /\ Len(printed'[k].args) = Len(calls'[k].args)
         /\ \A i \in DOMAIN printed'[k].args :
              Denotes(printed'[k].args[i], calls'[k].args[i], Environment(k - 1)')
  BY <1>10, <1>11
<1>13. Environment(n + 1)' = values'
  BY <1>3, <1>6, <1>7
<1>14. Environment(Len(printed))' = values'
  BY <1>8, <1>13
<1>15. PrintedProgramReplays'
  BY <1>8, <1>9, <1>10, <1>12, <1>14 DEF PrintedProgramReplays
<1> QED BY <1>8, <1>9, <1>15 DEF ProgramAgrees, ArgumentsLeft

\* The names of the machine after a rule has returned.
LEMMA ReturnedNames ==
  ASSUME NamesAgree, NEW results \in Seq(Objects), AddResults(results), UNCHANGED <<rule, data>>
  PROVE  /\ NamesAgree'
         /\ values' = Updated(values, Binding(results, Batches(names', Len(results))))
<1> DEFINE ts == Targets[rule]
           n == Len(results)
           new == NewNames(ts, n)
           bs == Batches(names', n)
           g == Bound(new, ts, results)
<1>1. ts \in Seq(Bundles) /\ n \in Nat /\ names \in Seq(NameSet)
  BY StateMachineConstants, LenProperties DEF NamesAgree
<1>2. /\ names' = names \o new
      /\ values' = Updated(values, g)
      /\ bundles' = [b \in Bundles |-> bundles[b] \o OfBundle(b, new)]
  BY DEF AddResults
<1>3. /\ new \in Seq(NameSet) /\ Len(new) = Len(Targets[rule]) * n /\ Len(new) = Len(ts) * Len(results)
      /\ Distinct(new)
  <2> HIDE DEF ts, n
  <2>1. new \in Seq(NameSet) /\ Len(new) = Len(ts) * n /\ \A k, l \in 1 .. Len(ts) * n : new[k] = new[l] => k = l
    BY <1>1, NewNamesType
  <2> QED BY <2>1 DEF Distinct, ts, n
<1>4. Batched(bs, new, Len(ts), Len(results))
  <2>1. bs = Batches(names \o new, n)
    BY <1>2
  <2> HIDE DEF new, n, bs
  <2>2. Batched(Batches(names \o new, n), new, Len(Targets[rule]), n)
    BY <1>1, <1>3, BatchesOf
  <2> QED BY <2>1, <2>2 DEF n
<1> HIDE DEF ts, n, new, bs
<1>5. g = Binding(results, bs) /\ g \in [NamesIn(new) -> Objects]
  BY <1>1, <1>3, <1>4, LineBinds
<1> HIDE DEF g
<1>8. names' \in Seq(NameSet) /\ NamesIn(names') = NamesIn(names) \cup NamesIn(new)
  <2>1. /\ names' \in Seq(NameSet) /\ Len(names') = Len(names) + Len(new)
        /\ \A i \in 1 .. Len(names) + Len(new) : names'[i] = IF i <= Len(names) THEN names[i] ELSE new[i - Len(names)]
    BY <1>1, <1>2, <1>3, ConcatProperties
  <2>2. /\ DOMAIN names = 1 .. Len(names) /\ DOMAIN new = 1 .. Len(new) /\ DOMAIN names' = 1 .. Len(names')
        /\ Len(names) \in Nat /\ Len(new) \in Nat
    BY <1>1, <1>3, <2>1, LenProperties
  <2>3. ASSUME NEW i \in DOMAIN names' PROVE names'[i] \in NamesIn(names) \cup NamesIn(new)
    <3>1. i <= Len(names) => i \in DOMAIN names
      BY <2>1, <2>2
    <3>2. ~(i <= Len(names)) => i - Len(names) \in DOMAIN new
      BY <2>1, <2>2
    <3> QED BY <2>1, <2>2, <3>1, <3>2 DEF NamesIn
  <2>4. ASSUME NEW i \in DOMAIN names PROVE i \in DOMAIN names' /\ names'[i] = names[i]
    BY <2>1, <2>2
  <2>5. ASSUME NEW i \in DOMAIN new PROVE Len(names) + i \in DOMAIN names' /\ names'[Len(names) + i] = new[i]
    BY <2>1, <2>2
  <2> QED BY <2>1, <2>3, <2>4, <2>5 DEF NamesIn
<1>9. values' \in [NamesIn(names') -> Objects]
  <2>1. values \in [NamesIn(names) -> Objects]
    BY DEF NamesAgree
  <2> QED BY <1>2, <1>5, <1>8, <2>1 DEF Updated
<1>10. bundles' \in [Bundles -> Seq(NamesIn(names'))]
  <2> SUFFICES ASSUME NEW b \in Bundles PROVE bundles[b] \o OfBundle(b, new) \in Seq(NamesIn(names'))
    BY <1>2
  <2>1. bundles[b] \in Seq(NamesIn(names'))
    BY <1>8, SeqMonotonic DEF NamesAgree
  <2>2. new \in Seq(NamesIn(new))
    BY <1>3, LenProperties DEF NamesIn
  <2>3. OfBundle(b, new) \in Seq(NamesIn(new))
    BY <2>2, OfBundleType
  <2>4. OfBundle(b, new) \in Seq(NamesIn(names'))
    BY <1>8, <2>3, SeqMonotonic
  <2> QED BY <2>1, <2>4, ConcatProperties
<1>11. data' \in Seq(NamesIn(names'))
  BY <1>8, SeqMonotonic DEF NamesAgree
<1>12. rule' \in Methods
  BY DEF NamesAgree
<1> QED BY <1>2, <1>5, <1>8, <1>9, <1>10, <1>11, <1>12 DEF NamesAgree, bs, n

\* A line that binds nothing.
LEMMA BindsNothing ==
  ASSUME NamesAgree, UNCHANGED <<names, values, bundles, rule, data>>,
         NEW results, NEW bs, \A t \in DOMAIN bs : DOMAIN bs[t] = {}
  PROVE  NamesAgree' /\ values' = Updated(values, Binding(results, bs))
<1>1. NamesAgree'
  BY DEF NamesAgree
<1>2. NamesOf(bs) = {}
  BY DEF NamesOf, NamesIn
<1>3. DOMAIN Binding(results, bs) = {}
  BY <1>2 DEF Binding
<1>4. values \in [NamesIn(names) -> Objects]
  BY DEF NamesAgree
<1>5. Updated(values, Binding(results, bs)) = values
  BY <1>3, <1>4, NothingUpdated
<1> QED BY <1>1, <1>5

\* The calls keep what the program does.
LEMMA ExecuteKeepsProgram ==
  ASSUME ProgramAgrees, ExecuteReturns \/ ExecuteNone \/ ExecuteRaises
  PROVE  ProgramAgrees'
<1>0. pc' # "draw"
  BY DEF ExecuteReturns, ExecuteNone, ExecuteRaises, Ends
<1>1. NamesAgree
  BY DEF ProgramAgrees
<1>2. CASE ExecuteReturns
  <2>1. PICK results \in BoundedSeq(Objects, MaxResults) :
          AddResults(results) /\ Output(Batches(names', Len(results))) /\ Called(results)
    BY <1>2 DEF ExecuteReturns
  <2>2. results \in Seq(Objects)
    BY <2>1 DEF BoundedSeq, SeqOf
  <2>3. UNCHANGED <<rule, data>>
    BY <1>2 DEF ExecuteReturns
  <2> QED BY <1>0, <1>1, <2>1, <2>2, <2>3, ReturnedNames, CallKeepsProgram
<1>3. CASE ExecuteNone
  <2>1. UNCHANGED <<names, values, bundles, rule, data>> /\ Output(<<>>) /\ Called(<<>>)
    BY <1>3 DEF ExecuteNone
  <2>2. \A t \in DOMAIN <<>> : DOMAIN (<<>>)[t] = {}
    OBVIOUS
  <2> QED BY <1>0, <1>1, <2>1, <2>2, BindsNothing, CallKeepsProgram
<1>4. CASE ExecuteRaises
  <2> DEFINE bs == Batches(names, 0)
  <2>1. UNCHANGED <<names, values, bundles, rule, data>> /\ Output(bs) /\ Called(<<>>)
    BY <1>4 DEF ExecuteRaises
  <2>2. Targets[rule] \in Seq(Bundles) /\ names \in Seq(NameSet)
    BY <1>1, StateMachineConstants DEF NamesAgree
  <2>3. <<>> \in Seq(NameSet) /\ Len(<<>>) = Len(Targets[rule]) * 0
    BY <2>2, LenProperties
  <2>4. names \o <<>> = names
    BY <2>2, ConcatEmptySeq
  <2>5. \A t \in DOMAIN bs : DOMAIN bs[t] = 1 .. 0
    <3>1. Batched(Batches(names \o <<>>, 0), <<>>, Len(Targets[rule]), 0)
      BY <2>2, <2>3, BatchesOf
    <3> QED BY <2>4, <3>1 DEF Batched
  <2>6. \A t \in DOMAIN bs : DOMAIN bs[t] = {}
    BY <2>5
  <2> HIDE DEF bs
  <2> QED BY <1>0, <1>1, <2>1, <2>6, BindsNothing, CallKeepsProgram
<1> QED BY <1>2, <1>3, <1>4

\* What is left of a bundle when its p-th name is popped.
LEMMA PoppedType ==
  ASSUME NEW S, NEW s \in Seq(S), NEW p \in 1 .. Len(s)
  PROVE  /\ Popped(s, p) \in Seq(S)
         /\ Len(Popped(s, p)) = Len(s) - 1
         /\ \A i \in 1 .. Len(s) - 1 : Popped(s, p)[i] = IF i < p THEN s[i] ELSE s[i + 1]
<1> DEFINE a == SubSeq(s, 1, p - 1)
           c == SubSeq(s, p + 1, Len(s))
<1>1. Len(s) \in Nat /\ p \in Int
  BY LenProperties
<1>2. \A i \in 1 .. Len(s) : s[i] \in S
  BY ElementOfSeq
<1>3. a \in Seq(S) /\ Len(a) = p - 1 /\ \A i \in 1 .. p - 1 : a[i] = s[i]
  <2>1. \A i \in 1 .. p - 1 : s[i] \in S
    BY <1>1, <1>2
  <2>2. /\ a \in Seq(S) /\ Len(a) = IF 1 <= p - 1 THEN p - 1 - 1 + 1 ELSE 0
        /\ \A i \in 1 .. p - 1 - 1 + 1 : a[i] = s[1 + i - 1]
    BY <1>1, <2>1, SubSeqProperties
  <2> HIDE DEF a
  <2> QED BY <1>1, <2>2
<1>4. c \in Seq(S) /\ Len(c) = Len(s) - p /\ \A i \in 1 .. Len(s) - p : c[i] = s[p + i]
  <2>1. \A i \in p + 1 .. Len(s) : s[i] \in S
    BY <1>1, <1>2
  <2>2. /\ c \in Seq(S) /\ Len(c) = IF p + 1 <= Len(s) THEN Len(s) - (p + 1) + 1 ELSE 0
        /\ \A i \in 1 .. Len(s) - (p + 1) + 1 : c[i] = s[p + 1 + i - 1]
    BY <1>1, <2>1, SubSeqProperties
  <2> HIDE DEF c
  <2> QED BY <1>1, <2>2
<1>5. Popped(s, p) = a \o c
  BY DEF Popped, RemoveAt
<1> HIDE DEF a, c
<1>6. /\ a \o c \in Seq(S) /\ Len(a \o c) = Len(a) + Len(c)
      /\ \A i \in 1 .. Len(a) + Len(c) : (a \o c)[i] = IF i <= Len(a) THEN a[i] ELSE c[i - Len(a)]
  BY <1>3, <1>4, ConcatProperties
<1>7. ASSUME NEW i \in 1 .. Len(s) - 1 PROVE (a \o c)[i] = IF i < p THEN s[i] ELSE s[i + 1]
  <2>1. i \in 1 .. Len(a) + Len(c) /\ Len(a) = p - 1
    BY <1>1, <1>3, <1>4
  <2>2. CASE i < p
    BY <1>1, <1>3, <1>6, <2>1, <2>2
  <2>3. CASE ~(i < p)
    <3>1. i - Len(a) \in 1 .. Len(s) - p /\ p + (i - Len(a)) = i + 1 /\ ~(i <= Len(a))
      BY <1>1, <2>1, <2>3
    <3>2. c[i - Len(a)] = s[p + (i - Len(a))]
      BY <1>4, <3>1
    <3> QED BY <1>6, <2>1, <2>3, <3>1, <3>2
  <2> QED BY <2>2, <2>3
<1> QED BY <1>1, <1>3, <1>4, <1>5, <1>6, <1>7

\* The steps that call nothing.
LEMMA OthersKeepProgram ==
  ASSUME ProgramAgrees, UNCHANGED <<names, values, printed, calls>>,
         bundles' \in [Bundles -> Seq(NamesIn(names))], rule' \in Methods, data' \in Seq(NamesIn(names)),
         ArgumentsLeft'
  PROVE  ProgramAgrees'
<1>1. NamesAgree'
  BY DEF ProgramAgrees, NamesAgree
<1>2. \A k : Environment(k)' = Environment(k)
  BY DEF Environment, Binds, BoundTo
<1>3. PrintedProgramReplays'
  BY <1>2 DEF ProgramAgrees, PrintedProgramReplays
<1> QED BY <1>1, <1>3 DEF ProgramAgrees

\* An argument is drawn from a bundle.
LEMMA ArgumentHasBundle ==
  ASSUME ProgramAgrees, DrawArgument
  PROVE  /\ Argued.bundle \in Bundles
         /\ Arguments[rule] \in Seq(Argument) /\ Len(data) \in Nat /\ Len(Arguments[rule]) \in Nat
         /\ Len(data) + 1 \in 1 .. Len(Arguments[rule])
<1>1. rule \in Methods /\ data \in Seq(NamesIn(names)) /\ ArgumentsLeft
  BY DEF ProgramAgrees, NamesAgree
<1>2. Arguments[rule] \in Seq(Argument) /\ Len(data) \in Nat /\ Len(Arguments[rule]) \in Nat
  BY <1>1, StateMachineConstants, LenProperties
<1>3. Len(data) + 1 \in 1 .. Len(Arguments[rule])
  BY <1>1, <1>2 DEF DrawArgument, Drawn, ArgumentsLeft
<1>4. Argued \in Argument
  BY <1>2, <1>3, ElementOfSeq DEF Argued
<1> QED BY <1>2, <1>3, <1>4 DEF Argument

\* The program agrees at every step.
LEMMA ProgramAlwaysAgrees == Spec => []ProgramAgrees
<1>1. Init => ProgramAgrees
  <2> SUFFICES ASSUME Init PROVE ProgramAgrees
    OBVIOUS
  <2>1. /\ names = <<>> /\ values = <<>> /\ data = <<>> /\ printed = <<>> /\ calls = <<>>
        /\ bundles = [b \in Bundles |-> <<>>] /\ rule \in Methods
    BY StateMachineConstants DEF Init, Methods
  <2>2. NamesIn(names) = {}
    BY <2>1 DEF NamesIn
  <2>3. NamesAgree
    <3>1. values \in [{} -> Objects]
      BY <2>1
    <3> QED BY <2>1, <2>2, <3>1 DEF NamesAgree
  <2>4. Environment(Len(printed)) = values
    <3>1. UNION {Binds(l) : l \in 1 .. Len(printed)} = {}
      BY <2>1
    <3>2. DOMAIN values = {} /\ values = [n \in {} |-> values[n]]
      BY <2>1
    <3> QED BY <3>1, <3>2 DEF Environment
  <2>5. printed \in Seq({}) /\ calls \in Seq({}) /\ DOMAIN printed = {} /\ Len(printed) = Len(calls)
    BY <2>1
  <2>6. ArgumentsLeft
    BY DEF Init, ArgumentsLeft
  <2> QED BY <2>3, <2>4, <2>5, <2>6 DEF ProgramAgrees, PrintedProgramReplays
<1>2. ProgramAgrees /\ [Next]_vars => ProgramAgrees'
  <2> SUFFICES ASSUME ProgramAgrees, [Next]_vars PROVE ProgramAgrees'
    OBVIOUS
  <2>1. /\ bundles \in [Bundles -> Seq(NamesIn(names))] /\ rule \in Methods /\ data \in Seq(NamesIn(names))
        /\ <<>> \in Seq(NamesIn(names)) /\ ArgumentsLeft
    BY DEF ProgramAgrees, NamesAgree
  <2>2. CASE Overrun \/ CheckInvariants \/ Stop \/ GoOn \/ NoneAllowed \/ RejectArgument \/ Teardown
    <3>1. UNCHANGED <<names, values, printed, calls, bundles, rule, data>> /\ pc' # "draw"
      BY <2>2 DEF Overrun, CheckInvariants, Stop, GoOn, NoneAllowed, RejectArgument, Teardown,
                  Ends, machine, history
    <3> QED BY <2>1, <3>1, OthersKeepProgram DEF ArgumentsLeft
  <2>3. CASE SelectRules \/ \E r \in Rules : LookDisabled(r) \/ LookKeeps(r)
    <3>1. UNCHANGED <<names, values, printed, calls, bundles, rule, data>> /\ pc' # "draw"
      BY <2>3 DEF SelectRules, LookDisabled, LookKeeps, Ends, machine, history
    <3> QED BY <2>1, <3>1, OthersKeepProgram DEF ArgumentsLeft
  <2>4. CASE \/ \E r \in Initializers : SelectInitialize(r)
             \/ \E r \in Rules : LookTakes(r) \/ ChooseAllowed(r)
    <3>1. UNCHANGED <<names, values, printed, calls, bundles>> /\ data' = <<>> /\ rule' \in Methods
      BY <2>4 DEF SelectInitialize, LookTakes, ChooseAllowed, Take, machine, history, Methods
    <3>2. ArgumentsLeft'
      <4>1. Len(Arguments[rule']) \in Nat /\ Len(<<>>) = 0
        BY <3>1, StateMachineConstants, LenProperties
      <4> QED BY <3>1, <4>1 DEF ArgumentsLeft
    <3> QED BY <2>1, <3>1, <3>2, OthersKeepProgram
  <2>5. CASE DrawArgument
    <3>1. Len(data) \in Nat /\ Len(Arguments[rule]) \in Nat
      BY <2>5, ArgumentHasBundle
    <3>2. Len(data) + 1 \in 1 .. Len(Arguments[rule])
      BY <2>5, ArgumentHasBundle
    <3> DEFINE b == Argued.bundle
    <3>3. b \in Bundles
      BY <2>5, ArgumentHasBundle
    <3>4. PICK p \in DOMAIN bundles[b] :
            /\ data' = Append(data, bundles[b][p])
            /\ bundles' = [bundles EXCEPT ![b] = Popped(@, p)] \/ bundles' = bundles
      BY <2>5 DEF DrawArgument
    <3> HIDE DEF b
    <3>5. bundles[b] \in Seq(NamesIn(names)) /\ p \in 1 .. Len(bundles[b])
      BY <2>1, <3>3, <3>4, LenProperties
    <3>6. bundles[b][p] \in NamesIn(names)
      BY <3>5, ElementOfSeq
    <3>7. data' \in Seq(NamesIn(names)) /\ Len(data') = Len(data) + 1
      BY <2>1, <3>4, <3>6, AppendProperties
    <3>8. Popped(bundles[b], p) \in Seq(NamesIn(names))
      BY <3>5, PoppedType
    <3>9. bundles' \in [Bundles -> Seq(NamesIn(names))]
      BY <2>1, <3>3, <3>4, <3>8
    <3>10. UNCHANGED <<names, values, printed, calls, rule>>
      BY <2>5 DEF DrawArgument
    <3>11. ArgumentsLeft'
      BY <3>1, <3>2, <3>7, <3>10 DEF ArgumentsLeft
    <3> QED BY <2>1, <3>7, <3>9, <3>10, <3>11, OthersKeepProgram
  <2>6. CASE ExecuteReturns \/ ExecuteNone \/ ExecuteRaises
    BY <2>6, ExecuteKeepsProgram
  <2>7. CASE UNCHANGED vars
    <3>1. UNCHANGED <<pc, names, values, printed, calls, bundles, rule, data>>
      BY <2>7 DEF vars, machine, history
    <3> QED BY <2>1, <3>1, OthersKeepProgram DEF ArgumentsLeft
  <2> QED BY <2>2, <2>3, <2>4, <2>5, <2>6, <2>7 DEF Next
<1> QED BY <1>1, <1>2, PTL DEF Spec

\* PrintedProgramReplays: for every machine, bundles, targets and results, the program
\* that is printed calls the same rules with the same objects as the machine did.
THEOREM ProgramReplays == Spec => []PrintedProgramReplays
<1>1. ProgramAgrees => PrintedProgramReplays
  BY DEF ProgramAgrees
<1> QED BY <1>1, ProgramAlwaysAgrees, PTL
-----------------------------------------------------------------------------
\* What one call returns to bundle b.
NewReturned(k, call, b) ==
  LET ts == Targets[call.rule]
  IN {k} \X {t \in DOMAIN ts : ts[t] = b} \X DOMAIN call.results

\* The call that this step makes, in a set C of calls, is the one after n others.
Calls(C, n, call) ==
  /\ calls \in Seq(C) /\ n \in Nat /\ Len(calls) = n
  /\ call \in C /\ calls' = Append(calls, call)

\* One more call adds what it returns, after all that there was.
LEMMA ReturnedGrows ==
  ASSUME NEW C, NEW n, NEW call, Calls(C, n, call), NEW b
  PROVE  /\ Returned(b)' = Returned(b) \cup NewReturned(n + 1, call, b)
         /\ \A p \in Returned(b) : p[1] \in 1 .. n /\ calls'[p[1]] = calls[p[1]]
         /\ calls'[n + 1] = call
<1>0. calls \in Seq(C) /\ n \in Nat /\ Len(calls) = n /\ call \in C /\ calls' = Append(calls, call)
  BY DEF Calls
<1>1. /\ \A k \in 1 .. n : calls'[k] = calls[k]
      /\ calls'[n + 1] = call /\ Len(calls') = n + 1
  BY <1>0, Appended
<1>2. DOMAIN calls = 1 .. n /\ DOMAIN calls' = 1 .. n + 1
  <2>1. calls' \in Seq(C)
    BY <1>0, AppendProperties
  <2> QED BY <1>0, <1>1, <2>1, LenProperties
<1>3. Returned(b) = UNION {NewReturned(k, calls[k], b) : k \in 1 .. n}
  BY <1>2 DEF Returned, NewReturned
<1>4. Returned(b)' = UNION {NewReturned(k, calls'[k], b) : k \in 1 .. n + 1}
  BY <1>2 DEF Returned, NewReturned
<1>5. \A k, x, p : p \in NewReturned(k, x, b) => p[1] = k
  BY DEF NewReturned
<1>6. Returned(b)' = Returned(b) \cup NewReturned(n + 1, call, b)
  <2>1. \A k \in 1 .. n + 1 : k \in 1 .. n \/ k = n + 1
    BY <1>0
  <2>2. \A k \in 1 .. n : k \in 1 .. n + 1
    BY <1>0
  <2>3. n + 1 \in 1 .. n + 1
    BY <1>0
  <2> QED BY <1>0, <1>1, <1>3, <1>4, <2>1, <2>2, <2>3
<1>7. \A p \in Returned(b) : p[1] \in 1 .. n
  BY <1>3, <1>5
<1> QED BY <1>1, <1>6, <1>7

\* The results of T, of the call c, have the places S in the list of new names.
Placed(T, c, S, m, n) ==
  /\ T \subseteq {c} \X (1 .. m) \X (1 .. n) /\ S \subseteq 1 .. m * n
  /\ \A t \in 1 .. m, j \in 1 .. n : <<c, t, j>> \in T <=> (t - 1) * n + j \in S

\* There are as many results as places.
LEMMA Counted ==
  ASSUME NEW m \in Nat, NEW n \in Nat, NEW S, NEW c, NEW T, Placed(T, c, S, m, n)
  PROVE  /\ IsFiniteSet(S) /\ IsFiniteSet(T)
         /\ Cardinality(T) = Cardinality(S) /\ Cardinality(S) \in Nat
<1> DEFINE f == [i \in S |-> <<c, Place(i, m, n)[1], Place(i, m, n)[2]>>]
<1>0. /\ T \subseteq {c} \X (1 .. m) \X (1 .. n) /\ S \subseteq 1 .. m * n
      /\ \A t \in 1 .. m, j \in 1 .. n : <<c, t, j>> \in T <=> (t - 1) * n + j \in S
  BY DEF Placed
<1>1. m * n \in Nat
  OBVIOUS
<1>2. IsFiniteSet(S) /\ Cardinality(S) \in Nat
  <2>1. IsFiniteSet(1 .. m * n)
    BY <1>1, FS_Interval
  <2> QED BY <1>0, <2>1, FS_Subset, FS_CardinalityType
<1>3. ASSUME NEW i \in S
      PROVE  /\ Place(i, m, n)[1] \in 1 .. m /\ Place(i, m, n)[2] \in 1 .. n
             /\ i = (Place(i, m, n)[1] - 1) * n + Place(i, m, n)[2]
  BY <1>0, PlaceIn
<1>4. f \in [S -> T]
  BY <1>0, <1>3
<1>5. ASSUME NEW i \in S, NEW l \in S, f[i] = f[l] PROVE i = l
  <2>1. Place(i, m, n)[1] = Place(l, m, n)[1] /\ Place(i, m, n)[2] = Place(l, m, n)[2]
    BY <1>5
  <2>2. i = (Place(i, m, n)[1] - 1) * n + Place(i, m, n)[2]
    BY <1>3
  <2>3. l = (Place(l, m, n)[1] - 1) * n + Place(l, m, n)[2]
    BY <1>3
  <2> QED BY <2>1, <2>2, <2>3
<1>6. ASSUME NEW p \in T PROVE \E i \in S : f[i] = p
  <2>1. PICK t \in 1 .. m, j \in 1 .. n : p = <<c, t, j>>
    BY <1>0
  <2>2. (t - 1) * n + j \in S
    BY <1>0, <2>1
  <2>3. Place((t - 1) * n + j, m, n) = <<t, j>>
    BY PlaceOf, ZenonT(30)
  <2>4. f[(t - 1) * n + j] = <<c, t, j>>
    BY <2>2, <2>3
  <2> QED BY <2>1, <2>2, <2>4
<1> HIDE DEF f
<1>7. f \in Bijection(S, T)
  BY <1>4, <1>5, <1>6 DEF Bijection, Injection, Surjection, IsInjective
<1>8. ExistsBijection(S, T)
  BY <1>7 DEF ExistsBijection
<1> QED BY <1>2, <1>8, FS_Bijection

\* Of n results for m targets ts, those for bundle b: their places A among the new
\* names, and what the call c returns to it, N.
ForBundle(ts, m, n, b, c, A, N) ==
  /\ ts \in Seq(Bundles) /\ m = Len(ts) /\ n \in Nat /\ c \in Nat
  /\ A = {k \in 1 .. m * n : ts[Place(k, m, n)[1]] = b}
  /\ N = {c} \X {t \in DOMAIN ts : ts[t] = b} \X (1 .. n)

\* The results of a call for bundle b are numbered as its new names for b are.
LEMMA NewNumbers ==
  ASSUME NEW ts, NEW m, NEW n, NEW b, NEW c, NEW A, NEW N, ForBundle(ts, m, n, b, c, A, N)
  PROVE  /\ IsFiniteSet(A) /\ IsFiniteSet(N) /\ Cardinality(N) = Cardinality(A) /\ Cardinality(A) \in Nat
         /\ \A p \in N :
              /\ p[1] = c /\ p[2] \in 1 .. m /\ p[3] \in 1 .. n /\ (p[2] - 1) * n + p[3] \in A
              /\ Number(N, p) = Rank(A, (p[2] - 1) * n + p[3])
<1>0. /\ ts \in Seq(Bundles) /\ m = Len(ts) /\ n \in Nat /\ c \in Nat
      /\ A = {k \in 1 .. m * n : ts[Place(k, m, n)[1]] = b}
      /\ N = {c} \X {t \in DOMAIN ts : ts[t] = b} \X (1 .. n)
  BY DEF ForBundle
<1> USE <1>0
<1>1. m \in Nat /\ DOMAIN ts = 1 .. m
  BY LenProperties
<1>2. ASSUME NEW t \in 1 .. m, NEW j \in 1 .. n
      PROVE  (t - 1) * n + j \in 1 .. m * n /\ Place((t - 1) * n + j, m, n) = <<t, j>>
  BY <1>1, PlaceOf, ZenonT(30)
<1>3. ASSUME NEW t \in 1 .. m, NEW j \in 1 .. n PROVE <<c, t, j>> \in N <=> (t - 1) * n + j \in A
  <2>1. <<c, t, j>> \in N <=> ts[t] = b
    BY <1>1
  <2>2. (t - 1) * n + j \in A <=> ts[t] = b
    <3> SUFFICES ASSUME NEW k, k = (t - 1) * n + j PROVE k \in A <=> ts[t] = b
      OBVIOUS
    <3>1. k \in 1 .. m * n /\ Place(k, m, n) = <<t, j>>
      BY <1>2
    <3> QED BY <3>1
  <2> QED BY <2>1, <2>2
<1>4. N \in SUBSET ({c} \X (1 .. m) \X (1 .. n)) /\ A \in SUBSET (1 .. m * n)
  BY <1>1
<1>5. IsFiniteSet(A) /\ IsFiniteSet(N) /\ Cardinality(N) = Cardinality(A) /\ Cardinality(A) \in Nat
  <2>1. Placed(N, c, A, m, n)
    BY <1>3, <1>4, Zenon DEF Placed
  <2> QED BY <1>1, <2>1, Counted
<1>6. ASSUME NEW p \in N
      PROVE  /\ p[1] = c /\ p[2] \in 1 .. m /\ p[3] \in 1 .. n /\ (p[2] - 1) * n + p[3] \in A
             /\ IsFiniteSet({q \in N : Before(q, p)})
             /\ Number(N, p) = Rank(A, (p[2] - 1) * n + p[3])
  <2>1. PICK t \in 1 .. m, j \in 1 .. n : p = <<c, t, j>>
    BY <1>4
  <2>2. p[1] = c /\ p[2] = t /\ p[3] = j
    BY <2>1
  <2>3. (t - 1) * n + j \in A
    BY <1>3, <2>1
  <2> DEFINE k == (t - 1) * n + j
             S == {i \in A : i < k}
             T == {q \in N : Before(q, p)}
  <2>4. ASSUME NEW u \in 1 .. m, NEW l \in 1 .. n PROVE <<c, u, l>> \in T <=> (u - 1) * n + l \in S
    <3>1. Before(<<c, u, l>>, p) <=> (u - 1) * n + l < k
      <4>1. Before(<<c, u, l>>, p) <=> u < t \/ (u = t /\ l < j)
        BY <2>2 DEF Before
      <4>2. /\ u < t => (t - 1 - u) * n \in Nat
            /\ t < u => (u - 1 - t) * n \in Nat
            /\ (t - 1) * n \in Int /\ (u - 1) * n \in Int
        BY <1>1
      <4>3. (t - 1 - u) * n = (t - 1) * n - (u - 1) * n - n
        BY <1>1
      <4>4. (u - 1 - t) * n = (u - 1) * n - (t - 1) * n - n
        BY <1>1
      <4> DEFINE y == (t - 1) * n
                 z == (u - 1) * n
      <4>5. u < t => ~(t < u) /\ z + n <= y
        BY <1>1, <4>2, <4>3
      <4>6. t < u => ~(u < t) /\ y + n <= z
        BY <1>1, <4>2, <4>4
      <4>7. u < t \/ t < u \/ (u = t /\ y = z)
        BY <1>1
      <4>8. y \in Int /\ z \in Int
        BY <4>2
      <4> HIDE DEF y, z
      <4>9. z + l < y + j <=> u < t \/ (u = t /\ l < j)
        BY <1>1, <4>5, <4>6, <4>7, <4>8
      <4> QED BY <4>1, <4>9 DEF y, z
    <3> QED BY <1>3, <3>1
  <2>5. T \in SUBSET ({c} \X (1 .. m) \X (1 .. n)) /\ S \in SUBSET (1 .. m * n)
    BY <1>4
  <2>6. IsFiniteSet(T) /\ Cardinality(T) = Cardinality(S)
    <3> HIDE DEF S, T, k
    <3>1. Placed(T, c, S, m, n)
      BY <2>4, <2>5, Zenon DEF Placed
    <3> QED BY <1>1, <3>1, Counted
  <2> QED BY <2>2, <2>3, <2>6 DEF Number, Rank
<1> QED BY <1>5, <1>6

\* Two sets without a common element.
LEMMA DisjointUnion ==
  ASSUME NEW S, IsFiniteSet(S), NEW T, IsFiniteSet(T), S \cap T = {}
  PROVE  IsFiniteSet(S \cup T) /\ Cardinality(S \cup T) = Cardinality(S) + Cardinality(T)
<1>1. Cardinality(S \cap T) = 0
  BY FS_EmptySet
<1>2. Cardinality(S) \in Nat /\ Cardinality(T) \in Nat
  BY FS_CardinalityType
<1>3. IsFiniteSet(S \cup T) /\ Cardinality(S \cup T) = Cardinality(S) + Cardinality(T) - Cardinality(S \cap T)
  BY FS_Union
<1> QED BY <1>1, <1>2, <1>3

\* The counter of a bundle after its new names.
LEMMA CounterGrows ==
  ASSUME names \in Seq(NameSet), NEW new \in Seq(NameSet), names' = names \o new, NEW b,
         NEW A, A = Of(b, new)
  PROVE  Counter(b)' = Counter(b) + Cardinality(A)
<1> DEFINE n == Len(names)
           old == {i \in DOMAIN names : names[i][1] = b}
           more == {n + k : k \in A}
           f == [k \in A |-> n + k]
<1>1. n \in Nat /\ Len(new) \in Nat /\ DOMAIN names = 1 .. n /\ A = {k \in 1 .. Len(new) : new[k][1] = b}
  BY LenProperties DEF Of
<1>2. /\ DOMAIN names' = 1 .. n + Len(new)
      /\ \A i \in 1 .. n : names'[i] = names[i]
      /\ \A k \in 1 .. Len(new) : names'[n + k] = new[k]
  <2>1. /\ names \o new \in Seq(NameSet) /\ Len(names \o new) = Len(names) + Len(new)
        /\ \A i \in 1 .. Len(names) + Len(new) :
             (names \o new)[i] = IF i <= Len(names) THEN names[i] ELSE new[i - Len(names)]
    BY ConcatProperties
  <2>2. DOMAIN (names \o new) = 1 .. n + Len(new)
    BY <2>1, LenProperties
  <2>3. ASSUME NEW k \in 1 .. Len(new) PROVE (names \o new)[n + k] = new[k]
    <3> HIDE DEF n
    <3>1. n + k \in 1 .. n + Len(new) /\ ~(n + k <= n) /\ n + k - n = k
      BY <1>1
    <3> QED BY <2>1, <3>1 DEF n
  <2>4. ASSUME NEW i \in 1 .. n PROVE (names \o new)[i] = names[i]
    BY <1>1, <2>1
  <2> QED BY <2>2, <2>3, <2>4
<1> HIDE DEF n
<1>3. IsFiniteSet(old) /\ IsFiniteSet(A) /\ Cardinality(A) \in Nat /\ Cardinality(old) \in Nat
  <2>1. IsFiniteSet(1 .. n) /\ IsFiniteSet(1 .. Len(new))
    BY <1>1, FS_Interval
  <2> QED BY <1>1, <2>1, FS_Subset, FS_CardinalityType
<1>4. {i \in DOMAIN names' : names'[i][1] = b} = old \cup more
  <2>1. ASSUME NEW i \in 1 .. n + Len(new), names'[i][1] = b PROVE i \in old \cup more
    <3>1. CASE i <= n
      BY <1>1, <1>2, <2>1, <3>1
    <3>2. CASE ~(i <= n)
      <4>1. i - n \in 1 .. Len(new) /\ i = n + (i - n)
        BY <1>1, <3>2
      <4> HIDE DEF old
      <4>2. names'[n + (i - n)] = new[i - n]
        BY <1>2, <4>1
      <4>3. new[i - n][1] = b
        BY <2>1, <4>1, <4>2
      <4>4. i - n \in A
        BY <1>1, <4>1, <4>3
      <4> QED BY <4>1, <4>4
    <3> QED BY <3>1, <3>2
  <2>2. ASSUME NEW i \in old PROVE i \in 1 .. n + Len(new) /\ names'[i][1] = b
    BY <1>1, <1>2
  <2>3. ASSUME NEW k \in A PROVE n + k \in 1 .. n + Len(new) /\ names'[n + k][1] = b
    BY <1>1, <1>2
  <2>4. \A x \in more : \E k \in A : x = n + k
    OBVIOUS
  <2> HIDE DEF old, more
  <2>5. \A x \in more : x \in 1 .. n + Len(new) /\ names'[x][1] = b
    BY <2>3, <2>4
  <2> QED BY <1>2, <2>1, <2>2, <2>5
<1>5. IsFiniteSet(more) /\ Cardinality(more) = Cardinality(A)
  <2>1. \A k \in A : k \in Int
    BY <1>1
  <2>2. \A k, l \in A : n + k = n + l => k = l
    BY <1>1, <2>1
  <2>3. f \in Bijection(A, more)
    BY <2>2 DEF Bijection, Injection, Surjection, IsInjective
  <2> HIDE DEF f, more
  <2> QED BY <1>3, <2>3, FS_Bijection DEF ExistsBijection
<1>6. old \cap more = {}
  BY <1>1
<1>7. IsFiniteSet(old \cup more) /\ Cardinality(old \cup more) = Cardinality(old) + Cardinality(A)
  <2> HIDE DEF old, more
  <2> QED BY <1>3, <1>5, <1>6, DisjointUnion
<1> QED BY <1>4, <1>7 DEF Counter

\* The names of b from one number up to another, and names whose numbers ascend.
Numbered(b, from, to) == {<<b, i>> : i \in from .. to - 1}
Ascending(s) == \A i, j \in DOMAIN s : i < j => s[i][2] < s[j][2]

\* What it is to be one of those names.
LEMMA InNumbered ==
  ASSUME NEW b, NEW from \in Int, NEW to \in Int
  PROVE  /\ \A i \in from .. to - 1 : <<b, i>> \in Numbered(b, from, to)
         /\ \A x \in Numbered(b, from, to) : \E i \in from .. to - 1 : x = <<b, i>>
BY DEF Numbered

\* They split at any number between.
LEMMA Splits ==
  ASSUME NEW b, NEW k \in Nat, NEW e \in Int, k <= e
  PROVE  Numbered(b, 0, e) = Numbered(b, 0, k) \cup Numbered(b, k, e)
<1> DEFINE S == 0 .. e - 1
           T == 0 .. k - 1
           U == k .. e - 1
<1>1. S = T \cup U
  OBVIOUS
<1> HIDE DEF S, T, U
<1>2. {<<b, i>> : i \in S} = {<<b, i>> : i \in T} \cup {<<b, i>> : i \in U}
  BY <1>1
<1> QED BY <1>2 DEF Numbered, S, T, U

\* Bundle b holds what was returned to it, and as many names were given.
Keeps(b) ==
  /\ IsFiniteSet(Returned(b)) /\ Counter(b) = Cardinality(Returned(b))
  /\ \A p \in Returned(b) :
       /\ IsFiniteSet({q \in Returned(b) : Before(q, p)})
       /\ Number(Returned(b), p) < Counter(b)
       /\ <<b, Number(Returned(b), p)>> \in DOMAIN values
       /\ values[<<b, Number(Returned(b), p)>>] = calls[p[1]].results[p[3]]
  /\ NamesIn(bundles[b]) = Numbered(b, 0, Counter(b)) \ consumed
  /\ Ascending(bundles[b])

\* What was consumed had been named.
ConsumedNames == \A x \in consumed : x \in NameSet /\ x[2] < Counter(x[1])

KeepsResults == ConsumedNames /\ \A b \in Bundles : Keeps(b)

\* That is what BundlesKeepResults says.
LEMMA KeepsWhatIsPromised == KeepsResults => BundlesKeepResults
BY DEF KeepsResults, Keeps, BundlesKeepResults, Numbered, Ascending

\* Bundle b has the names held, and the new ones for it, at A, go on where its counter is.
Adds(S, held, new, b, A) ==
  /\ held \in Seq(S) /\ new \in Seq(NameSet) /\ A = Of(b, new)
  /\ \A k \in A : new[k] = <<b, Counter(b) + Rank(A, k)>>
  /\ \A i \in DOMAIN held : held[i] \in Bundles \X Nat /\ held[i][2] < Counter(b)
  /\ \A i, j \in DOMAIN held : i < j => held[i][2] < held[j][2]

\* The names of a bundle after its new ones.
LEMMA NewInBundle ==
  ASSUME names \in Seq(NameSet), NEW b \in Bundles, NEW S, NEW held, NEW new, NEW A, Adds(S, held, new, b, A)
  PROVE  /\ NamesIn(held \o OfBundle(b, new))
            = NamesIn(held) \cup Numbered(b, Counter(b), Counter(b) + Cardinality(A))
         /\ Ascending(held \o OfBundle(b, new))
<1>0. /\ held \in Seq(S) /\ new \in Seq(NameSet) /\ A = Of(b, new)
      /\ \A k \in A : new[k] = <<b, Counter(b) + Rank(A, k)>>
      /\ \A i \in DOMAIN held : held[i] \in Bundles \X Nat /\ held[i][2] < Counter(b)
      /\ \A i, j \in DOMAIN held : i < j => held[i][2] < held[j][2]
  BY DEF Adds
<1> USE <1>0
<1> DEFINE c == Counter(b)
           more == OfBundle(b, new)
           all == held \o more
           h == Len(held)
           a == Cardinality(A)
<1>1. c \in Nat /\ h \in Nat /\ DOMAIN held = 1 .. h
  BY CounterType, LenProperties
<1>2. /\ IsFiniteSet(A) /\ more \in Seq(NameSet) /\ Len(more) = a
      /\ \A i \in 1 .. a : \E k \in A : Rank(A, k) = i - 1 /\ more[i] = new[k]
  BY OfBundleType
<1>3. a \in Nat /\ DOMAIN more = 1 .. a
  BY <1>2, FS_CardinalityType, LenProperties
<1>4. \A i \in 1 .. a : more[i] = <<b, c + (i - 1)>>
  BY <1>2
<1> HIDE DEF more
<1>5. /\ DOMAIN all = 1 .. h + a
      /\ \A i \in 1 .. h + a : all[i] = IF i <= h THEN held[i] ELSE more[i - h]
  <2>1. held \in Seq(S \cup NameSet) /\ more \in Seq(S \cup NameSet)
    BY <1>2, SeqMonotonic
  <2>2. /\ all \in Seq(S \cup NameSet) /\ Len(all) = Len(held) + Len(more)
        /\ \A i \in 1 .. Len(held) + Len(more) : all[i] = IF i <= Len(held) THEN held[i] ELSE more[i - Len(held)]
    BY <2>1, ConcatProperties
  <2>3. DOMAIN all = 1 .. Len(all)
    BY <2>2, LenProperties
  <2> HIDE DEF all
  <2> QED BY <1>2, <2>2, <2>3
<1> HIDE DEF c, h, a, all
<1>6. \A i \in 1 .. h : all[i] = held[i] /\ held[i][2] < c /\ held[i][2] \in Nat
  <2>1. \A i \in 1 .. h : i \in 1 .. h + a /\ i <= h
    BY <1>1, <1>3
  <2>2. \A i \in 1 .. h : held[i] \in Bundles \X Nat /\ held[i][2] < c
    BY <1>1 DEF c
  <2> QED BY <1>5, <2>1, <2>2
<1>7. ASSUME NEW i \in 1 .. h + a, i > h PROVE all[i] = <<b, c + (i - h - 1)>>
  <2>1. i - h \in 1 .. a /\ ~(i <= h)
    BY <1>1, <1>3, <1>7
  <2> QED BY <1>4, <1>5, <2>1
<1>8. NamesIn(all) = NamesIn(held) \cup Numbered(b, c, c + a)
  <2>0. /\ \A l \in c .. c + a - 1 : <<b, l>> \in Numbered(b, c, c + a)
        /\ \A x \in Numbered(b, c, c + a) : \E l \in c .. c + a - 1 : x = <<b, l>>
    <3> SUFFICES ASSUME NEW k \in Nat, NEW l \in Nat
                 PROVE  /\ \A i \in k .. k + l - 1 : <<b, i>> \in Numbered(b, k, k + l)
                        /\ \A x \in Numbered(b, k, k + l) : \E i \in k .. k + l - 1 : x = <<b, i>>
      BY <1>1, <1>3
    <3>1. k + l \in Int
      OBVIOUS
    <3> QED BY <3>1, InNumbered
  <2>1. ASSUME NEW i \in 1 .. h + a PROVE all[i] \in NamesIn(held) \cup Numbered(b, c, c + a)
    <3>1. CASE i <= h
      <4>1. i \in 1 .. h
        BY <1>1, <3>1
      <4> QED BY <1>1, <1>6, <4>1 DEF NamesIn
    <3>2. CASE i > h
      <4>1. c + (i - h - 1) \in c .. c + a - 1
        BY <1>1, <1>3, <3>2
      <4> QED BY <1>7, <2>0, <3>2, <4>1
    <3> QED BY <1>1, <3>1, <3>2
  <2>2. ASSUME NEW i \in 1 .. h PROVE \E l \in 1 .. h + a : all[l] = held[i]
    BY <1>1, <1>3, <1>6
  <2>3. ASSUME NEW l \in c .. c + a - 1 PROVE \E i \in 1 .. h + a : all[i] = <<b, l>>
    <3> DEFINE i == h + (l - c) + 1
    <3>1. l \in Int /\ c <= l /\ l <= c + a - 1
      BY <1>1, <1>3
    <3>2. i \in 1 .. h + a /\ i > h /\ c + (i - h - 1) = l
      BY <1>1, <1>3, <3>1
    <3> HIDE DEF i
    <3> QED BY <1>7, <3>2
  <2>4. NamesIn(all) = {all[i] : i \in 1 .. h + a} /\ NamesIn(held) = {held[i] : i \in 1 .. h}
    BY <1>1, <1>5 DEF NamesIn
  <2>5. NamesIn(all) \subseteq NamesIn(held) \cup Numbered(b, c, c + a)
    BY <2>1, <2>4
  <2>6. NamesIn(held) \subseteq NamesIn(all)
    BY <2>2, <2>4
  <2>7. Numbered(b, c, c + a) \subseteq NamesIn(all)
    BY <2>0, <2>3, <2>4
  <2> QED BY <2>5, <2>6, <2>7
<1>9. ASSUME NEW i \in 1 .. h + a, NEW j \in 1 .. h + a, i < j PROVE all[i][2] < all[j][2]
  <2>1. CASE j <= h
    BY <1>1, <1>6, <1>9, <2>1
  <2>2. CASE i <= h /\ j > h
    <3>1. all[i][2] < c /\ all[i][2] \in Nat
      BY <1>1, <1>6, <2>2
    <3>2. all[j][2] = c + (j - h - 1)
      BY <1>7, <2>2
    <3> QED BY <1>1, <2>2, <3>1, <3>2
  <2>3. CASE i > h /\ j > h
    <3>1. all[i] = <<b, c + (i - h - 1)>> /\ all[j] = <<b, c + (j - h - 1)>>
      BY <1>7, <2>3
    <3> QED BY <1>1, <1>9, <2>3, <3>1
  <2> QED BY <1>1, <1>3, <1>9, <2>1, <2>2, <2>3
<1>10. Ascending(all)
  BY <1>5, <1>9 DEF Ascending
<1> QED BY <1>8, <1>10 DEF c, a, all, more

\* A new name is bound to the result that it is for.
LEMMA BoundAt ==
  ASSUME NEW new \in Seq(NameSet), Distinct(new), NEW ts, NEW results, NEW k \in 1 .. Len(new)
  PROVE  /\ new[k] \in DOMAIN Bound(new, ts, results)
         /\ Bound(new, ts, results)[new[k]] = results[Place(k, Len(ts), Len(results))[2]]
<1>1. DOMAIN new = 1 .. Len(new)
  BY LenProperties
<1>2. new[k] \in NamesIn(new)
  BY <1>1 DEF NamesIn
<1>3. (CHOOSE i \in DOMAIN new : new[i] = new[k]) = k
  BY <1>1 DEF Distinct
<1> QED BY <1>2, <1>3 DEF Bound

\* Results that are returned are kept.
LEMMA ReturnKeeps ==
  ASSUME NamesAgree, KeepsResults, NEW C, calls \in Seq(C), NEW results \in Seq(Objects),
         AddResults(results), Called(results), UNCHANGED consumed
  PROVE  KeepsResults'
<1> DEFINE ts == Targets[rule]
           m == Len(ts)
           n == Len(results)
           new == NewNames(ts, n)
           call == [rule |-> rule, args |-> Passed, results |-> results]
<1>1. ts \in Seq(Bundles) /\ n \in Nat /\ m \in Nat /\ DOMAIN results = 1 .. n /\ names \in Seq(NameSet)
  BY StateMachineConstants, LenProperties DEF NamesAgree
<1>2. /\ names' = names \o new
      /\ values' = Updated(values, Bound(new, ts, results))
      /\ bundles' = [b \in Bundles |-> bundles[b] \o OfBundle(b, new)]
      /\ calls' = Append(calls, call)
  BY DEF AddResults, Called
<1>3. call.results = results /\ Targets[call.rule] = ts
  OBVIOUS
<1> SUFFICES ASSUME NEW c \in Nat, Len(calls) = c PROVE KeepsResults'
  BY LenProperties
<1> HIDE DEF ts, m, n, new, call
<1>4. /\ new \in Seq(NameSet) /\ Len(new) = m * n /\ DOMAIN new = 1 .. m * n /\ Distinct(new)
      /\ \A k \in 1 .. m * n :
           /\ ts[Place(k, m, n)[1]] \in Bundles
           /\ new[k] = <<ts[Place(k, m, n)[1]], Counter(ts[Place(k, m, n)[1]])
                         + Rank({i \in 1 .. m * n : ts[Place(i, m, n)[1]] = ts[Place(k, m, n)[1]]}, k)>>
  <2>1. /\ new \in Seq(NameSet) /\ Len(new) = m * n
        /\ \A k \in 1 .. m * n :
           /\ ts[Place(k, m, n)[1]] \in Bundles
           /\ new[k] = <<ts[Place(k, m, n)[1]], Counter(ts[Place(k, m, n)[1]])
                         + Rank({i \in 1 .. m * n : ts[Place(i, m, n)[1]] = ts[Place(k, m, n)[1]]}, k)>>
        /\ \A k, l \in 1 .. m * n : new[k] = new[l] => k = l
    BY <1>1, NewNamesType DEF m, new
  <2> QED BY <2>1, LenProperties DEF Distinct
<1>5. ASSUME NEW b
      PROVE  /\ Of(b, new) = {k \in 1 .. m * n : ts[Place(k, m, n)[1]] = b}
             /\ \A k \in Of(b, new) : k \in 1 .. m * n /\ new[k] = <<b, Counter(b) + Rank(Of(b, new), k)>>
  <2>1. ASSUME NEW k \in 1 .. m * n PROVE new[k][1] = ts[Place(k, m, n)[1]]
    <3>1. \E z : new[k] = <<ts[Place(k, m, n)[1]], z>>
      BY <1>4
    <3> QED BY <3>1
  <2>2. Of(b, new) = {k \in 1 .. m * n : ts[Place(k, m, n)[1]] = b}
    BY <1>4, <2>1 DEF Of
  <2>3. ASSUME NEW k \in Of(b, new) PROVE k \in 1 .. m * n /\ new[k] = <<b, Counter(b) + Rank(Of(b, new), k)>>
    <3>1. k \in 1 .. m * n /\ ts[Place(k, m, n)[1]] = b
      BY <2>2
    <3> QED BY <1>4, <2>2, <3>1
  <2> QED BY <2>2, <2>3
<1>6. ASSUME NEW b
      PROVE  /\ IsFiniteSet(Of(b, new)) /\ Of(b, new) \in SUBSET Int /\ Cardinality(Of(b, new)) \in Nat
             /\ Counter(b)' = Counter(b) + Cardinality(Of(b, new)) /\ Counter(b) \in Nat
  <2>1. IsFiniteSet(Of(b, new)) /\ Of(b, new) \in SUBSET Int
    BY <1>4, OfBundleType
  <2>2. Counter(b)' = Counter(b) + Cardinality(Of(b, new))
    BY <1>1, <1>2, <1>4, CounterGrows
  <2> QED BY <1>1, <2>1, <2>2, CounterType, FS_CardinalityType
<1>7. ConsumedNames'
  <2> SUFFICES ASSUME NEW x \in consumed PROVE x \in NameSet /\ x[2] < Counter(x[1])'
    BY DEF ConsumedNames
  <2>1. x \in NameSet /\ x[2] < Counter(x[1])
    BY DEF KeepsResults, ConsumedNames
  <2>2. x[2] \in Nat
    BY <2>1 DEF NameSet
  <2>3. /\ Counter(x[1])' = Counter(x[1]) + Cardinality(Of(x[1], new))
        /\ Counter(x[1]) \in Nat /\ Cardinality(Of(x[1], new)) \in Nat
    BY <1>6
  <2> QED BY <2>1, <2>2, <2>3
<1>8. ASSUME NEW b \in Bundles PROVE Keeps(b)'
  <2> DEFINE R == Returned(b)
             N == NewReturned(c + 1, call, b)
             A == Of(b, new)
             x(p) == <<b, Number(R, p)>>
  <2>1. Keeps(b)
    BY DEF KeepsResults
  <2>2. /\ Returned(b)' = R \cup N
        /\ \A p \in R : p[1] \in 1 .. c /\ calls'[p[1]] = calls[p[1]]
        /\ calls'[c + 1] = call
    <3>1. calls \in Seq(C \cup {call}) /\ call \in C \cup {call} /\ calls' = Append(calls, call)
      BY <1>2, SeqMonotonic
    <3>2. Calls(C \cup {call}, c, call)
      BY <3>1 DEF Calls
    <3> HIDE DEF A, N, x
    <3>3. /\ Returned(b)' = Returned(b) \cup NewReturned(c + 1, call, b)
          /\ \A p \in Returned(b) : p[1] \in 1 .. c /\ calls'[p[1]] = calls[p[1]]
          /\ calls'[c + 1] = call
      BY <3>2, ReturnedGrows
    <3> QED BY <3>3 DEF N
  <2>3. N = {c + 1} \X {t \in DOMAIN ts : ts[t] = b} \X (1 .. n)
    BY <1>1, <1>3 DEF NewReturned
  <2>4. /\ IsFiniteSet(N) /\ Cardinality(N) = Cardinality(A)
        /\ \A p \in N :
             /\ p[1] = c + 1 /\ p[2] \in 1 .. m /\ p[3] \in 1 .. n /\ (p[2] - 1) * n + p[3] \in A
             /\ IsFiniteSet({q \in N : Before(q, p)})
             /\ Number(N, p) = Rank(A, (p[2] - 1) * n + p[3])
    <3>1. c + 1 \in Nat /\ A = {k \in 1 .. m * n : ts[Place(k, m, n)[1]] = b}
      BY <1>5
    <3> HIDE DEF N, A, R, x
    <3>2. A = {k \in 1 .. m * n : ts[Place(k, m, n)[1]] = b}
      BY <3>1 DEF A
    <3>3. m = Len(ts)
      BY DEF m
    <3>4. ForBundle(ts, m, n, b, c + 1, A, N)
      BY <1>1, <2>3, <3>1, <3>2, <3>3 DEF ForBundle
    <3>5. IsFiniteSet(N) /\ Cardinality(N) = Cardinality(A)
      BY <3>4, NewNumbers
    <3>6. \A p \in N :
            p[1] = c + 1 /\ p[2] \in 1 .. m /\ p[3] \in 1 .. n /\ (p[2] - 1) * n + p[3] \in A
      BY <3>4, NewNumbers
    <3>7. \A p \in N : Number(N, p) = Rank(A, (p[2] - 1) * n + p[3])
      BY <3>4, NewNumbers
    <3>8. ASSUME NEW p \in N PROVE IsFiniteSet({q \in N : Before(q, p)})
      BY <3>5, FS_Subset
    <3> QED BY <3>5, <3>6, <3>7, <3>8, Zenon
  <2> HIDE DEF R, N, A
  <2>5. /\ IsFiniteSet(R) /\ Counter(b) = Cardinality(R)
        /\ \A p \in R :
             /\ IsFiniteSet({q \in R : Before(q, p)})
             /\ Number(R, p) < Counter(b)
             /\ x(p) \in DOMAIN values
             /\ values[x(p)] = calls[p[1]].results[p[3]]
        /\ NamesIn(bundles[b]) = Numbered(b, 0, Counter(b)) \ consumed
        /\ Ascending(bundles[b])
    BY <2>1 DEF Keeps, R
  <2>6. /\ IsFiniteSet(A) /\ A \in SUBSET Int /\ Cardinality(A) \in Nat
        /\ Counter(b)' = Counter(b) + Cardinality(A) /\ Counter(b) \in Nat
    BY <1>6 DEF A
  <2>7. \A k \in A : k \in 1 .. m * n /\ new[k] = <<b, Counter(b) + Rank(A, k)>> /\ Rank(A, k) \in Nat /\ Rank(A, k) < Cardinality(A)
    <3>1. \A k \in A : Rank(A, k) \in Nat /\ Rank(A, k) < Cardinality(A)
      BY <2>6, RankSmaller
    <3> QED BY <1>5, <3>1 DEF A
  <2>8. R \cap N = {} /\ (\A q \in N : q[1] = c + 1) /\ (\A p \in R : p[1] \in Int /\ p[1] < c + 1)
    <3>1. \A q \in N : q[1] = c + 1
      BY <2>4
    <3>2. \A p \in R : p[1] \in Int /\ p[1] < c + 1
      BY <2>2
    <3>3. \A p \in R : p \notin N
      BY <3>1, <3>2
    <3> QED BY <3>1, <3>2, <3>3
  <2>9. IsFiniteSet(R \cup N) /\ Counter(b)' = Cardinality(R \cup N)
    BY <2>4, <2>5, <2>6, <2>8, DisjointUnion
  <2>10. ASSUME NEW p \in R
         PROVE  /\ {q \in R \cup N : Before(q, p)} = {q \in R : Before(q, p)}
                /\ x(p) \in DOMAIN values' /\ values'[x(p)] = calls'[p[1]].results[p[3]]
                /\ Number(R, p) \in Nat
    <3>1. \A q \in N : ~Before(q, p)
      BY <2>8 DEF Before
    <3>2. Number(R, p) \in Nat /\ Number(R, p) < Counter(b)
      BY <2>5, FS_CardinalityType DEF Number
    <3>3. x(p) \notin NamesIn(new)
      <4> SUFFICES ASSUME NEW k \in 1 .. m * n, new[k] = x(p) PROVE FALSE
        BY <1>4 DEF NamesIn
      <4>1. k \in A
        BY <1>4 DEF A, Of
      <4>2. Number(R, p) = Counter(b) + Rank(A, k)
        BY <2>7, <4>1
      <4> QED BY <2>6, <2>7, <3>2, <4>1, <4>2
    <3>4. DOMAIN Bound(new, ts, results) = NamesIn(new)
      BY DEF Bound
    <3>5. x(p) \in DOMAIN values /\ values[x(p)] = calls[p[1]].results[p[3]]
      BY <2>5
    <3> HIDE DEF x
    <3>6. x(p) \in DOMAIN values' /\ values'[x(p)] = values[x(p)]
      BY <1>2, <3>3, <3>4, <3>5 DEF Updated
    <3> QED BY <2>2, <3>1, <3>2, <3>5, <3>6
  <2>11. ASSUME NEW p \in N
         PROVE  /\ IsFiniteSet({q \in R \cup N : Before(q, p)})
                /\ Number(R \cup N, p) \in Nat /\ Number(R \cup N, p) < Counter(b)'
                /\ <<b, Number(R \cup N, p)>> \in DOMAIN values'
                /\ values'[<<b, Number(R \cup N, p)>>] = calls'[p[1]].results[p[3]]
    <3> DEFINE k == (p[2] - 1) * n + p[3]
    <3>1. \A q \in R : Before(q, p)
      BY <2>8 DEF Before
    <3>2. {q \in R \cup N : Before(q, p)} = R \cup {q \in N : Before(q, p)}
      BY <3>1
    <3>3. R \cap {q \in N : Before(q, p)} = {} /\ IsFiniteSet({q \in N : Before(q, p)})
      BY <2>4, <2>8
    <3>4. /\ IsFiniteSet({q \in R \cup N : Before(q, p)})
          /\ Number(R \cup N, p) = Cardinality(R) + Cardinality({q \in N : Before(q, p)})
      <4> DEFINE T == {q \in N : Before(q, p)}
      <4>1. IsFiniteSet(T) /\ R \cap T = {} /\ {q \in R \cup N : Before(q, p)} = R \cup T
        BY <3>2, <3>3
      <4> HIDE DEF T
      <4>2. IsFiniteSet(R \cup T) /\ Cardinality(R \cup T) = Cardinality(R) + Cardinality(T)
        BY <2>5, <4>1, DisjointUnion
      <4> QED BY <4>1, <4>2 DEF Number, T
    <3>5. Number(R \cup N, p) = Counter(b) + Rank(A, k) /\ k \in A
      BY <2>4, <2>5, <3>4 DEF Number
    <3>6. p[1] = c + 1 /\ p[2] \in 1 .. m /\ p[3] \in 1 .. n
      BY <2>4
    <3>7. Place(k, m, n) = <<p[2], p[3]>>
      BY <1>1, <3>6, PlaceOf, ZenonT(30)
    <3> HIDE DEF k
    <3>8. k \in 1 .. Len(new) /\ new[k] = <<b, Number(R \cup N, p)>>
      BY <1>4, <2>7, <3>5
    <3>9. /\ new[k] \in DOMAIN Bound(new, ts, results)
          /\ Bound(new, ts, results)[new[k]] = results[Place(k, m, n)[2]]
      <4>1. Len(ts) = m /\ Len(results) = n
        BY DEF m, n
      <4>2. /\ new[k] \in DOMAIN Bound(new, ts, results)
            /\ Bound(new, ts, results)[new[k]] = results[Place(k, Len(ts), Len(results))[2]]
        <5>1. new \in Seq(NameSet) /\ Distinct(new)
          BY <1>4
        <5>2. k \in 1 .. Len(new)
          BY <3>8
        <5> HIDE DEF x
        <5> QED BY <5>1, <5>2, BoundAt
      <4> QED BY <4>1, <4>2
    <3>10. new[k] \in DOMAIN values' /\ values'[new[k]] = results[p[3]]
      BY <1>2, <3>7, <3>9 DEF Updated
    <3>11. calls'[p[1]].results = results
      BY <1>3, <2>2, <3>6
    <3>12. Number(R \cup N, p) \in Nat /\ Number(R \cup N, p) < Counter(b)'
      <4>1. Rank(A, k) \in Nat /\ Rank(A, k) < Cardinality(A)
        BY <2>7, <3>5
      <4> QED BY <2>6, <3>5, <4>1
    <3>13. /\ <<b, Number(R \cup N, p)>> \in DOMAIN values'
           /\ values'[<<b, Number(R \cup N, p)>>] = calls'[p[1]].results[p[3]]
      BY <3>8, <3>10, <3>11
    <3> QED BY <3>4, <3>12, <3>13
  <2>12. ASSUME NEW p \in R \cup N
         PROVE  /\ IsFiniteSet({q \in R \cup N : Before(q, p)})
                /\ Number(R \cup N, p) < Counter(b)'
                /\ <<b, Number(R \cup N, p)>> \in DOMAIN values'
                /\ values'[<<b, Number(R \cup N, p)>>] = calls'[p[1]].results[p[3]]
    <3>1. CASE p \in R
      <4>1. Number(R \cup N, p) = Number(R, p) /\ IsFiniteSet({q \in R \cup N : Before(q, p)})
        BY <2>5, <2>10, <3>1 DEF Number
      <4>2. Number(R, p) < Counter(b)'
        <5>1. Number(R, p) < Counter(b)
          BY <2>5, <3>1
        <5>2. Number(R, p) \in Nat
          BY <2>10, <3>1
        <5> QED BY <2>6, <5>1, <5>2
      <4> QED BY <2>10, <3>1, <4>1, <4>2
    <3>2. CASE p \in N
      BY <2>11, <3>2
    <3> QED BY <3>1, <3>2
  <2>13. /\ NamesIn(bundles'[b])
            = NamesIn(bundles[b]) \cup Numbered(b, Counter(b), Counter(b) + Cardinality(A))
         /\ Ascending(bundles'[b])
    <3>1. bundles'[b] = bundles[b] \o OfBundle(b, new) /\ bundles[b] \in Seq(NamesIn(names))
      BY <1>2 DEF NamesAgree
    <3>2. ASSUME NEW i \in DOMAIN bundles[b]
          PROVE  bundles[b][i] \in Bundles \X Nat /\ bundles[b][i][2] < Counter(b)
      <4>1. bundles[b][i] \in NamesIn(bundles[b])
        BY DEF NamesIn
      <4>2. PICK l \in 0 .. Counter(b) - 1 : bundles[b][i] = <<b, l>>
        BY <2>5, <4>1 DEF Numbered
      <4> QED BY <2>6, <4>2
    <3> SUFFICES ASSUME NEW held, held = bundles[b]
                 PROVE  /\ NamesIn(held \o OfBundle(b, new))
                           = NamesIn(held) \cup Numbered(b, Counter(b), Counter(b) + Cardinality(A))
                        /\ Ascending(held \o OfBundle(b, new))
      BY <3>1
    <3>3. held \in Seq(NamesIn(names))
      BY <3>1
    <3>4. \A i \in DOMAIN held : held[i] \in Bundles \X Nat /\ held[i][2] < Counter(b)
      BY <3>2
    <3>5. \A i, j \in DOMAIN held : i < j => held[i][2] < held[j][2]
      BY <2>5 DEF Ascending
    <3>6. \A k \in Of(b, new) : new[k] = <<b, Counter(b) + Rank(Of(b, new), k)>>
      BY <1>5
    <3>7. A = Of(b, new) /\ new \in Seq(NameSet)
      BY <1>4 DEF A
    <3>8. \A k \in A : new[k] = <<b, Counter(b) + Rank(A, k)>>
      BY <3>6, <3>7
    <3> HIDE DEF x
    <3>9. Adds(NamesIn(names), held, new, b, A)
      BY <3>3, <3>4, <3>5, <3>7, <3>8 DEF Adds
    <3>10. names \in Seq(NameSet)
      BY <1>1
    <3>11. NamesIn(held \o OfBundle(b, new))
              = NamesIn(held) \cup Numbered(b, Counter(b), Counter(b) + Cardinality(A))
      BY <3>9, <3>10, NewInBundle
    <3>12. Ascending(held \o OfBundle(b, new))
      BY <3>9, <3>10, NewInBundle
    <3> QED BY <3>11, <3>12
  <2>14. NamesIn(bundles'[b]) = Numbered(b, 0, Counter(b)') \ consumed'
    <3> SUFFICES ASSUME NEW k \in Nat, Counter(b) = k, NEW a \in Nat, Cardinality(A) = a
                 PROVE  NamesIn(bundles'[b]) = Numbered(b, 0, Counter(b)') \ consumed'
      BY <2>6
    <3>1. Counter(b)' = k + a
      BY <2>6
    <3>2. \A i \in k .. k + a - 1 : <<b, i>> \notin consumed
      <4> SUFFICES ASSUME NEW i \in k .. k + a - 1, <<b, i>> \in consumed PROVE FALSE
        OBVIOUS
      <4>1. (<<b, i>>)[2] < Counter((<<b, i>>)[1])
        BY DEF KeepsResults, ConsumedNames
      <4>2. i < k
        BY <4>1
      <4> QED BY <4>2
    <3>3. Numbered(b, k, k + a) \cap consumed = {}
      BY <3>2, InNumbered
    <3>4. Numbered(b, 0, k + a) = Numbered(b, 0, k) \cup Numbered(b, k, k + a)
      <4> SUFFICES ASSUME NEW e \in Int, e = k + a
                   PROVE  Numbered(b, 0, e) = Numbered(b, 0, k) \cup Numbered(b, k, e)
        OBVIOUS
      <4> QED BY Splits
    <3> QED BY <2>5, <2>13, <3>1, <3>3, <3>4
  <2> QED BY <2>2, <2>9, <2>12, <2>13, <2>14 DEF Keeps
<1> QED BY <1>7, <1>8 DEF KeepsResults

\* A call that returns nothing changes nothing.
LEMMA NothingReturned ==
  ASSUME KeepsResults, NEW C, NEW n, NEW call, Calls(C, n, call), call.results = <<>>,
         UNCHANGED <<names, values, bundles, consumed>>
  PROVE  KeepsResults'
<1>1. \A b : Counter(b)' = Counter(b)
  BY DEF Counter
<1>2. ConsumedNames'
  BY <1>1 DEF KeepsResults, ConsumedNames
<1>3. ASSUME NEW b \in Bundles PROVE Keeps(b)'
  <2>1. /\ Returned(b)' = Returned(b) \cup NewReturned(n + 1, call, b)
        /\ \A p \in Returned(b) : calls'[p[1]] = calls[p[1]]
    BY ReturnedGrows
  <2>2. NewReturned(n + 1, call, b) = {}
    BY DEF NewReturned
  <2>3. Returned(b)' = Returned(b)
    BY <2>1, <2>2
  <2>4. Keeps(b)
    BY DEF KeepsResults
  <2> SUFFICES ASSUME NEW R, R = Returned(b) PROVE Keeps(b)'
    OBVIOUS
  <2>5. Counter(b)' = Counter(b) /\ Returned(b)' = R
    BY <1>1, <2>3
  <2> QED BY <2>1, <2>4, <2>5 DEF Keeps
<1> QED BY <1>2, <1>3 DEF KeepsResults

\* Taking the p-th of ascending names leaves the others, ascending.
LEMMA PoppedAscends ==
  ASSUME NEW S \in SUBSET NameSet, NEW s \in Seq(S), Ascending(s), NEW p \in 1 .. Len(s)
  PROVE  /\ Ascending(Popped(s, p))
         /\ NamesIn(Popped(s, p)) = NamesIn(s) \ {s[p]}
<1> DEFINE q == Popped(s, p)
<1>1. /\ q \in Seq(S) /\ Len(q) = Len(s) - 1
      /\ \A i \in 1 .. Len(s) - 1 : q[i] = IF i < p THEN s[i] ELSE s[i + 1]
  BY PoppedType
<1> SUFFICES ASSUME NEW l \in Nat, Len(s) = l
             PROVE  Ascending(q) /\ NamesIn(q) = NamesIn(s) \ {s[p]}
  BY LenProperties
<1>2. DOMAIN s = 1 .. l /\ DOMAIN q = 1 .. l - 1
  BY <1>1, LenProperties
<1>3. \A i \in 1 .. l : s[i] \in NameSet /\ s[i][2] \in Nat
  BY <1>2, ElementOfSeq DEF NameSet
<1>4. \A i, j \in 1 .. l : i < j => s[i][2] < s[j][2]
  BY <1>2 DEF Ascending
<1> HIDE DEF q
<1>5. Ascending(q)
  <2> SUFFICES ASSUME NEW i \in 1 .. l - 1, NEW j \in 1 .. l - 1, i < j PROVE q[i][2] < q[j][2]
    BY <1>2 DEF Ascending
  <2> DEFINE u == IF i < p THEN i ELSE i + 1
             v == IF j < p THEN j ELSE j + 1
  <2>1. u \in 1 .. l /\ v \in 1 .. l /\ u < v
    OBVIOUS
  <2>2. q[i] = s[u] /\ q[j] = s[v]
    BY <1>1
  <2> HIDE DEF u, v
  <2> QED BY <1>4, <2>1, <2>2
<1>6. \A i \in 1 .. l : i # p => s[i] # s[p]
  <2> SUFFICES ASSUME NEW i \in 1 .. l, i # p PROVE s[i] # s[p]
    OBVIOUS
  <2>1. s[i][2] < s[p][2] \/ s[p][2] < s[i][2]
    BY <1>4
  <2>2. s[i][2] \in Nat /\ s[p][2] \in Nat
    BY <1>3
  <2> QED BY <2>1, <2>2
<1>7. ASSUME NEW i \in 1 .. l - 1 PROVE \E j \in 1 .. l : j # p /\ q[i] = s[j]
  <2>1. CASE i < p
    BY <1>1, <2>1
  <2>2. CASE ~(i < p)
    <3>1. i + 1 \in 1 .. l /\ i + 1 # p
      BY <2>2
    <3> QED BY <1>1, <2>2, <3>1
  <2> QED BY <2>1, <2>2
<1>8. ASSUME NEW j \in 1 .. l, j # p PROVE \E i \in 1 .. l - 1 : q[i] = s[j]
  <2>1. CASE j < p
    BY <1>1, <2>1
  <2>2. CASE ~(j < p)
    <3>1. j - 1 \in 1 .. l - 1 /\ ~(j - 1 < p) /\ j - 1 + 1 = j
      BY <1>8, <2>2
    <3>2. q[j - 1] = s[j - 1 + 1]
      BY <1>1, <3>1
    <3> QED BY <3>1, <3>2
  <2> QED BY <2>1, <2>2
<1>9. NamesIn(q) = {q[i] : i \in 1 .. l - 1} /\ NamesIn(s) = {s[i] : i \in 1 .. l}
  BY <1>2 DEF NamesIn
<1>10. NamesIn(q) \subseteq NamesIn(s) \ {s[p]}
  BY <1>6, <1>7, <1>9
<1>11. NamesIn(s) \ {s[p]} \subseteq NamesIn(q)
  BY <1>8, <1>9
<1> QED BY <1>5, <1>10, <1>11

\* Consuming a name takes it from its bundle.
LEMMA ConsumeKeeps ==
  ASSUME NamesAgree, KeepsResults, NEW b \in Bundles, NEW p \in DOMAIN bundles[b],
         bundles' = [bundles EXCEPT ![b] = Popped(@, p)],
         consumed' = consumed \cup {bundles[b][p]},
         UNCHANGED <<names, values, calls>>
  PROVE  KeepsResults'
<1> DEFINE x == bundles[b][p]
<1>1. \A a : Counter(a)' = Counter(a) /\ Returned(a)' = Returned(a)
  BY DEF Counter, Returned
<1>2. bundles[b] \in Seq(NamesIn(names)) /\ p \in 1 .. Len(bundles[b]) /\ NamesIn(names) \in SUBSET NameSet
  <2>1. bundles[b] \in Seq(NamesIn(names)) /\ names \in Seq(NameSet)
    BY DEF NamesAgree
  <2> QED BY <2>1, LenProperties, ElementOfSeq DEF NamesIn
<1>3. PICK i \in 0 .. Counter(b) - 1 : x = <<b, i>>
  <2>1. x \in NamesIn(bundles[b])
    BY DEF NamesIn
  <2>2. NamesIn(bundles[b]) = Numbered(b, 0, Counter(b)) \ consumed
    BY DEF KeepsResults, Keeps
  <2>3. 0 \in Int /\ Counter(b) \in Int
    BY CounterType DEF NamesAgree
  <2> HIDE DEF x
  <2> QED BY <2>1, <2>2, <2>3, InNumbered
<1>4. Counter(b) \in Nat
  BY CounterType DEF NamesAgree
<1>5. ConsumedNames'
  <2>1. x \in NameSet /\ x[2] < Counter(x[1])
    BY <1>3, <1>4 DEF NameSet
  <2>2. ConsumedNames
    BY DEF KeepsResults
  <2> HIDE DEF x
  <2> QED BY <1>1, <2>1, <2>2 DEF ConsumedNames, x
<1>6. Keeps(b)'
  <2>1. Keeps(b) /\ bundles'[b] = Popped(bundles[b], p)
    BY DEF KeepsResults, NamesAgree
  <2>2. Ascending(bundles'[b]) /\ NamesIn(bundles'[b]) = NamesIn(bundles[b]) \ {x}
    BY <1>2, <2>1, PoppedAscends DEF Keeps
  <2> HIDE DEF x
  <2> SUFFICES ASSUME NEW R, R = Returned(b) PROVE Keeps(b)'
    OBVIOUS
  <2> QED BY <1>1, <2>1, <2>2 DEF Keeps, x
<1>7. ASSUME NEW a \in Bundles, a # b PROVE Keeps(a)'
  <2>1. Keeps(a) /\ bundles'[a] = bundles[a]
    BY <1>7 DEF KeepsResults, NamesAgree
  <2>2. x \notin NamesIn(bundles[a])
    <3>1. x \notin Numbered(a, 0, Counter(a))
      BY <1>3, <1>7 DEF Numbered
    <3> QED BY <2>1, <3>1 DEF Keeps
  <2> HIDE DEF x
  <2>3. NamesIn(bundles'[a]) = Numbered(a, 0, Counter(a)) \ consumed'
    BY <2>1, <2>2 DEF Keeps, x
  <2> QED BY <1>1, <2>1, <2>3 DEF Keeps
<1> QED BY <1>5, <1>6, <1>7 DEF KeepsResults

\* What the steps that neither call nor consume leave alone.
LEMMA OthersKeepResults ==
  ASSUME KeepsResults, UNCHANGED <<names, values, bundles, calls, consumed>>
  PROVE  KeepsResults'
<1>1. \A b : Counter(b)' = Counter(b) /\ Returned(b)' = Returned(b)
  BY DEF Counter, Returned
<1>2. ConsumedNames'
  BY <1>1 DEF KeepsResults, ConsumedNames
<1>3. ASSUME NEW b \in Bundles PROVE Keeps(b)'
  BY <1>1 DEF KeepsResults, Keeps
<1> QED BY <1>2, <1>3 DEF KeepsResults

\* The steps that make a call.
LEMMA ExecuteKeepsResults ==
  ASSUME ProgramAgrees, KeepsResults, ExecuteReturns \/ ExecuteNone \/ ExecuteRaises
  PROVE  KeepsResults'
<1>1. NamesAgree
  BY DEF ProgramAgrees
<1>2. PICK C : calls \in Seq(C)
  BY DEF ProgramAgrees
<1>3. CASE ExecuteReturns
  <2>1. PICK results \in BoundedSeq(Objects, MaxResults) : AddResults(results) /\ Called(results)
    BY <1>3 DEF ExecuteReturns
  <2>2. results \in Seq(Objects)
    BY <2>1 DEF BoundedSeq, SeqOf
  <2>3. UNCHANGED consumed
    BY <1>3 DEF ExecuteReturns
  <2> QED BY <1>1, <1>2, <2>1, <2>2, <2>3, ReturnKeeps
<1>4. CASE ExecuteNone \/ ExecuteRaises
  <2> DEFINE call == [rule |-> rule, args |-> Passed, results |-> <<>>]
  <2>1. UNCHANGED <<names, values, bundles, consumed>> /\ calls' = Append(calls, call)
    BY <1>4 DEF ExecuteNone, ExecuteRaises, Called
  <2>2. call.results = <<>>
    OBVIOUS
  <2> HIDE DEF call
  <2>3. Calls(C \cup {call}, Len(calls), call)
    <3>1. calls \in Seq(C \cup {call}) /\ Len(calls) \in Nat
      BY <1>2, SeqMonotonic, LenProperties
    <3> QED BY <2>1, <3>1 DEF Calls
  <2> QED BY <2>1, <2>2, <2>3, NothingReturned
<1> QED BY <1>3, <1>4

\* The bundles are kept at every step.
LEMMA AlwaysKeepsResults == Spec => []KeepsResults
<1>1. Init => KeepsResults
  <2> SUFFICES ASSUME Init PROVE KeepsResults
    OBVIOUS
  <2>1. names = <<>> /\ calls = <<>> /\ consumed = {} /\ bundles = [b \in Bundles |-> <<>>]
    BY DEF Init
  <2>2. ASSUME NEW b PROVE Returned(b) = {} /\ Counter(b) = 0
    <3>1. Returned(b) = {}
      BY <2>1 DEF Returned
    <3>2. {i \in DOMAIN names : names[i][1] = b} = {}
      BY <2>1
    <3> QED BY <3>1, <3>2, FS_EmptySet DEF Counter
  <2>3. ASSUME NEW b \in Bundles PROVE Keeps(b)
    <3>1. IsFiniteSet(Returned(b)) /\ Counter(b) = Cardinality(Returned(b))
      BY <2>2, FS_EmptySet
    <3>2. bundles[b] = <<>> /\ DOMAIN bundles[b] = {}
      BY <2>1
    <3>3. NamesIn(bundles[b]) = Numbered(b, 0, Counter(b)) \ consumed
      BY <2>2, <3>2 DEF NamesIn, Numbered
    <3> QED BY <2>2, <3>1, <3>2, <3>3 DEF Keeps, Ascending
  <2> QED BY <2>1, <2>3 DEF KeepsResults, ConsumedNames
<1>2. ProgramAgrees /\ KeepsResults /\ [Next]_vars => KeepsResults'
  <2> SUFFICES ASSUME ProgramAgrees, KeepsResults, [Next]_vars PROVE KeepsResults'
    OBVIOUS
  <2>1. CASE Overrun \/ CheckInvariants \/ Stop \/ GoOn \/ NoneAllowed \/ RejectArgument \/ Teardown
    BY <2>1, OthersKeepResults DEF Overrun, CheckInvariants, Stop, GoOn, NoneAllowed, RejectArgument,
       Teardown, Ends, machine, history
  <2>2. CASE SelectRules \/ \E r \in Rules : LookDisabled(r) \/ LookTakes(r) \/ LookKeeps(r) \/ ChooseAllowed(r)
    BY <2>2, OthersKeepResults DEF SelectRules, LookDisabled, LookTakes, LookKeeps, ChooseAllowed,
       machine, history
  <2>3. CASE \E r \in Initializers : SelectInitialize(r)
    BY <2>3, OthersKeepResults DEF SelectInitialize, machine, history
  <2>4. CASE DrawArgument
    <3>1. UNCHANGED <<names, values, calls>>
      BY <2>4 DEF DrawArgument
    <3> DEFINE b == Argued.bundle
    <3>2. PICK p \in DOMAIN bundles[b] :
            \/ bundles' = [bundles EXCEPT ![b] = Popped(@, p)] /\ consumed' = consumed \cup {bundles[b][p]}
            \/ UNCHANGED <<bundles, consumed>>
      BY <2>4 DEF DrawArgument
    <3>3. CASE UNCHANGED <<bundles, consumed>>
      BY <3>1, <3>3, OthersKeepResults
    <3>4. CASE bundles' = [bundles EXCEPT ![b] = Popped(@, p)] /\ consumed' = consumed \cup {bundles[b][p]}
      <4>1. NamesAgree /\ b \in Bundles
        BY <2>4, ArgumentHasBundle DEF ProgramAgrees
      <4> HIDE DEF b
      <4> QED BY <3>1, <3>2, <3>4, <4>1, ConsumeKeeps
    <3> QED BY <3>2, <3>3, <3>4
  <2>5. CASE ExecuteReturns \/ ExecuteNone \/ ExecuteRaises
    BY <2>5, ExecuteKeepsResults
  <2>6. CASE UNCHANGED vars
    BY <2>6, OthersKeepResults DEF vars, machine, history
  <2> QED BY <2>1, <2>2, <2>3, <2>4, <2>5, <2>6 DEF Next
<1> QED BY <1>1, <1>2, ProgramAlwaysAgrees, PTL DEF Spec

\* BundlesKeepResults: for every machine, whatever its rules return, a bundle holds what
\* was returned to it, in that order, but for what a consuming argument drew.
THEOREM BundlesHoldResults == Spec => []BundlesKeepResults
BY AlwaysKeepsResults, KeepsWhatIsPromised, PTL
=============================================================================
