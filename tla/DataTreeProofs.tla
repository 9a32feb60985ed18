--------------------------- MODULE DataTreeProofs ---------------------------
(***************************************************************************)
(* The tree of choices keeps its promises, for all test functions and      *)
(* sizes: Trie, what a DataTree promises, and DataTree, which implements   *)
(* Trie, offers novel prefixes and predicts runs.                          *)
(***************************************************************************)
EXTENDS DataTree, FiniteSetTheorems, SequenceTheorems, TLAPS

\* Trie, on variables of its own.
VARIABLES recorded, claimed

Tree == INSTANCE Trie WITH known <- recorded, done <- claimed

-----------------------------------------------------------------------------
\* Trie: a claim of exhaustion is true and final.

\* What is known is known of positions.
TrieInv ==
  /\ DOMAIN recorded \subseteq Tree!Positions
  /\ \A p \in DOMAIN recorded : recorded[p] \in Tree!Steps
  /\ claimed \in BOOLEAN

\* A step leads on by values or by the kill mark.
LEMMA AllowedType ==
  ASSUME Tree!TrieConstants, NEW s \in Tree!Steps
  PROVE  Tree!Allowed(s) \subseteq Values \cup {KillMark}
<1>1. CASE \E k \in Kinds, f \in Values \cup {NoValue} : s = Tree!Draw(k, f)
  <2>1. PICK k \in Kinds, f \in Values \cup {NoValue} : s = Tree!Draw(k, f)
    BY <1>1
  <2> QED
    BY <2>1 DEF Tree!TrieConstants, Tree!Draw, Tree!Allowed
<1>2. CASE s = Tree!Kill
  BY <1>2 DEF Tree!Kill, Tree!Allowed
<1>3. CASE \E c \in Conclusions : s = Tree!Conclude(c)
  BY <1>3 DEF Tree!Conclude, Tree!Allowed
<1> QED
  BY <1>1, <1>2, <1>3 DEF Tree!Steps

\* The edge of what is known consists of positions.
LEMMA EdgeType == Tree!TrieConstants /\ TrieInv => Tree!Edge(recorded) \subseteq Tree!Positions
<1> SUFFICES ASSUME Tree!TrieConstants, TrieInv, NEW p \in Tree!Edge(recorded)
             PROVE  p \in Tree!Positions
  OBVIOUS
<1>1. CASE p = <<>>
  BY <1>1 DEF Tree!Positions
<1>2. CASE \E q \in DOMAIN recorded : \E v \in Tree!Allowed(recorded[q]) : p = Append(q, v)
  <2>1. PICK q \in DOMAIN recorded : \E v \in Tree!Allowed(recorded[q]) : p = Append(q, v)
    BY <1>2
  <2>2. PICK v \in Tree!Allowed(recorded[q]) : p = Append(q, v)
    BY <2>1
  <2>3. q \in Tree!Positions /\ v \in Values \cup {KillMark}
    BY AllowedType DEF TrieInv
  <2> QED
    BY <2>2, <2>3 DEF Tree!Positions
<1> QED
  BY <1>1, <1>2 DEF Tree!Edge

\* Every step keeps the types of what is recorded.
LEMMA TrieKeeps == Tree!TrieConstants /\ TrieInv /\ [Tree!Next]_<<recorded, claimed>> => TrieInv'
<1> SUFFICES ASSUME Tree!TrieConstants, TrieInv, [Tree!Next]_<<recorded, claimed>> PROVE TrieInv'
  OBVIOUS
<1>1. ASSUME NEW p \in Tree!Edge(recorded), NEW s \in Tree!Steps, Tree!Learn(p, s)
      PROVE  /\ DOMAIN recorded' \subseteq Tree!Positions
             /\ \A q \in DOMAIN recorded' : recorded'[q] \in Tree!Steps
  BY <1>1, EdgeType DEF Tree!Learn, TrieInv
<1>2. claimed' \in BOOLEAN
  BY DEF Tree!Next, TrieInv
<1> QED
  BY <1>1, <1>2 DEF Tree!Next, TrieInv

\* Learning a step behind a kill opens nothing that is worth exploring.
LEMMA NothingReopens ==
  ASSUME Tree!TrieConstants, TrieInv, Tree!Frontier(recorded) = {},
         NEW p \in Tree!Edge(recorded), NEW s \in Tree!Steps, Tree!Learn(p, s)
  PROVE  Tree!Frontier(recorded') = {}
<1> SUFFICES ASSUME NEW q \in Tree!Frontier(recorded') PROVE FALSE
  OBVIOUS
<1>1. q \in Tree!Edge(recorded') /\ KillMark \notin Tree!Range(q)
  BY DEF Tree!Frontier
<1>2. KillMark \in Tree!Range(p)
  BY DEF Tree!Frontier
<1>3. DOMAIN recorded' = DOMAIN recorded \cup {p} /\ recorded'[p] = s
  BY DEF Tree!Learn
<1>4. \A r \in DOMAIN recorded : recorded'[r] = recorded[r]
  BY DEF Tree!Learn, Tree!Edge
<1>5. q \notin DOMAIN recorded
  BY <1>1, <1>3 DEF Tree!Edge
<1>6. q # <<>>
  <2>1. q = <<>> => q \in Tree!Edge(recorded)
    BY <1>5 DEF Tree!Edge
  <2> QED
    BY <2>1, <1>1 DEF Tree!Frontier
<1>7. PICK r \in DOMAIN recorded' : \E v \in Tree!Allowed(recorded'[r]) : q = Append(r, v)
  BY <1>1, <1>6 DEF Tree!Edge
<1>8. PICK v \in Tree!Allowed(recorded'[r]) : q = Append(r, v)
  BY <1>7
<1>9. CASE r \in DOMAIN recorded
  <2>1. q \in Tree!Edge(recorded)
    BY <1>4, <1>5, <1>8, <1>9 DEF Tree!Edge
  <2> QED
    BY <2>1, <1>1 DEF Tree!Frontier
<1>10. CASE r = p
  <2>1. p \in Tree!Positions
    BY EdgeType
  <2>2. PICK i \in 1 .. Len(p) : p[i] = KillMark
    BY <1>2, <2>1 DEF Tree!Range, Tree!Positions
  <2>3. i \in DOMAIN q /\ q[i] = KillMark
    BY <1>8, <1>10, <2>1, <2>2 DEF Tree!Positions
  <2> QED
    BY <1>1, <2>3 DEF Tree!Range
<1> QED
  BY <1>3, <1>7, <1>9, <1>10

\* The claim of exhaustion (DataTree.is_exhausted) is never made too early and
\* never becomes false: TreeNode.check_exhausted "a node cannot go from
\* is_exhausted -> not is_exhausted".
THEOREM DoneIsSound ==
  ASSUME Tree!TrieConstants
  PROVE  Tree!Spec => []Tree!DoneMeansExplored
<1> DEFINE TrieSafe == TrieInv /\ Tree!DoneMeansExplored
<1>1. Tree!Init => TrieSafe
  <2> SUFFICES ASSUME Tree!Init PROVE TrieSafe
    OBVIOUS
  <2>1. DOMAIN recorded = {} /\ claimed = FALSE
    BY DEF Tree!Init
  <2> QED
    BY <2>1 DEF TrieInv, Tree!DoneMeansExplored
<1>2. TrieSafe /\ [Tree!Next]_<<recorded, claimed>> => TrieSafe'
  <2> SUFFICES ASSUME TrieSafe, [Tree!Next]_<<recorded, claimed>> PROVE TrieSafe'
    OBVIOUS
  <2>1. TrieInv'
    BY TrieKeeps
  <2>2. CASE claimed' = TRUE /\ Tree!Frontier(recorded') = {}
    BY <2>1, <2>2 DEF Tree!DoneMeansExplored
  <2>3. CASE UNCHANGED claimed /\ UNCHANGED recorded
    BY <2>1, <2>3 DEF Tree!DoneMeansExplored
  <2>4. CASE UNCHANGED claimed /\ \E p \in Tree!Edge(recorded), s \in Tree!Steps : Tree!Learn(p, s)
    <3>1. PICK p \in Tree!Edge(recorded), s \in Tree!Steps : Tree!Learn(p, s)
      BY <2>4
    <3>2. Tree!Frontier(recorded) = {} => Tree!Frontier(recorded') = {}
      BY <3>1, NothingReopens
    <3> QED
      BY <2>1, <2>4, <3>2 DEF Tree!DoneMeansExplored
  <2> QED
    BY <2>2, <2>3, <2>4 DEF Tree!Next
<1> QED
  BY <1>1, <1>2, PTL DEF Tree!Spec
-----------------------------------------------------------------------------
\* Positions within a node.

\* The position after the first i values of a node.
LEMMA PosInElements ==
  ASSUME NEW S, NEW n \in Seq(S), NEW vs \in Seq(S), NEW i \in 0 .. Len(vs)
  PROVE  /\ n \o SubSeq(vs, 1, i) \in Seq(S)
         /\ Len(n \o SubSeq(vs, 1, i)) = Len(n) + i
         /\ \A j \in 1 .. Len(n) + i :
              (n \o SubSeq(vs, 1, i))[j] = IF j <= Len(n) THEN n[j] ELSE vs[j - Len(n)]
<1>1. /\ SubSeq(vs, 1, i) \in Seq(S)
      /\ Len(SubSeq(vs, 1, i)) = i
      /\ \A j \in 1 .. i : SubSeq(vs, 1, i)[j] = vs[j]
  <2>1. \A j \in 1 .. i : vs[j] \in S
    BY ElementOfSeq
  <2> QED
    BY <2>1, SubSeqProperties
<1> QED
  BY <1>1, ConcatProperties

\* Every next place of a node is one value on.
LEMMA PosInNext ==
  ASSUME NEW S, NEW n \in Seq(S), NEW vs \in Seq(S), NEW i \in 1 .. Len(vs)
  PROVE  n \o SubSeq(vs, 1, i) = Append(n \o SubSeq(vs, 1, i - 1), vs[i])
<1> DEFINE p == n \o SubSeq(vs, 1, i - 1)
           q == n \o SubSeq(vs, 1, i)
<1>1. /\ p \in Seq(S) /\ Len(p) = Len(n) + i - 1
      /\ \A j \in 1 .. Len(n) + i - 1 :
              p[j] = IF j <= Len(n) THEN n[j] ELSE vs[j - Len(n)]
  BY PosInElements
<1>2. /\ q \in Seq(S) /\ Len(q) = Len(n) + i
      /\ \A j \in 1 .. Len(n) + i :
              q[j] = IF j <= Len(n) THEN n[j] ELSE vs[j - Len(n)]
  BY PosInElements
<1>3. vs[i] \in S
  BY ElementOfSeq
<1> HIDE DEF p, q
<1>4. /\ Append(p, vs[i]) \in Seq(S)
      /\ Len(Append(p, vs[i])) = Len(p) + 1
      /\ \A j \in 1 .. Len(p) : Append(p, vs[i])[j] = p[j]
      /\ Append(p, vs[i])[Len(p) + 1] = vs[i]
  BY <1>1, <1>3, AppendProperties
<1>5. \A j \in 1 .. Len(q) : q[j] = Append(p, vs[i])[j]
  <2>1. Len(n) \in Nat /\ Len(vs) \in Nat
    BY LenProperties
  <2> SUFFICES ASSUME NEW j \in 1 .. Len(q) PROVE q[j] = Append(p, vs[i])[j]
    OBVIOUS
  <2>2. CASE j <= Len(p)
    <3>1. j \in 1 .. Len(p) /\ j \in 1 .. Len(n) + i - 1 /\ j \in 1 .. Len(n) + i
      BY <2>1, <2>2, <1>1, <1>2
    <3> QED
      BY <3>1, <1>1, <1>2, <1>4
  <2>3. CASE j = Len(p) + 1
    <3>1. j - Len(n) = i /\ ~(j <= Len(n)) /\ j \in 1 .. Len(n) + i
      BY <2>1, <2>3, <1>1, <1>2
    <3>2. q[j] = vs[i]
      BY <3>1, <1>2
    <3> QED
      BY <3>2, <2>3, <1>4
  <2> QED
    BY <2>1, <2>2, <2>3, <1>1, <1>2
<1>6. q = Append(p, vs[i])
  BY <1>1, <1>2, <1>4, <1>5, SeqEqual
<1> QED
  BY <1>6 DEF p, q

\* The first and the last place of a node.
LEMMA PosInEnds ==
  ASSUME NEW S, NEW n \in Seq(S), NEW vs \in Seq(S)
  PROVE  n \o SubSeq(vs, 1, 0) = n /\ n \o SubSeq(vs, 1, Len(vs)) = n \o vs
BY SubSeqEmpty, SubSeqFull, ConcatEmptySeq

\* Appending a value moves no place.
LEMMA PosInAppended ==
  ASSUME NEW S, NEW vs \in Seq(S), NEW v \in S, NEW i \in 0 .. Len(vs)
  PROVE  SubSeq(Append(vs, v), 1, i) = SubSeq(vs, 1, i)
<1>1. \A j \in 1 .. i : vs[j] \in S /\ Append(vs, v)[j] = vs[j]
  BY ElementOfSeq, AppendProperties
<1>2. \A j \in 1 .. i : Append(vs, v)[j] \in S
  BY <1>1
<1>3. /\ SubSeq(vs, 1, i) \in Seq(S) /\ Len(SubSeq(vs, 1, i)) = i
      /\ \A j \in 1 .. i : SubSeq(vs, 1, i)[j] = vs[j]
  BY <1>1, SubSeqProperties
<1>4. /\ SubSeq(Append(vs, v), 1, i) \in Seq(S) /\ Len(SubSeq(Append(vs, v), 1, i)) = i
      /\ \A j \in 1 .. i : SubSeq(Append(vs, v), 1, i)[j] = Append(vs, v)[j]
  BY <1>2, SubSeqProperties
<1> QED
  BY <1>1, <1>3, <1>4, SeqEqual

\* What is left of a sequence after its first i elements.
LEMMA RestElements ==
  ASSUME NEW S, NEW vs \in Seq(S), NEW i \in 1 .. Len(vs)
  PROVE  /\ SubSeq(vs, i + 1, Len(vs)) \in Seq(S)
         /\ Len(SubSeq(vs, i + 1, Len(vs))) = Len(vs) - i
         /\ \A h \in 1 .. Len(vs) - i : SubSeq(vs, i + 1, Len(vs))[h] = vs[i + h]
<1>0. Len(vs) \in Nat
  BY LenProperties
<1>1. \A h \in i + 1 .. Len(vs) : vs[h] \in S
  BY ElementOfSeq
<1>2. /\ SubSeq(vs, i + 1, Len(vs)) \in Seq(S)
      /\ Len(SubSeq(vs, i + 1, Len(vs))) =
           IF i + 1 <= Len(vs) THEN Len(vs) - (i + 1) + 1 ELSE 0
      /\ \A h \in 1 .. Len(vs) - (i + 1) + 1 :
           SubSeq(vs, i + 1, Len(vs))[h] = vs[(i + 1) + h - 1]
  BY <1>0, <1>1, SubSeqProperties
<1> QED
  BY <1>0, <1>2

\* Dividing a node at its i-th value moves no place either.
LEMMA PosInDivided ==
  ASSUME NEW n \in Trie!Positions, NEW nd, nd.values \in Trie!Positions,
         NEW i \in 1 .. Len(nd.values), NEW j \in 0 .. Len(nd.values) - i,
         NEW rest, rest.values = SubSeq(nd.values, i + 1, Len(nd.values))
  PROVE  PosIn(PosIn(n, nd, i), rest, j) = PosIn(n, nd, i + j)
<1> DEFINE S == Values \cup {KillMark}
           vs == nd.values
           follow == rest.values
           at == n \o SubSeq(vs, 1, i)
           p == at \o SubSeq(follow, 1, j)
           q == n \o SubSeq(vs, 1, i + j)
<1> HIDE DEF S, vs, follow
<1>0. /\ n \in Seq(S) /\ vs \in Seq(S) /\ i \in 1 .. Len(vs) /\ j \in 0 .. Len(vs) - i
      /\ Len(n) \in Nat /\ Len(vs) \in Nat
  BY LenProperties DEF S, vs, Trie!Positions
<1>1. /\ follow \in Seq(S) /\ Len(follow) = Len(vs) - i
      /\ \A h \in 1 .. Len(vs) - i : follow[h] = vs[i + h]
  BY <1>0, RestElements DEF vs, follow
<1>2. /\ at \in Seq(S) /\ Len(at) = Len(n) + i
      /\ \A h \in 1 .. Len(n) + i : at[h] = IF h <= Len(n) THEN n[h] ELSE vs[h - Len(n)]
  BY <1>0, PosInElements
<1>3. /\ q \in Seq(S) /\ Len(q) = Len(n) + i + j
      /\ \A h \in 1 .. Len(n) + i + j : q[h] = IF h <= Len(n) THEN n[h] ELSE vs[h - Len(n)]
  BY <1>0, PosInElements
<1> HIDE DEF q, at
<1>4. /\ p \in Seq(S) /\ Len(p) = Len(at) + j
      /\ \A h \in 1 .. Len(at) + j : p[h] = IF h <= Len(at) THEN at[h] ELSE follow[h - Len(at)]
  <2>1. j \in 0 .. Len(follow)
    BY <1>0, <1>1
  <2> QED
    BY <2>1, <1>1, <1>2, PosInElements
<1> HIDE DEF p
<1>5. \A h \in 1 .. Len(p) : p[h] = q[h]
  <2> SUFFICES ASSUME NEW h \in 1 .. Len(p) PROVE p[h] = q[h]
    OBVIOUS
  <2>1. CASE h <= Len(at)
    <3>1. h \in 1 .. Len(n) + i /\ h \in 1 .. Len(n) + i + j /\ h \in 1 .. Len(at) + j
      BY <2>1, <1>0, <1>2, <1>4
    <3>2. p[h] = at[h]
      BY <3>1, <2>1, <1>4
    <3> QED
      BY <3>1, <3>2, <1>2, <1>3
  <2>2. CASE h > Len(at)
    <3>1. /\ h - Len(at) \in 1 .. Len(vs) - i /\ h - Len(n) = i + (h - Len(at))
          /\ h \in 1 .. Len(n) + i + j /\ h \in 1 .. Len(at) + j
          /\ ~(h <= Len(n)) /\ ~(h <= Len(at))
      <4>1. Len(at) = Len(n) + i /\ Len(p) = Len(n) + i + j /\ h \in 1 .. Len(n) + i + j
        BY <1>0, <1>2, <1>4
      <4>2. h > Len(n) + i
        BY <2>2, <4>1
      <4>3. h \in Nat /\ i \in Nat /\ j \in Nat /\ i + j <= Len(vs)
        BY <1>0, <4>1
      <4>4. h - Len(at) \in 1 .. Len(vs) - i
        BY <1>0, <4>1, <4>2, <4>3
      <4>5. Len(n) \in Nat /\ Len(vs) \in Nat
        BY <1>0
      <4>6. h - Len(n) = i + (h - Len(at)) /\ ~(h <= Len(n)) /\ ~(h <= Len(at))
        BY <4>1, <4>2, <4>3, <4>5
      <4> QED
        BY <4>1, <4>4, <4>6
    <3>2. p[h] = follow[h - Len(at)]
      BY <3>1, <1>4
    <3>3. q[h] = vs[h - Len(n)]
      BY <3>1, <1>3
    <3>4. follow[h - Len(at)] = vs[i + (h - Len(at))]
      BY <3>1, <1>1
    <3> QED
      BY <3>1, <3>2, <3>3, <3>4
  <2> QED
    BY <2>1, <2>2, <1>2, <1>4
<1>6. p = q
  BY <1>2, <1>3, <1>4, <1>5, SeqEqual
<1> QED
  BY <1>6 DEF p, q, at, vs, follow, PosIn

\* A set of numbers that has a member has a least one.
LEMMA Least == ASSUME NEW T \in SUBSET Nat, T # {}
               PROVE  \E m \in T : \A k \in T : m <= k
<1> DEFINE R == StrictSubsetOrdering(Nat)
           Below == {1 .. m : m \in T}
<1>1. \A m \in T : 1 .. m \in SUBSET Nat /\ IsFiniteSet(1 .. m)
  BY FS_Interval
<1>2. Below \subseteq FiniteSubsetsOf(Nat) /\ Below # {}
  BY <1>1 DEF FiniteSubsetsOf
<1>3. PICK x \in Below : \A y \in Below : <<y, x>> \notin R
  <2>1. IsWellFoundedOn(R, FiniteSubsetsOf(Nat))
    BY FS_StrictSubsetOrderingWellFounded
  <2> HIDE DEF R, Below
  <2> QED
    BY <2>1, <1>2, WFMin
<1>4. PICK m \in T : x = 1 .. m
  BY <1>3
<1>5. ASSUME NEW k \in T, k < m PROVE FALSE
  <2>1. 1 .. k \subseteq 1 .. m /\ m \in 1 .. m /\ m \notin 1 .. k
    BY <1>5
  <2>2. <<1 .. k, 1 .. m>> \in R
    BY <2>1, <1>1, <1>5 DEF StrictSubsetOrdering
  <2> QED
    BY <2>2, <1>3, <1>4, <1>5
<1> QED
  BY <1>5

\* The first values of a node stay where they are when the rest is cut off.
LEMMA PosInFirst ==
  ASSUME NEW S, NEW vs \in Seq(S), NEW i \in 0 .. Len(vs), NEW j \in 0 .. i
  PROVE  /\ SubSeq(vs, 1, i) \in Seq(S)
         /\ Len(SubSeq(vs, 1, i)) = i
         /\ \A h \in 1 .. i : SubSeq(vs, 1, i)[h] = vs[h]
         /\ SubSeq(SubSeq(vs, 1, i), 1, j) = SubSeq(vs, 1, j)
<1>0. Len(vs) \in Nat
  BY LenProperties
<1>1. \A h \in 1 .. Len(vs) : vs[h] \in S
  BY ElementOfSeq
<1>2. /\ SubSeq(vs, 1, i) \in Seq(S) /\ Len(SubSeq(vs, 1, i)) = i
      /\ \A h \in 1 .. i : SubSeq(vs, 1, i)[h] = vs[h]
  BY <1>0, <1>1, SubSeqProperties
<1>3. /\ SubSeq(vs, 1, j) \in Seq(S) /\ Len(SubSeq(vs, 1, j)) = j
      /\ \A h \in 1 .. j : SubSeq(vs, 1, j)[h] = vs[h]
  BY <1>0, <1>1, SubSeqProperties
<1> DEFINE first == SubSeq(vs, 1, i)
<1> HIDE DEF first
<1>4. /\ SubSeq(first, 1, j) \in Seq(S) /\ Len(SubSeq(first, 1, j)) = j
      /\ \A h \in 1 .. j : SubSeq(first, 1, j)[h] = first[h]
  <2>1. \A h \in 1 .. j : first[h] \in S
    BY <1>0, <1>1, <1>2 DEF first
  <2> QED
    BY <2>1, SubSeqProperties
<1>5. \A h \in 1 .. j : SubSeq(first, 1, j)[h] = SubSeq(vs, 1, j)[h]
  BY <1>2, <1>3, <1>4 DEF first
<1>6. SubSeq(first, 1, j) = SubSeq(vs, 1, j)
  BY <1>3, <1>4, <1>5, SeqEqual
<1> QED
  BY <1>2, <1>6 DEF first

-----------------------------------------------------------------------------
\* The shape of a tree.

Transitions ==
  {[op |-> "none"], Trie!Kill} \cup {Trie!Conclude(c) : c \in Conclusions}
    \cup {Branch(k, vs) : k \in Kinds, vs \in SUBSET Values}

Node == [kinds : Seq(Kinds), values : Seq(Values), forced : SUBSET Nat,
         trans : Transitions, exhausted : BOOLEAN]

\* What a node says fits together: the values are of the kinds, and so are the
\* children of a branch.
Fits(nd) ==
  /\ nd \in Node
  /\ Len(nd.kinds) = Len(nd.values)
  /\ nd.forced \subseteq 1 .. Len(nd.values)
  /\ \A i \in 1 .. Len(nd.values) : nd.values[i] \in Children[nd.kinds[i]]
  /\ nd.trans.op = "branch" => nd.trans.children \subseteq Children[nd.trans.kind]

\* How the walk goes on from the end of a node to another.
Exits(nd) == IF nd.trans.op = "branch" THEN nd.trans.children
             ELSE IF nd.trans.op = "kill" THEN {KillMark} ELSE {}

Shaped(t) ==
  /\ <<>> \in DOMAIN t
  /\ DOMAIN t \subseteq Trie!Positions
  /\ t = [n \in DOMAIN t |-> t[n]]
  /\ \A n \in DOMAIN t : Fits(t[n])

\* Every exit leads to a node, and every node but the root is at an exit.
Closed(t) ==
  \A n \in DOMAIN t : \A v \in Exits(t[n]) : Append(PosAfter(n, t[n]), v) \in DOMAIN t
Entered(t) ==
  \A n \in DOMAIN t : n # <<>> =>
    \E m \in DOMAIN t : \E v \in Exits(t[m]) : n = Append(PosAfter(m, t[m]), v)

\* No position is in the tree twice.
Apart(t) ==
  \A m, n \in DOMAIN t :
    \A i \in 0 .. Len(t[m].values), j \in 0 .. Len(t[n].values) :
      PosIn(m, t[m], i) = PosIn(n, t[n], j) => m = n /\ i = j

\* A node is marked as exhausted only when everything after it was tried.
SpentNode(t, n) ==
  /\ t[n].trans.op # "none"
  /\ t[n].forced = 1 .. Len(t[n].values)
  /\ t[n].trans.op = "branch" =>
       /\ t[n].trans.children = Children[t[n].trans.kind]
       /\ \A v \in t[n].trans.children : t[Append(PosAfter(n, t[n]), v)].exhausted
Spent(t) == \A n \in DOMAIN t : t[n].exhausted => SpentNode(t, n)

Linked(t) == Closed(t) /\ Entered(t) /\ Apart(t)
Sound(t) == Shaped(t) /\ Linked(t) /\ Spent(t)

\* The exits of a node are values, or the mark of a discard.
LEMMA ExitsType ==
  ASSUME NEW nd, Fits(nd)
  PROVE  Exits(nd) \subseteq Values \cup {KillMark}
BY TrieParameters DEF Fits, Node, Exits, Transitions, Branch, Trie!Kill, Trie!Conclude, Trie!TrieConstants

\* The places of a node are positions, one value apart.
LEMMA PlaceType ==
  ASSUME NEW n \in Trie!Positions, NEW nd, Fits(nd), NEW i \in 0 .. Len(nd.values)
  PROVE  /\ PosIn(n, nd, i) \in Trie!Positions
         /\ Len(PosIn(n, nd, i)) = Len(n) + i
         /\ PosIn(n, nd, 0) = n
         /\ PosIn(n, nd, Len(nd.values)) = PosAfter(n, nd)
         /\ PosAfter(n, nd) \in Trie!Positions
         /\ i > 0 => PosIn(n, nd, i) = Append(PosIn(n, nd, i - 1), nd.values[i])
<1> DEFINE V == Values \cup {KillMark}
<1>1. nd.values \in Seq(Values) /\ Values \subseteq V
  BY DEF Fits, Node
<1>2. n \in Seq(V) /\ nd.values \in Seq(V) /\ Trie!Positions = Seq(V)
  BY <1>1, SeqMonotonic DEF Trie!Positions
<1>3. Len(nd.values) \in 0 .. Len(nd.values)
  BY <1>2, LenProperties
<1> HIDE DEF V
<1>4. n \o SubSeq(nd.values, 1, Len(nd.values)) \in Seq(V)
  BY <1>2, <1>3, PosInElements
<1>5. /\ n \o SubSeq(nd.values, 1, i) \in Seq(V)
      /\ Len(n \o SubSeq(nd.values, 1, i)) = Len(n) + i
  BY <1>2, PosInElements
<1>6. /\ n \o SubSeq(nd.values, 1, 0) = n
      /\ n \o SubSeq(nd.values, 1, Len(nd.values)) = n \o nd.values
  BY <1>2, PosInEnds
<1>7. i > 0 => n \o SubSeq(nd.values, 1, i) = Append(n \o SubSeq(nd.values, 1, i - 1), nd.values[i])
  <2>1. i > 0 => i \in 1 .. Len(nd.values)
    BY <1>3
  <2> QED
    BY <2>1, <1>2, PosInNext
<1> QED
  BY <1>2, <1>4, <1>5, <1>6, <1>7 DEF PosIn, PosAfter

-----------------------------------------------------------------------------
\* How a tree changes.

\* The places of a tree are positions.
LEMMA PlacesType ==
  ASSUME NEW t, Shaped(t), NEW n \in DOMAIN t, NEW i \in 0 .. Len(t[n].values)
  PROVE  /\ n \in Trie!Positions /\ Fits(t[n]) /\ Len(t[n].values) \in Nat
         /\ PosIn(n, t[n], i) \in Trie!Positions
         /\ PosIn(n, t[n], 0) = n
         /\ PosIn(n, t[n], Len(t[n].values)) = PosAfter(n, t[n])
         /\ PosAfter(n, t[n]) \in Trie!Positions
         /\ i > 0 => /\ PosIn(n, t[n], i) = Append(PosIn(n, t[n], i - 1), t[n].values[i])
                     /\ t[n].values[i] \in Values
<1>1. n \in Trie!Positions /\ Fits(t[n])
  BY DEF Shaped
<1>2. t[n].values \in Seq(Values)
  BY <1>1 DEF Fits, Node
<1>3. Len(t[n].values) \in Nat
  BY <1>2, LenProperties
<1>4. i > 0 => t[n].values[i] \in Values
  BY <1>2, <1>3, ElementOfSeq
<1> QED
  BY <1>1, <1>3, <1>4, PlaceType

\* The first and the last of them.
LEMMA NodePlaces ==
  ASSUME NEW t, Shaped(t), NEW n \in DOMAIN t
  PROVE  /\ n \in Trie!Positions /\ Fits(t[n]) /\ Len(t[n].values) \in Nat
         /\ 0 \in 0 .. Len(t[n].values)
         /\ Len(t[n].values) \in 0 .. Len(t[n].values)
         /\ PosIn(n, t[n], 0) = n
         /\ PosIn(n, t[n], Len(t[n].values)) = PosAfter(n, t[n])
         /\ PosAfter(n, t[n]) \in Trie!Positions
         /\ Exits(t[n]) \subseteq Values \cup {KillMark}
<1>1. t[n].values \in Seq(Values) /\ Fits(t[n])
  BY DEF Shaped, Fits, Node
<1>2. Len(t[n].values) \in Nat
  BY <1>1, LenProperties
<1>3. 0 \in 0 .. Len(t[n].values) /\ Len(t[n].values) \in 0 .. Len(t[n].values)
  BY <1>2
<1> QED
  BY <1>1, <1>2, <1>3, PlacesType, ExitsType

\* What is not an exit of a node leads out of the tree.
LEMMA Unvisited ==
  ASSUME NEW t, Shaped(t), Linked(t), NEW n \in DOMAIN t,
         NEW w \in Values \cup {KillMark}, w \notin Exits(t[n]),
         NEW m \in DOMAIN t, NEW j \in 0 .. Len(t[m].values)
  PROVE  Append(PosAfter(n, t[n]), w) # PosIn(m, t[m], j)
<1> SUFFICES ASSUME Append(PosAfter(n, t[n]), w) = PosIn(m, t[m], j) PROVE FALSE
  OBVIOUS
<1> DEFINE V == Values \cup {KillMark}
<1>1. Trie!Positions = Seq(V)
  BY DEF Trie!Positions
<1>2. \A k \in DOMAIN t :
        /\ Len(t[k].values) \in Nat
        /\ Len(t[k].values) \in 0 .. Len(t[k].values)
        /\ PosAfter(k, t[k]) \in Seq(V)
        /\ PosIn(k, t[k], Len(t[k].values)) = PosAfter(k, t[k])
        /\ Exits(t[k]) \subseteq V
  BY <1>1, NodePlaces
<1>3. CASE j > 0
  <2>1. /\ PosIn(m, t[m], j) = Append(PosIn(m, t[m], j - 1), t[m].values[j])
        /\ t[m].values[j] \in Values
    BY <1>3, PlacesType
  <2>2. j - 1 \in 0 .. Len(t[m].values) /\ t[m].values[j] \in V
    BY <2>1, <1>2, <1>3
  <2>3. PosIn(m, t[m], j - 1) \in Seq(V) /\ PosAfter(n, t[n]) \in Seq(V)
    BY <2>2, <1>1, <1>2, PlacesType
  <2>4. PosAfter(n, t[n]) = PosIn(m, t[m], j - 1)
    <3> DEFINE p == PosAfter(n, t[n])
               q == PosIn(m, t[m], j - 1)
               v == t[m].values[j]
    <3>1. p \in Seq(V) /\ q \in Seq(V) /\ v \in V /\ w \in V /\ Append(p, w) = Append(q, v)
      BY <2>1, <2>2, <2>3
    <3> HIDE DEF p, q, v, V
    <3>2. p = q
      BY <3>1, AppendInjective
    <3> QED
      BY <3>2 DEF p, q
  <2>5. n = m /\ Len(t[n].values) = j - 1
    <3>1. Len(t[n].values) \in 0 .. Len(t[n].values)
          /\ PosIn(n, t[n], Len(t[n].values)) = PosIn(m, t[m], j - 1)
      BY <2>4, <1>2
    <3> QED
      BY <3>1, <2>2 DEF Linked, Apart
  <2> QED
    BY <2>5, <1>2
<1>4. CASE j = 0
  <2>1. PosIn(m, t[m], j) = m
    BY <1>4, PlacesType
  <2>2. m # <<>>
    BY <2>1, <1>1, <1>2, AppendProperties
  <2>3. PICK k \in DOMAIN t : \E v \in Exits(t[k]) : m = Append(PosAfter(k, t[k]), v)
    BY <2>2 DEF Linked, Entered
  <2>4. PICK v \in Exits(t[k]) : m = Append(PosAfter(k, t[k]), v)
    BY <2>3
  <2>5. v \in V /\ PosAfter(k, t[k]) \in Seq(V) /\ PosAfter(n, t[n]) \in Seq(V)
    BY <1>1, <1>2
  <2>6. PosAfter(n, t[n]) = PosAfter(k, t[k]) /\ w = v
    BY <2>1, <2>4, <2>5, AppendInjective
  <2>8. n = k
    BY <2>6, <1>2 DEF Linked, Apart
  <2> QED
    BY <2>6, <2>8
<1> QED
  BY <1>2, <1>3, <1>4

\* Nothing but values and exits decides how a tree is linked.
LEMMA LinkedAlike ==
  ASSUME NEW t, NEW u, Linked(t), DOMAIN u = DOMAIN t,
         \A n \in DOMAIN t : u[n].values = t[n].values /\ Exits(u[n]) = Exits(t[n])
  PROVE  Linked(u)
<1>1. \A n \in DOMAIN t : PosAfter(n, u[n]) = PosAfter(n, t[n])
  BY DEF PosAfter
<1>2. \A n \in DOMAIN t, i \in Int : PosIn(n, u[n], i) = PosIn(n, t[n], i)
  BY DEF PosIn
<1>3. Closed(u) /\ Entered(u)
  BY <1>1 DEF Linked, Closed, Entered
<1>4. Apart(u)
  <2> SUFFICES ASSUME NEW m \in DOMAIN t, NEW n \in DOMAIN t,
                      NEW i \in 0 .. Len(u[m].values), NEW j \in 0 .. Len(u[n].values),
                      PosIn(m, u[m], i) = PosIn(n, u[n], j)
               PROVE  m = n /\ i = j
    BY DEF Apart
  <2>1. PosIn(m, t[m], i) = PosIn(n, t[n], j)
    BY <1>2
  <2>2. i \in 0 .. Len(t[m].values) /\ j \in 0 .. Len(t[n].values)
    OBVIOUS
  <2> QED
    BY <2>1, <2>2 DEF Linked, Apart
<1> QED
  BY <1>3, <1>4 DEF Linked

\* A node gets one more exit and an empty node behind it.
Grown(t, n, nd, at) ==
  [m \in DOMAIN t \cup {at} |->
     CASE m = n -> nd [] m = at -> EmptyNode [] OTHER -> t[m]]

\* A new node: no values, no exits.
LEMMA EmptyFits == Fits(EmptyNode) /\ Exits(EmptyNode) = {} /\ Len(EmptyNode.values) = 0
BY EmptySeq DEF Fits, EmptyNode, Node, Transitions, Exits

\* A tree that grew by one exit and the node behind it is linked.
LEMMA GrownLinked ==
  ASSUME NEW t, Shaped(t), Linked(t), NEW n \in DOMAIN t,
         NEW w \in Values \cup {KillMark}, w \notin Exits(t[n]),
         NEW nd, Fits(nd), nd.values = t[n].values, Exits(nd) = Exits(t[n]) \cup {w},
         NEW at, at = Append(PosAfter(n, t[n]), w)
  PROVE  /\ at \notin DOMAIN t /\ at # <<>>
         /\ Shaped(Grown(t, n, nd, at)) /\ Linked(Grown(t, n, nd, at))
<1> DEFINE u == Grown(t, n, nd, at)
<1>1. \A m \in DOMAIN t : \A j \in 0 .. Len(t[m].values) : at # PosIn(m, t[m], j)
  BY Unvisited
<1>3. at \notin DOMAIN t
  <2> SUFFICES ASSUME at \in DOMAIN t PROVE FALSE
    OBVIOUS
  <2>1. 0 \in 0 .. Len(t[at].values) /\ PosIn(at, t[at], 0) = at
    BY NodePlaces
  <2> QED
    BY <2>1, <1>1
<1>4. at \in Trie!Positions /\ at # <<>>
  <2>1. PosAfter(n, t[n]) \in Seq(Values \cup {KillMark})
    BY NodePlaces DEF Trie!Positions
  <2> QED
    BY <2>1, AppendProperties DEF Trie!Positions
<1>5. /\ DOMAIN u = DOMAIN t \cup {at} /\ u[n] = nd /\ u[at] = EmptyNode
      /\ \A m \in DOMAIN t : m # n => u[m] = t[m]
  BY <1>3 DEF Grown
<1>6. u = [m \in DOMAIN u |-> u[m]]
  BY DEF Grown
<1> HIDE DEF u
<1>7. Shaped(u)
  BY <1>4, <1>5, <1>6, EmptyFits DEF Shaped
<1>8. /\ \A m \in DOMAIN t : /\ PosAfter(m, u[m]) = PosAfter(m, t[m])
                             /\ u[m].values = t[m].values
      /\ \A m \in DOMAIN t, i \in Int : PosIn(m, u[m], i) = PosIn(m, t[m], i)
  BY <1>5 DEF PosIn, PosAfter
<1>9. Closed(u)
  <2> SUFFICES ASSUME NEW m \in DOMAIN u, NEW v \in Exits(u[m])
               PROVE  Append(PosAfter(m, u[m]), v) \in DOMAIN u
    BY DEF Closed
  <2>1. CASE m = at
    BY <2>1, <1>5, EmptyFits
  <2>2. CASE m \in DOMAIN t
    BY <2>2, <1>5, <1>8 DEF Linked, Closed
  <2> QED
    BY <2>1, <2>2, <1>5
<1>10. Entered(u)
  <2> SUFFICES ASSUME NEW m \in DOMAIN u, m # <<>>
               PROVE  \E k \in DOMAIN u : \E v \in Exits(u[k]) : m = Append(PosAfter(k, u[k]), v)
    BY DEF Entered
  <2>1. CASE m = at
    BY <2>1, <1>5, <1>8
  <2>2. CASE m \in DOMAIN t
    <3>1. PICK k \in DOMAIN t : \E v \in Exits(t[k]) : m = Append(PosAfter(k, t[k]), v)
      BY <2>2 DEF Linked, Entered
    <3>2. Exits(t[k]) \subseteq Exits(u[k]) /\ k \in DOMAIN u
      BY <1>5
    <3> QED
      BY <3>1, <3>2, <1>8
  <2> QED
    BY <2>1, <2>2, <1>5
<1>11. Apart(u)
  <2> SUFFICES ASSUME NEW k \in DOMAIN u, NEW m \in DOMAIN u,
                      NEW i \in 0 .. Len(u[k].values), NEW j \in 0 .. Len(u[m].values),
                      PosIn(k, u[k], i) = PosIn(m, u[m], j)
               PROVE  k = m /\ i = j
    BY DEF Apart
  <2>1. Len(u[at].values) = 0 /\ PosIn(at, u[at], 0) = at
    <3>1. at \in DOMAIN u /\ u[at] = EmptyNode
      BY <1>5
    <3>2. PosIn(at, u[at], 0) = at
      BY <3>1, <1>7, NodePlaces
    <3> QED
      BY <3>1, <3>2, EmptyFits
  <2>2. \A x \in DOMAIN t : \A y \in 0 .. Len(u[x].values) : at # PosIn(x, u[x], y)
    BY <1>1, <1>8
  <2>3. CASE k = at /\ m = at
    BY <2>1, <2>3
  <2>4. CASE k = at /\ m # at
    <3>1. PosIn(k, u[k], i) = at
      BY <2>1, <2>4
    <3> QED
      BY <3>1, <2>2, <2>4, <1>5
  <2>5. CASE k # at /\ m = at
    <3>1. PosIn(m, u[m], j) = at
      BY <2>1, <2>5
    <3> QED
      BY <3>1, <2>2, <2>5, <1>5
  <2>6. CASE k # at /\ m # at
    <3>1. k \in DOMAIN t /\ m \in DOMAIN t
      BY <2>6, <1>5
    <3>2. i \in 0 .. Len(t[k].values) /\ j \in 0 .. Len(t[m].values)
      BY <3>1, <1>8
    <3>3. PosIn(k, t[k], i) = PosIn(m, t[m], j)
      BY <3>1, <3>2, <1>8
    <3> QED
      BY <3>1, <3>2, <3>3 DEF Linked, Apart
  <2> QED
    BY <2>3, <2>4, <2>5, <2>6
<1> QED
  BY <1>3, <1>4, <1>7, <1>9, <1>10, <1>11 DEF u, Linked

\* A node gets one more value after those it has.
LEMMA AppendedLinked ==
  ASSUME NEW t, Shaped(t), Linked(t), NEW n \in DOMAIN t, t[n].trans.op = "none",
         NEW v \in Values, NEW nd, Fits(nd), nd.trans = t[n].trans,
         nd.values = Append(t[n].values, v),
         NEW u, u = [m \in DOMAIN t |-> IF m = n THEN nd ELSE t[m]]
  PROVE  /\ Shaped(u) /\ Linked(u)
         /\ \A i \in 0 .. Len(t[n].values) : PosIn(n, nd, i) = PosIn(n, t[n], i)
         /\ PosAfter(n, nd) = Append(PosAfter(n, t[n]), v)
         /\ Len(nd.values) = Len(t[n].values) + 1
<1> DEFINE L == Len(t[n].values)
<1>1. /\ n \in Trie!Positions /\ t[n].values \in Seq(Values) /\ L \in Nat
      /\ Len(nd.values) = L + 1
  BY NodePlaces, AppendProperties DEF Fits, Node
<1>2. Exits(t[n]) = {} /\ Exits(nd) = {}
  BY DEF Exits
<1>3. ASSUME NEW i \in 0 .. L PROVE PosIn(n, nd, i) = PosIn(n, t[n], i)
  <2>1. SubSeq(Append(t[n].values, v), 1, i) = SubSeq(t[n].values, 1, i)
    BY <1>1, PosInAppended
  <2>2. SubSeq(nd.values, 1, i) = SubSeq(t[n].values, 1, i)
    BY <2>1
  <2> QED
    BY <2>2 DEF PosIn
<1>4. PosAfter(n, nd) = PosIn(n, nd, L + 1) /\ nd.values[L + 1] = v
  <2>1. L + 1 \in 0 .. Len(nd.values)
    BY <1>1
  <2>2. nd.values[L + 1] = v
    BY <1>1, AppendProperties
  <2> QED
    BY <2>1, <2>2, <1>1, PlaceType
<1>5. PosAfter(n, nd) = Append(PosAfter(n, t[n]), v)
  <2>1. L + 1 \in 0 .. Len(nd.values) /\ L + 1 > 0 /\ (L + 1) - 1 = L /\ L \in 0 .. L
    BY <1>1
  <2>2. PosIn(n, nd, L + 1) = Append(PosIn(n, nd, (L + 1) - 1), nd.values[L + 1])
    <3> DEFINE k == L + 1
    <3>1. k \in 0 .. Len(nd.values) /\ k > 0
      BY <2>1
    <3> HIDE DEF k
    <3>2. PosIn(n, nd, k) = Append(PosIn(n, nd, k - 1), nd.values[k])
      BY <3>1, <1>1, PlaceType
    <3> QED
      BY <3>2 DEF k
  <2>3. PosIn(n, nd, L) = PosAfter(n, t[n])
    BY <2>1, <1>3, NodePlaces
  <2> QED
    BY <2>2, <2>3, <1>4
<1>6. /\ DOMAIN u = DOMAIN t /\ u[n] = nd /\ \A m \in DOMAIN t : m # n => u[m] = t[m]
      /\ u = [m \in DOMAIN u |-> u[m]]
  OBVIOUS
<1>7. Shaped(u)
  BY <1>6 DEF Shaped
<1>8. \A m \in DOMAIN t, j \in Nat : j <= Len(t[m].values) =>
        PosIn(n, nd, L + 1) # PosIn(m, t[m], j)
  BY <1>2, <1>4, <1>5, Unvisited
<1>9. \A m \in DOMAIN u : Exits(u[m]) = Exits(t[m])
  BY <1>2, <1>6
<1>10. Closed(u)
  <2> SUFFICES ASSUME NEW m \in DOMAIN u, NEW w \in Exits(u[m])
               PROVE  Append(PosAfter(m, u[m]), w) \in DOMAIN u
    BY DEF Closed
  <2>1. m # n
    BY <1>2, <1>6
  <2> QED
    BY <2>1, <1>6 DEF Linked, Closed
<1>11. Entered(u)
  <2> SUFFICES ASSUME NEW m \in DOMAIN u, m # <<>>
               PROVE  \E k \in DOMAIN u : \E w \in Exits(u[k]) : m = Append(PosAfter(k, u[k]), w)
    BY DEF Entered
  <2>1. PICK k \in DOMAIN t : \E w \in Exits(t[k]) : m = Append(PosAfter(k, t[k]), w)
    BY <1>6 DEF Linked, Entered
  <2>2. k # n
    BY <2>1, <1>2
  <2> QED
    BY <2>1, <2>2, <1>6
<1>12. Apart(u)
  <2> SUFFICES ASSUME NEW k \in DOMAIN u, NEW m \in DOMAIN u,
                      NEW i \in 0 .. Len(u[k].values), NEW j \in 0 .. Len(u[m].values),
                      PosIn(k, u[k], i) = PosIn(m, u[m], j)
               PROVE  k = m /\ i = j
    BY DEF Apart
  <2>1. \A x \in DOMAIN t : \A y \in 0 .. Len(u[x].values) :
          \/ x = n /\ y = L + 1
          \/ /\ y \in 0 .. Len(t[x].values)
             /\ PosIn(x, u[x], y) = PosIn(x, t[x], y)
    BY <1>1, <1>3, <1>6
  <2>2. \A x \in DOMAIN t : \A y \in 0 .. Len(t[x].values) :
          PosIn(n, u[n], L + 1) # PosIn(x, t[x], y)
    BY <1>6, <1>8
  <2>3. CASE k = n /\ i = L + 1
    BY <2>1, <2>2, <2>3, <1>6
  <2>4. CASE m = n /\ j = L + 1
    BY <2>1, <2>2, <2>4, <1>6
  <2>5. CASE ~(k = n /\ i = L + 1) /\ ~(m = n /\ j = L + 1)
    BY <2>1, <2>5, <1>6 DEF Linked, Apart
  <2> QED
    BY <2>3, <2>4, <2>5
<1> QED
  BY <1>1, <1>3, <1>5, <1>7, <1>10, <1>11, <1>12 DEF Linked

\* What split_at makes of a node: what stays, and what becomes its first child.
Stem(nd, i) ==
  [kinds  |-> SubSeq(nd.kinds, 1, i - 1),
   values |-> SubSeq(nd.values, 1, i - 1),
   forced |-> {j \in nd.forced : j < i},
   trans  |-> Branch(nd.kinds[i], {nd.values[i]}),
   exhausted |-> nd.exhausted]
Rest(nd, i, e) ==
  [kinds  |-> SubSeq(nd.kinds, i + 1, Len(nd.kinds)),
   values |-> SubSeq(nd.values, i + 1, Len(nd.values)),
   forced |-> ForcedAfter(nd, i),
   trans  |-> nd.trans, exhausted |-> e]

\* They are nodes, and what they say is what the node said.
LEMMA DividedNodes ==
  ASSUME NEW nd, Fits(nd), NEW n \in Trie!Positions, NEW i \in 1 .. Len(nd.values),
         NEW e \in BOOLEAN
  PROVE  /\ Fits(Stem(nd, i)) /\ Fits(Rest(nd, i, e))
         /\ Len(Stem(nd, i).values) = i - 1
         /\ Len(Rest(nd, i, e).values) = Len(nd.values) - i
         /\ \A j \in 0 .. i - 1 : PosIn(n, Stem(nd, i), j) = PosIn(n, nd, j)
         /\ \A j \in 0 .. Len(nd.values) - i :
              PosIn(PosIn(n, nd, i), Rest(nd, i, e), j) = PosIn(n, nd, i + j)
         /\ \A j \in 1 .. i - 1 : StepIn(Stem(nd, i), j) = StepIn(nd, j)
         /\ \A j \in 1 .. Len(nd.values) - i : StepIn(Rest(nd, i, e), j) = StepIn(nd, i + j)
<1> DEFINE L == Len(nd.values)
<1>1. /\ nd.values \in Seq(Values) /\ nd.kinds \in Seq(Kinds)
      /\ Len(nd.kinds) = L /\ L \in Nat /\ nd.forced \subseteq 1 .. L
      /\ \A j \in 1 .. L : nd.values[j] \in Children[nd.kinds[j]]
      /\ nd.trans \in Transitions
  BY LenProperties DEF Fits, Node
<1>2. nd.kinds[i] \in Kinds /\ nd.values[i] \in Values
  BY <1>1, ElementOfSeq
<1>3. /\ SubSeq(nd.values, 1, i - 1) \in Seq(Values)
      /\ Len(SubSeq(nd.values, 1, i - 1)) = i - 1
      /\ \A h \in 1 .. i - 1 : SubSeq(nd.values, 1, i - 1)[h] = nd.values[h]
      /\ SubSeq(nd.kinds, 1, i - 1) \in Seq(Kinds)
      /\ Len(SubSeq(nd.kinds, 1, i - 1)) = i - 1
      /\ \A h \in 1 .. i - 1 : SubSeq(nd.kinds, 1, i - 1)[h] = nd.kinds[h]
      /\ \A j \in 0 .. i - 1 :
           SubSeq(SubSeq(nd.values, 1, i - 1), 1, j) = SubSeq(nd.values, 1, j)
  <2>1. i - 1 \in 0 .. Len(nd.values) /\ i - 1 \in 0 .. Len(nd.kinds) /\ 0 \in 0 .. i - 1
    BY <1>1
  <2> QED
    BY <2>1, <1>1, PosInFirst
<1>4. /\ SubSeq(nd.values, i + 1, L) \in Seq(Values)
      /\ Len(SubSeq(nd.values, i + 1, L)) = L - i
      /\ \A h \in 1 .. L - i : SubSeq(nd.values, i + 1, L)[h] = nd.values[i + h]
      /\ SubSeq(nd.kinds, i + 1, Len(nd.kinds)) \in Seq(Kinds)
      /\ Len(SubSeq(nd.kinds, i + 1, Len(nd.kinds))) = L - i
      /\ \A h \in 1 .. L - i : SubSeq(nd.kinds, i + 1, Len(nd.kinds))[h] = nd.kinds[i + h]
  BY <1>1, RestElements
<1>5. Fits(Stem(nd, i))
  <2>1. Branch(nd.kinds[i], {nd.values[i]}) \in Transitions
    BY <1>2 DEF Transitions
  <2>2. Stem(nd, i) \in Node
    BY <2>1, <1>1, <1>3 DEF Stem, Node, Fits
  <2> DEFINE hd == Stem(nd, i)
  <2>3. /\ Len(hd.kinds) = i - 1 /\ Len(hd.values) = i - 1
        /\ \A h \in 1 .. i - 1 : hd.kinds[h] = nd.kinds[h] /\ hd.values[h] = nd.values[h]
        /\ hd.forced \subseteq 1 .. i - 1
    BY <1>1, <1>3 DEF Stem
  <2>4. hd.trans.children = {nd.values[i]} /\ hd.trans.kind = nd.kinds[i]
    BY DEF Stem, Branch
  <2>5. ASSUME NEW h \in 1 .. i - 1 PROVE hd.values[h] \in Children[hd.kinds[h]]
    <3>1. h \in 1 .. L
      BY <1>1
    <3> QED
      BY <3>1, <2>3, <1>1
  <2> HIDE DEF hd
  <2>6. Fits(hd)
    BY <2>2, <2>3, <2>4, <2>5, <1>1 DEF Fits, hd
  <2> QED
    BY <2>6 DEF hd
<1>6. Fits(Rest(nd, i, e))
  <2>1. ForcedAfter(nd, i) \subseteq 1 .. L - i
    BY <1>1 DEF ForcedAfter
  <2>2. Rest(nd, i, e) \in Node
    BY <2>1, <1>1, <1>4 DEF Rest, Node
  <2>3. \A h \in 1 .. L - i : nd.values[i + h] \in Children[nd.kinds[i + h]]
    BY <1>1
  <2> QED
    BY <2>1, <2>2, <2>3, <1>1, <1>4 DEF Rest, Fits
<1>7. \A j \in 0 .. i - 1 : PosIn(n, Stem(nd, i), j) = PosIn(n, nd, j)
  BY <1>3 DEF Stem, PosIn
<1>8. ASSUME NEW j \in 0 .. L - i
      PROVE  PosIn(PosIn(n, nd, i), Rest(nd, i, e), j) = PosIn(n, nd, i + j)
  <2> DEFINE V == Values \cup {KillMark}
  <2>1. n \in Seq(V) /\ nd.values \in Seq(V)
    BY <1>1, SeqMonotonic DEF Trie!Positions
  <2> HIDE DEF V
  <2>2. nd.values \in Trie!Positions
    BY <2>1 DEF V, Trie!Positions
  <2>3. Rest(nd, i, e).values = SubSeq(nd.values, i + 1, Len(nd.values))
    BY DEF Rest
  <2> QED
    BY <2>2, <2>3, PosInDivided
<1>9. \A j \in 1 .. i - 1 : StepIn(Stem(nd, i), j) = StepIn(nd, j)
  BY <1>1, <1>3 DEF StepIn, Stem
<1>10. ASSUME NEW j \in 1 .. L - i
       PROVE  StepIn(Rest(nd, i, e), j) = StepIn(nd, i + j)
  <2>1. j \in ForcedAfter(nd, i) <=> i + j \in nd.forced
    BY <1>1 DEF ForcedAfter
  <2> QED
    BY <2>1, <1>4 DEF StepIn, Rest
<1> QED
  BY <1>3, <1>4, <1>5, <1>6, <1>7, <1>8, <1>9, <1>10 DEF Stem, Rest

\* A node divided at its i-th value: the tree keeps its links and its positions.
Divided(t, n, i, e) ==
  [m \in DOMAIN t \cup {PosIn(n, t[n], i)} |->
     CASE m = n -> Stem(t[n], i) [] m = PosIn(n, t[n], i) -> Rest(t[n], i, e) [] OTHER -> t[m]]

IsDivided(u, t, n, i, e) ==
  LET at == PosIn(n, t[n], i) IN
  /\ at \notin DOMAIN t /\ at # <<>>
  /\ DOMAIN u = DOMAIN t \cup {at} /\ u = [m \in DOMAIN u |-> u[m]]
  /\ u[n] = Stem(t[n], i) /\ u[at] = Rest(t[n], i, e)
  /\ \A m \in DOMAIN t : m # n => u[m] = t[m]
  /\ PosAfter(n, u[n]) = PosIn(n, t[n], i - 1)
  /\ PosAfter(at, u[at]) = PosAfter(n, t[n])

\* A node that is divided, field by field.
LEMMA DividedIs ==
  ASSUME NEW t, Shaped(t), Linked(t), NEW n \in DOMAIN t,
         NEW i \in 1 .. Len(t[n].values), NEW e \in BOOLEAN
  PROVE  IsDivided(Divided(t, n, i, e), t, n, i, e)
<1> DEFINE nd == t[n]
           L == Len(nd.values)
           at == PosIn(n, nd, i)
           u == Divided(t, n, i, e)
<1>0. at = PosIn(n, t[n], i) /\ u = Divided(t, n, i, e)
  OBVIOUS
<1> HIDE DEF at, u
<1>1. /\ n \in Trie!Positions /\ Fits(nd) /\ L \in Nat /\ i - 1 \in 0 .. L
      /\ at \in Trie!Positions /\ at = Append(PosIn(n, nd, i - 1), nd.values[i])
      /\ nd.values[i] \in Values /\ PosIn(n, nd, i - 1) \in Seq(Values \cup {KillMark})
      /\ i \in Nat /\ i <= L /\ i >= 1 /\ L - i \in Nat
  <2>1. L \in Nat /\ n \in Trie!Positions /\ Fits(nd)
    BY NodePlaces
  <2>2. i \in 0 .. L /\ i > 0 /\ i - 1 \in 0 .. L
    BY <2>1
  <2>3. PosIn(n, nd, i - 1) \in Seq(Values \cup {KillMark})
    BY <2>2, PlacesType DEF Trie!Positions
  <2>4. /\ PosIn(n, t[n], i) \in Trie!Positions /\ nd.values[i] \in Values
        /\ PosIn(n, t[n], i) = Append(PosIn(n, t[n], i - 1), nd.values[i])
    BY <2>2, PlacesType
  <2>5. i \in Nat /\ i <= L /\ i >= 1 /\ L - i \in Nat
    BY <2>1
  <2> HIDE DEF nd, L
  <2> QED
    BY <2>1, <2>2, <2>3, <2>4, <2>5, <1>0 DEF nd
<1>2. /\ Fits(Stem(nd, i)) /\ Fits(Rest(nd, i, e))
      /\ Len(Stem(nd, i).values) = i - 1
      /\ Len(Rest(nd, i, e).values) = L - i
      /\ \A j \in 0 .. i - 1 : PosIn(n, Stem(nd, i), j) = PosIn(n, nd, j)
      /\ \A j \in 0 .. L - i : PosIn(at, Rest(nd, i, e), j) = PosIn(n, nd, i + j)
  <2>1. /\ n \in Trie!Positions /\ Fits(nd) /\ i \in 1 .. Len(nd.values)
        /\ at = PosIn(n, nd, i)
    BY <1>0, <1>1
  <2> HIDE DEF nd
  <2> QED
    BY <2>1, DividedNodes
<1>3. at \notin DOMAIN t
  <2> SUFFICES ASSUME at \in DOMAIN t PROVE FALSE
    OBVIOUS
  <2>1. 0 \in 0 .. Len(t[at].values) /\ PosIn(at, t[at], 0) = at
    BY NodePlaces
  <2>2. i \in 0 .. Len(t[n].values) /\ i # 0
    BY <1>1
  <2> QED
    BY <2>1, <2>2, <1>0 DEF Linked, Apart
<1>4. at # <<>>
  BY <1>1, AppendProperties
<1>5. /\ DOMAIN u = DOMAIN t \cup {at} /\ u[n] = Stem(nd, i) /\ u[at] = Rest(nd, i, e)
      /\ \A m \in DOMAIN t : m # n => u[m] = t[m]
      /\ u = [m \in DOMAIN u |-> u[m]]
  BY <1>0, <1>3 DEF Divided
<1>6. Shaped(u)
  BY <1>1, <1>2, <1>5 DEF Shaped
<1>7. PosAfter(n, u[n]) = PosIn(n, nd, i - 1)
  <2>1. i - 1 \in 0 .. i - 1 /\ n \in DOMAIN u
    BY <1>1, <1>5
  <2>2. PosIn(n, u[n], i - 1) = PosAfter(n, u[n])
    BY <2>1, <1>2, <1>5, <1>6, NodePlaces
  <2> QED
    BY <2>1, <2>2, <1>2, <1>5
<1>8. PosAfter(at, u[at]) = PosAfter(n, nd)
  <2>1. L - i \in 0 .. L - i /\ i + (L - i) = L
    <3> HIDE DEF L
    <3> QED
      BY <1>1
  <2>4. at \in DOMAIN u
    BY <1>5
  <2>2. PosIn(at, u[at], L - i) = PosAfter(at, u[at])
    BY <2>1, <2>4, <1>2, <1>5, <1>6, NodePlaces
  <2>3. PosIn(n, nd, L) = PosAfter(n, nd)
    BY NodePlaces
  <2> QED
    BY <2>1, <2>2, <2>3, <1>2, <1>5
<1> QED
  BY <1>0, <1>3, <1>4, <1>5, <1>7, <1>8 DEF IsDivided

\* The tree keeps its shape and its links.
LEMMA DividedLinked ==
  ASSUME NEW t, Shaped(t), Linked(t), NEW n \in DOMAIN t,
         NEW i \in 1 .. Len(t[n].values), NEW e \in BOOLEAN
  PROVE  Shaped(Divided(t, n, i, e)) /\ Linked(Divided(t, n, i, e))
<1> DEFINE nd == t[n]
           L == Len(nd.values)
           at == PosIn(n, nd, i)
           u == Divided(t, n, i, e)
<1>0. at = PosIn(n, t[n], i) /\ u = Divided(t, n, i, e)
  OBVIOUS
<1> HIDE DEF at, u
<1>1. /\ n \in Trie!Positions /\ Fits(nd) /\ L \in Nat /\ i - 1 \in 0 .. L
      /\ at \in Trie!Positions /\ at = Append(PosIn(n, nd, i - 1), nd.values[i])
      /\ nd.values[i] \in Values /\ PosIn(n, nd, i - 1) \in Seq(Values \cup {KillMark})
      /\ i \in Nat /\ i <= L /\ i >= 1 /\ L - i \in Nat
  <2>1. L \in Nat /\ n \in Trie!Positions /\ Fits(nd)
    BY NodePlaces
  <2>2. i \in 0 .. L /\ i > 0 /\ i - 1 \in 0 .. L
    BY <2>1
  <2>3. PosIn(n, nd, i - 1) \in Seq(Values \cup {KillMark})
    BY <2>2, PlacesType DEF Trie!Positions
  <2>4. /\ PosIn(n, t[n], i) \in Trie!Positions /\ nd.values[i] \in Values
        /\ PosIn(n, t[n], i) = Append(PosIn(n, t[n], i - 1), nd.values[i])
    BY <2>2, PlacesType
  <2>5. i \in Nat /\ i <= L /\ i >= 1 /\ L - i \in Nat
    BY <2>1
  <2> HIDE DEF nd, L
  <2> QED
    BY <2>1, <2>2, <2>3, <2>4, <2>5, <1>0 DEF nd
<1>2. /\ Fits(Stem(nd, i)) /\ Fits(Rest(nd, i, e))
      /\ Len(Stem(nd, i).values) = i - 1
      /\ Len(Rest(nd, i, e).values) = L - i
      /\ \A j \in 0 .. i - 1 : PosIn(n, Stem(nd, i), j) = PosIn(n, nd, j)
      /\ \A j \in 0 .. L - i : PosIn(at, Rest(nd, i, e), j) = PosIn(n, nd, i + j)
  <2>1. /\ n \in Trie!Positions /\ Fits(nd) /\ i \in 1 .. Len(nd.values)
        /\ at = PosIn(n, nd, i)
    BY <1>0, <1>1
  <2> HIDE DEF nd
  <2> QED
    BY <2>1, DividedNodes
<1>3. IsDivided(u, t, n, i, e)
  BY <1>0, DividedIs
<1>4. at \notin DOMAIN t /\ at # <<>>
  BY <1>0, <1>3 DEF IsDivided
<1>5. /\ DOMAIN u = DOMAIN t \cup {at} /\ u[n] = Stem(nd, i) /\ u[at] = Rest(nd, i, e)
      /\ \A m \in DOMAIN t : m # n => u[m] = t[m]
      /\ u = [m \in DOMAIN u |-> u[m]]
  BY <1>0, <1>3 DEF IsDivided
<1>6. Shaped(u)
  BY <1>1, <1>2, <1>5 DEF Shaped
<1>7. PosAfter(n, u[n]) = PosIn(n, nd, i - 1) /\ PosAfter(at, u[at]) = PosAfter(n, nd)
  BY <1>0, <1>3 DEF IsDivided
<1>9. Exits(u[n]) = {nd.values[i]} /\ Exits(u[at]) = Exits(nd)
  BY <1>5 DEF Exits, Stem, Rest, Branch
<1>10. \A m \in DOMAIN t : m # n => PosAfter(m, u[m]) = PosAfter(m, t[m])
  BY <1>5
<1>11. Closed(u)
  <2> SUFFICES ASSUME NEW m \in DOMAIN u, NEW v \in Exits(u[m])
               PROVE  Append(PosAfter(m, u[m]), v) \in DOMAIN u
    BY DEF Closed
  <2>1. CASE m = n
    BY <2>1, <1>1, <1>5, <1>7, <1>9
  <2>2. CASE m = at
    BY <2>2, <1>5, <1>7, <1>9 DEF Linked, Closed
  <2>3. CASE m # n /\ m # at
    BY <2>3, <1>5 DEF Linked, Closed
  <2> QED
    BY <2>1, <2>2, <2>3
<1>12. Entered(u)
  <2> SUFFICES ASSUME NEW m \in DOMAIN u, m # <<>>
               PROVE  \E k \in DOMAIN u : \E v \in Exits(u[k]) : m = Append(PosAfter(k, u[k]), v)
    BY DEF Entered
  <2>1. CASE m = at
    BY <2>1, <1>1, <1>5, <1>7, <1>9
  <2>2. CASE m \in DOMAIN t
    <3>1. PICK k \in DOMAIN t : \E v \in Exits(t[k]) : m = Append(PosAfter(k, t[k]), v)
      BY <2>2 DEF Linked, Entered
    <3>2. CASE k = n
      BY <3>1, <3>2, <1>5, <1>7, <1>9
    <3>3. CASE k # n
      BY <3>1, <3>3, <1>5
    <3> QED
      BY <3>2, <3>3
  <2> QED
    BY <2>1, <2>2, <1>5
<1>13. Apart(u)
  <2> DEFINE Node_(m) == IF m = at THEN n ELSE m
             Place(m, j) == IF m = at THEN i + j ELSE j
  <2>1. ASSUME NEW m \in DOMAIN u, NEW j \in 0 .. Len(u[m].values)
        PROVE  /\ Node_(m) \in DOMAIN t /\ Place(m, j) \in 0 .. Len(t[Node_(m)].values)
               /\ PosIn(m, u[m], j) = PosIn(Node_(m), t[Node_(m)], Place(m, j))
               /\ m = n => j <= i - 1
    <3>1. CASE m = at
      <4>0. j \in 0 .. L - i /\ m # n
        BY <3>1, <1>2, <1>4, <1>5
      <4>1. i + j \in 0 .. L
        <5> HIDE DEF L
        <5> QED
          BY <4>0, <1>1
      <4>2. PosIn(at, u[at], j) = PosIn(n, nd, i + j)
        BY <4>0, <1>2, <1>5
      <4> QED
        BY <3>1, <4>0, <4>1, <4>2
    <3>2. CASE m = n
      <4>0. j \in 0 .. i - 1 /\ m # at
        BY <3>2, <1>2, <1>4, <1>5
      <4>1. j \in 0 .. L /\ j <= i - 1
        <5> HIDE DEF L
        <5> QED
          BY <4>0, <1>1
      <4>2. PosIn(n, u[n], j) = PosIn(n, nd, j)
        BY <4>0, <1>2, <1>5
      <4> QED
        BY <3>2, <4>0, <4>1, <4>2
    <3>3. CASE m # n /\ m # at
      BY <3>3, <1>5
    <3> QED
      BY <3>1, <3>2, <3>3
  <2> SUFFICES ASSUME NEW k \in DOMAIN u, NEW m \in DOMAIN u,
                      NEW g \in 0 .. Len(u[k].values), NEW h \in 0 .. Len(u[m].values),
                      PosIn(k, u[k], g) = PosIn(m, u[m], h)
               PROVE  k = m /\ g = h
    BY DEF Apart
  <2>2. Node_(k) = Node_(m) /\ Place(k, g) = Place(m, h)
    <3> HIDE DEF Node_, Place
    <3> QED
      BY <2>1 DEF Linked, Apart
  <2>3. /\ g \in Nat /\ h \in Nat /\ i \in Nat
        /\ k = n => g <= i - 1
        /\ m = n => h <= i - 1
    <3>1. Len(u[k].values) \in Nat /\ Len(u[m].values) \in Nat
      BY <1>6, NodePlaces
    <3>2. k = n => g <= i - 1
      BY <2>1
    <3>3. m = n => h <= i - 1
      BY <2>1
    <3>4. g \in Nat /\ h \in Nat
      BY <3>1
    <3> QED
      BY <3>2, <3>3, <3>4
  <2>4. k = m
    BY <2>2, <2>3, <1>4
  <2> QED
    BY <2>2, <2>3, <2>4
<1> QED
  BY <1>0, <1>6, <1>11, <1>12, <1>13 DEF Linked

-----------------------------------------------------------------------------
\* What a tree records.

\* Only what a node records on its own counts.
LEMMA RecordedChange ==
  ASSUME NEW t, NEW u, NEW n \in DOMAIN t, DOMAIN t \subseteq DOMAIN u, NEW X,
         \A m \in DOMAIN t : m # n => RecordedBy(m, u[m]) = RecordedBy(m, t[m]),
         RecordedBy(n, u[n]) = RecordedBy(n, t[n]) \cup X,
         \A m \in DOMAIN u \ DOMAIN t : RecordedBy(m, u[m]) = {}
  PROVE  Recorded(u) = Recorded(t) \cup X
<1>1. ASSUME NEW r \in Recorded(u) PROVE r \in Recorded(t) \cup X
  <2>1. PICK m \in DOMAIN u : r \in RecordedBy(m, u[m])
    BY DEF Recorded
  <2>2. m \in DOMAIN t
    BY <2>1
  <2>3. r \in RecordedBy(m, t[m]) \cup X
    BY <2>1, <2>2
  <2> QED
    BY <2>2, <2>3 DEF Recorded
<1>2. ASSUME NEW r \in Recorded(t) PROVE r \in Recorded(u)
  <2>1. PICK m \in DOMAIN t : r \in RecordedBy(m, t[m])
    BY DEF Recorded
  <2>2. r \in RecordedBy(m, u[m])
    BY <2>1
  <2> QED
    BY <2>1, <2>2 DEF Recorded
<1>3. ASSUME NEW r \in X PROVE r \in Recorded(u)
  BY DEF Recorded
<1> QED
  BY <1>1, <1>2, <1>3

\* A new node records nothing.
LEMMA EmptyRecords == \A n : RecordedBy(n, EmptyNode) = {}
<1>1. EmptyNode.trans.op = "none" /\ Len(EmptyNode.values) = 0
  BY EmptyFits DEF EmptyNode
<1> QED
  BY <1>1 DEF RecordedBy

\* split_at loses nothing and makes nothing up.
LEMMA DividedRecords ==
  ASSUME NEW t, Shaped(t), Linked(t), NEW n \in DOMAIN t,
         NEW i \in 1 .. Len(t[n].values), i \notin t[n].forced, NEW e \in BOOLEAN
  PROVE  Recorded(Divided(t, n, i, e)) = Recorded(t)
<1> DEFINE nd == t[n]
           L == Len(nd.values)
           at == PosIn(n, nd, i)
           u == Divided(t, n, i, e)
           stem == Stem(nd, i)
           rest == Rest(nd, i, e)
<1>1. /\ at \notin DOMAIN t
      /\ DOMAIN u = DOMAIN t \cup {at} /\ u[n] = stem /\ u[at] = rest
      /\ \A m \in DOMAIN t : m # n => u[m] = t[m]
      /\ PosAfter(n, stem) = PosIn(n, nd, i - 1)
      /\ PosAfter(at, rest) = PosAfter(n, nd)
  <2>1. IsDivided(u, t, n, i, e)
    BY DividedIs
  <2> QED
    BY <2>1 DEF IsDivided
<1>2. L \in Nat /\ i \in 1 .. L
  BY NodePlaces
<1>3. /\ Len(stem.values) = i - 1 /\ Len(rest.values) = L - i
      /\ \A j \in 0 .. i - 1 : PosIn(n, stem, j) = PosIn(n, nd, j)
      /\ \A j \in 0 .. L - i : PosIn(at, rest, j) = PosIn(n, nd, i + j)
      /\ \A j \in 1 .. i - 1 : StepIn(stem, j) = StepIn(nd, j)
      /\ \A j \in 1 .. L - i : StepIn(rest, j) = StepIn(nd, i + j)
  <2>1. n \in Trie!Positions /\ Fits(nd) /\ i \in 1 .. Len(nd.values)
    BY NodePlaces
  <2> HIDE DEF nd
  <2>2. /\ Len(stem.values) = i - 1 /\ Len(rest.values) = L - i
        /\ \A j \in 1 .. i - 1 : StepIn(stem, j) = StepIn(nd, j)
        /\ \A j \in 1 .. L - i : StepIn(rest, j) = StepIn(nd, i + j)
    BY <2>1, DividedNodes
  <2>3. /\ \A j \in 0 .. i - 1 : PosIn(n, stem, j) = PosIn(n, nd, j)
        /\ \A j \in 0 .. L - i : PosIn(at, rest, j) = PosIn(n, nd, i + j)
    BY <2>1, DividedNodes
  <2> QED
    BY <2>2, <2>3
<1>4. stem.trans.op # "none" /\ StepOut(stem) = StepIn(nd, i)
  BY DEF Stem, Branch, StepOut, StepIn
<1>5. rest.trans = nd.trans /\ StepOut(rest) = StepOut(nd)
  BY DEF Rest, StepOut
<1> HIDE DEF nd, L, at, stem, rest, u
<1>6. RecordedBy(n, stem) \cup RecordedBy(at, rest) = RecordedBy(n, nd)
  <2>1. ASSUME NEW r \in RecordedBy(n, stem) PROVE r \in RecordedBy(n, nd)
    <3>1. CASE \E j \in 1 .. i - 1 : r = <<PosIn(n, stem, j - 1), StepIn(stem, j)>>
      <4>1. PICK j \in 1 .. i - 1 : r = <<PosIn(n, stem, j - 1), StepIn(stem, j)>>
        BY <3>1
      <4>2. j \in 1 .. L /\ j - 1 \in 0 .. i - 1
        BY <1>2
      <4>3. r = <<PosIn(n, nd, j - 1), StepIn(nd, j)>>
        BY <4>1, <4>2, <1>3
      <4> QED
        BY <4>2, <4>3 DEF RecordedBy, L
    <3>2. CASE r = <<PosAfter(n, stem), StepOut(stem)>>
      <4>1. r = <<PosIn(n, nd, i - 1), StepIn(nd, i)>>
        BY <3>2, <1>1, <1>4
      <4> QED
        BY <4>1, <1>2 DEF RecordedBy, L
    <3> QED
      BY <3>1, <3>2, <1>3 DEF RecordedBy
  <2>2. ASSUME NEW r \in RecordedBy(at, rest) PROVE r \in RecordedBy(n, nd)
    <3>1. CASE \E j \in 1 .. L - i : r = <<PosIn(at, rest, j - 1), StepIn(rest, j)>>
      <4>1. PICK j \in 1 .. L - i : r = <<PosIn(at, rest, j - 1), StepIn(rest, j)>>
        BY <3>1
      <4>2. i + j \in 1 .. L /\ j - 1 \in 0 .. L - i /\ i + (j - 1) = (i + j) - 1
        <5>1. i \in Nat /\ j \in Nat /\ 1 <= j /\ j <= L - i /\ 1 <= i
          BY <1>2
        <5>2. i + j \in 1 .. L
          BY <5>1, <1>2
        <5>3. j - 1 \in 0 .. L - i
          BY <5>1, <1>2
        <5> QED
          BY <5>1, <5>2, <5>3
      <4>3. r = <<PosIn(n, nd, (i + j) - 1), StepIn(nd, i + j)>>
        BY <4>1, <4>2, <1>3
      <4> QED
        BY <4>2, <4>3 DEF RecordedBy, L
    <3>2. CASE rest.trans.op # "none" /\ r = <<PosAfter(at, rest), StepOut(rest)>>
      BY <3>2, <1>1, <1>5 DEF RecordedBy
    <3> QED
      BY <3>1, <3>2, <1>3 DEF RecordedBy
  <2>3. ASSUME NEW r \in RecordedBy(n, nd)
        PROVE  r \in RecordedBy(n, stem) \cup RecordedBy(at, rest)
    <3>1. CASE \E k \in 1 .. L : r = <<PosIn(n, nd, k - 1), StepIn(nd, k)>>
      <4>1. PICK k \in 1 .. L : r = <<PosIn(n, nd, k - 1), StepIn(nd, k)>>
        BY <3>1
      <4>2. CASE k < i
        <5>1. k \in 1 .. i - 1 /\ k - 1 \in 0 .. i - 1
          BY <4>2, <1>2
        <5>2. r = <<PosIn(n, stem, k - 1), StepIn(stem, k)>>
          BY <4>1, <5>1, <1>3
        <5> QED
          BY <5>1, <5>2, <1>3 DEF RecordedBy
      <4>3. CASE k = i
        <5>1. r = <<PosAfter(n, stem), StepOut(stem)>>
          BY <4>1, <4>3, <1>1, <1>4
        <5> QED
          BY <5>1, <1>4 DEF RecordedBy
      <4>4. CASE k > i
        <5>1. PICK j \in 1 .. L - i : k = i + j /\ j - 1 \in 0 .. L - i /\ k - 1 = i + (j - 1)
          <6>1. k - i \in 1 .. L - i /\ k = i + (k - i)
            BY <4>4, <1>2
          <6>2. (k - i) - 1 \in 0 .. L - i /\ k - 1 = i + ((k - i) - 1)
            BY <4>4, <1>2
          <6> QED
            BY <6>1, <6>2
        <5>2. r = <<PosIn(at, rest, j - 1), StepIn(rest, j)>>
          BY <4>1, <5>1, <1>3
        <5> QED
          BY <5>1, <5>2, <1>3 DEF RecordedBy
      <4> QED
        BY <4>2, <4>3, <4>4, <1>2
    <3>2. CASE nd.trans.op # "none" /\ r = <<PosAfter(n, nd), StepOut(nd)>>
      BY <3>2, <1>1, <1>5 DEF RecordedBy
    <3> QED
      BY <3>1, <3>2 DEF RecordedBy, L
  <2> QED
    BY <2>1, <2>2, <2>3
<1>7. ASSUME NEW r PROVE r \in Recorded(u) <=> r \in Recorded(t)
  <2>1. r \in Recorded(u) <=> \/ \E m \in DOMAIN t \ {n} : r \in RecordedBy(m, t[m])
                             \/ r \in RecordedBy(n, stem) \/ r \in RecordedBy(at, rest)
    BY <1>1 DEF Recorded
  <2>2. r \in Recorded(t) <=> \/ \E m \in DOMAIN t \ {n} : r \in RecordedBy(m, t[m])
                             \/ r \in RecordedBy(n, nd)
    BY DEF Recorded, nd
  <2> QED
    BY <2>1, <2>2, <1>6
<1> QED
  BY <1>7 DEF u

\* No position has two steps.
LEMMA RecordedOnce ==
  ASSUME NEW t, Shaped(t), Linked(t), NEW q \in Recorded(t), NEW r \in Recorded(t), q[1] = r[1]
  PROVE  q = r
<1> DEFINE At(x, m, i) ==
             /\ i \in 0 .. Len(t[m].values) /\ x[1] = PosIn(m, t[m], i)
             /\ x = IF i = Len(t[m].values) THEN <<x[1], StepOut(t[m])>>
                    ELSE <<x[1], StepIn(t[m], i + 1)>>
<1>1. ASSUME NEW x \in Recorded(t) PROVE \E m \in DOMAIN t : \E i \in Nat : At(x, m, i)
  <2>1. PICK m \in DOMAIN t : x \in RecordedBy(m, t[m])
    BY DEF Recorded
  <2>2. Len(t[m].values) \in Nat
    BY NodePlaces
  <2>3. CASE \E j \in 1 .. Len(t[m].values) : x = <<PosIn(m, t[m], j - 1), StepIn(t[m], j)>>
    <3>1. PICK j \in 1 .. Len(t[m].values) : x = <<PosIn(m, t[m], j - 1), StepIn(t[m], j)>>
      BY <2>3
    <3>2. j - 1 \in 0 .. Len(t[m].values) /\ j - 1 # Len(t[m].values) /\ (j - 1) + 1 = j
      BY <2>2
    <3>3. At(x, m, j - 1)
      BY <3>1, <3>2
    <3> QED
      BY <3>2, <3>3
  <2>4. CASE x = <<PosAfter(m, t[m]), StepOut(t[m])>>
    <3>1. PosIn(m, t[m], Len(t[m].values)) = PosAfter(m, t[m])
      BY NodePlaces
    <3>2. At(x, m, Len(t[m].values))
      BY <2>2, <2>4, <3>1
    <3> QED
      BY <2>2, <3>2
  <2> QED
    BY <2>1, <2>3, <2>4 DEF RecordedBy
<1>2. PICK m \in DOMAIN t, i \in Nat : At(q, m, i)
  BY <1>1
<1>3. PICK k \in DOMAIN t, j \in Nat : At(r, k, j)
  BY <1>1
<1>4. m = k /\ i = j
  BY <1>2, <1>3 DEF Linked, Apart
<1> QED
  BY <1>2, <1>3, <1>4

\* What is unfolded is what is recorded.
LEMMA UnfoldedIs ==
  ASSUME NEW F, \A q, r \in F : q[1] = r[1] => q = r
  PROVE  /\ DOMAIN Unfolded(F) = {r[1] : r \in F}
         /\ \A r \in F : r[1] \in DOMAIN Unfolded(F) /\ Unfolded(F)[r[1]] = r[2]
BY DEF Unfolded

\* Recording one more step is learning it.
Learning(known, p, s) ==
  [q \in DOMAIN known \cup {p} |-> IF q = p THEN s ELSE known[q]]

\* One step more where none was unfolds to one position more.
LEMMA UnfoldedLearns ==
  ASSUME NEW F, \A q, r \in F : q[1] = r[1] => q = r,
         NEW p, NEW s, \A r \in F : r[1] # p
  PROVE  /\ p \notin DOMAIN Unfolded(F)
         /\ Unfolded(F \cup {<<p, s>>}) = Learning(Unfolded(F), p, s)
<1> DEFINE G == F \cup {<<p, s>>}
<1>1. \A q, r \in G : q[1] = r[1] => q = r
  OBVIOUS
<1>2. DOMAIN Unfolded(F) = {r[1] : r \in F}
  BY DEF Unfolded
<1>3. DOMAIN Unfolded(G) = DOMAIN Unfolded(F) \cup {p}
  <2>1. \A r \in G : r[1] = p \/ r \in F
    OBVIOUS
  <2>2. <<p, s>> \in G /\ <<p, s>>[1] = p /\ F \subseteq G
    OBVIOUS
  <2>3. DOMAIN Unfolded(G) = {r[1] : r \in G}
    BY DEF Unfolded
  <2> HIDE DEF G
  <2> QED
    BY <2>1, <2>2, <2>3, <1>2
<1>4. \A r \in G : Unfolded(G)[r[1]] = r[2]
  <2> HIDE DEF G
  <2> QED
    BY <1>1, UnfoldedIs
<1>5. \A r \in F : Unfolded(F)[r[1]] = r[2]
  BY UnfoldedIs
<1>6. \A q \in DOMAIN Unfolded(G) :
        Unfolded(G)[q] = IF q = p THEN s ELSE Unfolded(F)[q]
  <2> SUFFICES ASSUME NEW q \in DOMAIN Unfolded(G)
               PROVE  Unfolded(G)[q] = IF q = p THEN s ELSE Unfolded(F)[q]
    OBVIOUS
  <2>1. CASE q = p
    <3>1. <<p, s>> \in G /\ <<p, s>>[1] = p /\ <<p, s>>[2] = s
      OBVIOUS
    <3> HIDE DEF G
    <3> QED
      BY <3>1, <2>1, <1>4
  <2>2. CASE q # p
    <3>1. PICK r \in F : q = r[1]
      BY <2>2, <1>2, <1>3
    <3> QED
      BY <3>1, <2>2, <1>4, <1>5
  <2> QED
    BY <2>1, <2>2
<1>7. Unfolded(G) = [q \in DOMAIN Unfolded(G) |-> Unfolded(G)[q]]
  BY DEF Unfolded
<1> QED
  <2>1. p \notin DOMAIN Unfolded(F)
    BY <1>2
  <2> HIDE DEF G
  <2>2. Unfolded(G) = [q \in DOMAIN Unfolded(F) \cup {p} |-> IF q = p THEN s ELSE Unfolded(F)[q]]
    BY <1>3, <1>6, <1>7
  <2> QED
    BY <2>1, <2>2 DEF G, Learning

-----------------------------------------------------------------------------
\* What recording does to a tree.

\* The tree stays sound, has these steps recorded besides those of before, and no node
\* is taken back.
Becomes(t, u, steps) ==
  /\ Sound(u)
  /\ Recorded(u) = Recorded(t) \cup steps
  /\ DOMAIN t \subseteq DOMAIN u
  /\ \A m \in DOMAIN t : t[m].exhausted => u[m].exhausted

\* check_exhausted finds only nodes exhausted that are.
LEMMA CheckedIsSpent ==
  ASSUME NEW t, NEW n, NEW nd, Fits(nd), ~nd.exhausted, CheckExhausted(t, n, nd)
  PROVE  /\ nd.trans.op # "none" /\ nd.forced = 1 .. Len(nd.values)
         /\ nd.trans.op = "branch" =>
              /\ nd.trans.children = Children[nd.trans.kind]
              /\ \A v \in nd.trans.children : t[Append(PosAfter(n, nd), v)].exhausted
<1>1. /\ nd.trans.op # "none" /\ Cardinality(nd.forced) = Len(nd.values)
      /\ nd.trans.op = "branch" =>
           /\ Cardinality(nd.trans.children) = Cardinality(Children[nd.trans.kind])
           /\ \A v \in nd.trans.children : t[Append(PosAfter(n, nd), v)].exhausted
  BY DEF CheckExhausted
<1>2. nd.forced = 1 .. Len(nd.values)
  <2>1. Len(nd.values) \in Nat
    BY LenProperties DEF Fits, Node
  <2>2. IsFiniteSet(1 .. Len(nd.values)) /\ Cardinality(1 .. Len(nd.values)) = Len(nd.values)
    <3> DEFINE k == Len(nd.values)
    <3>1. k \in Nat
      BY <2>1
    <3> HIDE DEF k
    <3>2. IsFiniteSet(1 .. k) /\ Cardinality(1 .. k) = k
      BY <3>1, FS_Interval
    <3> QED
      BY <3>2 DEF k
  <2>3. nd.forced \in SUBSET (1 .. Len(nd.values))
    BY DEF Fits
  <2> QED
    BY <2>2, <2>3, <1>1, FS_Subset
<1>3. ASSUME nd.trans.op = "branch" PROVE nd.trans.children = Children[nd.trans.kind]
  <2>1. nd.trans.kind \in Kinds
    BY <1>3 DEF Fits, Node, Transitions, Branch, Trie!Kill, Trie!Conclude
  <2>2. IsFiniteSet(Children[nd.trans.kind])
    BY <2>1, TreeConstants
  <2>3. nd.trans.children \in SUBSET Children[nd.trans.kind]
    BY <1>3 DEF Fits
  <2> QED
    BY <2>2, <2>3, <1>1, <1>3, FS_Subset
<1> QED
  BY <1>1, <1>2, <1>3

\* split_at divides a node, and checks the second part for exhaustion.
LEMMA SplitIs ==
  ASSUME NEW t, Shaped(t), NEW n \in DOMAIN t, NEW i \in 1 .. Len(t[n].values)
  PROVE  SplitAt(t, n, i) =
           Divided(t, n, i, CheckExhausted(t, PosIn(n, t[n], i), Rest(t[n], i, FALSE)))
<1> DEFINE nd == t[n]
           at == Append(n \o SubSeq(nd.values, 1, i - 1), nd.values[i])
           rest == Rest(nd, i, FALSE)
           e == CheckExhausted(t, at, rest)
<1>1. at = PosIn(n, nd, i)
  <2>1. Len(nd.values) \in Nat
    BY NodePlaces
  <2>2. i \in 0 .. Len(nd.values) /\ i > 0
    BY <2>1
  <2> QED
    BY <2>2, PlacesType DEF PosIn
<1>2. ASSUME NEW b PROVE [rest EXCEPT !.exhausted = b] = Rest(nd, i, b)
  <2> DEFINE new == [rest EXCEPT !.exhausted = b]
             fields == {"kinds", "values", "forced", "trans", "exhausted"}
  <2>1. /\ rest = [f \in fields |-> rest[f]]
        /\ Rest(nd, i, b) = [f \in fields |-> Rest(nd, i, b)[f]]
    BY DEF Rest
  <2>2. new = [f \in fields |-> IF f = "exhausted" THEN b ELSE rest[f]]
    <3> HIDE DEF rest
    <3> QED
      BY <2>1
  <2>3. \A f \in fields : Rest(nd, i, b)[f] = IF f = "exhausted" THEN b ELSE rest[f]
    <3>1. /\ Rest(nd, i, b).exhausted = b /\ Rest(nd, i, b).kinds = rest.kinds
          /\ Rest(nd, i, b).values = rest.values /\ Rest(nd, i, b).forced = rest.forced
          /\ Rest(nd, i, b).trans = rest.trans
      BY DEF Rest
    <3> HIDE DEF rest
    <3> QED
      BY <3>1
  <2> HIDE DEF new, fields, rest
  <2> QED
    BY <2>1, <2>2, <2>3 DEF new
<1>3. SplitAt(t, n, i) = [m \in DOMAIN t \cup {at} |->
                            CASE m = n -> Stem(nd, i)
                              [] m = at -> [rest EXCEPT !.exhausted = e]
                              [] OTHER -> t[m]]
  BY DEF SplitAt, Stem, Rest
<1> HIDE DEF e, at, nd, rest
<1>4. SplitAt(t, n, i) = [m \in DOMAIN t \cup {at} |->
                            CASE m = n -> Stem(nd, i) [] m = at -> Rest(nd, i, e)
                              [] OTHER -> t[m]]
  BY <1>2, <1>3
<1> QED
  BY <1>1, <1>4 DEF Divided, e, nd, rest

\* split_at, of a node that is not exhausted and at a value that is not forced.
LEMMA SplitBecomes ==
  ASSUME NEW t, Sound(t), NEW n \in DOMAIN t, ~t[n].exhausted,
         NEW i \in 1 .. Len(t[n].values), i \notin t[n].forced
  PROVE  /\ Becomes(t, SplitAt(t, n, i), {})
         /\ SplitAt(t, n, i)[n] = Stem(t[n], i)
         /\ PosAfter(n, SplitAt(t, n, i)[n]) = PosIn(n, t[n], i - 1)
         /\ PosIn(n, t[n], i) \in DOMAIN SplitAt(t, n, i)
<1> DEFINE nd == t[n]
           at == PosIn(n, nd, i)
           rest == Rest(nd, i, FALSE)
           e == CheckExhausted(t, at, rest)
           u == Divided(t, n, i, e)
<1>0. Shaped(t) /\ Linked(t) /\ Spent(t) /\ e \in BOOLEAN
  <2>1. e \in BOOLEAN
    BY DEF CheckExhausted, Rest
  <2> QED
    BY <2>1 DEF Sound
<1>1. SplitAt(t, n, i) = u
  BY <1>0, SplitIs
<1> HIDE DEF e
<1>2. IsDivided(u, t, n, i, e)
  BY <1>0, DividedIs
<1>3. Shaped(u) /\ Linked(u)
  BY <1>0, DividedLinked
<1>4. Recorded(u) = Recorded(t)
  BY <1>0, DividedRecords
<1>5. /\ DOMAIN u = DOMAIN t \cup {at} /\ at \notin DOMAIN t
      /\ u[n] = Stem(nd, i) /\ u[at] = Rest(nd, i, e)
      /\ \A m \in DOMAIN t : m # n => u[m] = t[m]
      /\ PosAfter(n, u[n]) = PosIn(n, nd, i - 1) /\ PosAfter(at, u[at]) = PosAfter(n, nd)
  BY <1>2 DEF IsDivided
<1> HIDE DEF u
<1>6. \A m \in DOMAIN t : t[m].exhausted => u[m] = t[m]
  BY <1>5
<1>7. Spent(u)
  <2> SUFFICES ASSUME NEW m \in DOMAIN u, u[m].exhausted PROVE SpentNode(u, m)
    BY DEF Spent
  <2>1. CASE m = n
    BY <2>1, <1>5 DEF Stem
  <2>2. CASE m \in DOMAIN t /\ m # n
    <3>1. SpentNode(t, m) /\ u[m] = t[m]
      BY <2>2, <1>0, <1>5 DEF Spent
    <3>2. t[m].trans.op = "branch" => \A v \in t[m].trans.children :
            Append(PosAfter(m, t[m]), v) \in DOMAIN t
      BY <2>2, <1>0 DEF Linked, Closed, Exits
    <3> QED
      BY <3>1, <3>2, <1>6 DEF SpentNode
  <2>3. CASE m = at
    <3>1. e
      BY <2>3, <1>5 DEF Rest
    <3>2. Fits(rest) /\ ~rest.exhausted
      <4>1. n \in Trie!Positions /\ Fits(nd) /\ FALSE \in BOOLEAN
        BY <1>0, NodePlaces
      <4>2. Fits(rest)
        <5> HIDE DEF nd
        <5> QED
          BY <4>1, DividedNodes DEF nd
      <4> QED
        BY <4>2 DEF Rest
    <3>3. /\ rest.trans.op # "none" /\ rest.forced = 1 .. Len(rest.values)
          /\ rest.trans.op = "branch" =>
               /\ rest.trans.children = Children[rest.trans.kind]
               /\ \A v \in rest.trans.children : t[Append(PosAfter(at, rest), v)].exhausted
      <4> HIDE DEF rest, at
      <4> QED
        BY <3>1, <3>2, CheckedIsSpent DEF e
    <3>4. /\ u[at].trans = nd.trans /\ rest.trans = nd.trans
          /\ u[at].forced = rest.forced /\ u[at].values = rest.values
      BY <1>5 DEF Rest
    <3>5. PosAfter(at, rest) = PosAfter(n, nd)
      BY <3>4, <1>5 DEF PosAfter
    <3>6. rest.trans.op = "branch" => \A v \in rest.trans.children :
            Append(PosAfter(n, nd), v) \in DOMAIN t
      BY <3>4, <1>0 DEF Linked, Closed, Exits
    <3>7. rest.trans.op = "branch" => \A v \in rest.trans.children :
            u[Append(PosAfter(n, nd), v)].exhausted
      BY <3>3, <3>5, <3>6, <1>6
    <3> HIDE DEF rest, at, nd
    <3> QED
      BY <2>3, <3>3, <3>4, <3>7, <1>5 DEF SpentNode
  <2> QED
    BY <2>1, <2>2, <2>3, <1>5
<1> QED
  BY <1>1, <1>3, <1>4, <1>5, <1>6, <1>7 DEF Becomes, Sound

\* A new exit keeps the tree sound, and records what its node records.
LEMMA GrownBecomes ==
  ASSUME NEW t, Sound(t), NEW n \in DOMAIN t, ~t[n].exhausted,
         NEW w \in Values \cup {KillMark}, w \notin Exits(t[n]),
         NEW nd, Fits(nd), ~nd.exhausted, nd.values = t[n].values,
         Exits(nd) = Exits(t[n]) \cup {w},
         NEW steps, RecordedBy(n, nd) = RecordedBy(n, t[n]) \cup steps
  PROVE  Becomes(t, Grown(t, n, nd, Append(PosAfter(n, t[n]), w)), steps)
<1> DEFINE at == Append(PosAfter(n, t[n]), w)
           u == Grown(t, n, nd, at)
<1>1. Shaped(t) /\ Linked(t) /\ Spent(t)
  BY DEF Sound
<1>2. at \notin DOMAIN t /\ Shaped(u) /\ Linked(u)
  <2>1. at = Append(PosAfter(n, t[n]), w)
    OBVIOUS
  <2> HIDE DEF at
  <2> QED
    BY <2>1, <1>1, GrownLinked
<1> HIDE DEF at
<1>3. /\ DOMAIN u = DOMAIN t \cup {at} /\ u[n] = nd /\ u[at] = EmptyNode
      /\ \A m \in DOMAIN t : m # n => u[m] = t[m]
  BY <1>2 DEF Grown
<1> HIDE DEF u
<1>4. \A m \in DOMAIN t : t[m].exhausted => u[m] = t[m]
  BY <1>3
<1>5. Spent(u)
  <2> SUFFICES ASSUME NEW m \in DOMAIN u, u[m].exhausted PROVE SpentNode(u, m)
    BY DEF Spent
  <2>1. CASE m = n
    BY <2>1, <1>3
  <2>2. CASE m = at
    BY <2>2, <1>3 DEF EmptyNode
  <2>3. CASE m \in DOMAIN t /\ m # n
    <3>1. SpentNode(t, m) /\ u[m] = t[m]
      BY <2>3, <1>1, <1>3 DEF Spent
    <3>2. t[m].trans.op = "branch" => \A v \in t[m].trans.children :
            Append(PosAfter(m, t[m]), v) \in DOMAIN t
      BY <2>3, <1>1 DEF Linked, Closed, Exits
    <3> QED
      BY <3>1, <3>2, <1>4 DEF SpentNode
  <2> QED
    BY <2>1, <2>2, <2>3, <1>3
<1>6. Recorded(u) = Recorded(t) \cup steps
  BY <1>3, EmptyRecords, RecordedChange
<1> QED
  BY <1>2, <1>3, <1>4, <1>5, <1>6 DEF Becomes, Sound, u, at

\* A branch gets another child.
LEMMA AddChildBecomes ==
  ASSUME NEW t, Sound(t), NEW n \in DOMAIN t, ~t[n].exhausted,
         t[n].trans.op = "branch",
         NEW v \in Children[t[n].trans.kind], v \notin t[n].trans.children
  PROVE  /\ Becomes(t, AddChild(t, n, v), {})
         /\ Append(PosAfter(n, t[n]), v) \in DOMAIN AddChild(t, n, v)
<1> DEFINE old == t[n]
           k == old.trans.kind
           vs == old.trans.children
           at == Append(PosAfter(n, old), v)
           nd == [old EXCEPT !.trans = Branch(k, vs \cup {v})]
<1>1. Fits(old) /\ old \in Node
  BY DEF Sound, Shaped, Fits
<1>2. k \in Kinds /\ vs \in SUBSET Values /\ old.trans = Branch(k, vs)
  BY <1>1 DEF Node, Transitions, Branch, Trie!Kill, Trie!Conclude
<1>3. v \in Values /\ Children[k] \subseteq Values
  BY <1>2, TrieParameters DEF Trie!TrieConstants
<1>4. Branch(k, vs \cup {v}) \in Transitions
  BY <1>2, <1>3 DEF Transitions
<1>5. /\ nd \in Node /\ nd.trans = Branch(k, vs \cup {v})
      /\ nd.values = old.values /\ nd.kinds = old.kinds /\ nd.forced = old.forced
      /\ nd.exhausted = old.exhausted
  <2> HIDE DEF old, vs, k
  <2> QED
    BY <1>1, <1>4 DEF Node
<1>6. [old EXCEPT !.trans.children = @ \cup {v}] = nd
  <2>1. [old.trans EXCEPT !.children = @ \cup {v}] = Branch(k, vs \cup {v})
    BY <1>2 DEF Branch
  <2> QED
    BY <2>1
<1>7. AddChild(t, n, v) = Grown(t, n, nd, at)
  <2>1. at \notin DOMAIN t
    <3>1. v \notin Exits(t[n]) /\ v \in Values \cup {KillMark}
      BY <1>3 DEF Exits
    <3>2. Shaped(t) /\ Linked(t)
      BY DEF Sound
    <3> SUFFICES ASSUME at \in DOMAIN t PROVE FALSE
      OBVIOUS
    <3>3. 0 \in 0 .. Len(t[at].values) /\ PosIn(at, t[at], 0) = at
      BY <3>2, NodePlaces
    <3> QED
      BY <3>1, <3>2, <3>3, Unvisited
  <2> DEFINE u == [t EXCEPT ![n].trans.children = @ \cup {v}]
  <2>2. u[n] = nd /\ \A m \in DOMAIN t : m # n => u[m] = t[m]
    <3> HIDE DEF nd
    <3> QED
      BY <1>6
  <2> HIDE DEF nd, at, u
  <2>3. AddChild(t, n, v) = [m \in DOMAIN t \cup {at} |-> IF m \in DOMAIN t THEN u[m] ELSE EmptyNode]
    BY DEF AddChild, at, u
  <2> QED
    BY <2>1, <2>2, <2>3 DEF Grown
<1>8. Fits(nd)
  <2>1. vs \cup {v} \subseteq Children[k]
    BY <1>1 DEF Fits
  <2> HIDE DEF nd, old
  <2>2. nd.trans.children = vs \cup {v} /\ nd.trans.kind = k
    BY <1>5 DEF Branch
  <2> HIDE DEF vs, k
  <2> QED
    BY <2>1, <2>2, <1>1, <1>5 DEF Fits
<1>9. Exits(nd) = Exits(old) \cup {v} /\ v \notin Exits(old)
  <2> HIDE DEF nd
  <2> QED
    BY <1>2, <1>5 DEF Exits, Branch
<1>10. RecordedBy(n, nd) = RecordedBy(n, old)
  <2> HIDE DEF nd
  <2>1. StepOut(nd) = StepOut(old) /\ nd.trans.op = "branch"
    BY <1>5, <1>2 DEF StepOut, Branch
  <2>2. PosAfter(n, nd) = PosAfter(n, old) /\ \A i : PosIn(n, nd, i) = PosIn(n, old, i)
    BY <1>5 DEF PosAfter, PosIn
  <2>3. \A i : StepIn(nd, i) = StepIn(old, i)
    BY <1>5 DEF StepIn
  <2> QED
    BY <2>1, <2>2, <2>3, <1>5 DEF RecordedBy
<1>11. Becomes(t, Grown(t, n, nd, at), {})
  <2>1. ~nd.exhausted /\ nd.values = t[n].values /\ Exits(nd) = Exits(t[n]) \cup {v}
    BY <1>5, <1>9
  <2>2. RecordedBy(n, nd) = RecordedBy(n, t[n]) \cup {}
    BY <1>10
  <2> HIDE DEF nd
  <2> QED
    BY <2>1, <2>2, <1>3, <1>8, <1>9, GrownBecomes
<1>12. at \in DOMAIN Grown(t, n, nd, at)
  BY DEF Grown
<1> QED
  BY <1>7, <1>11, <1>12

\* kill_branch, before it looks for exhausted nodes.
LEMMA KilledBecomes ==
  ASSUME NEW t, Sound(t), NEW n \in DOMAIN t, t[n].trans.op = "none",
         NEW nd, nd = [t[n] EXCEPT !.trans = Trie!Kill],
         NEW at, at = Append(PosAfter(n, t[n]), KillMark)
  PROVE  Becomes(t, Grown(t, n, nd, at), {<<PosAfter(n, t[n]), Trie!Kill>>})
<1> DEFINE old == t[n]
<1>1. Fits(old) /\ old \in Node /\ ~old.exhausted
  BY DEF Sound, Shaped, Fits, Spent, SpentNode
<1>2. Trie!Kill \in Transitions /\ Trie!Kill.op = "kill"
  BY DEF Transitions, Trie!Kill
<1>3. /\ nd \in Node /\ nd.trans = Trie!Kill
      /\ nd.values = old.values /\ nd.kinds = old.kinds /\ nd.forced = old.forced
      /\ nd.exhausted = old.exhausted
  BY <1>1, <1>2 DEF Node
<1>4. Fits(nd)
  BY <1>1, <1>2, <1>3 DEF Fits
<1>5. Exits(nd) = Exits(old) \cup {KillMark} /\ KillMark \notin Exits(old)
  BY <1>2, <1>3 DEF Exits
<1>6. RecordedBy(n, nd) = RecordedBy(n, old) \cup {<<PosAfter(n, old), Trie!Kill>>}
  <2>1. StepOut(nd) = Trie!Kill /\ nd.trans.op # "none"
    BY <1>2, <1>3 DEF StepOut
  <2>2. PosAfter(n, nd) = PosAfter(n, old) /\ \A i : PosIn(n, nd, i) = PosIn(n, old, i)
    BY <1>3 DEF PosAfter, PosIn
  <2>3. \A i : StepIn(nd, i) = StepIn(old, i)
    BY <1>3 DEF StepIn
  <2> QED
    BY <2>1, <2>2, <2>3, <1>3 DEF RecordedBy
<1> QED
  BY <1>1, <1>3, <1>4, <1>5, <1>6, GrownBecomes

\* A node is replaced.
Put(t, n, nd) == [m \in DOMAIN t |-> IF m = n THEN nd ELSE t[m]]

\* One more value after a node at which nothing followed.
Extended(nd, k, v, f) ==
  [kinds |-> Append(nd.kinds, k), values |-> Append(nd.values, v),
   forced |-> IF f = NoValue THEN nd.forced ELSE nd.forced \cup {Len(nd.values) + 1},
   trans |-> nd.trans, exhausted |-> nd.exhausted]

IsExtended(t, u, n, nd, k, v, f) ==
  /\ Becomes(t, u, {<<PosAfter(n, t[n]), Trie!Draw(k, f)>>})
  /\ DOMAIN u = DOMAIN t /\ u[n] = nd /\ Len(nd.values) = Len(t[n].values) + 1
  /\ PosIn(n, nd, Len(t[n].values)) = PosAfter(n, t[n])
  /\ PosIn(n, nd, Len(t[n].values) + 1) = Append(PosAfter(n, t[n]), v)

\* A value at the end of a node records one step more.
LEMMA AppendedBecomes ==
  ASSUME NEW t, Sound(t), NEW n \in DOMAIN t, t[n].trans.op = "none",
         NEW k \in Kinds, NEW v \in Children[k], NEW f \in {NoValue, v},
         NEW nd, nd = Extended(t[n], k, v, f),
         NEW u, u = Put(t, n, nd)
  PROVE  IsExtended(t, u, n, nd, k, v, f)
<1> DEFINE old == t[n]
           L == Len(old.values)
           forced == IF f = NoValue THEN old.forced ELSE old.forced \cup {L + 1}
<1>1. Fits(old) /\ old \in Node /\ ~old.exhausted
  BY DEF Sound, Shaped, Fits, Spent, SpentNode
<1>2. v \in Values /\ v # NoValue
  BY TrieParameters DEF Trie!TrieConstants
<1>3. L \in Nat /\ Len(old.kinds) = L /\ old.values \in Seq(Values) /\ old.kinds \in Seq(Kinds)
  BY <1>1, LenProperties DEF Fits, Node
<1>4. /\ Append(old.values, v) \in Seq(Values) /\ Len(Append(old.values, v)) = L + 1
      /\ \A i \in 1 .. L : Append(old.values, v)[i] = old.values[i]
      /\ Append(old.values, v)[L + 1] = v
      /\ Append(old.kinds, k) \in Seq(Kinds) /\ Len(Append(old.kinds, k)) = L + 1
      /\ \A i \in 1 .. L : Append(old.kinds, k)[i] = old.kinds[i]
      /\ Append(old.kinds, k)[L + 1] = k
  BY <1>2, <1>3, AppendProperties
<1>5. /\ forced \in SUBSET (1 .. L + 1) /\ forced \in SUBSET Nat
      /\ \A i \in 1 .. L : (i \in forced <=> i \in old.forced)
      /\ (L + 1 \in forced <=> f # NoValue)
  <2>1. old.forced \subseteq 1 .. L
    BY <1>1 DEF Fits
  <2> HIDE DEF L, old
  <2> QED
    BY <2>1, <1>3
<1> HIDE DEF forced
<1>6. /\ nd \in Node /\ nd.trans = old.trans /\ nd.exhausted = old.exhausted
      /\ nd.values = Append(old.values, v) /\ nd.kinds = Append(old.kinds, k)
      /\ nd.forced = forced
  <2>1. nd = [kinds |-> Append(old.kinds, k), values |-> Append(old.values, v),
              forced |-> forced, trans |-> old.trans, exhausted |-> old.exhausted]
    BY DEF forced, Extended
  <2> HIDE DEF old
  <2> QED
    BY <2>1, <1>1, <1>4, <1>5 DEF Node
<1>7. u = [m \in DOMAIN t |-> IF m = n THEN nd ELSE t[m]]
  BY DEF Put
<1>8. Fits(nd)
  <2>1. \A i \in 1 .. L + 1 : nd.values[i] \in Children[nd.kinds[i]]
    <3> SUFFICES ASSUME NEW i \in 1 .. L + 1 PROVE nd.values[i] \in Children[nd.kinds[i]]
      OBVIOUS
    <3>1. CASE i = L + 1
      BY <3>1, <1>4, <1>6
    <3>2. CASE i # L + 1
      <4>1. i \in 1 .. L
        BY <3>2, <1>3
      <4> QED
        BY <4>1, <1>1, <1>4, <1>6 DEF Fits
    <3> QED
      BY <3>1, <3>2
  <2>2. nd.trans.op # "branch"
    BY <1>6
  <2> QED
    BY <2>1, <2>2, <1>4, <1>5, <1>6 DEF Fits
<1>9. /\ Shaped(u) /\ Linked(u)
      /\ \A i \in 0 .. L : PosIn(n, nd, i) = PosIn(n, old, i)
      /\ PosAfter(n, nd) = Append(PosAfter(n, old), v)
  <2>1. Shaped(t) /\ Linked(t)
    BY DEF Sound
  <2> QED
    <3>1. nd.trans = t[n].trans /\ nd.values = Append(t[n].values, v)
      BY <1>6
    <3>2. \A i \in 0 .. Len(t[n].values) : PosIn(n, nd, i) = PosIn(n, t[n], i)
      BY <2>1, <3>1, <1>2, <1>7, <1>8, AppendedLinked
    <3>3. Shaped(u) /\ Linked(u) /\ PosAfter(n, nd) = Append(PosAfter(n, t[n]), v)
      BY <2>1, <3>1, <1>2, <1>7, <1>8, AppendedLinked
    <3> QED
      BY <3>2, <3>3
<1>10. DOMAIN u = DOMAIN t /\ u[n] = nd /\ \A m \in DOMAIN t : m # n => u[m] = t[m]
  BY <1>7
<1>11. Spent(u)
  <2> SUFFICES ASSUME NEW m \in DOMAIN u, u[m].exhausted PROVE SpentNode(u, m)
    BY DEF Spent
  <2>1. m # n /\ m \in DOMAIN t
    BY <1>1, <1>6, <1>10
  <2>2. SpentNode(t, m) /\ u[m] = t[m]
    BY <2>1, <1>10 DEF Sound, Spent
  <2>3. t[m].trans.op = "branch" => \A w \in t[m].trans.children :
          Append(PosAfter(m, t[m]), w) \in DOMAIN t
    BY <2>1 DEF Sound, Linked, Closed, Exits
  <2>4. \A x \in DOMAIN t : t[x].exhausted => u[x].exhausted
    BY <1>1, <1>10
  <2> QED
    BY <2>2, <2>3, <2>4 DEF SpentNode
<1>12. PosIn(n, old, L) = PosAfter(n, old) /\ n \in Trie!Positions
  BY NodePlaces DEF Sound
<1>13. PosIn(n, nd, L) = PosAfter(n, old) /\ PosIn(n, nd, L + 1) = Append(PosAfter(n, old), v)
  <2>1. L \in 0 .. L
    BY <1>3
  <2>2. Len(nd.values) = L + 1 /\ L + 1 \in 0 .. Len(nd.values)
    BY <1>3, <1>4, <1>6
  <2>3. PosIn(n, nd, Len(nd.values)) = PosAfter(n, nd)
    BY <2>2, <1>8, <1>12, PlaceType
  <2> QED
    BY <2>1, <2>2, <2>3, <1>9, <1>12
<1>14. RecordedBy(n, nd) = RecordedBy(n, old) \cup {<<PosAfter(n, old), Trie!Draw(k, f)>>}
  <2>1. \A i \in 1 .. L : StepIn(nd, i) = StepIn(old, i) /\ PosIn(n, nd, i - 1) = PosIn(n, old, i - 1)
    <3> SUFFICES ASSUME NEW i \in 1 .. L
                 PROVE  StepIn(nd, i) = StepIn(old, i) /\ PosIn(n, nd, i - 1) = PosIn(n, old, i - 1)
      OBVIOUS
    <3>1. i - 1 \in 0 .. L
      BY <1>3
    <3>2. nd.kinds[i] = old.kinds[i] /\ nd.values[i] = old.values[i]
          /\ (i \in nd.forced <=> i \in old.forced)
      BY <1>4, <1>5, <1>6
    <3> QED
      BY <3>1, <3>2, <1>9 DEF StepIn
  <2>2. StepIn(nd, L + 1) = Trie!Draw(k, f)
    <3>1. nd.kinds[L + 1] = k /\ nd.values[L + 1] = v /\ (L + 1 \in nd.forced <=> f # NoValue)
      <4>1. nd.kinds[L + 1] = k /\ nd.values[L + 1] = v
        BY <1>4, <1>6
      <4>2. L + 1 \in nd.forced <=> f # NoValue
        BY <1>5, <1>6
      <4> QED
        BY <4>1, <4>2
    <3> QED
      BY <3>1 DEF StepIn, Trie!Draw
  <2>3. PosIn(n, nd, (L + 1) - 1) = PosAfter(n, old)
    BY <1>3, <1>13
  <2>4. \A i : i \in 1 .. L + 1 <=> (i \in 1 .. L \/ i = L + 1)
    BY <1>3
  <2>5. nd.trans.op = "none" /\ Len(nd.values) = L + 1
    BY <1>4, <1>6
  <2>6. RecordedBy(n, nd) = {<<PosIn(n, nd, i - 1), StepIn(nd, i)>> : i \in 1 .. L + 1}
    BY <2>5 DEF RecordedBy
  <2>7. RecordedBy(n, old) = {<<PosIn(n, old, i - 1), StepIn(old, i)>> : i \in 1 .. L}
    BY DEF RecordedBy
  <2> HIDE DEF L, old
  <2> QED
    BY <2>1, <2>2, <2>3, <2>4, <2>6, <2>7
<1>15. Recorded(u) = Recorded(t) \cup {<<PosAfter(n, old), Trie!Draw(k, f)>>}
  <2> DEFINE X == {<<PosAfter(n, old), Trie!Draw(k, f)>>}
  <2>1. RecordedBy(n, u[n]) = RecordedBy(n, t[n]) \cup X
    BY <1>10, <1>14
  <2>2. \A m \in DOMAIN t : m # n => RecordedBy(m, u[m]) = RecordedBy(m, t[m])
    BY <1>10
  <2>3. DOMAIN t \subseteq DOMAIN u /\ \A m \in DOMAIN u \ DOMAIN t : RecordedBy(m, u[m]) = {}
    BY <1>10
  <2> HIDE DEF X
  <2>4. Recorded(u) = Recorded(t) \cup X
    BY <2>1, <2>2, <2>3, RecordedChange
  <2> QED
    BY <2>4 DEF X
<1>16. \A m \in DOMAIN t : t[m].exhausted => u[m].exhausted
  BY <1>1, <1>10
<1>17. Becomes(t, u, {<<PosAfter(n, old), Trie!Draw(k, f)>>})
  BY <1>9, <1>10, <1>11, <1>15, <1>16 DEF Becomes, Sound
<1> QED
  BY <1>4, <1>6, <1>10, <1>13, <1>17 DEF IsExtended

\* A conclusion is recorded where nothing followed.
LEMMA ConcludedBecomes ==
  ASSUME NEW t, Sound(t), NEW n \in DOMAIN t, t[n].trans.op = "none",
         NEW c \in Conclusions,
         NEW u, u = Put(t, n, Concluded(t[n], c))
  PROVE  Becomes(t, u, {<<PosAfter(n, t[n]), Trie!Conclude(c)>>})
<1> DEFINE old == t[n]
           nd == Concluded(old, c)
<1>1. Fits(old) /\ old \in Node /\ ~old.exhausted /\ Shaped(t) /\ Linked(t) /\ Spent(t)
  BY DEF Sound, Shaped, Fits, Spent, SpentNode
<1>2. Trie!Conclude(c) \in Transitions /\ Trie!Conclude(c).op = "conclude"
  BY DEF Transitions, Trie!Conclude
<1>3. /\ nd \in Node /\ nd.trans = Trie!Conclude(c)
      /\ nd.values = old.values /\ nd.kinds = old.kinds /\ nd.forced = old.forced
      /\ nd.exhausted = old.exhausted
  BY <1>1, <1>2 DEF Node, Concluded
<1> HIDE DEF nd
<1>4. Fits(nd)
  BY <1>1, <1>2, <1>3 DEF Fits
<1>5. Exits(nd) = {} /\ Exits(old) = {}
  BY <1>2, <1>3 DEF Exits
<1>6. /\ DOMAIN u = DOMAIN t /\ u[n] = nd /\ \A m \in DOMAIN t : m # n => u[m] = t[m]
      /\ u = [m \in DOMAIN u |-> u[m]]
  BY DEF nd, Put
<1>7. Shaped(u)
  BY <1>1, <1>4, <1>6 DEF Shaped
<1>8. Linked(u)
  <2>1. \A m \in DOMAIN t : u[m].values = t[m].values /\ Exits(u[m]) = Exits(t[m])
    BY <1>3, <1>5, <1>6
  <2> QED
    BY <2>1, <1>1, <1>6, LinkedAlike
<1>9. Spent(u)
  <2> SUFFICES ASSUME NEW m \in DOMAIN u, u[m].exhausted PROVE SpentNode(u, m)
    BY DEF Spent
  <2>1. m # n /\ m \in DOMAIN t
    BY <1>1, <1>3, <1>6
  <2>2. SpentNode(t, m) /\ u[m] = t[m]
    BY <2>1, <1>1, <1>6 DEF Spent
  <2>3. t[m].trans.op = "branch" => \A w \in t[m].trans.children :
          Append(PosAfter(m, t[m]), w) \in DOMAIN t
    BY <2>1, <1>1 DEF Linked, Closed, Exits
  <2>4. \A x \in DOMAIN t : t[x].exhausted => u[x].exhausted
    BY <1>1, <1>6
  <2> QED
    BY <2>2, <2>3, <2>4 DEF SpentNode
<1>10. RecordedBy(n, nd) = RecordedBy(n, old) \cup {<<PosAfter(n, old), Trie!Conclude(c)>>}
  <2>1. StepOut(nd) = Trie!Conclude(c) /\ nd.trans.op # "none"
    BY <1>2, <1>3 DEF StepOut
  <2>2. PosAfter(n, nd) = PosAfter(n, old) /\ \A i : PosIn(n, nd, i) = PosIn(n, old, i)
    BY <1>3 DEF PosAfter, PosIn
  <2>3. \A i : StepIn(nd, i) = StepIn(old, i)
    BY <1>3 DEF StepIn
  <2> QED
    BY <2>1, <2>2, <2>3, <1>3 DEF RecordedBy
<1>11. Recorded(u) = Recorded(t) \cup {<<PosAfter(n, old), Trie!Conclude(c)>>}
  <2> DEFINE X == {<<PosAfter(n, old), Trie!Conclude(c)>>}
  <2>1. RecordedBy(n, u[n]) = RecordedBy(n, t[n]) \cup X
    BY <1>6, <1>10
  <2>2. \A m \in DOMAIN t : m # n => RecordedBy(m, u[m]) = RecordedBy(m, t[m])
    BY <1>6
  <2>3. DOMAIN t \subseteq DOMAIN u /\ \A m \in DOMAIN u \ DOMAIN t : RecordedBy(m, u[m]) = {}
    BY <1>6
  <2> HIDE DEF X
  <2>4. Recorded(u) = Recorded(t) \cup X
    BY <2>1, <2>2, <2>3, RecordedChange
  <2> QED
    BY <2>4 DEF X
<1>12. \A m \in DOMAIN t : t[m].exhausted => u[m].exhausted
  BY <1>1, <1>6
<1> QED
  BY <1>6, <1>7, <1>8, <1>9, <1>11, <1>12 DEF Becomes, Sound

\* Marking nodes as exhausted that are changes nothing else.
LEMMA RemarkedBecomes ==
  ASSUME NEW t, Sound(t), NEW u, DOMAIN u = DOMAIN t, u = [m \in DOMAIN u |-> u[m]],
         \A m \in DOMAIN t :
           /\ u[m] \in Node
           /\ u[m].kinds = t[m].kinds /\ u[m].values = t[m].values
           /\ u[m].forced = t[m].forced /\ u[m].trans = t[m].trans
           /\ t[m].exhausted => u[m].exhausted
           /\ u[m].exhausted => t[m].exhausted \/ SpentNode(u, m)
  PROVE  Becomes(t, u, {})
<1>1. Shaped(t) /\ Linked(t) /\ Spent(t)
  BY DEF Sound
<1>2. ASSUME NEW m \in DOMAIN t PROVE Fits(u[m])
  <2>1. Fits(t[m])
    BY <1>1 DEF Shaped
  <2>2. /\ u[m] \in Node /\ u[m].kinds = t[m].kinds /\ u[m].values = t[m].values
        /\ u[m].forced = t[m].forced /\ u[m].trans = t[m].trans
    OBVIOUS
  <2> QED
    BY <2>1, <2>2 DEF Fits
<1>3. ASSUME NEW m \in DOMAIN t
      PROVE  Exits(u[m]) = Exits(t[m]) /\ RecordedBy(m, u[m]) = RecordedBy(m, t[m])
  <2>1. /\ u[m].kinds = t[m].kinds /\ u[m].values = t[m].values
        /\ u[m].forced = t[m].forced /\ u[m].trans = t[m].trans
    OBVIOUS
  <2>2. PosAfter(m, u[m]) = PosAfter(m, t[m]) /\ \A i : PosIn(m, u[m], i) = PosIn(m, t[m], i)
    BY <2>1 DEF PosAfter, PosIn
  <2>3. StepOut(u[m]) = StepOut(t[m]) /\ \A i : StepIn(u[m], i) = StepIn(t[m], i)
    BY <2>1 DEF StepIn, StepOut
  <2> QED
    BY <2>1, <2>2, <2>3 DEF Exits, RecordedBy
<1>4. Shaped(u)
  BY <1>1, <1>2 DEF Shaped
<1>5. Linked(u)
  <2>1. \A m \in DOMAIN t : u[m].values = t[m].values /\ Exits(u[m]) = Exits(t[m])
    BY <1>3
  <2> QED
    BY <2>1, <1>1, LinkedAlike
<1>6. Recorded(u) = Recorded(t)
  <2>1. \A m \in DOMAIN t : RecordedBy(m, u[m]) = RecordedBy(m, t[m])
    BY <1>3
  <2>2. {RecordedBy(m, u[m]) : m \in DOMAIN u} = {RecordedBy(m, t[m]) : m \in DOMAIN t}
    BY <2>1
  <2> QED
    BY <2>2 DEF Recorded
<1>7. Spent(u)
  <2> SUFFICES ASSUME NEW m \in DOMAIN t, u[m].exhausted PROVE SpentNode(u, m)
    BY DEF Spent
  <2>1. CASE t[m].exhausted
    <3>1. SpentNode(t, m)
      BY <2>1, <1>1 DEF Spent
    <3>2. t[m].trans.op = "branch" => \A v \in t[m].trans.children :
            Append(PosAfter(m, t[m]), v) \in DOMAIN t
      BY <1>1 DEF Linked, Closed, Exits
    <3>3. PosAfter(m, u[m]) = PosAfter(m, t[m])
      BY DEF PosAfter
    <3>4. \A x \in DOMAIN t : t[x].exhausted => u[x].exhausted
      OBVIOUS
    <3>5. u[m].forced = t[m].forced /\ u[m].trans = t[m].trans /\ u[m].values = t[m].values
      OBVIOUS
    <3> QED
      BY <3>1, <3>2, <3>3, <3>4, <3>5 DEF SpentNode
  <2>2. CASE ~t[m].exhausted
    BY <2>2
  <2> QED
    BY <2>1, <2>2
<1>8. Recorded(u) = Recorded(t) \cup {}
  BY <1>6
<1> QED
  BY <1>4, <1>5, <1>7, <1>8 DEF Becomes, Sound

\* Marking what is spent records nothing and keeps the tree sound.
LEMMA MarkedBecomes ==
  ASSUME NEW t, Sound(t), NEW done, done \subseteq DOMAIN t,
         NEW u, u = [m \in DOMAIN t |->
                       [t[m] EXCEPT !.exhausted = t[m].exhausted \/ m \in done]],
         \A m \in done : t[m].exhausted \/ SpentNode(u, m)
  PROVE  Becomes(t, u, {})
<1>1. \A m \in DOMAIN t : t[m] \in Node
  BY DEF Sound, Shaped, Fits
<1>2. /\ DOMAIN u = DOMAIN t /\ u = [m \in DOMAIN u |-> u[m]]
      /\ \A m \in DOMAIN t :
           /\ u[m] \in Node
           /\ u[m].kinds = t[m].kinds /\ u[m].values = t[m].values
           /\ u[m].forced = t[m].forced /\ u[m].trans = t[m].trans
           /\ (u[m].exhausted <=> t[m].exhausted \/ m \in done)
  BY <1>1 DEF Node
<1> QED
  BY <1>2, RemarkedBecomes

\* check_exhausted of a node of the tree, given what else is going to be marked.
LEMMA CheckedSpent ==
  ASSUME NEW t, Sound(t), NEW n \in DOMAIN t, NEW b, CheckExhausted(b, n, t[n]),
         NEW u, u[n].trans = t[n].trans, u[n].forced = t[n].forced, u[n].values = t[n].values,
         \A m \in DOMAIN t : b[m].exhausted /\ (\E v : m = Append(PosAfter(n, t[n]), v)) => u[m].exhausted
  PROVE  t[n].exhausted \/ SpentNode(u, n)
<1> SUFFICES ASSUME ~t[n].exhausted PROVE SpentNode(u, n)
  OBVIOUS
<1>1. Fits(t[n])
  BY DEF Sound, Shaped
<1>2. /\ t[n].trans.op # "none" /\ t[n].forced = 1 .. Len(t[n].values)
      /\ t[n].trans.op = "branch" =>
           /\ t[n].trans.children = Children[t[n].trans.kind]
           /\ \A v \in t[n].trans.children : b[Append(PosAfter(n, t[n]), v)].exhausted
  BY <1>1, CheckedIsSpent
<1>3. t[n].trans.op = "branch" => \A v \in t[n].trans.children :
        Append(PosAfter(n, t[n]), v) \in DOMAIN t
  BY DEF Sound, Linked, Closed, Exits
<1>4. PosAfter(n, u[n]) = PosAfter(n, t[n])
  BY DEF PosAfter
<1> QED
  BY <1>2, <1>3, <1>4 DEF SpentNode

\* check_exhausted of one node.
LEMMA RecheckBecomes ==
  ASSUME NEW t, Sound(t), NEW n \in DOMAIN t
  PROVE  Becomes(t, Recheck(t, n), {})
<1> DEFINE u == Recheck(t, n)
           done == {m \in {n} : CheckExhausted(t, m, t[m])}
<1>1. \A m \in DOMAIN t : t[m] \in Node
  BY DEF Sound, Shaped, Fits
<1>2. u = [m \in DOMAIN t |-> [t[m] EXCEPT !.exhausted = t[m].exhausted \/ m \in done]]
  <2>1. t = [m \in DOMAIN t |-> t[m]]
    BY DEF Sound, Shaped
  <2>2. CheckExhausted(t, n, t[n]) \in BOOLEAN /\ (t[n].exhausted => CheckExhausted(t, n, t[n]))
    BY DEF CheckExhausted
  <2>3. \A m \in DOMAIN t : m # n => t[m] = [t[m] EXCEPT !.exhausted = t[m].exhausted \/ m \in done]
    BY <1>1 DEF Node
  <2>4. CheckExhausted(t, n, t[n]) = (t[n].exhausted \/ n \in done)
    BY <2>2
  <2> HIDE DEF done
  <2> QED
    BY <2>1, <2>3, <2>4 DEF Recheck
<1>3. /\ u[n].trans = t[n].trans /\ u[n].forced = t[n].forced /\ u[n].values = t[n].values
      /\ \A m \in DOMAIN t : t[m].exhausted => u[m].exhausted
  <2> HIDE DEF u, done
  <2> QED
    BY <1>1, <1>2 DEF Node
<1>4. \A m \in done : t[m].exhausted \/ SpentNode(u, m)
  <2> HIDE DEF u
  <2> QED
    BY <1>3, CheckedSpent
<1>5. done \subseteq DOMAIN t
  OBVIOUS
<1> HIDE DEF u, done
<1>6. Becomes(t, u, {})
  BY <1>2, <1>4, <1>5, MarkedBecomes
<1> QED
  BY <1>6 DEF u

\* __update_exhausted: of the nodes on the trail, from its end up.
LEMMA UpdateBecomes ==
  ASSUME NEW t, Sound(t), NEW n \in DOMAIN t
  PROVE  Becomes(t, UpdateExhausted(t, n), {})
<1> DEFINE u == UpdateExhausted(t, n)
           trail == {m \in DOMAIN t : IsPrefix(m, n)}
           below(m) == [x \in DOMAIN t |-> IF x \in trail /\ Len(x) > Len(m)
                                           THEN [t[x] EXCEPT !.exhausted = TRUE] ELSE t[x]]
           checked == {m \in trail : CheckExhausted(below(m), m, t[m])}
           done == {m \in trail : \A x \in trail : Len(x) >= Len(m) => x \in checked}
<1>1. \A m \in DOMAIN t : t[m] \in Node /\ m \in Trie!Positions /\ Len(m) \in Nat
  <2>1. \A m \in DOMAIN t : t[m] \in Node /\ m \in Seq(Values \cup {KillMark})
    BY DEF Sound, Shaped, Fits, Trie!Positions
  <2> QED
    BY <2>1, LenProperties DEF Trie!Positions
<1>2. u = [m \in DOMAIN t |-> [t[m] EXCEPT !.exhausted = t[m].exhausted \/ m \in done]]
  <2>1. u = [m \in DOMAIN t |-> [t[m] EXCEPT !.exhausted = @ \/ m \in done]]
    BY DEF UpdateExhausted
  <2> HIDE DEF u, done
  <2> QED
    BY <2>1
<1> HIDE DEF u
<1>3. /\ DOMAIN u = DOMAIN t
      /\ \A m \in DOMAIN t :
           /\ u[m].trans = t[m].trans /\ u[m].forced = t[m].forced /\ u[m].values = t[m].values
           /\ (u[m].exhausted <=> t[m].exhausted \/ m \in done)
  <2> HIDE DEF done
  <2> QED
    BY <1>1, <1>2 DEF Node
<1>4. ASSUME NEW m \in done PROVE t[m].exhausted \/ SpentNode(u, m)
  <2>1. m \in DOMAIN t /\ m \in checked
    BY <1>1
  <2>2. CheckExhausted(below(m), m, t[m])
    BY <2>1
  <2>3. ASSUME NEW x \in DOMAIN t, below(m)[x].exhausted,
               \E v : x = Append(PosAfter(m, t[m]), v)
        PROVE  u[x].exhausted
    <3>1. CASE t[x].exhausted
      BY <3>1, <1>3
    <3>2. CASE ~t[x].exhausted
      <4>1. x \in trail /\ Len(x) > Len(m)
        BY <2>3, <3>2
      <4>2. x \in done
        <5> SUFFICES ASSUME NEW y \in trail, Len(y) >= Len(x) PROVE y \in checked
          BY <4>1
        <5>1. Len(y) >= Len(m)
          <6>1. Len(x) \in Nat /\ Len(y) \in Nat /\ Len(m) \in Nat
            BY <1>1
          <6> QED
            BY <6>1, <4>1
        <5> HIDE DEF checked, trail
        <5> QED
          BY <5>1 DEF done
      <4> QED
        BY <4>2, <1>3
    <3> QED
      BY <3>1, <3>2
  <2> HIDE DEF below, done, checked
  <2> QED
    BY <2>1, <2>2, <2>3, <1>3, CheckedSpent
<1>5. done \subseteq DOMAIN t
  OBVIOUS
<1> HIDE DEF done
<1>6. Becomes(t, u, {})
  BY <1>2, <1>4, <1>5, MarkedBecomes
<1> QED
  BY <1>6 DEF u
-----------------------------------------------------------------------------
\* What a tree has unfolded.

\* A step of a node: where it is, and what it allows next.
LEMMA KnownSteps ==
  ASSUME NEW t, Shaped(t), Linked(t), NEW n \in DOMAIN t,
         NEW known, known = Unfolded(Recorded(t))
  PROVE  /\ \A i \in 1 .. Len(t[n].values) :
              /\ PosIn(n, t[n], i - 1) \in DOMAIN known
              /\ known[PosIn(n, t[n], i - 1)] = StepIn(t[n], i)
         /\ t[n].trans.op # "none" =>
              /\ PosAfter(n, t[n]) \in DOMAIN known
              /\ known[PosAfter(n, t[n])] = StepOut(t[n])
<1>1. \A q, r \in Recorded(t) : q[1] = r[1] => q = r
  BY RecordedOnce
<1>2. \A r \in Recorded(t) : r[1] \in DOMAIN known /\ known[r[1]] = r[2]
  BY <1>1, UnfoldedIs
<1>3. ASSUME NEW p, NEW s, <<p, s>> \in RecordedBy(n, t[n])
      PROVE  p \in DOMAIN known /\ known[p] = s
  <2>1. <<p, s>> \in Recorded(t)
    BY <1>3 DEF Recorded
  <2>2. <<p, s>>[1] = p /\ <<p, s>>[2] = s
    OBVIOUS
  <2> QED
    BY <2>1, <2>2, <1>2
<1>4. ASSUME NEW i \in 1 .. Len(t[n].values)
      PROVE  <<PosIn(n, t[n], i - 1), StepIn(t[n], i)>> \in RecordedBy(n, t[n])
  BY DEF RecordedBy
<1>5. t[n].trans.op # "none" => <<PosAfter(n, t[n]), StepOut(t[n])>> \in RecordedBy(n, t[n])
  BY DEF RecordedBy
<1> QED
  BY <1>3, <1>4, <1>5

\* A position with a step is a place of a node.
LEMMA KnownPlaces ==
  ASSUME NEW t, Shaped(t), Linked(t), NEW q \in DOMAIN Unfolded(Recorded(t))
  PROVE  \E n \in DOMAIN t :
           \/ \E i \in 1 .. Len(t[n].values) : q = PosIn(n, t[n], i - 1)
           \/ t[n].trans.op # "none" /\ q = PosAfter(n, t[n])
<1>1. PICK r \in Recorded(t) : q = r[1]
  BY DEF Unfolded
<1>2. PICK n \in DOMAIN t : r \in RecordedBy(n, t[n])
  BY DEF Recorded
<1>3. CASE \E i \in 1 .. Len(t[n].values) : r = <<PosIn(n, t[n], i - 1), StepIn(t[n], i)>>
  BY <1>1, <1>3
<1>4. CASE t[n].trans.op # "none" /\ r = <<PosAfter(n, t[n]), StepOut(t[n])>>
  BY <1>1, <1>4
<1> QED
  BY <1>2, <1>3, <1>4 DEF RecordedBy

\* What the steps of a node allow.
LEMMA AllowedSteps ==
  ASSUME NEW nd, Fits(nd)
  PROVE  /\ \A i \in 1 .. Len(nd.values) :
              /\ Trie!Allowed(StepIn(nd, i)) =
                   IF i \in nd.forced THEN {nd.values[i]} ELSE Children[nd.kinds[i]]
              /\ nd.values[i] \in Trie!Allowed(StepIn(nd, i))
         /\ nd.trans.op \in {"none", "branch", "kill", "conclude"}
         /\ nd.trans.op = "branch" => Trie!Allowed(StepOut(nd)) = Children[nd.trans.kind]
         /\ nd.trans.op = "kill" => Trie!Allowed(StepOut(nd)) = {KillMark}
         /\ nd.trans.op = "conclude" => Trie!Allowed(StepOut(nd)) = {}
         /\ nd.trans.op # "none" => Exits(nd) \subseteq Trie!Allowed(StepOut(nd))
<1>1. ASSUME NEW i \in 1 .. Len(nd.values)
      PROVE  /\ Trie!Allowed(StepIn(nd, i)) =
                  IF i \in nd.forced THEN {nd.values[i]} ELSE Children[nd.kinds[i]]
             /\ nd.values[i] \in Trie!Allowed(StepIn(nd, i))
  <2>1. nd.values[i] \in Values /\ nd.values[i] \in Children[nd.kinds[i]]
    <3>1. nd.values \in Seq(Values)
      BY DEF Fits, Node
    <3> QED
      BY <3>1, ElementOfSeq DEF Fits
  <2>2. nd.values[i] # NoValue
    BY <2>1, TrieParameters DEF Trie!TrieConstants
  <2>3. /\ StepIn(nd, i).op = "draw" /\ StepIn(nd, i).kind = nd.kinds[i]
        /\ StepIn(nd, i).forced = IF i \in nd.forced THEN nd.values[i] ELSE NoValue
    BY DEF StepIn
  <2>4. Trie!Allowed(StepIn(nd, i)) =
          IF i \in nd.forced THEN {nd.values[i]} ELSE Children[nd.kinds[i]]
    <3> DEFINE s == StepIn(nd, i)
    <3> HIDE DEF s
    <3>1. Trie!Allowed(s) = IF s.forced = NoValue THEN Children[s.kind] ELSE {s.forced}
      BY <2>3 DEF Trie!Allowed, s
    <3>2. CASE i \in nd.forced
      BY <3>1, <3>2, <2>2, <2>3 DEF s
    <3>3. CASE i \notin nd.forced
      BY <3>1, <3>3, <2>3 DEF s
    <3> QED
      BY <3>2, <3>3 DEF s
  <2> QED
    BY <2>1, <2>4
<1>2. nd.trans.op \in {"none", "branch", "kill", "conclude"}
  BY DEF Fits, Node, Transitions, Branch, Trie!Kill, Trie!Conclude
<1>3. ASSUME nd.trans.op = "branch" PROVE Trie!Allowed(StepOut(nd)) = Children[nd.trans.kind]
  <2>1. /\ StepOut(nd).op = "draw" /\ StepOut(nd).kind = nd.trans.kind
        /\ StepOut(nd).forced = NoValue
    BY <1>3 DEF StepOut
  <2> QED
    BY <2>1 DEF Trie!Allowed
<1>4. nd.trans.op = "kill" => Trie!Allowed(StepOut(nd)) = {KillMark}
  BY DEF StepOut, Trie!Allowed
<1>5. nd.trans.op = "conclude" => Trie!Allowed(StepOut(nd)) = {}
  BY DEF StepOut, Trie!Allowed
<1>6. nd.trans.op # "none" => Exits(nd) \subseteq Trie!Allowed(StepOut(nd))
  BY <1>3, <1>4 DEF Exits, Fits
<1> QED
  BY <1>1, <1>2, <1>3, <1>4, <1>5, <1>6

\* The end of a node after which nothing is recorded is a place to learn about.
LEMMA EndIsEdge ==
  ASSUME NEW t, Shaped(t), Linked(t), NEW n \in DOMAIN t, t[n].trans.op = "none"
  PROVE  /\ PosAfter(n, t[n]) \in Trie!Edge(Unfolded(Recorded(t)))
         /\ \A r \in Recorded(t) : r[1] # PosAfter(n, t[n])
<1> DEFINE known == Unfolded(Recorded(t))
           p == PosAfter(n, t[n])
           L == Len(t[n].values)
<1>1. /\ L \in Nat /\ L \in 0 .. L /\ PosIn(n, t[n], L) = p /\ PosIn(n, t[n], 0) = n
      /\ Fits(t[n])
  BY NodePlaces
<1>2. p \notin DOMAIN known
  <2> SUFFICES ASSUME p \in DOMAIN known PROVE FALSE
    OBVIOUS
  <2>1. PICK m \in DOMAIN t :
          \/ \E i \in 1 .. Len(t[m].values) : p = PosIn(m, t[m], i - 1)
          \/ t[m].trans.op # "none" /\ p = PosAfter(m, t[m])
    BY KnownPlaces
  <2>2. Len(t[m].values) \in Nat /\ PosIn(m, t[m], Len(t[m].values)) = PosAfter(m, t[m])
    BY NodePlaces
  <2>3. CASE \E i \in 1 .. Len(t[m].values) : p = PosIn(m, t[m], i - 1)
    <3>1. PICK i \in 1 .. Len(t[m].values) : p = PosIn(m, t[m], i - 1)
      BY <2>3
    <3>2. i - 1 \in 0 .. Len(t[m].values)
      BY <2>2
    <3>3. m = n /\ i - 1 = L
      BY <3>1, <3>2, <1>1 DEF Linked, Apart
    <3> QED
      BY <3>3, <1>1
  <2>4. CASE t[m].trans.op # "none" /\ p = PosAfter(m, t[m])
    <3>1. Len(t[m].values) \in 0 .. Len(t[m].values)
      BY <2>2
    <3>2. m = n
      BY <2>2, <2>4, <3>1, <1>1 DEF Linked, Apart
    <3> QED
      BY <3>2, <2>4
  <2> QED
    BY <2>1, <2>3, <2>4
<1>3. ASSUME NEW q \in DOMAIN known, NEW v \in Trie!Allowed(known[q]), p = Append(q, v)
      PROVE  p \in Trie!Edge(known)
  <2> HIDE DEF known, p
  <2> QED
    BY <1>2, <1>3 DEF Trie!Edge
<1>4. CASE L > 0
  <2>1. L \in 1 .. L
    BY <1>1, <1>4
  <2>2. p = Append(PosIn(n, t[n], L - 1), t[n].values[L])
    BY <1>1, <1>4, PlacesType
  <2>3. PosIn(n, t[n], L - 1) \in DOMAIN known /\ known[PosIn(n, t[n], L - 1)] = StepIn(t[n], L)
    BY <2>1, KnownSteps
  <2>4. t[n].values[L] \in Trie!Allowed(StepIn(t[n], L))
    BY <2>1, <1>1, AllowedSteps
  <2> HIDE DEF known, p
  <2>5. p \in Trie!Edge(known)
    BY <2>2, <2>3, <2>4, <1>3
  <2> QED
    BY <2>5, <1>2 DEF known, p, Unfolded
<1>5. CASE L = 0
  <2>1. p = n
    BY <1>1, <1>5
  <2>2. CASE n = <<>>
    <3> HIDE DEF known, p
    <3>1. p \in Trie!Edge(known)
      BY <2>1, <2>2, <1>2 DEF Trie!Edge
    <3> QED
      BY <3>1, <1>2 DEF known, p, Unfolded
  <2>3. CASE n # <<>>
    <3>1. PICK m \in DOMAIN t : \E v \in Exits(t[m]) : n = Append(PosAfter(m, t[m]), v)
      BY <2>3 DEF Linked, Entered
    <3>2. PICK v \in Exits(t[m]) : n = Append(PosAfter(m, t[m]), v)
      BY <3>1
    <3>3. t[m].trans.op # "none" /\ Fits(t[m])
      BY <3>2 DEF Exits, Shaped
    <3>4. PosAfter(m, t[m]) \in DOMAIN known /\ known[PosAfter(m, t[m])] = StepOut(t[m])
      BY <3>3, KnownSteps
    <3>5. v \in Trie!Allowed(StepOut(t[m]))
      BY <3>2, <3>3, AllowedSteps
    <3> HIDE DEF known, p
    <3>6. p \in Trie!Edge(known)
      BY <2>1, <3>2, <3>4, <3>5, <1>3
    <3> QED
      BY <3>6, <1>2 DEF known, p, Unfolded
  <2> QED
    BY <2>2, <2>3
<1> QED
  BY <1>1, <1>4, <1>5

\* No position behind a discard, and every other: what is in a sequence.
LEMMA RangeOfAppend ==
  ASSUME NEW S, NEW q \in Seq(S), NEW v \in S
  PROVE  Range(Append(q, v)) = Range(q) \cup {v}
<1> DEFINE p == Append(q, v)
<1>1. /\ Len(q) \in Nat /\ p \in Seq(S) /\ Len(p) = Len(q) + 1
      /\ \A j \in 1 .. Len(q) : p[j] = q[j]
      /\ p[Len(q) + 1] = v /\ DOMAIN q = 1 .. Len(q) /\ DOMAIN p = 1 .. Len(p)
  BY LenProperties, AppendProperties
<1> HIDE DEF p
<1>2. \A j : j \in DOMAIN p <=> j \in DOMAIN q \/ j = Len(q) + 1
  BY <1>1
<1>3. \A j \in DOMAIN q : p[j] = q[j]
  BY <1>1
<1>4. Range(p) = Range(q) \cup {v}
  BY <1>1, <1>2, <1>3 DEF Range
<1> QED
  BY <1>4 DEF p

\* The places of a node begin with it.
LEMMA RangeOfPlace ==
  ASSUME NEW n \in Trie!Positions, NEW nd, Fits(nd), NEW i \in 0 .. Len(nd.values)
  PROVE  Range(n) \subseteq Range(PosIn(n, nd, i))
<1> DEFINE V == Values \cup {KillMark}
           q == PosIn(n, nd, i)
<1>1. nd.values \in Seq(V) /\ n \in Seq(V)
  <2>1. nd.values \in Seq(Values) /\ Values \subseteq V
    BY DEF Fits, Node
  <2> QED
    BY <2>1, SeqMonotonic DEF Trie!Positions
<1>2. q = n \o SubSeq(nd.values, 1, i)
  BY DEF PosIn
<1> HIDE DEF V, q
<1>3. /\ Len(n) \in Nat /\ Len(nd.values) \in Nat
      /\ q \in Seq(V) /\ Len(q) = Len(n) + i
      /\ \A j \in 1 .. Len(n) + i : q[j] = IF j <= Len(n) THEN n[j] ELSE nd.values[j - Len(n)]
  BY <1>1, <1>2, PosInElements, LenProperties
<1>4. DOMAIN n = 1 .. Len(n) /\ DOMAIN q = 1 .. Len(n) + i
  BY <1>1, <1>3, LenProperties
<1>5. \A j \in DOMAIN n : j \in DOMAIN q /\ q[j] = n[j]
  BY <1>3, <1>4
<1> QED
  BY <1>5 DEF Range, q

\* Below an exhausted root everything not behind a discard is exhausted.
LEMMA AllExhausted ==
  ASSUME NEW t, Sound(t), t[<<>>].exhausted,
         NEW n \in DOMAIN t, KillMark \notin Range(n)
  PROVE  t[n].exhausted
<1> DEFINE Left == {m \in DOMAIN t : KillMark \notin Range(m) /\ ~t[m].exhausted}
<1>0. Shaped(t) /\ Linked(t) /\ Spent(t)
  BY DEF Sound
<1>1. \A m \in DOMAIN t : m \in Seq(Values \cup {KillMark}) /\ Len(m) \in Nat
  <2>1. \A m \in DOMAIN t : m \in Seq(Values \cup {KillMark})
    BY <1>0 DEF Shaped, Trie!Positions
  <2> QED
    BY <2>1, LenProperties
<1>2. ASSUME Left # {} PROVE FALSE
  <2>1. {Len(m) : m \in Left} \in SUBSET Nat /\ {Len(m) : m \in Left} # {}
    BY <1>1, <1>2
  <2>2. PICK k \in {Len(m) : m \in Left} : \A l \in {Len(m) : m \in Left} : k <= l
    BY <2>1, Least
  <2>3. PICK m \in Left : \A l \in Left : Len(m) <= Len(l)
    BY <2>2
  <2>4. m # <<>> /\ m \in DOMAIN t /\ KillMark \notin Range(m) /\ ~t[m].exhausted
    BY <2>3
  <2>5. PICK l \in DOMAIN t : \E v \in Exits(t[l]) : m = Append(PosAfter(l, t[l]), v)
    BY <2>4, <1>0 DEF Linked, Entered
  <2>6. PICK v \in Exits(t[l]) : m = Append(PosAfter(l, t[l]), v)
    BY <2>5
  <2>7. /\ l \in Trie!Positions /\ Fits(t[l]) /\ Len(t[l].values) \in Nat
        /\ Len(t[l].values) \in 0 .. Len(t[l].values)
        /\ PosIn(l, t[l], Len(t[l].values)) = PosAfter(l, t[l])
        /\ PosAfter(l, t[l]) \in Seq(Values \cup {KillMark})
        /\ v \in Values \cup {KillMark}
    BY <1>0, NodePlaces DEF Trie!Positions
  <2>8. Range(m) = Range(PosAfter(l, t[l])) \cup {v}
    BY <2>6, <2>7, RangeOfAppend
  <2>9. Range(l) \subseteq Range(PosAfter(l, t[l]))
    BY <2>7, RangeOfPlace
  <2>10. Len(l) < Len(m)
    <3>1. Len(PosAfter(l, t[l])) = Len(l) + Len(t[l].values)
      BY <2>7, PlaceType
    <3>2. Len(m) = Len(PosAfter(l, t[l])) + 1
      BY <2>6, <2>7, AppendProperties
    <3> QED
      BY <3>1, <3>2, <2>7, <1>1
  <2>11. t[l].exhausted
    <3>1. l \notin Left
      BY <2>3, <2>10, <1>1
    <3> QED
      BY <3>1, <2>4, <2>8, <2>9
  <2>12. t[l].trans.op = "branch" /\ v \in t[l].trans.children
    BY <2>4, <2>6, <2>8 DEF Exits
  <2> QED
    BY <2>4, <2>6, <2>11, <2>12, <1>0 DEF Spent, SpentNode
<1> QED
  BY <1>2

\* All places of an exhausted node are known.
LEMMA SpentPlaces ==
  ASSUME NEW t, Sound(t), NEW n \in DOMAIN t, t[n].exhausted,
         NEW i \in 0 .. Len(t[n].values)
  PROVE  PosIn(n, t[n], i) \in DOMAIN Unfolded(Recorded(t))
<1>0. Shaped(t) /\ Linked(t) /\ t[n].trans.op # "none"
  BY DEF Sound, Spent, SpentNode
<1>1. Len(t[n].values) \in Nat /\ PosIn(n, t[n], Len(t[n].values)) = PosAfter(n, t[n])
  BY <1>0, NodePlaces
<1>2. CASE i = Len(t[n].values)
  BY <1>0, <1>1, <1>2, KnownSteps
<1>3. CASE i # Len(t[n].values)
  <2>1. i + 1 \in 1 .. Len(t[n].values) /\ (i + 1) - 1 = i
    BY <1>1, <1>3
  <2>2. PosIn(n, t[n], (i + 1) - 1) \in DOMAIN Unfolded(Recorded(t))
    BY <2>1, <1>0, KnownSteps
  <2> QED
    BY <2>1, <2>2
<1> QED
  BY <1>2, <1>3

\* A tree with an exhausted root leaves nothing to explore.
LEMMA RootExhausted ==
  ASSUME NEW t, Sound(t), t[<<>>].exhausted
  PROVE  Trie!Frontier(Unfolded(Recorded(t))) = {}
<1> DEFINE known == Unfolded(Recorded(t))
<1>0. Shaped(t) /\ Linked(t) /\ Spent(t)
  BY DEF Sound
<1>1. known = Unfolded(Recorded(t))
  OBVIOUS
<1> HIDE DEF known
<1> SUFFICES ASSUME NEW p \in Trie!Edge(known), KillMark \notin Range(p) PROVE FALSE
  BY <1>1 DEF Trie!Frontier, Trie!Range, Range
<1>2. ASSUME NEW n \in DOMAIN t, t[n].exhausted, NEW i \in 0 .. Len(t[n].values)
      PROVE  p # PosIn(n, t[n], i)
  <2>1. PosIn(n, t[n], i) \in DOMAIN known
    BY <1>1, <1>2, SpentPlaces
  <2> QED
    BY <2>1 DEF Trie!Edge
<1>3. ASSUME NEW n \in DOMAIN t, t[n].exhausted PROVE p # n
  <2>1. 0 \in 0 .. Len(t[n].values) /\ PosIn(n, t[n], 0) = n
    BY <1>0, NodePlaces
  <2> QED
    BY <2>1, <1>2, <1>3
<1>4. p # <<>>
  BY <1>0, <1>3 DEF Shaped
<1>5. PICK q \in DOMAIN known : \E v \in Trie!Allowed(known[q]) : p = Append(q, v)
  BY <1>4 DEF Trie!Edge
<1>6. PICK v \in Trie!Allowed(known[q]) : p = Append(q, v)
  BY <1>5
<1>7. PICK n \in DOMAIN t :
        \/ \E i \in 1 .. Len(t[n].values) : q = PosIn(n, t[n], i - 1)
        \/ t[n].trans.op # "none" /\ q = PosAfter(n, t[n])
  BY <1>0, <1>1, KnownPlaces
<1>8. /\ n \in Trie!Positions /\ Fits(t[n]) /\ Len(t[n].values) \in Nat
      /\ Len(t[n].values) \in 0 .. Len(t[n].values)
      /\ PosIn(n, t[n], Len(t[n].values)) = PosAfter(n, t[n])
  BY <1>0, NodePlaces
<1>9. CASE \E i \in 1 .. Len(t[n].values) : q = PosIn(n, t[n], i - 1)
  <2>1. PICK i \in 1 .. Len(t[n].values) : q = PosIn(n, t[n], i - 1)
    BY <1>9
  <2>2. i - 1 \in 0 .. Len(t[n].values) /\ i \in 0 .. Len(t[n].values) /\ i > 0
    BY <1>8
  <2>3. v \in Trie!Allowed(StepIn(t[n], i))
    <3>1. known[q] = StepIn(t[n], i)
      BY <1>0, <1>1, <2>1, KnownSteps
    <3> QED
      BY <3>1, <1>6
  <2>4. v \in Values \cup {KillMark}
    <3>1. t[n].values[i] \in Values /\ t[n].kinds[i] \in Kinds
      <4>1. t[n].values \in Seq(Values) /\ t[n].kinds \in Seq(Kinds) /\ Len(t[n].kinds) = Len(t[n].values)
        BY <1>8 DEF Fits, Node
      <4> QED
        BY <4>1, ElementOfSeq
    <3>2. Children[t[n].kinds[i]] \subseteq Values
      BY <3>1, TrieParameters DEF Trie!TrieConstants
    <3>3. Trie!Allowed(StepIn(t[n], i)) =
            IF i \in t[n].forced THEN {t[n].values[i]} ELSE Children[t[n].kinds[i]]
      BY <1>8, AllowedSteps
    <3> QED
      BY <2>3, <3>1, <3>2, <3>3
  <2>5. q \in Seq(Values \cup {KillMark})
    BY <2>1, <2>2, <1>0, PlacesType DEF Trie!Positions
  <2>6. KillMark \notin Range(n)
    <3>1. Range(p) = Range(q) \cup {v}
      BY <1>6, <2>4, <2>5, RangeOfAppend
    <3>2. Range(n) \subseteq Range(q)
      BY <2>1, <2>2, <1>8, RangeOfPlace
    <3> QED
      BY <3>1, <3>2
  <2>7. t[n].exhausted
    BY <2>6, AllExhausted
  <2>8. i \in t[n].forced
    BY <2>7, <1>0 DEF Spent, SpentNode
  <2>9. v = t[n].values[i]
    BY <2>3, <2>8, <1>8, AllowedSteps
  <2>10. p = PosIn(n, t[n], i)
    <3>1. PosIn(n, t[n], i) = Append(PosIn(n, t[n], i - 1), t[n].values[i])
      BY <2>2, <1>0, PlacesType
    <3> QED
      BY <3>1, <2>1, <2>9, <1>6
  <2> QED
    BY <2>2, <2>7, <2>10, <1>2
<1>10. CASE t[n].trans.op # "none" /\ q = PosAfter(n, t[n])
  <2>1. KillMark \notin Range(q)
    <3>1. q \in Seq(Values \cup {KillMark})
      BY <1>0, <1>10, NodePlaces DEF Trie!Positions
    <3> SUFFICES ASSUME KillMark \in Range(q) PROVE FALSE
      OBVIOUS
    <3>2. v \in Values \cup {KillMark}
      <4>1. v \in Trie!Allowed(StepOut(t[n]))
        BY <1>0, <1>1, <1>6, <1>10, KnownSteps
      <4>2. CASE t[n].trans.op = "branch"
        <5>1. t[n].trans.kind \in Kinds
          BY <1>8, <4>2 DEF Fits, Node, Transitions, Branch, Trie!Kill, Trie!Conclude
        <5>2. Children[t[n].trans.kind] \subseteq Values
          BY <5>1, TrieParameters DEF Trie!TrieConstants
        <5> QED
          BY <4>1, <4>2, <5>2, <1>8, AllowedSteps
      <4> QED
        BY <4>1, <4>2, <1>8, <1>10, AllowedSteps
    <3> QED
      BY <3>1, <3>2, <1>6, RangeOfAppend
  <2>2. t[n].exhausted
    <3>1. Range(n) \subseteq Range(q)
      BY <1>8, <1>10, RangeOfPlace
    <3> QED
      BY <2>1, <3>1, AllExhausted
  <2>3. v \in Trie!Allowed(StepOut(t[n]))
    BY <1>0, <1>1, <1>6, <1>10, KnownSteps
  <2>4. CASE t[n].trans.op = "branch"
    <3>1. v \in t[n].trans.children /\ t[p].exhausted
      <4>1. v \in Children[t[n].trans.kind]
        BY <2>3, <2>4, <1>8, AllowedSteps
      <4> QED
        BY <4>1, <2>2, <2>4, <1>0, <1>6, <1>10 DEF Spent, SpentNode
    <3>2. p \in DOMAIN t
      BY <3>1, <2>4, <1>0, <1>6, <1>10 DEF Linked, Closed, Exits
    <3> QED
      BY <3>1, <3>2, <1>3
  <2>5. CASE t[n].trans.op = "kill"
    <3>1. v = KillMark
      BY <2>3, <2>5, <1>8, AllowedSteps
    <3>2. q \in Seq(Values \cup {KillMark})
      BY <1>0, <1>10, NodePlaces DEF Trie!Positions
    <3>3. Range(p) = Range(q) \cup {v}
      BY <3>1, <3>2, <1>6, RangeOfAppend
    <3> QED
      BY <3>1, <3>3
  <2>6. CASE t[n].trans.op = "conclude"
    BY <2>3, <2>6, <1>8, AllowedSteps
  <2> QED
    BY <2>4, <2>5, <2>6, <1>8, <1>10, AllowedSteps
<1> QED
  BY <1>7, <1>9, <1>10

-----------------------------------------------------------------------------
\* What one step of a test case does to the tree.

\* Changing nothing.
LEMMA BecomesItself == ASSUME NEW t, Sound(t) PROVE Becomes(t, t, {})
BY DEF Becomes

\* One change after another.
LEMMA BecomesThen ==
  ASSUME NEW t, NEW u, NEW w, NEW x, NEW y, Becomes(t, u, x), Becomes(u, w, y)
  PROVE  Becomes(t, w, x \cup y)
<1>1. Recorded(w) = Recorded(t) \cup (x \cup y)
  BY DEF Becomes
<1> QED
  BY <1>1 DEF Becomes

\* Another value where the tree has one that was free: split and branch.
LEMMA BranchBecomes ==
  ASSUME NEW t, Sound(t), NEW n \in DOMAIN t, ~t[n].exhausted,
         NEW i \in 1 .. Len(t[n].values), i \notin t[n].forced,
         NEW v \in Children[t[n].kinds[i]], v # t[n].values[i],
         NEW w, w = SplitAt(t, n, i)
  PROVE  /\ Becomes(t, AddChild(w, n, v), {})
         /\ Append(PosIn(n, t[n], i - 1), v) \in DOMAIN AddChild(w, n, v)
<1>1. /\ Becomes(t, w, {}) /\ w[n] = Stem(t[n], i)
      /\ PosAfter(n, w[n]) = PosIn(n, t[n], i - 1)
  BY SplitBecomes
<1>2. Sound(w) /\ n \in DOMAIN w
  BY <1>1 DEF Becomes
<1>3. /\ w[n].trans.op = "branch" /\ w[n].trans.kind = t[n].kinds[i]
      /\ w[n].trans.children = {t[n].values[i]} /\ ~w[n].exhausted
  BY <1>1 DEF Stem, Branch
<1>4. /\ v \in Children[w[n].trans.kind] /\ v \notin w[n].trans.children
  BY <1>3
<1>5. /\ Becomes(w, AddChild(w, n, v), {})
      /\ Append(PosAfter(n, w[n]), v) \in DOMAIN AddChild(w, n, v)
  BY <1>2, <1>3, <1>4, AddChildBecomes
<1>6. Becomes(t, AddChild(w, n, v), {} \cup {})
  BY <1>1, <1>5, BecomesThen
<1> QED
  BY <1>1, <1>5, <1>6

\* The only value possible, where nothing was recorded: append and split.
LEMMA OnlyBecomes ==
  ASSUME NEW t, Sound(t), NEW n \in DOMAIN t, t[n].trans.op = "none",
         NEW k \in Kinds, NEW v \in Children[k],
         NEW nd, nd = Extended(t[n], k, v, NoValue),
         NEW u, u = Put(t, n, nd),
         NEW w, w = SplitAt(u, n, Len(t[n].values) + 1)
  PROVE  /\ Becomes(t, w, {<<PosAfter(n, t[n]), Trie!Draw(k, NoValue)>>})
         /\ Append(PosAfter(n, t[n]), v) \in DOMAIN w
<1> DEFINE L == Len(t[n].values)
           steps == {<<PosAfter(n, t[n]), Trie!Draw(k, NoValue)>>}
<1>1. /\ Fits(t[n]) /\ L \in Nat /\ ~t[n].exhausted
  BY NodePlaces DEF Sound, Spent, SpentNode
<1>2. /\ Becomes(t, u, steps)
      /\ DOMAIN u = DOMAIN t /\ u[n] = nd /\ Len(nd.values) = L + 1
      /\ PosIn(n, nd, L + 1) = Append(PosAfter(n, t[n]), v)
  <2>1. NoValue \in {NoValue, v}
    OBVIOUS
  <2>2. IsExtended(t, u, n, nd, k, v, NoValue)
    BY <2>1, AppendedBecomes
  <2> QED
    BY <2>2 DEF IsExtended
<1>3. nd.forced = t[n].forced /\ nd.exhausted = t[n].exhausted
  BY DEF Extended
<1>4. L + 1 \notin nd.forced /\ L + 1 \in 1 .. Len(nd.values)
  BY <1>1, <1>2, <1>3 DEF Fits
<1>5. /\ Becomes(u, w, {}) /\ PosIn(n, u[n], L + 1) \in DOMAIN w
  <2>1. Sound(u) /\ n \in DOMAIN u /\ ~u[n].exhausted /\ L + 1 \in 1 .. Len(u[n].values)
        /\ L + 1 \notin u[n].forced
    BY <1>1, <1>2, <1>3, <1>4 DEF Becomes
  <2>2. w = SplitAt(u, n, L + 1)
    OBVIOUS
  <2> HIDE DEF L
  <2> QED
    BY <2>1, <2>2, SplitBecomes
<1>6. Becomes(t, w, steps \cup {})
  <2> HIDE DEF steps
  <2> QED
    BY <1>2, <1>5, BecomesThen
<1> QED
  BY <1>2, <1>5, <1>6

\* The tree is told that the test function does s at p: p is known, and the tree learns
\* nothing, or nothing was known of it, and it learns that.
Told(t, u, p, s) ==
  \/ p \in DOMAIN Unfolded(Recorded(t)) /\ Becomes(t, u, {})
  \/ p \in Trie!Edge(Unfolded(Recorded(t))) /\ Becomes(t, u, {<<p, s>>})

Learned(old, new, p, s) ==
  /\ p \in Trie!Edge(old) /\ p \notin DOMAIN old
  /\ new = Learning(old, p, s)

\* A sound tree with at most one step more unfolds to at most one position more.
LEMMA ToldUnfolds ==
  ASSUME NEW t, Sound(t), NEW u, NEW p, NEW s, Told(t, u, p, s),
         NEW old, old = Unfolded(Recorded(t)), NEW new, new = Unfolded(Recorded(u))
  PROVE  /\ Sound(u)
         /\ (p \in DOMAIN old /\ new = old) \/ Learned(old, new, p, s)
         /\ \/ u[<<>>].exhausted = t[<<>>].exhausted
            \/ u[<<>>].exhausted = TRUE /\ Trie!Frontier(new) = {}
<1>1. /\ Sound(u) /\ Shaped(t) /\ Linked(t) /\ Shaped(u)
      /\ t[<<>>].exhausted => u[<<>>].exhausted
  BY DEF Told, Becomes, Sound, Shaped
<1>2. ASSUME p \in DOMAIN Unfolded(Recorded(t)), Becomes(t, u, {})
      PROVE  p \in DOMAIN old /\ new = old
  <2>1. Recorded(u) = Recorded(t)
    BY <1>2 DEF Becomes
  <2> QED
    BY <1>2, <2>1
<1>3. ASSUME p \in Trie!Edge(Unfolded(Recorded(t))), Becomes(t, u, {<<p, s>>})
      PROVE  Learned(old, new, p, s)
  <2>1. Recorded(u) = Recorded(t) \cup {<<p, s>>}
    BY <1>3 DEF Becomes
  <2>2. p \notin DOMAIN old
    BY <1>3 DEF Trie!Edge
  <2>3. \A r \in Recorded(t) : r[1] # p
    BY <2>2 DEF Unfolded
  <2>4. \A q, r \in Recorded(t) : q[1] = r[1] => q = r
    BY <1>1, RecordedOnce
  <2>5. new = Learning(old, p, s)
    <3> DEFINE F == Recorded(t)
    <3>1. new = Unfolded(F \cup {<<p, s>>}) /\ old = Unfolded(F)
      BY <2>1
    <3>2. (\A r \in F : r[1] # p) /\ \A q, r \in F : q[1] = r[1] => q = r
      BY <2>3, <2>4
    <3> HIDE DEF F
    <3>3. Unfolded(F \cup {<<p, s>>}) = Learning(Unfolded(F), p, s)
      BY <3>2, UnfoldedLearns
    <3> QED
      BY <3>1, <3>3
  <2> QED
    BY <1>3, <2>2, <2>5 DEF Learned
<1>4. t[<<>>].exhausted \in BOOLEAN /\ u[<<>>].exhausted \in BOOLEAN
  BY <1>1 DEF Shaped, Fits, Node
<1>5. u[<<>>].exhausted => Trie!Frontier(new) = {}
  BY <1>1, RootExhausted
<1>6. \/ u[<<>>].exhausted = t[<<>>].exhausted
      \/ u[<<>>].exhausted = TRUE /\ Trie!Frontier(new) = {}
  BY <1>1, <1>4, <1>5
<1> QED
  BY <1>1, <1>2, <1>3, <1>6 DEF Told

-----------------------------------------------------------------------------
\* The invariant.

Placed(t, n, i) == n \in DOMAIN t /\ i \in 0 .. Len(t[n].values)

TreeInv ==
  /\ phase \in {"idle", "running", "flaky", "assert"}
  /\ killed \in BOOLEAN
  /\ Placed(tree, cur, idx)
  /\ Sound(tree)
  /\ TreeIsFaithful

\* What a step of Trie's specification is.
TrieStep == [Trie!Next]_<<Unfold, tree[<<>>].exhausted>>

\* The invariant has the types in it.
LEMMA InvTyped == ASSUME TreeInv PROVE TypeOK
<1>1. Shaped(tree) /\ Linked(tree)
  BY DEF TreeInv, Sound
<1>2. ASSUME NEW n \in DOMAIN tree
      PROVE  LET nd == tree[n] IN
             /\ Len(nd.kinds) = Len(nd.values)
             /\ nd.forced \subseteq 1 .. Len(nd.values)
             /\ nd.trans.op \in {"none", "branch", "kill", "conclude"}
             /\ nd.trans.op = "branch" =>
                  \A v \in nd.trans.children : Append(PosAfter(n, nd), v) \in DOMAIN tree
  <2>1. Fits(tree[n])
    BY <1>1 DEF Shaped
  <2>2. tree[n].trans.op \in {"none", "branch", "kill", "conclude"}
    BY <2>1, AllowedSteps
  <2>3. tree[n].trans.op = "branch" =>
          \A v \in tree[n].trans.children : Append(PosAfter(n, tree[n]), v) \in DOMAIN tree
    BY <1>1 DEF Linked, Closed, Exits
  <2> QED
    BY <2>1, <2>2, <2>3 DEF Fits
<1> QED
  BY <1>2 DEF TreeInv, TypeOK, Placed

\* A step of the test function of which the tree is told.
LEMMA StepTold ==
  ASSUME TreeInv, NEW s \in Trie!Steps, TestDoes(s), Told(tree, tree', pos, s)
  PROVE  Sound(tree') /\ TreeIsFaithful' /\ TrieStep
<1>1. Sound(tree) /\ (~flaky => Unfold = prog)
  BY DEF TreeInv, TreeIsFaithful
<1>2. Unfold = Unfolded(Recorded(tree)) /\ Unfold' = Unfolded(Recorded(tree'))
  BY DEF Unfold
<1>3. /\ Sound(tree')
      /\ (pos \in DOMAIN Unfold /\ Unfold' = Unfold) \/ Learned(Unfold, Unfold', pos, s)
      /\ \/ tree'[<<>>].exhausted = tree[<<>>].exhausted
         \/ tree'[<<>>].exhausted = TRUE /\ Trie!Frontier(Unfold') = {}
  BY <1>1, <1>2, ToldUnfolds
<1>4. TreeIsFaithful'
  <2> SUFFICES ASSUME ~flaky' PROVE Unfold' = prog'
    BY DEF TreeIsFaithful
  <2>1. ~flaky /\ Unfold = prog
    BY <1>1 DEF TestDoes
  <2>2. IF pos \in DOMAIN prog THEN prog[pos] = s /\ UNCHANGED prog
        ELSE prog' = [p \in DOMAIN prog \cup {pos} |-> IF p = pos THEN s ELSE prog[p]]
    BY <2>1 DEF TestDoes
  <2> QED
    BY <2>1, <2>2, <1>3 DEF Learned, Learning
<1>5. TrieStep
  <2>1. Unfold' = Unfold \/ \E p \in Trie!Edge(Unfold), x \in Trie!Steps : Trie!Learn(p, x)
    BY <1>3 DEF Trie!Learn, Learned, Learning
  <2>2. \/ (tree[<<>>].exhausted)' = tree[<<>>].exhausted
        \/ (tree[<<>>].exhausted)' = TRUE /\ Trie!Frontier(Unfold') = {}
    BY <1>3
  <2> QED
    BY <2>1, <2>2 DEF TrieStep, Trie!Next
<1> QED
  BY <1>3, <1>4, <1>5

\* Where the test case is: at a step of the tree, or where it is to learn one.
LEMMA HereKnown ==
  ASSUME TreeInv, idx < Len(tree[cur].values) \/ tree[cur].trans.op # "none"
  PROVE  Becomes(tree, tree, {}) /\ pos \in DOMAIN Unfold
<1>1. Sound(tree) /\ Shaped(tree) /\ Linked(tree) /\ cur \in DOMAIN tree
      /\ idx \in 0 .. Len(tree[cur].values)
  BY DEF TreeInv, Sound, Placed
<1>2. Len(tree[cur].values) \in Nat /\ PosIn(cur, tree[cur], Len(tree[cur].values)) = PosAfter(cur, tree[cur])
  BY <1>1, NodePlaces
<1>3. pos = PosIn(cur, tree[cur], idx)
  BY DEF pos
<1>4. CASE idx < Len(tree[cur].values)
  <2>1. idx + 1 \in 1 .. Len(tree[cur].values) /\ (idx + 1) - 1 = idx
    BY <1>1, <1>2, <1>4
  <2>2. PosIn(cur, tree[cur], (idx + 1) - 1) \in DOMAIN Unfolded(Recorded(tree))
    BY <2>1, <1>1, KnownSteps
  <2> QED
    BY <2>1, <2>2, <1>1, <1>3, BecomesItself DEF Unfold
<1>5. CASE idx = Len(tree[cur].values) /\ tree[cur].trans.op # "none"
  <2>1. PosAfter(cur, tree[cur]) \in DOMAIN Unfolded(Recorded(tree))
    BY <1>1, <1>5, KnownSteps
  <2> QED
    BY <2>1, <1>1, <1>2, <1>3, <1>5, BecomesItself DEF Unfold
<1> QED
  BY <1>1, <1>2, <1>4, <1>5

\* At the end of the last node, the observer is at a position to learn about.
LEMMA HereUnknown ==
  ASSUME TreeInv, idx = Len(tree[cur].values), tree[cur].trans.op = "none"
  PROVE  /\ pos = PosAfter(cur, tree[cur])
         /\ pos \in Trie!Edge(Unfolded(Recorded(tree)))
<1>1. Shaped(tree) /\ Linked(tree) /\ cur \in DOMAIN tree
  BY DEF TreeInv, Sound, Placed
<1>2. pos = PosAfter(cur, tree[cur])
  BY <1>1, NodePlaces DEF pos
<1> QED
  BY <1>1, <1>2, EndIsEdge

\* Nothing changes but where the test case is, or how recording broke.
LEMMA StepSame ==
  ASSUME TreeInv, NEW s \in Trie!Steps, TestDoes(s), tree' = tree,
         idx < Len(tree[cur].values) \/ tree[cur].trans.op # "none"
  PROVE  Sound(tree') /\ TreeIsFaithful' /\ TrieStep
<1>1. Told(tree, tree, pos, s)
  BY HereKnown DEF Told, Unfold
<1> QED
  BY <1>1, StepTold

\* A draw is a step of the test function.
LEMMA DrawIsStep ==
  ASSUME NEW k \in Kinds, NEW f \in Children[k] \cup {NoValue}
  PROVE  Trie!Draw(k, f) \in Trie!Steps
<1>1. Children[k] \subseteq Values
  BY TrieParameters DEF Trie!TrieConstants
<1> QED
  BY <1>1 DEF Trie!Steps

\* draw_value inside the values of the current node.
LEMMA AgainKeeps ==
  ASSUME TreeInv, NEW k \in Kinds, NEW f \in Children[k] \cup {NoValue}, NEW v \in Children[k],
         DrawAgain(k, f, v)
  PROVE  TreeInv' /\ TrieStep
<1> DEFINE nd == tree[cur]
           i == idx + 1
           s == Trie!Draw(k, f)
           differs == \/ k # nd.kinds[i]
                      \/ f # NoValue /\ i \notin nd.forced
                      \/ v # nd.values[i] /\ i \in nd.forced
<1>1. /\ i <= Len(nd.values) /\ TestDoes(s) /\ s \in Trie!Steps
      /\ \/ differs /\ Raise("flaky")
         \/ /\ ~differs /\ v # nd.values[i]
            /\ IF nd.exhausted THEN Raise("assert")
               ELSE LET t == SplitAt(tree, cur, i)
                    IN  /\ tree' = AddChild(t, cur, v)
                        /\ Enter(Append(PosIn(cur, nd, i - 1), v))
         \/ /\ ~differs /\ v = nd.values[i]
            /\ idx' = i
            /\ UNCHANGED <<tree, phase, cur, killed>>
  BY DrawIsStep DEF DrawAgain, DrawsValue
<1>2. /\ Sound(tree) /\ cur \in DOMAIN tree /\ idx \in 0 .. Len(nd.values)
      /\ Len(nd.values) \in Nat /\ phase \in {"idle", "running", "flaky", "assert"}
      /\ killed \in BOOLEAN
  BY NodePlaces DEF TreeInv, Sound, Placed
<1>3. i \in 1 .. Len(nd.values) /\ idx < Len(nd.values)
  BY <1>1, <1>2
<1>4. ASSUME NEW how \in {"flaky", "assert"}, Raise(how) PROVE TreeInv' /\ TrieStep
  <2>1. tree' = tree /\ cur' = cur /\ idx' = idx /\ phase' = how /\ killed' = killed
    BY <1>4 DEF Raise
  <2> HIDE DEF s
  <2>2. Sound(tree') /\ TreeIsFaithful' /\ TrieStep
    BY <2>1, <1>1, <1>3, StepSame
  <2>3. Placed(tree', cur', idx')
    BY <2>1, <1>2 DEF Placed
  <2> QED
    BY <2>1, <2>2, <2>3, <1>2 DEF TreeInv
<1>5. CASE ~differs /\ v = nd.values[i] /\ idx' = i /\ UNCHANGED <<tree, phase, cur, killed>>
  <2>1. tree' = tree
    BY <1>5
  <2>2. Sound(tree') /\ TreeIsFaithful' /\ TrieStep
    <3> HIDE DEF s
    <3> QED
      BY <2>1, <1>1, <1>3, StepSame
  <2>3. Placed(tree', cur', idx')
    BY <1>5, <1>2, <1>3 DEF Placed
  <2> QED
    BY <2>2, <2>3, <1>2, <1>5 DEF TreeInv
<1>6. CASE /\ ~differs /\ v # nd.values[i] /\ ~nd.exhausted
           /\ tree' = AddChild(SplitAt(tree, cur, i), cur, v)
           /\ Enter(Append(PosIn(cur, nd, i - 1), v))
  <2>1. k = nd.kinds[i] /\ i \notin nd.forced
    BY <1>6
  <2> HIDE DEF s, i
  <2>2. /\ Becomes(tree, tree', {})
        /\ Append(PosIn(cur, nd, i - 1), v) \in DOMAIN tree'
    <3> DEFINE w == SplitAt(tree, cur, i)
    <3>1. v \in Children[nd.kinds[i]] /\ w = SplitAt(tree, cur, i)
      BY <2>1
    <3> HIDE DEF w
    <3>2. /\ Becomes(tree, AddChild(w, cur, v), {})
          /\ Append(PosIn(cur, nd, i - 1), v) \in DOMAIN AddChild(w, cur, v)
      BY <3>1, <2>1, <1>2, <1>3, <1>6, BranchBecomes
    <3> QED
      BY <3>1, <3>2, <1>6
  <2>3. Told(tree, tree', pos, s)
    BY <2>2, <1>3, HereKnown DEF Told, Unfold
  <2>4. Sound(tree') /\ TreeIsFaithful' /\ TrieStep
    BY <2>3, <1>1, StepTold
  <2>5. Placed(tree', cur', idx')
    <3>1. cur' \in DOMAIN tree' /\ idx' = 0 /\ Shaped(tree')
      BY <2>2, <2>4, <1>6 DEF Enter, Sound
    <3> QED
      BY <3>1, NodePlaces DEF Placed
  <2> QED
    BY <2>4, <2>5, <1>2, <1>6 DEF TreeInv, Enter
<1> HIDE DEF nd, i, s, differs
<1> QED
  BY <1>1, <1>4, <1>5, <1>6

\* A node is what its fields are.
LEMMA SameNode ==
  ASSUME NEW x \in Node, NEW y \in Node, x.kinds = y.kinds, x.values = y.values,
         x.forced = y.forced, x.trans = y.trans, x.exhausted = y.exhausted
  PROVE  x = y
BY DEF Node

With(nd, a, b, c) ==
  [kinds |-> a, values |-> b, forced |-> c, trans |-> nd.trans, exhausted |-> nd.exhausted]
Changed(nd, a, b, c) == [[[nd EXCEPT !.kinds = a] EXCEPT !.values = b] EXCEPT !.forced = c]

\* A node with its three lists replaced.
LEMMA ReplacedNode ==
  ASSUME NEW nd \in Node, NEW a \in Seq(Kinds), NEW b \in Seq(Values), NEW c \in SUBSET Nat
  PROVE  Changed(nd, a, b, c) = With(nd, a, b, c)
<1> DEFINE x == Changed(nd, a, b, c)
           y == With(nd, a, b, c)
<1>1. /\ x \in Node /\ x.kinds = a /\ x.values = b /\ x.forced = c
      /\ x.trans = nd.trans /\ x.exhausted = nd.exhausted
  BY DEF Node, Changed
<1>2. /\ y \in Node /\ y.kinds = a /\ y.values = b /\ y.forced = c
      /\ y.trans = nd.trans /\ y.exhausted = nd.exhausted
  BY DEF Node, With
<1> HIDE DEF x, y
<1>3. x = y
  BY <1>1, <1>2, SameNode
<1> QED
  BY <1>3 DEF x, y

\* draw_value appends to the lists of the current node.
Drawn(k, v, f) ==
  [tree EXCEPT ![cur].kinds = Append(@, k), ![cur].values = Append(@, v),
               ![cur].forced = IF f = NoValue THEN @ ELSE @ \cup {Len(tree[cur].values) + 1}]

\* What draw_value appends to the current node.
LEMMA AppendIs ==
  ASSUME Sound(tree), cur \in DOMAIN tree,
         NEW k \in Kinds, NEW v \in Children[k], NEW f
  PROVE  Drawn(k, v, f) = Put(tree, cur, Extended(tree[cur], k, v, f))
<1> DEFINE nd == tree[cur]
           L == Len(nd.values)
           t == [tree EXCEPT ![cur].kinds = Append(@, k), ![cur].values = Append(@, v),
                             ![cur].forced = IF f = NoValue THEN @ ELSE @ \cup {L + 1}]
           ext == Extended(nd, k, v, f)
           u == Put(tree, cur, ext)
<1>2. Sound(tree) /\ cur \in DOMAIN tree /\ L \in Nat
  BY NodePlaces DEF Sound
<1>3. t = u
  <2>1. nd \in Node /\ tree = [m \in DOMAIN tree |-> tree[m]]
    BY <1>2 DEF Sound, Shaped, Fits
  <2>2. t[cur] = ext /\ \A m \in DOMAIN tree : m # cur => t[m] = tree[m]
    <3>1. t[cur] = [[[nd EXCEPT !.kinds = Append(@, k)] EXCEPT !.values = Append(@, v)]
                       EXCEPT !.forced = IF f = NoValue THEN @ ELSE @ \cup {L + 1}]
      BY <1>2
    <3> HIDE DEF nd, t
    <3>2. [[[nd EXCEPT !.kinds = Append(@, k)] EXCEPT !.values = Append(@, v)]
              EXCEPT !.forced = IF f = NoValue THEN @ ELSE @ \cup {L + 1}] = ext
      <4> DEFINE a == Append(nd.kinds, k)
                 b == Append(nd.values, v)
                 c == IF f = NoValue THEN nd.forced ELSE nd.forced \cup {L + 1}
      <4>1. [[[nd EXCEPT !.kinds = Append(@, k)] EXCEPT !.values = Append(@, v)]
                EXCEPT !.forced = IF f = NoValue THEN @ ELSE @ \cup {L + 1}]
            = Changed(nd, a, b, c)
        BY <2>1 DEF Node, Changed
      <4>2. Extended(nd, k, v, f) = With(nd, a, b, c)
        BY DEF Extended, With
      <4>3. a \in Seq(Kinds) /\ b \in Seq(Values) /\ c \in SUBSET Nat
        <5>1. v \in Values
          BY TrieParameters DEF Trie!TrieConstants
        <5>2. nd.kinds \in Seq(Kinds) /\ nd.values \in Seq(Values) /\ nd.forced \in SUBSET Nat
          BY <2>1 DEF Node
        <5>3. a \in Seq(Kinds) /\ b \in Seq(Values)
          BY <5>1, <5>2, AppendProperties
        <5> QED
          BY <5>2, <5>3, <1>2
      <4> HIDE DEF a, b, c
      <4>4. Changed(nd, a, b, c) = With(nd, a, b, c)
        BY <2>1, <4>3, ReplacedNode
      <4> QED
        BY <4>1, <4>2, <4>4
    <3>3. \A m \in DOMAIN tree : m # cur => t[m] = tree[m]
      BY DEF t
    <3> QED
      BY <3>1, <3>2, <3>3
  <2>3. t = [m \in DOMAIN tree |-> t[m]]
    BY <2>1
  <2> HIDE DEF t, ext
  <2> QED
    BY <2>2, <2>3 DEF Put
<1> QED
  BY <1>3 DEF Drawn

\* draw_value where nothing was recorded.
LEMMA NewKeeps ==
  ASSUME TreeInv, NEW k \in Kinds, NEW f \in Children[k] \cup {NoValue}, NEW v \in Children[k],
         DrawNew(k, f, v)
  PROVE  TreeInv' /\ TrieStep
<1> DEFINE nd == tree[cur]
           L == Len(nd.values)
           s == Trie!Draw(k, f)
           t == [tree EXCEPT ![cur].kinds = Append(@, k), ![cur].values = Append(@, v),
                             ![cur].forced = IF f = NoValue THEN @ ELSE @ \cup {L + 1}]
           ext == Extended(nd, k, v, f)
           u == Put(tree, cur, ext)
<1>1. /\ idx = L /\ nd.trans.op = "none" /\ TestDoes(s) /\ s \in Trie!Steps
      /\ f \in {NoValue, v}
      /\ IF Cardinality(Children[k]) = 1 /\ f = NoValue
         THEN tree' = SplitAt(t, cur, L + 1) /\ Enter(Append(PosAfter(cur, nd), v))
         ELSE tree' = t /\ idx' = L + 1 /\ UNCHANGED <<phase, cur, killed>>
  BY DrawIsStep DEF DrawNew, DrawsValue
<1>2. /\ Sound(tree) /\ cur \in DOMAIN tree /\ idx \in 0 .. L
      /\ L \in Nat /\ phase \in {"idle", "running", "flaky", "assert"}
      /\ killed \in BOOLEAN
  BY NodePlaces DEF TreeInv, Sound, Placed
<1>3. t = u
  <2>1. Sound(tree) /\ cur \in DOMAIN tree
    BY <1>2
  <2>2. t = Drawn(k, v, f)
    BY DEF Drawn
  <2> HIDE DEF t
  <2> QED
    BY <2>1, <2>2, AppendIs
<1> HIDE DEF t
<1>4. pos = PosAfter(cur, nd) /\ pos \in Trie!Edge(Unfolded(Recorded(tree)))
  BY <1>1, HereUnknown
<1>5. CASE Cardinality(Children[k]) = 1 /\ f = NoValue
  <2> DEFINE w == SplitAt(u, cur, L + 1)
  <2>1. tree' = w /\ Enter(Append(PosAfter(cur, nd), v))
    BY <1>1, <1>3, <1>5
  <2>2. /\ Becomes(tree, w, {<<PosAfter(cur, nd), Trie!Draw(k, NoValue)>>})
        /\ Append(PosAfter(cur, nd), v) \in DOMAIN w
    <3>1. ext = Extended(tree[cur], k, v, NoValue) /\ u = Put(tree, cur, ext)
          /\ w = SplitAt(u, cur, Len(tree[cur].values) + 1)
      BY <1>5
    <3> HIDE DEF ext, u, w
    <3> QED
      BY <3>1, <1>1, <1>2, OnlyBecomes
  <2> HIDE DEF w
  <2>3. Told(tree, tree', pos, s)
    BY <2>1, <2>2, <1>4, <1>5 DEF Told
  <2>4. Sound(tree') /\ TreeIsFaithful' /\ TrieStep
    <3> HIDE DEF s
    <3> QED
      BY <2>3, <1>1, StepTold
  <2>5. Placed(tree', cur', idx')
    <3>1. cur' \in DOMAIN tree' /\ idx' = 0 /\ Shaped(tree')
      BY <2>1, <2>2, <2>4 DEF Enter, Sound
    <3> QED
      BY <3>1, NodePlaces DEF Placed
  <2> QED
    BY <2>1, <2>4, <2>5, <1>2 DEF TreeInv, Enter
<1>6. CASE ~(Cardinality(Children[k]) = 1 /\ f = NoValue)
  <2>1. tree' = u /\ idx' = L + 1 /\ UNCHANGED <<phase, cur, killed>>
    BY <1>1, <1>3, <1>6
  <2>2. IsExtended(tree, u, cur, ext, k, v, f)
    <3>1. ext = Extended(tree[cur], k, v, f) /\ u = Put(tree, cur, ext)
      OBVIOUS
    <3> HIDE DEF ext, u
    <3> QED
      BY <3>1, <1>1, <1>2, AppendedBecomes
  <2> HIDE DEF u, ext
  <2>3. Told(tree, tree', pos, s)
    BY <2>1, <2>2, <1>4 DEF Told, IsExtended
  <2>4. Sound(tree') /\ TreeIsFaithful' /\ TrieStep
    <3> HIDE DEF s
    <3> QED
      BY <2>3, <1>1, StepTold
  <2>5. Placed(tree', cur', idx')
    <3>1. cur' \in DOMAIN tree' /\ Len(tree'[cur'].values) = L + 1 /\ idx' = L + 1
      BY <2>1, <2>2, <1>2 DEF IsExtended
    <3> QED
      BY <3>1, <1>2 DEF Placed
  <2> QED
    BY <2>1, <2>4, <2>5, <1>2 DEF TreeInv
<1> QED
  BY <1>5, <1>6

\* draw_value at the end of a node that something follows.
LEMMA FollowKeeps ==
  ASSUME TreeInv, NEW k \in Kinds, NEW f \in Children[k] \cup {NoValue}, NEW v \in Children[k],
         DrawFollow(k, f, v)
  PROVE  TreeInv' /\ TrieStep
<1> DEFINE nd == tree[cur]
           s == Trie!Draw(k, f)
           at == Append(PosAfter(cur, nd), v)
<1>1. /\ idx = Len(nd.values) /\ nd.trans.op # "none" /\ TestDoes(s) /\ s \in Trie!Steps
      /\ \/ Raise("flaky") \/ Raise("assert")
         \/ /\ nd.trans.op = "branch" /\ k = nd.trans.kind
            /\ tree' = IF v \in nd.trans.children THEN tree ELSE AddChild(tree, cur, v)
            /\ Enter(at)
  BY DrawIsStep DEF DrawFollow, DrawsValue
<1>2. /\ Sound(tree) /\ cur \in DOMAIN tree /\ idx \in 0 .. Len(nd.values)
      /\ phase \in {"idle", "running", "flaky", "assert"} /\ killed \in BOOLEAN
  BY DEF TreeInv, Placed
<1> HIDE DEF s
<1>3. ASSUME NEW how \in {"flaky", "assert"}, Raise(how) PROVE TreeInv' /\ TrieStep
  <2>1. tree' = tree /\ cur' = cur /\ idx' = idx /\ phase' = how /\ killed' = killed
    BY <1>3 DEF Raise
  <2>2. Sound(tree') /\ TreeIsFaithful' /\ TrieStep
    BY <2>1, <1>1, StepSame
  <2>3. Placed(tree', cur', idx')
    BY <2>1, <1>2 DEF Placed
  <2> QED
    BY <2>1, <2>2, <2>3, <1>2 DEF TreeInv
<1>4. CASE /\ nd.trans.op = "branch" /\ k = nd.trans.kind
           /\ tree' = IF v \in nd.trans.children THEN tree ELSE AddChild(tree, cur, v)
           /\ Enter(at)
  <2>1. Becomes(tree, tree', {}) /\ at \in DOMAIN tree'
    <3>1. CASE v \in nd.trans.children
      <4>1. tree' = tree
        BY <1>4, <3>1
      <4>2. at \in DOMAIN tree
        BY <1>2, <1>4, <3>1 DEF Sound, Linked, Closed, Exits
      <4> QED
        BY <4>1, <4>2, <1>2, BecomesItself
    <3>2. CASE v \notin nd.trans.children
      <4>1. ~nd.exhausted /\ v \in Children[nd.trans.kind]
        BY <1>2, <1>4, <3>2 DEF Sound, Spent, SpentNode
      <4>2. /\ Becomes(tree, AddChild(tree, cur, v), {})
            /\ at \in DOMAIN AddChild(tree, cur, v)
        BY <4>1, <1>2, <1>4, <3>2, AddChildBecomes
      <4> QED
        BY <4>2, <1>4, <3>2
    <3> QED
      BY <3>1, <3>2
  <2>2. Told(tree, tree', pos, s)
    BY <2>1, <1>1, HereKnown DEF Told, Unfold
  <2>3. Sound(tree') /\ TreeIsFaithful' /\ TrieStep
    BY <2>2, <1>1, StepTold
  <2>4. Placed(tree', cur', idx')
    <3>1. cur' \in DOMAIN tree' /\ idx' = 0 /\ Shaped(tree')
      BY <2>1, <2>3, <1>4 DEF Enter, Sound
    <3> QED
      BY <3>1, NodePlaces DEF Placed
  <2> QED
    BY <2>3, <2>4, <1>2, <1>4 DEF TreeInv, Enter
<1> QED
  BY <1>1, <1>3, <1>4

\* kill_branch.
LEMMA KillKeeps ==
  ASSUME TreeInv, KillBranch
  PROVE  TreeInv' /\ TrieStep
<1> DEFINE nd == tree[cur]
           at == Append(PosAfter(cur, nd), KillMark)
           new == [nd EXCEPT !.trans = Trie!Kill]
           t == Grown(tree, cur, new, at)
<1>1. /\ TestDoes(Trie!Kill)
      /\ IF idx < Len(nd.values) \/ nd.trans.op \notin {"none", "kill"}
         THEN Raise("flaky")
         ELSE /\ tree' = IF nd.trans.op = "none" THEN UpdateExhausted(t, cur) ELSE tree
              /\ killed' = TRUE
              /\ cur' = at
              /\ idx' = 0
              /\ UNCHANGED phase
  <2>1. t = [m \in DOMAIN tree \cup {at} |->
               CASE m = cur -> [nd EXCEPT !.trans = [op |-> "kill"]]
                 [] m = at  -> EmptyNode
                 [] OTHER   -> tree[m]]
    BY DEF Grown, Trie!Kill
  <2> HIDE DEF t
  <2> QED
    BY <2>1 DEF KillBranch
<1>2. /\ Sound(tree) /\ cur \in DOMAIN tree /\ idx \in 0 .. Len(nd.values)
      /\ Len(nd.values) \in Nat
      /\ phase \in {"idle", "running", "flaky", "assert"} /\ killed \in BOOLEAN
  BY NodePlaces DEF TreeInv, Sound, Placed
<1>3. Trie!Kill \in Trie!Steps
  BY DEF Trie!Steps
<1> HIDE DEF new, t
<1>4. CASE idx < Len(nd.values) \/ nd.trans.op \notin {"none", "kill"}
  <2>1. tree' = tree /\ cur' = cur /\ idx' = idx /\ phase' = "flaky" /\ killed' = killed
    BY <1>1, <1>4 DEF Raise
  <2>2. Sound(tree') /\ TreeIsFaithful' /\ TrieStep
    BY <2>1, <1>1, <1>3, <1>4, StepSame
  <2>3. Placed(tree', cur', idx')
    BY <2>1, <1>2 DEF Placed
  <2> QED
    BY <2>1, <2>2, <2>3, <1>2 DEF TreeInv
<1>5. CASE idx = Len(nd.values) /\ nd.trans.op \in {"none", "kill"}
  <2>1. /\ tree' = IF nd.trans.op = "none" THEN UpdateExhausted(t, cur) ELSE tree
        /\ killed' = TRUE /\ cur' = at /\ idx' = 0 /\ UNCHANGED phase
    BY <1>1, <1>2, <1>5
  <2>2. Told(tree, tree', pos, Trie!Kill) /\ at \in DOMAIN tree'
    <3>1. CASE nd.trans.op = "none"
      <4>1. Becomes(tree, t, {<<PosAfter(cur, nd), Trie!Kill>>})
        BY <3>1, <1>2, KilledBecomes DEF new, t
      <4>2. cur \in DOMAIN t /\ at \in DOMAIN t /\ Sound(t)
        BY <4>1, <1>2 DEF Grown, t, Becomes
      <4>3. Becomes(t, UpdateExhausted(t, cur), {})
        BY <4>2, UpdateBecomes
      <4>4. Becomes(tree, tree', {<<PosAfter(cur, nd), Trie!Kill>>} \cup {})
        BY <4>1, <4>3, <2>1, <3>1, BecomesThen
      <4>5. at \in DOMAIN tree'
        BY <4>2, <4>3, <2>1, <3>1 DEF Becomes
      <4>6. pos = PosAfter(cur, nd) /\ pos \in Trie!Edge(Unfolded(Recorded(tree)))
        BY <3>1, <1>5, HereUnknown
      <4> QED
        BY <4>4, <4>5, <4>6 DEF Told
    <3>2. CASE nd.trans.op = "kill"
      <4>1. tree' = tree
        BY <2>1, <3>2
      <4>2. at \in DOMAIN tree
        BY <1>2, <3>2 DEF Sound, Linked, Closed, Exits
      <4> QED
        BY <4>1, <4>2, <3>2, HereKnown DEF Told, Unfold
    <3> QED
      BY <3>1, <3>2, <1>5
  <2>3. Sound(tree') /\ TreeIsFaithful' /\ TrieStep
    BY <2>2, <1>1, <1>3, StepTold
  <2>4. Placed(tree', cur', idx')
    <3>1. cur' \in DOMAIN tree' /\ idx' = 0 /\ Shaped(tree')
      BY <2>1, <2>2, <2>3 DEF Sound
    <3> QED
      BY <3>1, NodePlaces DEF Placed
  <2> QED
    BY <2>1, <2>3, <2>4, <1>2 DEF TreeInv
<1> QED
  BY <1>2, <1>4, <1>5

\* conclude_test.
LEMMA ConcludeKeeps ==
  ASSUME TreeInv, NEW c \in Conclusions, ConcludeTest(c)
  PROVE  TreeInv' /\ TrieStep
<1> DEFINE nd == tree[cur]
           s == Trie!Conclude(c)
           t == [tree EXCEPT ![cur] = Concluded(@, c)]
<1>1. /\ TestDoes(s)
      /\ \/ Raise("flaky") /\ (idx < Len(nd.values) \/ nd.trans.op # "none")
         \/ /\ ~(idx < Len(nd.values))
            /\ tree' = IF killed THEN Recheck(t, cur) ELSE UpdateExhausted(t, cur)
            /\ phase' = "idle" /\ cur' = <<>> /\ idx' = 0 /\ killed' = FALSE
  <2>1. nd.trans.op = "branch" \/ nd.trans.op = "conclude" => nd.trans.op # "none"
    OBVIOUS
  <2> HIDE DEF t
  <2> QED
    BY <2>1 DEF ConcludeTest, t
<1>2. /\ Sound(tree) /\ cur \in DOMAIN tree /\ idx \in 0 .. Len(nd.values)
      /\ Len(nd.values) \in Nat
      /\ phase \in {"idle", "running", "flaky", "assert"} /\ killed \in BOOLEAN
  BY NodePlaces DEF TreeInv, Sound, Placed
<1>3. s \in Trie!Steps
  BY DEF Trie!Steps
<1>4. t = Put(tree, cur, Concluded(nd, c))
  <2>1. tree = [m \in DOMAIN tree |-> tree[m]]
    BY <1>2 DEF Sound, Shaped
  <2> QED
    BY <2>1, <1>2 DEF Put
<1> HIDE DEF t, s
<1>5. CASE Raise("flaky") /\ (idx < Len(nd.values) \/ nd.trans.op # "none")
  <2>1. tree' = tree /\ cur' = cur /\ idx' = idx /\ phase' = "flaky" /\ killed' = killed
    BY <1>5 DEF Raise
  <2>2. Sound(tree') /\ TreeIsFaithful' /\ TrieStep
    BY <2>1, <1>1, <1>3, <1>5, StepSame
  <2>3. Placed(tree', cur', idx')
    BY <2>1, <1>2 DEF Placed
  <2> QED
    BY <2>1, <2>2, <2>3, <1>2 DEF TreeInv
<1>6. CASE /\ ~(idx < Len(nd.values))
           /\ tree' = IF killed THEN Recheck(t, cur) ELSE UpdateExhausted(t, cur)
           /\ phase' = "idle" /\ cur' = <<>> /\ idx' = 0 /\ killed' = FALSE
  <2>1. ASSUME Sound(t), cur \in DOMAIN t PROVE Becomes(t, tree', {})
    BY <2>1, <1>6, RecheckBecomes, UpdateBecomes
  <2>2. idx = Len(nd.values)
    BY <1>2, <1>6
  <2>3. Told(tree, tree', pos, s)
    <3>1. CASE nd.trans.op = "none"
      <4>1. Becomes(tree, t, {<<PosAfter(cur, nd), s>>})
        BY <3>1, <1>2, <1>4, ConcludedBecomes DEF s
      <4>2. Sound(t) /\ cur \in DOMAIN t
        BY <4>1, <1>2 DEF Becomes
      <4>3. Becomes(tree, tree', {<<PosAfter(cur, nd), s>>} \cup {})
        BY <4>1, <4>2, <2>1, BecomesThen
      <4>4. pos = PosAfter(cur, nd) /\ pos \in Trie!Edge(Unfolded(Recorded(tree)))
        BY <3>1, <2>2, HereUnknown
      <4> QED
        BY <4>3, <4>4 DEF Told
    <3>2. CASE nd.trans.op # "none"
      <4>1. t = tree
        <5>1. Concluded(nd, c) = nd /\ tree = [m \in DOMAIN tree |-> tree[m]]
          BY <3>2, <1>2 DEF Concluded, Sound, Shaped
        <5> QED
          BY <5>1, <1>4 DEF Put
      <4>2. Becomes(tree, tree', {})
        BY <4>1, <1>2, <2>1
      <4> QED
        BY <4>2, <3>2, HereKnown DEF Told, Unfold
    <3> QED
      BY <3>1, <3>2
  <2>4. Sound(tree') /\ TreeIsFaithful' /\ TrieStep
    BY <2>3, <1>1, <1>3, StepTold
  <2>5. Placed(tree', cur', idx')
    <3>1. cur' \in DOMAIN tree' /\ idx' = 0 /\ Shaped(tree')
      BY <2>4, <1>6 DEF Sound, Shaped
    <3> QED
      BY <3>1, NodePlaces DEF Placed
  <2> QED
    BY <2>4, <2>5, <1>6 DEF TreeInv
<1> QED
  BY <1>1, <1>5, <1>6

\* Starting a test case, giving one up, or doing nothing.
LEMMA RestKeeps ==
  ASSUME TreeInv, StartNovel \/ StartAny \/ Abandon \/ UNCHANGED vars
  PROVE  TreeInv' /\ TrieStep
<1>1. /\ tree' = tree /\ flaky' = flaky /\ prog' = prog
      /\ (cur' = cur /\ idx' = idx) \/ (cur' = <<>> /\ idx' = 0)
      /\ phase' \in {"idle", "running", "flaky", "assert"} /\ killed' \in BOOLEAN
  BY DEF TreeInv, StartNovel, StartAny, Start, Abandon, vars
<1>2. Unfold' = Unfold
  BY <1>1 DEF Unfold
<1>3. Sound(tree') /\ TreeIsFaithful' /\ TrieStep
  BY <1>1, <1>2 DEF TreeInv, TreeIsFaithful, TrieStep
<1>4. Placed(tree', cur', idx')
  <2>1. CASE cur' = cur /\ idx' = idx
    BY <2>1, <1>1 DEF TreeInv, Placed
  <2>2. CASE cur' = <<>> /\ idx' = 0
    <3>1. Shaped(tree') /\ cur' \in DOMAIN tree'
      BY <2>2, <1>3 DEF Sound, Shaped
    <3> QED
      BY <3>1, <2>2, NodePlaces DEF Placed
  <2> QED
    BY <2>1, <2>2, <1>1
<1> QED
  BY <1>1, <1>3, <1>4 DEF TreeInv

\* Every step keeps the invariant, and is a step of Trie or a stutter.
LEMMA StepKeeps == ASSUME TreeInv, [Next]_vars PROVE TreeInv' /\ TrieStep
<1>1. CASE TestCase
  <2>1. ASSUME NEW k \in Kinds, NEW f \in Children[k] \cup {NoValue}, NEW v \in Children[k],
               DrawAgain(k, f, v) \/ DrawNew(k, f, v) \/ DrawFollow(k, f, v)
        PROVE  TreeInv' /\ TrieStep
    BY <2>1, AgainKeeps, NewKeeps, FollowKeeps
  <2> QED
    BY <1>1, <2>1, KillKeeps, ConcludeKeeps DEF TestCase
<1> QED
  BY <1>1, RestKeeps DEF Next

\* The empty tree.
LEMMA InitHolds == ASSUME Init PROVE TreeInv /\ Trie!Init
<1>1. /\ DOMAIN tree = {<<>>} /\ tree[<<>>] = EmptyNode
      /\ tree = [m \in DOMAIN tree |-> tree[m]]
  BY DEF Init
<1>2. Shaped(tree)
  <2>1. <<>> \in Trie!Positions
    BY EmptySeq DEF Trie!Positions
  <2> QED
    BY <2>1, <1>1, EmptyFits DEF Shaped
<1>3. Linked(tree)
  <2>1. Closed(tree) /\ Entered(tree)
    BY <1>1, EmptyFits DEF Closed, Entered
  <2>2. Apart(tree)
    BY <1>1, EmptyFits DEF Apart
  <2> QED
    BY <2>1, <2>2 DEF Linked
<1>4. Spent(tree)
  BY <1>1 DEF Spent, EmptyNode
<1>5. Recorded(tree) = {}
  BY <1>1, EmptyRecords DEF Recorded
<1>6. Unfold = <<>>
  <2>1. DOMAIN Unfolded({}) = {} /\ Unfolded({}) = [p \in {} |-> 0]
    BY DEF Unfolded
  <2> QED
    BY <2>1, <1>5 DEF Unfold
<1>7. Placed(tree, cur, idx)
  BY <1>1, EmptyFits DEF Placed, Init
<1> QED
  BY <1>1, <1>2, <1>3, <1>4, <1>6, <1>7
  DEF TreeInv, TreeIsFaithful, Sound, Init, Trie!Init, EmptyNode

-----------------------------------------------------------------------------
\* The nodes are well formed and the observer is at a place of the tree, whatever was
\* drawn and however recording broke (TreeNode, TreeRecordingObserver).
THEOREM TreeTypeCorrect == Spec => []TypeOK
<1>1. Init => TreeInv
  BY InitHolds
<1>2. TreeInv /\ [Next]_vars => TreeInv'
  BY StepKeeps
<1>3. TreeInv => TypeOK
  BY InvTyped
<1> QED
  BY <1>1, <1>2, <1>3, PTL DEF Spec

\* The radix tree unfolds to exactly what the test function did, unless it is flaky:
\* split_at, draw_value, kill_branch and conclude_test never change what is recorded.
THEOREM TreeFaithful == Spec => []TreeIsFaithful
<1>1. Init => TreeInv
  BY InitHolds
<1>2. TreeInv /\ [Next]_vars => TreeInv'
  BY StepKeeps
<1>3. TreeInv => TreeIsFaithful
  BY DEF TreeInv
<1> QED
  BY <1>1, <1>2, <1>3, PTL DEF Spec

\* DataTree implements Trie: each of its steps records at most one new fact and rewrites
\* none, and the root is marked as exhausted only when nothing is left to explore, and
\* stays so; with a flaky test function too.
THEOREM TreeImplements == Spec => ImplementsTrie
<1>1. Init => TreeInv /\ Trie!Init
  BY InitHolds
<1>2. TreeInv /\ [Next]_vars => TreeInv' /\ [Trie!Next]_<<Unfold, tree[<<>>].exhausted>>
  BY StepKeeps DEF TrieStep
<1> QED
  BY <1>1, <1>2, PTL DEF Spec, ImplementsTrie, Trie!Spec

-----------------------------------------------------------------------------
\* Novel prefixes.

\* What it is to be a prefix.
LEMMA Prefixed ==
  ASSUME NEW p \in Trie!Positions, NEW q \in Trie!Positions
  PROVE  IsPrefix(p, q) <=> /\ Len(p) <= Len(q)
                            /\ \A j \in 1 .. Len(p) : p[j] = q[j]
<1> DEFINE S == Values \cup {KillMark}
<1>1. p \in Seq(S) /\ q \in Seq(S) /\ Len(p) \in Nat /\ Len(q) \in Nat
  BY LenProperties DEF Trie!Positions
<1> HIDE DEF S
<1>2. ASSUME Len(p) <= Len(q)
      PROVE  SubSeq(p, 1, Len(p)) = SubSeq(q, 1, Len(p)) <=> \A j \in 1 .. Len(p) : p[j] = q[j]
  <2> DEFINE L == Len(p)
             a == SubSeq(p, 1, L)
             b == SubSeq(q, 1, L)
  <2>1. L \in 0 .. Len(p) /\ L \in 0 .. Len(q) /\ L \in Nat /\ 0 \in 0 .. L
    BY <1>1, <1>2
  <2> HIDE DEF L
  <2>2. /\ a \in Seq(S) /\ Len(a) = L /\ \A j \in 1 .. L : a[j] = p[j]
        /\ b \in Seq(S) /\ Len(b) = L /\ \A j \in 1 .. L : b[j] = q[j]
    BY <1>1, <2>1, PosInFirst
  <2> HIDE DEF a, b
  <2>3. ASSUME \A j \in 1 .. L : p[j] = q[j] PROVE a = b
    BY <2>2, <2>3, SeqEqual
  <2>4. a = b <=> \A j \in 1 .. L : p[j] = q[j]
    BY <2>2, <2>3
  <2> QED
    BY <2>4 DEF a, b, L
<1> QED
  BY <1>2 DEF IsPrefix

\* To be a prefix is an order.
LEMMA PrefixOrder ==
  ASSUME NEW p \in Trie!Positions, NEW q \in Trie!Positions, NEW r \in Trie!Positions
  PROVE  /\ IsPrefix(p, p)
         /\ IsPrefix(p, q) /\ IsPrefix(q, r) => IsPrefix(p, r)
         /\ IsPrefix(p, q) /\ Len(p) = Len(q) => p = q
         /\ IsPrefix(p, q) => Len(p) <= Len(q)
         /\ IsPrefix(p, r) /\ IsPrefix(q, r) /\ Len(p) = Len(q) => p = q
         /\ IsPrefix(p, r) /\ IsPrefix(q, r) /\ Len(p) <= Len(q) => IsPrefix(p, q)
<1> DEFINE S == Values \cup {KillMark}
<1>0. Trie!Positions = Seq(S)
  BY DEF Trie!Positions
<1> HIDE DEF S
<1>1. Len(p) \in Nat /\ Len(q) \in Nat /\ Len(r) \in Nat
  BY <1>0, LenProperties
<1>2. \A x \in Trie!Positions, y \in Trie!Positions :
        IsPrefix(x, y) <=> Len(x) <= Len(y) /\ \A j \in 1 .. Len(x) : x[j] = y[j]
  BY Prefixed
<1>3. IsPrefix(p, p)
  BY <1>1, <1>2
<1>4. IsPrefix(p, q) /\ IsPrefix(q, r) => IsPrefix(p, r)
  BY <1>1, <1>2
<1>5. ASSUME NEW x \in Trie!Positions, NEW y \in Trie!Positions, Len(x) = Len(y),
             \A j \in 1 .. Len(x) : x[j] = y[j]
      PROVE  x = y
  BY <1>0, <1>5, SeqEqual
<1>6. IsPrefix(p, q) /\ Len(p) = Len(q) => p = q
  BY <1>1, <1>2, <1>5
<1>7. IsPrefix(p, r) /\ IsPrefix(q, r) /\ Len(p) <= Len(q) => IsPrefix(p, q)
  BY <1>1, <1>2
<1>8. IsPrefix(p, r) /\ IsPrefix(q, r) /\ Len(p) = Len(q) => p = q
  BY <1>1, <1>6, <1>7
<1> QED
  BY <1>2, <1>3, <1>4, <1>6, <1>7, <1>8

\* A node begins every position behind it.
LEMMA BeginsAfter ==
  ASSUME NEW n \in Trie!Positions, NEW nd, Fits(nd), NEW v \in Values \cup {KillMark}
  PROVE  /\ IsPrefix(n, PosAfter(n, nd)) /\ IsPrefix(n, Append(PosAfter(n, nd), v))
         /\ Append(PosAfter(n, nd), v) \in Trie!Positions
         /\ Len(Append(PosAfter(n, nd), v)) > Len(n)
<1> DEFINE V == Values \cup {KillMark}
           q == PosAfter(n, nd)
           p == Append(q, v)
<1>1. nd.values \in Seq(V) /\ n \in Seq(V) /\ v \in V
  <2>1. nd.values \in Seq(Values) /\ Values \subseteq V
    BY DEF Fits, Node
  <2> QED
    BY <2>1, SeqMonotonic DEF Trie!Positions
<1>2. Trie!Positions = Seq(V) /\ q = n \o nd.values /\ p = Append(q, v)
  BY DEF Trie!Positions, PosAfter
<1> HIDE DEF V, q, p
<1>3. /\ Len(n) \in Nat /\ Len(nd.values) \in Nat
      /\ q \in Seq(V) /\ Len(q) = Len(n) + Len(nd.values)
      /\ \A j \in 1 .. Len(n) : q[j] = n[j]
  BY <1>1, <1>2, ConcatProperties, LenProperties
<1>4. /\ p \in Seq(V) /\ Len(p) = Len(q) + 1 /\ \A j \in 1 .. Len(q) : p[j] = q[j]
  BY <1>1, <1>2, <1>3, AppendProperties
<1>5. q \in Trie!Positions /\ p \in Trie!Positions
  BY <1>2, <1>3, <1>4
<1>6. IsPrefix(n, q)
  <2>1. Len(n) <= Len(q) /\ \A j \in 1 .. Len(n) : n[j] = q[j]
    BY <1>3
  <2> QED
    BY <2>1, <1>5, Prefixed
<1>7. IsPrefix(q, p)
  <2>1. Len(q) <= Len(p) /\ \A j \in 1 .. Len(q) : q[j] = p[j]
    BY <1>3, <1>4
  <2> QED
    BY <2>1, <1>5, Prefixed
<1>8. IsPrefix(n, p)
  BY <1>6, <1>7, <1>5, PrefixOrder
<1>9. Len(p) > Len(n)
  BY <1>3, <1>4
<1> QED
  BY <1>2, <1>4, <1>6, <1>8, <1>9 DEF p, q

\* The nodes before a node are those before the one from which it is entered.
LEMMA TrailGoesUp ==
  ASSUME NEW t, Shaped(t), Linked(t), NEW m \in DOMAIN t, NEW n \in DOMAIN t, NEW k \in DOMAIN t,
         NEW v \in Exits(t[k]), n = Append(PosAfter(k, t[k]), v), IsPrefix(m, n), m # n
  PROVE  IsPrefix(m, k)
<1> DEFINE V == Values \cup {KillMark}
           vs == t[k].values
           q == PosAfter(k, t[k])
<1>1. Trie!Positions = Seq(V) /\ q = PosAfter(k, t[k]) /\ vs = t[k].values
  BY DEF Trie!Positions
<1>2. /\ m \in Seq(V) /\ n \in Seq(V) /\ k \in Seq(V) /\ q \in Seq(V)
      /\ vs \in Seq(V) /\ v \in V /\ Len(vs) \in Nat /\ Fits(t[k])
      /\ Len(vs) \in 0 .. Len(vs) /\ n = Append(q, v)
      /\ PosIn(k, t[k], Len(vs)) = q /\ PosIn(m, t[m], 0) = m /\ 0 \in 0 .. Len(t[m].values)
  <2>1. t[k].values \in Seq(Values) /\ Values \subseteq V
    BY NodePlaces DEF Fits, Node
  <2>2. vs \in Seq(V)
    BY <2>1, SeqMonotonic
  <2> QED
    BY <2>2, <1>1, NodePlaces
<1> HIDE DEF V, q, vs
<1>3. Len(m) \in Nat /\ Len(k) \in Nat /\ Len(n) \in Nat /\ Len(q) = Len(k) + Len(vs)
  <2>1. Len(m) \in Nat /\ Len(k) \in Nat /\ Len(n) \in Nat
    BY <1>2, LenProperties
  <2>2. Len(PosIn(k, t[k], Len(vs))) = Len(k) + Len(vs)
    BY <1>1, <1>2, PlaceType
  <2> QED
    BY <2>1, <2>2, <1>2
<1>4. /\ Len(n) = Len(q) + 1 /\ \A j \in 1 .. Len(q) : n[j] = q[j]
  BY <1>2, AppendProperties
<1>5. Len(m) <= Len(n) /\ \A j \in 1 .. Len(m) : m[j] = n[j]
  BY <1>1, <1>2, Prefixed
<1>6. Len(m) <= Len(q)
  <2>1. Len(m) # Len(n)
    BY <1>1, <1>2, PrefixOrder
  <2> QED
    BY <2>1, <1>2, <1>3, <1>4, <1>5, LenProperties
<1>7. \A j \in 1 .. Len(m) : m[j] = q[j]
  BY <1>3, <1>4, <1>5, <1>6
<1>8. \A i \in 0 .. Len(vs) :
        /\ PosIn(k, t[k], i) \in Seq(V) /\ Len(PosIn(k, t[k], i)) = Len(k) + i
        /\ \A j \in 1 .. Len(k) + i :
             PosIn(k, t[k], i)[j] = IF j <= Len(k) THEN k[j] ELSE vs[j - Len(k)]
  <2> SUFFICES ASSUME NEW i \in 0 .. Len(vs)
               PROVE  /\ PosIn(k, t[k], i) \in Seq(V) /\ Len(PosIn(k, t[k], i)) = Len(k) + i
                      /\ \A j \in 1 .. Len(k) + i :
                           PosIn(k, t[k], i)[j] = IF j <= Len(k) THEN k[j] ELSE vs[j - Len(k)]
    OBVIOUS
  <2>1. PosIn(k, t[k], i) = k \o SubSeq(vs, 1, i)
    BY <1>1 DEF PosIn
  <2>2. k \in Seq(V) /\ vs \in Seq(V)
    BY <1>2
  <2> QED
    BY <2>1, <2>2, PosInElements
<1>9. \A j \in 1 .. Len(q) : q[j] = IF j <= Len(k) THEN k[j] ELSE vs[j - Len(k)]
  BY <1>2, <1>3, <1>8
<1>10. CASE Len(m) <= Len(k)
  <2>1. \A j \in 1 .. Len(m) : m[j] = k[j]
    BY <1>3, <1>7, <1>9, <1>10
  <2> QED
    BY <2>1, <1>1, <1>2, <1>10, Prefixed
<1>11. CASE Len(m) > Len(k)
  <2> DEFINE i == Len(m) - Len(k)
             x == PosIn(k, t[k], i)
  <2>1. i \in 0 .. Len(vs) /\ i > 0 /\ Len(k) + i = Len(m)
    BY <1>3, <1>6, <1>11
  <2> HIDE DEF i
  <2>2. x \in Seq(V) /\ Len(x) = Len(m)
        /\ \A j \in 1 .. Len(m) : x[j] = IF j <= Len(k) THEN k[j] ELSE vs[j - Len(k)]
    BY <2>1, <1>8
  <2> HIDE DEF x
  <2>3. \A j \in 1 .. Len(m) : m[j] = x[j]
    <3> SUFFICES ASSUME NEW j \in 1 .. Len(m) PROVE m[j] = x[j]
      OBVIOUS
    <3>1. j \in 1 .. Len(q)
      BY <1>2, <1>3, <1>6
    <3>2. m[j] = q[j] /\ q[j] = IF j <= Len(k) THEN k[j] ELSE vs[j - Len(k)]
      BY <3>1, <1>7, <1>9
    <3>3. x[j] = IF j <= Len(k) THEN k[j] ELSE vs[j - Len(k)]
      BY <2>2
    <3> QED
      BY <3>2, <3>3
  <2>4. m = x
    BY <2>2, <2>3, <1>2, SeqEqual
  <2>5. PosIn(m, t[m], 0) = PosIn(k, t[k], i)
    BY <2>4, <1>2 DEF x
  <2>6. i = 0
    BY <2>1, <2>5, <1>1, <1>2 DEF Linked, Apart
  <2> QED
    BY <2>1, <2>6
<1> QED
  BY <1>3, <1>10, <1>11

\* Not behind a discard.
Live(n) == KillMark \notin Range(n)

\* A value of a node that was not forced could have been another one: where a draw has
\* a single value, the node was split at once.
FreeAt(nd, i) == i \in nd.forced \/ \E w \in Children[nd.kinds[i]] : w # nd.values[i]
Free(t) == \A n \in DOMAIN t : \A i \in 1 .. Len(t[n].values) : FreeAt(t[n], i)

\* A node that is not behind a discard is marked as soon as everything after it was tried.
MarkedNode(t, n) == Live(n) /\ SpentNode(t, n) => t[n].exhausted
Marked(t) == \A n \in DOMAIN t : MarkedNode(t, n)

\* Positions do not get longer for ever.
Bounded(t) == \E b \in Nat : \A n \in DOMAIN t : Len(n) <= b

Complete(t) == Marked(t) /\ Free(t) /\ Bounded(t)

NovelInv == /\ TreeInv
            /\ killed <=> ~Live(cur)
            /\ Complete(tree)

\* The places of a node are behind a discard when it is.
LEMMA LivePlace ==
  ASSUME NEW n \in Trie!Positions, NEW nd, Fits(nd), NEW i \in 0 .. Len(nd.values)
  PROVE  /\ Live(PosIn(n, nd, i)) <=> Live(n)
         /\ \A v \in Values : Live(Append(PosIn(n, nd, i), v)) <=> Live(n)
         /\ ~Live(Append(PosIn(n, nd, i), KillMark))
<1> DEFINE V == Values \cup {KillMark}
           q == PosIn(n, nd, i)
<1>1. nd.values \in Seq(V) /\ n \in Seq(V) /\ nd.values \in Seq(Values)
  <2>1. nd.values \in Seq(Values) /\ Values \subseteq V
    BY DEF Fits, Node
  <2> QED
    BY <2>1, SeqMonotonic DEF Trie!Positions
<1>2. q = n \o SubSeq(nd.values, 1, i)
  BY DEF PosIn
<1>0. KillMark \in V /\ Values \subseteq V /\ KillMark \notin Values
  BY TrieParameters DEF Trie!TrieConstants
<1> HIDE DEF V, q
<1>3. /\ Len(n) \in Nat /\ Len(nd.values) \in Nat
      /\ q \in Seq(V) /\ Len(q) = Len(n) + i
      /\ \A j \in 1 .. Len(n) + i : q[j] = IF j <= Len(n) THEN n[j] ELSE nd.values[j - Len(n)]
  BY <1>1, <1>2, PosInElements, LenProperties
<1>4. DOMAIN n = 1 .. Len(n) /\ DOMAIN q = 1 .. Len(n) + i
  BY <1>1, <1>3, LenProperties
<1>5. \A j \in DOMAIN n : j \in DOMAIN q /\ q[j] = n[j]
  BY <1>3, <1>4
<1>6. \A j \in DOMAIN q : j \in DOMAIN n \/ q[j] \in Values
  <2> SUFFICES ASSUME NEW j \in DOMAIN q, j \notin DOMAIN n PROVE q[j] \in Values
    OBVIOUS
  <2>1. j > Len(n) /\ q[j] = nd.values[j - Len(n)] /\ j - Len(n) \in 1 .. Len(nd.values)
    BY <1>3, <1>4
  <2>2. \A h \in 1 .. Len(nd.values) : nd.values[h] \in Values
    BY <1>1, ElementOfSeq
  <2> QED
    BY <2>1, <2>2
<1>7. Live(q) <=> Live(n)
  BY <1>0, <1>5, <1>6 DEF Live, Range
<1>8. \A v \in V : Range(Append(q, v)) = Range(q) \cup {v}
  BY <1>3, RangeOfAppend
<1> QED
  BY <1>0, <1>7, <1>8 DEF Live, q

\* A node that is spent passes check_exhausted.
LEMMA SpentIsChecked ==
  ASSUME NEW t, NEW n, Fits(t[n]), SpentNode(t, n)
  PROVE  CheckExhausted(t, n, t[n])
<1>1. Cardinality(t[n].forced) = Len(t[n].values)
  <2> DEFINE k == Len(t[n].values)
  <2>1. k \in Nat
    BY LenProperties DEF Fits, Node
  <2>2. t[n].forced = 1 .. k
    BY DEF SpentNode
  <2> HIDE DEF k
  <2>3. Cardinality(t[n].forced) = k
    BY <2>1, <2>2, FS_Interval
  <2> QED
    BY <2>3 DEF k
<1> QED
  BY <1>1 DEF SpentNode, CheckExhausted

\* Counting the forced indices tells whether all values are forced.
LEMMA AllForcedIs ==
  ASSUME NEW nd, Fits(nd)
  PROVE  AllForced(nd) <=> nd.forced = 1 .. Len(nd.values)
<1> DEFINE k == Len(nd.values)
<1>1. k \in Nat
  BY LenProperties DEF Fits, Node
<1>2. nd.forced \in SUBSET (1 .. k)
  BY DEF Fits
<1>3. k = Len(nd.values)
  OBVIOUS
<1> HIDE DEF k
<1>4. IsFiniteSet(1 .. k) /\ Cardinality(1 .. k) = k
  BY <1>1, FS_Interval
<1>5. Cardinality(nd.forced) = k => nd.forced = 1 .. k
  BY <1>2, <1>4, FS_Subset
<1>6. nd.forced = 1 .. k => Cardinality(nd.forced) = k
  BY <1>4
<1> QED
  BY <1>3, <1>5, <1>6 DEF AllForced

\* Whether a node is spent depends on it and on the marks of the nodes it leads to.
LEMMA SpentAlike ==
  ASSUME NEW t, NEW u, NEW m, SpentNode(u, m), u[m].trans = t[m].trans,
         u[m].forced = t[m].forced, u[m].values = t[m].values,
         t[m].trans.op = "branch" =>
           \A v \in t[m].trans.children :
             u[Append(PosAfter(m, t[m]), v)].exhausted => t[Append(PosAfter(m, t[m]), v)].exhausted
  PROVE  SpentNode(t, m)
<1>1. PosAfter(m, u[m]) = PosAfter(m, t[m])
  BY DEF PosAfter
<1> QED
  BY <1>1 DEF SpentNode

\* A change of one node alone, which does not mark it, leaves the others as marked as
\* they were.
LEMMA OthersMarked ==
  ASSUME NEW t, Linked(t), NEW u, NEW n,
         \A m \in DOMAIN t : m # n => u[m] = t[m] /\ MarkedNode(t, m),
         n \in DOMAIN t => (u[n].exhausted => t[n].exhausted)
  PROVE  \A m \in DOMAIN t : m # n => MarkedNode(u, m)
<1> SUFFICES ASSUME NEW m \in DOMAIN t, m # n, Live(m), SpentNode(u, m)
             PROVE  u[m].exhausted
  BY DEF MarkedNode
<1>1. u[m] = t[m]
  OBVIOUS
<1>2. t[m].trans.op = "branch" => \A v \in t[m].trans.children :
        Append(PosAfter(m, t[m]), v) \in DOMAIN t
  BY DEF Linked, Closed, Exits
<1>3. \A x \in DOMAIN t : u[x].exhausted => t[x].exhausted
  OBVIOUS
<1>4. SpentNode(t, m)
  BY <1>1, <1>2, <1>3, SpentAlike
<1> QED
  BY <1>1, <1>4 DEF MarkedNode

\* One node more does not make a tree unbounded.
LEMMA BoundedAlike ==
  ASSUME NEW t, Bounded(t), NEW at \in Trie!Positions, NEW u, DOMAIN u \subseteq DOMAIN t \cup {at},
         DOMAIN t \subseteq Trie!Positions
  PROVE  Bounded(u)
<1>1. PICK b \in Nat : \A n \in DOMAIN t : Len(n) <= b
  BY DEF Bounded
<1>2. \A n \in Trie!Positions : Len(n) \in Nat
  BY LenProperties DEF Trie!Positions
<1>3. b + Len(at) \in Nat
  BY <1>2
<1>4. \A n \in DOMAIN u : Len(n) <= b + Len(at)
  BY <1>1, <1>2
<1> QED
  BY <1>3, <1>4 DEF Bounded

\* What has the same values and forced values is as free.
LEMMA FreeAlike ==
  ASSUME NEW t, Free(t), NEW u,
         \A m \in DOMAIN u :
           \/ Len(u[m].values) = 0
           \/ /\ m \in DOMAIN t
              /\ u[m].kinds = t[m].kinds /\ u[m].values = t[m].values /\ u[m].forced = t[m].forced
  PROVE  Free(u)
BY DEF Free, FreeAt

-----------------------------------------------------------------------------
\* What each change of the tree does to that.

\* A value at the end of a node: only that value may lack an alternative.
LEMMA AppendedComplete ==
  ASSUME NEW t, Sound(t), Complete(t), NEW n \in DOMAIN t, t[n].trans.op = "none",
         NEW k \in Kinds, NEW v \in Children[k], NEW f \in {NoValue, v},
         NEW nd, nd = Extended(t[n], k, v, f),
         NEW u, u = Put(t, n, nd)
  PROVE  /\ Marked(u) /\ Bounded(u) /\ Sound(u)
         /\ DOMAIN u = DOMAIN t /\ u[n] = nd /\ Len(nd.values) = Len(t[n].values) + 1
         /\ \A m \in DOMAIN u : \A i \in 1 .. Len(u[m].values) :
              m # n \/ i # Len(t[n].values) + 1 => FreeAt(u[m], i)
         /\ f # NoValue \/ (\E w \in Children[k] : w # v) =>
              FreeAt(u[n], Len(t[n].values) + 1)
<1> DEFINE L == Len(t[n].values)
<1>1. IsExtended(t, u, n, nd, k, v, f)
  BY AppendedBecomes
<1>2. /\ Sound(u) /\ DOMAIN u = DOMAIN t /\ u[n] = nd /\ Len(nd.values) = L + 1
      /\ \A m \in DOMAIN t : m # n => u[m] = t[m]
  BY <1>1 DEF IsExtended, Becomes, Put
<1>3. L \in Nat /\ Fits(t[n]) /\ n \in Trie!Positions /\ DOMAIN t \subseteq Trie!Positions
  BY NodePlaces DEF Sound, Shaped
<1>4. /\ t[n].kinds \in Seq(Kinds) /\ t[n].values \in Seq(Values) /\ Len(t[n].kinds) = L
      /\ v \in Values
  BY <1>3, TrieParameters DEF Fits, Node, Trie!TrieConstants
<1>5. /\ nd.kinds = Append(t[n].kinds, k) /\ nd.values = Append(t[n].values, v)
      /\ nd.forced = IF f = NoValue THEN t[n].forced ELSE t[n].forced \cup {L + 1}
      /\ nd.trans = t[n].trans /\ nd.exhausted = t[n].exhausted
  BY DEF Extended
<1>6. /\ \A i \in 1 .. L : nd.kinds[i] = t[n].kinds[i] /\ nd.values[i] = t[n].values[i]
      /\ nd.kinds[L + 1] = k /\ nd.values[L + 1] = v
  BY <1>4, <1>5, AppendProperties
<1> HIDE DEF L
<1>7. Marked(u)
  <2>1. \A m \in DOMAIN t : m # n => MarkedNode(u, m)
    BY <1>2, <1>5, OthersMarked DEF Complete, Marked, Sound
  <2>2. MarkedNode(u, n)
    BY <1>2, <1>5 DEF MarkedNode, SpentNode
  <2> QED
    BY <2>1, <2>2, <1>2 DEF Marked
<1>8. Bounded(u)
  BY <1>2, <1>3, BoundedAlike DEF Complete
<1>9. ASSUME NEW m \in DOMAIN u, NEW i \in 1 .. Len(u[m].values), m # n \/ i # L + 1
      PROVE  FreeAt(u[m], i)
  <2>1. CASE m # n
    BY <2>1, <1>2 DEF Complete, Free
  <2>2. CASE m = n
    <3>1. i \in 1 .. L
      BY <2>2, <1>2, <1>3, <1>9
    <3>2. FreeAt(t[n], i)
      BY <3>1 DEF Complete, Free, L
    <3> QED
      BY <3>1, <3>2, <2>2, <1>2, <1>5, <1>6 DEF FreeAt
  <2> QED
    BY <2>1, <2>2
<1>10. ASSUME f # NoValue \/ \E w \in Children[k] : w # v PROVE FreeAt(u[n], L + 1)
  BY <1>10, <1>2, <1>5, <1>6 DEF FreeAt
<1> QED
  BY <1>2, <1>7, <1>8, <1>9, <1>10 DEF L

\* Splitting a node at a value that was not forced leaves two nodes that are complete but
\* for the mark of the first one.
LEMMA SplitParts ==
  ASSUME NEW t, Sound(t), Bounded(t), NEW n \in DOMAIN t, ~t[n].exhausted,
         NEW i \in 1 .. Len(t[n].values), i \notin t[n].forced,
         \A m \in DOMAIN t : m # n => MarkedNode(t, m),
         \A m \in DOMAIN t : \A j \in 1 .. Len(t[m].values) :
           m # n \/ j # i => FreeAt(t[m], j),
         NEW u, u = SplitAt(t, n, i)
  PROVE  /\ Free(u) /\ Bounded(u) /\ Sound(u)
         /\ \A m \in DOMAIN u : m # n => MarkedNode(u, m)
         /\ n \in DOMAIN u /\ u[n] = Stem(t[n], i)
         /\ PosAfter(n, u[n]) = PosIn(n, t[n], i - 1)
         /\ t[n].trans.op = "none" => MarkedNode(u, n)
<1> DEFINE nd == t[n]
           at == PosIn(n, nd, i)
           rest == Rest(nd, i, FALSE)
           e == CheckExhausted(t, at, rest)
<1>0. Shaped(t) /\ Linked(t) /\ Spent(t) /\ e \in BOOLEAN /\ nd = t[n]
  <2>1. e \in BOOLEAN
    BY DEF CheckExhausted, Rest
  <2> QED
    BY <2>1 DEF Sound
<1>1. u = Divided(t, n, i, e) /\ e = CheckExhausted(t, at, rest) /\ at = PosIn(n, nd, i)
      /\ rest = Rest(nd, i, FALSE)
  BY <1>0, SplitIs
<1> HIDE DEF e
<1>2. IsDivided(u, t, n, i, e)
  BY <1>0, <1>1, DividedIs
<1>3. /\ DOMAIN u = DOMAIN t \cup {at} /\ at \notin DOMAIN t
      /\ u[n] = Stem(nd, i) /\ u[at] = Rest(nd, i, e)
      /\ \A m \in DOMAIN t : m # n => u[m] = t[m]
      /\ PosAfter(n, u[n]) = PosIn(n, nd, i - 1) /\ PosAfter(at, u[at]) = PosAfter(n, nd)
  BY <1>2 DEF IsDivided
<1>4. Becomes(t, u, {})
  BY SplitBecomes
<1>5. Sound(u) /\ n \in DOMAIN u /\ at \in Trie!Positions /\ Fits(u[at]) /\ Fits(nd)
  <2>1. Sound(u)
    BY <1>4 DEF Becomes
  <2> QED
    BY <2>1, <1>0, <1>3 DEF Sound, Shaped
<1> HIDE DEF at, nd, rest
<1>6. \A m \in DOMAIN t : m # n => MarkedNode(u, m)
  <2>1. u[n].exhausted => t[n].exhausted
    BY <1>0, <1>3 DEF Stem
  <2> QED
    BY <2>1, <1>0, <1>3, OthersMarked
<1>7. MarkedNode(u, at)
  <2> SUFFICES ASSUME SpentNode(u, at) PROVE u[at].exhausted
    BY DEF MarkedNode
  <2>1. CheckExhausted(u, at, u[at])
    BY <1>5, SpentIsChecked
  <2>2. /\ rest.trans = nd.trans /\ u[at].trans = nd.trans /\ u[at].exhausted = e
        /\ rest.forced = u[at].forced /\ rest.values = u[at].values
        /\ PosAfter(at, rest) = PosAfter(n, nd) /\ ~rest.exhausted
    <3>1. /\ rest.trans = nd.trans /\ u[at].trans = nd.trans /\ u[at].exhausted = e
          /\ rest.forced = u[at].forced /\ rest.values = u[at].values /\ ~rest.exhausted
      <4>1. \A b : /\ Rest(nd, i, b).trans = nd.trans /\ Rest(nd, i, b).exhausted = b
                   /\ Rest(nd, i, b).forced = ForcedAfter(nd, i)
                   /\ Rest(nd, i, b).values = SubSeq(nd.values, i + 1, Len(nd.values))
        BY DEF Rest
      <4>2. rest = Rest(nd, i, FALSE) /\ u[at] = Rest(nd, i, e)
        BY <1>1, <1>3
      <4> QED
        BY <4>1, <4>2
    <3>2. PosAfter(at, rest) = PosAfter(at, u[at])
      BY <3>1 DEF PosAfter
    <3> QED
      BY <3>1, <3>2, <1>3
  <2>3. nd.trans.op = "branch" => \A v \in nd.trans.children :
          /\ Append(PosAfter(n, nd), v) \in DOMAIN t
          /\ Append(PosAfter(n, nd), v) # n
    <3> SUFFICES ASSUME nd.trans.op = "branch", NEW v \in nd.trans.children
                 PROVE  Append(PosAfter(n, nd), v) \in DOMAIN t /\ Append(PosAfter(n, nd), v) # n
      OBVIOUS
    <3>1. v \in Exits(nd)
      BY DEF Exits
    <3>2. Append(PosAfter(n, nd), v) \in DOMAIN t
      BY <3>1, <1>0 DEF Linked, Closed
    <3>3. /\ v \in Values \cup {KillMark} /\ n \in Trie!Positions
      BY <3>1, <1>0, NodePlaces
    <3>4. Len(Append(PosAfter(n, nd), v)) > Len(n) /\ Len(n) \in Nat
      BY <3>3, <1>5, BeginsAfter, LenProperties DEF Trie!Positions
    <3> QED
      BY <3>2, <3>4
  <2>4. nd.trans.op = "branch" => \A v \in nd.trans.children :
          u[Append(PosAfter(n, nd), v)] = t[Append(PosAfter(n, nd), v)]
    BY <2>3, <1>3
  <2>5. PosAfter(at, u[at]) = PosAfter(n, nd)
    BY <1>3
  <2>6. SpentNode(u, at)
    OBVIOUS
  <2>7. CheckExhausted(t, at, rest)
    <3>1. Cardinality(u[at].forced) = Len(u[at].values)
      BY <2>6, <1>5, AllForcedIs DEF SpentNode, AllForced
    <3> QED
      BY <3>1, <2>2, <2>4, <2>5, <2>6 DEF CheckExhausted, SpentNode
  <2> QED
    BY <2>2, <2>7, <1>1
<1>8. Bounded(u)
  BY <1>0, <1>3, <1>5, BoundedAlike DEF Shaped
<1>9. Free(u)
  <2> SUFFICES ASSUME NEW m \in DOMAIN u, NEW j \in 1 .. Len(u[m].values)
               PROVE  FreeAt(u[m], j)
    BY DEF Free
  <2> DEFINE L == Len(nd.values)
  <2>1. /\ L \in Nat /\ nd.values \in Seq(Values) /\ nd.kinds \in Seq(Kinds)
        /\ Len(nd.kinds) = L /\ i \in 1 .. L /\ i - 1 \in 0 .. L
    <3>1. L \in Nat /\ nd.values \in Seq(Values) /\ nd.kinds \in Seq(Kinds) /\ Len(nd.kinds) = L
      BY <1>5, LenProperties DEF Fits, Node
    <3> QED
      BY <3>1, <1>0
  <2>2. L = Len(nd.values)
    OBVIOUS
  <2> HIDE DEF L
  <2>3. \A h \in 1 .. L : h # i => FreeAt(nd, h)
    BY <2>2, <1>0
  <2>4. CASE m \in DOMAIN t /\ m # n
    BY <2>4, <1>3
  <2>5. CASE m = n
    <3>1. /\ u[n].kinds = SubSeq(nd.kinds, 1, i - 1) /\ u[n].values = SubSeq(nd.values, 1, i - 1)
          /\ u[n].forced = {h \in nd.forced : h < i}
      BY <1>3 DEF Stem
    <3>2. /\ Len(SubSeq(nd.values, 1, i - 1)) = i - 1
          /\ \A h \in 1 .. i - 1 : SubSeq(nd.values, 1, i - 1)[h] = nd.values[h]
          /\ \A h \in 1 .. i - 1 : SubSeq(nd.kinds, 1, i - 1)[h] = nd.kinds[h]
      <4>1. 0 \in 0 .. i - 1
        BY <2>1
      <4> QED
        BY <4>1, <2>1, <2>2, PosInFirst
    <3>3. j \in 1 .. i - 1 /\ j \in 1 .. L /\ j # i /\ j < i
      BY <2>1, <2>5, <3>1, <3>2
    <3>4. FreeAt(nd, j)
      BY <2>3, <3>3
    <3> QED
      BY <2>5, <3>1, <3>2, <3>3, <3>4 DEF FreeAt
  <2>6. CASE m = at
    <3>1. /\ u[at].kinds = SubSeq(nd.kinds, i + 1, L) /\ u[at].values = SubSeq(nd.values, i + 1, L)
          /\ u[at].forced = ForcedAfter(nd, i)
      BY <1>3, <2>1, <2>2 DEF Rest
    <3>2. /\ Len(SubSeq(nd.values, i + 1, L)) = L - i
          /\ \A h \in 1 .. L - i : SubSeq(nd.values, i + 1, L)[h] = nd.values[i + h]
          /\ \A h \in 1 .. L - i : SubSeq(nd.kinds, i + 1, L)[h] = nd.kinds[i + h]
      BY <2>1, <2>2, RestElements
    <3>3. j \in 1 .. L - i /\ i + j \in 1 .. L /\ i + j # i
      BY <2>1, <2>6, <3>1, <3>2
    <3>4. FreeAt(nd, i + j)
      BY <2>3, <3>3
    <3>5. i + j \in nd.forced => j \in ForcedAfter(nd, i)
      <4> SUFFICES ASSUME i + j \in nd.forced PROVE j \in ForcedAfter(nd, i)
        OBVIOUS
      <4>1. i + j \in {h \in nd.forced : h > i} /\ (i + j) - i = j
        BY <3>3, <2>1
      <4> QED
        BY <4>1 DEF ForcedAfter
    <3> QED
      BY <2>6, <3>1, <3>2, <3>3, <3>4, <3>5 DEF FreeAt
  <2> QED
    BY <2>4, <2>5, <2>6, <1>3
<1>10. ASSUME nd.trans.op = "none" PROVE MarkedNode(u, n)
  <2>1. ~e
    BY <1>1, <1>10 DEF CheckExhausted, Rest
  <2>2. ~u[at].exhausted
    BY <2>1, <1>3 DEF Rest
  <2>3. /\ u[n].trans.op = "branch" /\ nd.values[i] \in u[n].trans.children
    BY <1>3 DEF Stem, Branch
  <2>4. Append(PosAfter(n, u[n]), nd.values[i]) = at
    <3>1. i \in 0 .. Len(nd.values) /\ i > 0
      BY <1>0, <1>5, LenProperties DEF Fits, Node
    <3>2. PosIn(n, nd, i) = Append(PosIn(n, nd, i - 1), nd.values[i])
      BY <3>1, <1>0, PlacesType
    <3> QED
      BY <3>2, <1>1, <1>3
  <2> QED
    BY <2>2, <2>3, <2>4 DEF MarkedNode, SpentNode
<1> QED
  BY <1>0, <1>3, <1>5, <1>6, <1>7, <1>8, <1>9, <1>10

\* A new child completes the tree: the branch above it is not spent.
LEMMA AddedComplete ==
  ASSUME NEW t, Sound(t), Free(t), Bounded(t), NEW n \in DOMAIN t, ~t[n].exhausted,
         \A m \in DOMAIN t : m # n => MarkedNode(t, m),
         t[n].trans.op = "branch",
         NEW v \in Children[t[n].trans.kind], v \notin t[n].trans.children,
         NEW u, u = AddChild(t, n, v)
  PROVE  Complete(u)
<1> DEFINE at == Append(PosAfter(n, t[n]), v)
           g == [t EXCEPT ![n].trans.children = @ \cup {v}]
<1>1. /\ n \in Trie!Positions /\ Fits(t[n]) /\ v \in Values
      /\ \A m \in DOMAIN t : t[m] \in Node
  <2>1. n \in Trie!Positions /\ Fits(t[n]) /\ \A m \in DOMAIN t : t[m] \in Node
    BY NodePlaces DEF Sound, Shaped, Fits
  <2>2. t[n].trans.kind \in Kinds
    BY <2>1 DEF Fits, Node, Transitions, Branch, Trie!Kill, Trie!Conclude
  <2> QED
    BY <2>1, <2>2, TrieParameters DEF Trie!TrieConstants
<1>2. at \in Trie!Positions
  BY <1>1, BeginsAfter
<1>3. /\ u = [m \in DOMAIN t \cup {at} |-> IF m \in DOMAIN t THEN g[m] ELSE EmptyNode]
      /\ at = Append(PosAfter(n, t[n]), v)
  BY DEF AddChild
<1>4. /\ DOMAIN g = DOMAIN t
      /\ \A m \in DOMAIN t : m # n => g[m] = t[m]
      /\ g[n] = [t[n] EXCEPT !.trans.children = @ \cup {v}]
  OBVIOUS
<1>5. /\ g[n].kinds = t[n].kinds /\ g[n].values = t[n].values /\ g[n].forced = t[n].forced
      /\ g[n].exhausted = t[n].exhausted
      /\ g[n].trans = [t[n].trans EXCEPT !.children = @ \cup {v}]
  <2> HIDE DEF g
  <2> QED
    BY <1>1, <1>4 DEF Node
<1>6. g[n].trans.op = "branch" /\ v \in g[n].trans.children
  <2>1. t[n].trans \in {Branch(k, vs) : k \in Kinds, vs \in SUBSET Values}
    BY <1>1 DEF Node, Transitions, Trie!Kill, Trie!Conclude
  <2> HIDE DEF g
  <2> QED
    BY <2>1, <1>5 DEF Branch
<1>7. at \notin DOMAIN t
  <2>1. Shaped(t) /\ Linked(t) /\ v \notin Exits(t[n])
    BY DEF Sound, Exits
  <2>2. ASSUME at \in DOMAIN t PROVE FALSE
    <3>1. 0 \in 0 .. Len(t[at].values) /\ PosIn(at, t[at], 0) = at
      BY <2>1, <2>2, NodePlaces
    <3>2. v \in Values \cup {KillMark}
      BY <1>1
    <3>3. Append(PosAfter(n, t[n]), v) # PosIn(at, t[at], 0)
      BY <2>1, <2>2, <3>1, <3>2, Unvisited
    <3> QED
      BY <3>1, <3>3
  <2> QED
    BY <2>2
<1> HIDE DEF at, g
<1>8. /\ DOMAIN u = DOMAIN t \cup {at} /\ u[n] = g[n] /\ u[at] = EmptyNode
      /\ \A m \in DOMAIN t : m # n => u[m] = t[m]
  BY <1>3, <1>4, <1>7
<1>9. Marked(u)
  <2>1. \A m \in DOMAIN t : m # n => MarkedNode(u, m)
    <3>1. u[n].exhausted => t[n].exhausted
      BY <1>5, <1>8
    <3> QED
      BY <3>1, <1>8, OthersMarked DEF Sound
  <2>2. MarkedNode(u, at)
    BY <1>8 DEF MarkedNode, SpentNode, EmptyNode
  <2>3. MarkedNode(u, n)
    <3>1. PosAfter(n, u[n]) = PosAfter(n, t[n])
      BY <1>5, <1>8 DEF PosAfter
    <3>2. ~u[Append(PosAfter(n, u[n]), v)].exhausted
      BY <3>1, <1>3, <1>8 DEF EmptyNode
    <3> QED
      BY <3>2, <1>6, <1>8 DEF MarkedNode, SpentNode
  <2> QED
    BY <2>1, <2>2, <2>3, <1>8 DEF Marked
<1>10. Free(u)
  <2>1. Len(u[at].values) = 0
    BY <1>8, EmptyFits
  <2>2. \A m \in DOMAIN t : u[m].kinds = t[m].kinds /\ u[m].values = t[m].values
                            /\ u[m].forced = t[m].forced
    BY <1>5, <1>8
  <2> QED
    BY <2>1, <2>2, <1>8, FreeAlike
<1>11. Bounded(u)
  BY <1>2, <1>8, BoundedAlike DEF Sound, Shaped
<1> QED
  BY <1>9, <1>10, <1>11 DEF Complete

\* Changes of marks alone.
LEMMA RemarkedComplete ==
  ASSUME NEW t, Free(t), Bounded(t), Sound(t), NEW u, DOMAIN u = DOMAIN t,
         \A m \in DOMAIN t : u[m].kinds = t[m].kinds /\ u[m].values = t[m].values
                             /\ u[m].forced = t[m].forced
  PROVE  Free(u) /\ Bounded(u)
<1>1. Free(u)
  BY FreeAlike
<1>2. DOMAIN t \subseteq Trie!Positions /\ <<>> \in DOMAIN t
  BY DEF Sound, Shaped
<1>3. Bounded(u)
  BY <1>2, BoundedAlike
<1> QED
  BY <1>1, <1>3

\* What follows a node that is not behind a discard, by a branch, is not behind one.
LEMMA LiveExits ==
  ASSUME NEW t, Shaped(t), NEW n \in DOMAIN t, Live(n), NEW v \in Exits(t[n]),
         t[n].trans.op = "branch"
  PROVE  Live(Append(PosAfter(n, t[n]), v))
<1>1. /\ n \in Trie!Positions /\ Fits(t[n]) /\ Len(t[n].values) \in 0 .. Len(t[n].values)
      /\ PosIn(n, t[n], Len(t[n].values)) = PosAfter(n, t[n])
  BY NodePlaces
<1>2. v \in Values
  <2>1. t[n].trans.kind \in Kinds
    BY <1>1 DEF Fits, Node, Transitions, Branch, Trie!Kill, Trie!Conclude
  <2> QED
    BY <2>1, <1>1, TrieParameters DEF Exits, Fits, Trie!TrieConstants
<1> QED
  BY <1>1, <1>2, LivePlace

\* Behind a discard, check_exhausted of the last node alone is enough.
LEMMA RecheckComplete ==
  ASSUME NEW t, Sound(t), Free(t), Bounded(t), NEW n \in DOMAIN t, ~Live(n),
         \A m \in DOMAIN t : m # n => MarkedNode(t, m)
  PROVE  Complete(Recheck(t, n))
<1> DEFINE u == Recheck(t, n)
<1>1. \A m \in DOMAIN t : t[m] \in Node
  BY DEF Sound, Shaped, Fits
<1>2. /\ DOMAIN u = DOMAIN t
      /\ u[n] = [t[n] EXCEPT !.exhausted = CheckExhausted(t, n, t[n])]
      /\ \A m \in DOMAIN t : m # n => u[m] = t[m]
  BY DEF Recheck
<1> HIDE DEF u
<1>3. u[n].kinds = t[n].kinds /\ u[n].values = t[n].values /\ u[n].forced = t[n].forced
  BY <1>1, <1>2 DEF Node
<1>4. Free(u) /\ Bounded(u)
  <2>1. \A m \in DOMAIN t : u[m].kinds = t[m].kinds /\ u[m].values = t[m].values
                            /\ u[m].forced = t[m].forced
    BY <1>2, <1>3
  <2> QED
    BY <2>1, <1>2, RemarkedComplete
<1>5. ASSUME NEW m \in DOMAIN t, Live(m), SpentNode(u, m) PROVE u[m].exhausted
  <2>1. m # n /\ u[m] = t[m]
    BY <1>2, <1>5
  <2>2. t[m].trans.op = "branch" => \A v \in t[m].trans.children :
          /\ Append(PosAfter(m, t[m]), v) \in DOMAIN t
          /\ Append(PosAfter(m, t[m]), v) # n
    BY <1>5, LiveExits DEF Sound, Linked, Closed, Exits
  <2>3. SpentNode(t, m)
    BY <2>1, <2>2, <1>2, <1>5, SpentAlike
  <2> QED
    BY <2>1, <2>3, <1>5 DEF MarkedNode
<1>6. Marked(u)
  BY <1>2, <1>5 DEF Marked, MarkedNode
<1> QED
  BY <1>4, <1>6 DEF Complete, u

\* From a node, the next one on the way to another is a child of it.
LEMMA NextOnTrail ==
  ASSUME NEW t, Shaped(t), Linked(t), NEW n \in DOMAIN t, NEW m \in DOMAIN t,
         IsPrefix(m, n), m # n
  PROVE  \E v \in Exits(t[m]) :
           LET c == Append(PosAfter(m, t[m]), v)
           IN  /\ c \in DOMAIN t /\ IsPrefix(c, n) /\ Len(c) > Len(m)
               /\ \A x \in DOMAIN t : IsPrefix(x, n) /\ Len(x) > Len(m) => Len(x) >= Len(c)
<1> DEFINE Behind == {x \in DOMAIN t : IsPrefix(x, n) /\ Len(x) > Len(m)}
<1>1. \A x \in DOMAIN t : x \in Trie!Positions /\ Len(x) \in Nat
  <2>1. DOMAIN t \subseteq Trie!Positions
    BY DEF Shaped
  <2> QED
    BY <2>1, LenProperties DEF Trie!Positions
<1>2. n \in Behind
  <2>1. IsPrefix(n, n) /\ Len(m) <= Len(n) /\ Len(m) # Len(n)
    BY <1>1, PrefixOrder
  <2> QED
    BY <2>1, <1>1
<1>3. {Len(x) : x \in Behind} \in SUBSET Nat /\ {Len(x) : x \in Behind} # {}
  BY <1>1, <1>2
<1>4. PICK l \in {Len(x) : x \in Behind} : \A h \in {Len(x) : x \in Behind} : l <= h
  <2> HIDE DEF Behind
  <2> QED
    BY <1>3, Least
<1>5. PICK c \in Behind : \A x \in Behind : Len(c) <= Len(x)
  BY <1>4
<1>6. c \in DOMAIN t /\ IsPrefix(c, n) /\ Len(c) > Len(m) /\ c # <<>>
  <2>1. c \in DOMAIN t /\ IsPrefix(c, n) /\ Len(c) > Len(m)
    BY <1>5
  <2>2. Len(<<>>) = 0
    BY EmptySeq
  <2> QED
    BY <2>1, <2>2, <1>1
<1>7. PICK k \in DOMAIN t : \E v \in Exits(t[k]) : c = Append(PosAfter(k, t[k]), v)
  BY <1>6 DEF Linked, Entered
<1>8. PICK v \in Exits(t[k]) : c = Append(PosAfter(k, t[k]), v)
  BY <1>7
<1>9. IsPrefix(m, c)
  BY <1>1, <1>6, PrefixOrder
<1>10. IsPrefix(m, k)
  <2>1. m # c /\ c \in DOMAIN t
    BY <1>1, <1>6
  <2> QED
    BY <2>1, <1>8, <1>9, TrailGoesUp
<1>11. IsPrefix(k, c) /\ Len(c) > Len(k)
  <2>1. k \in Trie!Positions /\ Fits(t[k]) /\ v \in Values \cup {KillMark}
    BY NodePlaces
  <2> QED
    BY <2>1, <1>8, BeginsAfter
<1>12. IsPrefix(k, n)
  BY <1>1, <1>6, <1>11, PrefixOrder
<1>13. m = k
  <2>1. ~(Len(k) > Len(m))
    <3>1. k \notin Behind
      BY <1>1, <1>5, <1>6, <1>11
    <3> QED
      BY <3>1, <1>12
  <2>2. Len(m) <= Len(k)
    BY <1>1, <1>10, PrefixOrder
  <2>3. Len(m) = Len(k)
    BY <2>1, <2>2, <1>1
  <2> QED
    BY <2>3, <1>1, <1>10, PrefixOrder
<1>14. \A x \in DOMAIN t : IsPrefix(x, n) /\ Len(x) > Len(m) => Len(x) >= Len(c)
  BY <1>1, <1>5, <1>6
<1> QED
  BY <1>6, <1>8, <1>13, <1>14

\* Elsewhere __update_exhausted marks all that is spent: a node above the last one is spent
\* only through the next one on the way.
LEMMA UpdateComplete ==
  ASSUME NEW t, Sound(t), Free(t), Bounded(t), NEW n \in DOMAIN t, Live(n),
         \A m \in DOMAIN t : m # n => MarkedNode(t, m)
  PROVE  Complete(UpdateExhausted(t, n))
<1> DEFINE u == UpdateExhausted(t, n)
           trail == {m \in DOMAIN t : IsPrefix(m, n)}
           below(m) == [x \in DOMAIN t |-> IF x \in trail /\ Len(x) > Len(m)
                                           THEN [t[x] EXCEPT !.exhausted = TRUE] ELSE t[x]]
           checked == {m \in trail : CheckExhausted(below(m), m, t[m])}
           done == {m \in trail : \A x \in trail : Len(x) >= Len(m) => x \in checked}
<1>1. \A m \in DOMAIN t : t[m] \in Node /\ m \in Trie!Positions /\ Len(m) \in Nat
  <2>1. \A m \in DOMAIN t : t[m] \in Node /\ m \in Seq(Values \cup {KillMark})
    BY DEF Sound, Shaped, Fits, Trie!Positions
  <2> QED
    BY <2>1, LenProperties DEF Trie!Positions
<1>2. u = [m \in DOMAIN t |-> [t[m] EXCEPT !.exhausted = t[m].exhausted \/ m \in done]]
  <2>1. u = [m \in DOMAIN t |-> [t[m] EXCEPT !.exhausted = @ \/ m \in done]]
    BY DEF UpdateExhausted
  <2> HIDE DEF u, done
  <2> QED
    BY <2>1
<1> HIDE DEF u
<1>3. /\ DOMAIN u = DOMAIN t
      /\ \A m \in DOMAIN t :
           /\ u[m].trans = t[m].trans /\ u[m].forced = t[m].forced /\ u[m].values = t[m].values
           /\ u[m].kinds = t[m].kinds
           /\ (u[m].exhausted <=> t[m].exhausted \/ m \in done)
  <2> HIDE DEF done
  <2> QED
    BY <1>1, <1>2 DEF Node
<1>4. Free(u) /\ Bounded(u)
  BY <1>3, RemarkedComplete
<1>5. /\ \A m : m \in trail <=> m \in DOMAIN t /\ IsPrefix(m, n)
      /\ \A m : m \in checked <=> m \in trail /\ CheckExhausted(below(m), m, t[m])
      /\ \A m : m \in done <=> m \in trail /\ \A x \in trail : Len(x) >= Len(m) => x \in checked
  OBVIOUS
<1>6. \A m \in DOMAIN t, x \in DOMAIN t :
        /\ below(m)[x].exhausted <=> t[x].exhausted \/ (x \in trail /\ Len(x) > Len(m))
  BY <1>1 DEF Node
<1> HIDE DEF trail, below, checked, done
<1>7. \A m \in DOMAIN t : t[m].trans.op = "branch" => \A v \in t[m].trans.children :
        /\ v \in Exits(t[m]) /\ Append(PosAfter(m, t[m]), v) \in DOMAIN t
        /\ v \in Values \cup {KillMark}
  <2>1. \A m \in DOMAIN t : Exits(t[m]) \subseteq Values \cup {KillMark}
    BY NodePlaces DEF Sound
  <2>2. \A m \in DOMAIN t : t[m].trans.op = "branch" => \A v \in t[m].trans.children :
          v \in Exits(t[m])
    BY DEF Exits
  <2> QED
    BY <2>1, <2>2 DEF Sound, Linked, Closed
<1>8. ASSUME NEW m \in trail, SpentNode(u, m), ~t[m].exhausted,
             t[m].trans.op = "branch" => \A v \in t[m].trans.children :
               LET c == Append(PosAfter(m, t[m]), v)
               IN  t[c].exhausted \/ (c \in trail /\ Len(c) > Len(m))
      PROVE  m \in checked
  <2>1. m \in DOMAIN t /\ Fits(t[m])
    BY <1>5 DEF Sound, Shaped
  <2>2. Cardinality(t[m].forced) = Len(t[m].values)
    BY <2>1, <1>3, <1>8, AllForcedIs DEF SpentNode, AllForced
  <2>3. t[m].trans.op # "none"
    BY <2>1, <1>3, <1>8 DEF SpentNode
  <2>4. ASSUME t[m].trans.op = "branch"
        PROVE  /\ Cardinality(t[m].trans.children) = Cardinality(Children[t[m].trans.kind])
               /\ \A v \in t[m].trans.children : below(m)[Append(PosAfter(m, t[m]), v)].exhausted
    <3>1. t[m].trans.children = Children[t[m].trans.kind]
      BY <2>1, <2>4, <1>3, <1>8 DEF SpentNode
    <3>2. \A v \in t[m].trans.children : below(m)[Append(PosAfter(m, t[m]), v)].exhausted
      BY <2>1, <2>4, <1>6, <1>7, <1>8
    <3> QED
      BY <3>1, <3>2
  <2>5. CheckExhausted(below(m), m, t[m])
    BY <2>2, <2>3, <2>4 DEF CheckExhausted
  <2> QED
    BY <2>5, <1>5
<1>9. ASSUME NEW m \in DOMAIN t, m \notin trail, Live(m), SpentNode(u, m)
      PROVE  u[m].exhausted
  <2>1. t[m].trans.op = "branch" => \A v \in t[m].trans.children :
          Append(PosAfter(m, t[m]), v) \notin trail
    <3> SUFFICES ASSUME t[m].trans.op = "branch", NEW v \in t[m].trans.children,
                        Append(PosAfter(m, t[m]), v) \in trail
                 PROVE  FALSE
      OBVIOUS
    <3> DEFINE c == Append(PosAfter(m, t[m]), v)
    <3>1. c \in DOMAIN t /\ IsPrefix(c, n) /\ v \in Values \cup {KillMark}
      BY <1>5, <1>7
    <3>2. Fits(t[m]) /\ m \in Trie!Positions
      BY <1>1 DEF Sound, Shaped
    <3>3. IsPrefix(m, c)
      BY <3>1, <3>2, BeginsAfter
    <3> HIDE DEF c
    <3>4. IsPrefix(m, n)
      BY <3>1, <3>3, <1>1, PrefixOrder
    <3> QED
      BY <3>4, <1>5, <1>9
  <2>2. t[m].trans.op = "branch" => \A v \in t[m].trans.children :
          u[Append(PosAfter(m, t[m]), v)].exhausted => t[Append(PosAfter(m, t[m]), v)].exhausted
    BY <2>1, <1>3, <1>5, <1>7
  <2>3. SpentNode(t, m)
    BY <2>2, <1>3, <1>9, SpentAlike
  <2>4. m # n
    <3>1. IsPrefix(n, n)
      BY <1>1, PrefixOrder
    <3> QED
      BY <3>1, <1>5, <1>9
  <2> QED
    BY <2>3, <2>4, <1>3, <1>9 DEF MarkedNode
<1>10. ASSUME Live(n), SpentNode(u, n) PROVE u[n].exhausted
  <2> SUFFICES ASSUME ~t[n].exhausted PROVE n \in done
    BY <1>3
  <2>1. n \in trail /\ \A x \in trail : Len(x) >= Len(n) => x = n
    <3>1. IsPrefix(n, n)
      BY <1>1, PrefixOrder
    <3>2. \A x \in DOMAIN t : IsPrefix(x, n) /\ Len(x) >= Len(n) => x = n
      BY <1>1, PrefixOrder
    <3> QED
      BY <3>1, <3>2, <1>5
  <2>2. t[n].trans.op = "branch" => \A v \in t[n].trans.children :
          t[Append(PosAfter(n, t[n]), v)].exhausted
    <3> SUFFICES ASSUME t[n].trans.op = "branch", NEW v \in t[n].trans.children
                 PROVE  t[Append(PosAfter(n, t[n]), v)].exhausted
      OBVIOUS
    <3> DEFINE c == Append(PosAfter(n, t[n]), v)
    <3>1. c \in DOMAIN t /\ Len(c) > Len(n)
      BY <1>1, <1>7, BeginsAfter DEF Sound, Shaped
    <3>2. u[c].exhausted
      <4>1. PosAfter(n, u[n]) = PosAfter(n, t[n]) /\ u[n].trans = t[n].trans
        BY <1>3 DEF PosAfter
      <4> QED
        BY <4>1, <1>10 DEF SpentNode
    <3> HIDE DEF c
    <3>3. c \notin done
      BY <3>1, <2>1, <1>1, <1>5
    <3>4. t[c].exhausted
      BY <3>1, <3>2, <3>3, <1>3
    <3> QED
      BY <3>4 DEF c
  <2>3. n \in checked
    BY <2>1, <2>2, <1>8, <1>10
  <2> QED
    BY <2>1, <2>3, <1>5
<1>11. ASSUME NEW m \in trail, m # n, Live(m), SpentNode(u, m) PROVE u[m].exhausted
  <2>0. m \in DOMAIN t /\ IsPrefix(m, n)
    BY <1>5
  <2> SUFFICES ASSUME ~t[m].exhausted PROVE m \in done
    BY <2>0, <1>3
  <2>1. PICK w \in Exits(t[m]) :
          LET c == Append(PosAfter(m, t[m]), w)
          IN  /\ c \in DOMAIN t /\ IsPrefix(c, n) /\ Len(c) > Len(m)
              /\ \A x \in DOMAIN t : IsPrefix(x, n) /\ Len(x) > Len(m) => Len(x) >= Len(c)
    BY <2>0, <1>11, NextOnTrail DEF Sound
  <2> DEFINE c == Append(PosAfter(m, t[m]), w)
  <2>2. /\ c \in DOMAIN t /\ c \in trail /\ Len(c) > Len(m)
        /\ \A x \in trail : Len(x) > Len(m) => Len(x) >= Len(c)
    BY <2>1, <1>5
  <2>3. PosAfter(m, u[m]) = PosAfter(m, t[m]) /\ u[m].trans = t[m].trans
    BY <2>0, <1>3 DEF PosAfter
  <2>4. t[m].trans.op = "branch" => \A v \in t[m].trans.children :
          u[Append(PosAfter(m, t[m]), v)].exhausted
    BY <2>3, <1>11 DEF SpentNode
  <2>5. t[m].trans.op = "branch" => \A v \in t[m].trans.children :
          t[Append(PosAfter(m, t[m]), v)].exhausted \/ Append(PosAfter(m, t[m]), v) = c
    <3> SUFFICES ASSUME t[m].trans.op = "branch", NEW v \in t[m].trans.children
                 PROVE  t[Append(PosAfter(m, t[m]), v)].exhausted \/ Append(PosAfter(m, t[m]), v) = c
      OBVIOUS
    <3> DEFINE d == Append(PosAfter(m, t[m]), v)
    <3>1. d \in DOMAIN t /\ u[d].exhausted
      BY <2>0, <2>4, <1>7
    <3>2. Len(d) = Len(c)
      <4>1. PosAfter(m, t[m]) \in Seq(Values \cup {KillMark})
        BY <2>0, NodePlaces DEF Sound, Trie!Positions
      <4>2. v \in Values \cup {KillMark} /\ w \in Values \cup {KillMark}
        BY <2>0, NodePlaces, <1>7 DEF Sound
      <4> QED
        BY <4>1, <4>2, AppendProperties
    <3>3. ASSUME d \in trail PROVE d = c
      <4> HIDE DEF d, c
      <4> QED
        BY <3>1, <3>2, <3>3, <2>2, <1>1, <1>5, PrefixOrder
    <3> HIDE DEF d, c
    <3>4. t[d].exhausted \/ d = c
      BY <3>1, <3>3, <1>3, <1>5
    <3> QED
      BY <3>4 DEF d
  <2> HIDE DEF c
  <2>6. m \in checked
    BY <2>2, <2>5, <1>8, <1>11
  <2>7. ASSUME t[m].trans.op = "branch" => t[c].exhausted PROVE FALSE
    <3>1. t[m].trans.op = "branch" => \A v \in t[m].trans.children :
            t[Append(PosAfter(m, t[m]), v)].exhausted
      BY <2>5, <2>7
    <3>2. SpentNode(t, m)
      BY <3>1, <2>0, <1>3, <1>11, SpentAlike
    <3> QED
      BY <3>2, <2>0, <1>11 DEF MarkedNode
  <2>8. c \in done
    <3>1. t[m].trans.op = "branch" /\ ~t[c].exhausted
      BY <2>7
    <3>2. w \in t[m].trans.children
      BY <3>1, <2>1 DEF Exits
    <3> QED
      BY <3>1, <3>2, <2>2, <2>4, <1>3 DEF c
  <2>9. ASSUME NEW x \in trail, Len(x) >= Len(m) PROVE x \in checked
    <3>1. CASE Len(x) > Len(m)
      BY <3>1, <2>2, <2>8, <1>5
    <3>2. CASE Len(x) = Len(m)
      <4>1. x = m
        BY <3>2, <2>0, <1>1, <1>5, PrefixOrder
      <4> QED
        BY <4>1, <2>6
    <3> QED
      BY <3>1, <3>2, <2>0, <2>9, <1>1, <1>5
  <2> QED
    BY <2>9, <1>5
<1>12. Marked(u)
  BY <1>3, <1>9, <1>10, <1>11 DEF Marked, MarkedNode
<1> QED
  BY <1>4, <1>12 DEF Complete, u

\* kill_branch, before the trail is rechecked.
WithKill(t, n) ==
  Grown(t, n, [t[n] EXCEPT !.trans = Trie!Kill], Append(PosAfter(n, t[n]), KillMark))

\* A discard completes the tree but for the marks on the way to it.
LEMMA KilledComplete ==
  ASSUME NEW t, Sound(t), Complete(t), NEW n \in DOMAIN t, t[n].trans.op = "none",
         NEW u, u = WithKill(t, n)
  PROVE  /\ Sound(u) /\ Free(u) /\ Bounded(u) /\ n \in DOMAIN u
         /\ \A m \in DOMAIN u : m # n => MarkedNode(u, m)
<1> DEFINE nd == [t[n] EXCEPT !.trans = Trie!Kill]
           at == Append(PosAfter(n, t[n]), KillMark)
<1>0. u = Grown(t, n, nd, at)
  BY DEF WithKill
<1>1. Shaped(t) /\ Linked(t) /\ n \in Trie!Positions /\ Fits(t[n]) /\ t[n] \in Node
  BY NodePlaces DEF Sound, Shaped, Fits
<1>2. at \in Trie!Positions /\ Len(at) > Len(n) /\ Len(n) \in Nat
  BY <1>1, BeginsAfter, LenProperties DEF Trie!Positions
<1>3. at \notin DOMAIN t
  <2>1. KillMark \notin Exits(t[n])
    BY DEF Exits
  <2>2. ASSUME at \in DOMAIN t PROVE FALSE
    <3>1. 0 \in 0 .. Len(t[at].values) /\ PosIn(at, t[at], 0) = at
      BY <1>1, <2>2, NodePlaces
    <3>2. Append(PosAfter(n, t[n]), KillMark) # PosIn(at, t[at], 0)
      BY <1>1, <2>1, <2>2, <3>1, Unvisited
    <3> QED
      BY <3>1, <3>2
  <2> QED
    BY <2>2
<1>4. /\ DOMAIN u = DOMAIN t \cup {at} /\ u[n] = nd /\ u[at] = EmptyNode
      /\ \A m \in DOMAIN t : m # n => u[m] = t[m]
  BY <1>0, <1>3 DEF Grown
<1>5. /\ nd.kinds = t[n].kinds /\ nd.values = t[n].values /\ nd.forced = t[n].forced
      /\ nd.exhausted = t[n].exhausted
  BY <1>1 DEF Node
<1>6. Sound(u)
  <2>1. Becomes(t, Grown(t, n, nd, at), {<<PosAfter(n, t[n]), Trie!Kill>>})
    BY KilledBecomes
  <2> QED
    BY <2>1, <1>0 DEF Becomes
<1> HIDE DEF nd, at
<1>7. Free(u)
  <2>1. Len(u[at].values) = 0
    BY <1>4, EmptyFits
  <2>2. \A m \in DOMAIN t : u[m].kinds = t[m].kinds /\ u[m].values = t[m].values
                            /\ u[m].forced = t[m].forced
    BY <1>4, <1>5
  <2>3. Free(t)
    BY DEF Complete
  <2>4. \A m \in DOMAIN u : \/ Len(u[m].values) = 0
                           \/ /\ m \in DOMAIN t
                              /\ u[m].kinds = t[m].kinds /\ u[m].values = t[m].values
                              /\ u[m].forced = t[m].forced
    BY <2>1, <2>2, <1>4
  <2> QED
    BY <2>3, <2>4, FreeAlike
<1>8. Bounded(u)
  BY <1>1, <1>2, <1>4, BoundedAlike DEF Complete, Shaped
<1>9. \A m \in DOMAIN t : m # n => MarkedNode(u, m)
  <2>1. u[n].exhausted => t[n].exhausted
    BY <1>4, <1>5
  <2> QED
    BY <2>1, <1>1, <1>4, OthersMarked DEF Complete, Marked
<1>10. MarkedNode(u, at)
  BY <1>4 DEF MarkedNode, SpentNode, EmptyNode
<1> QED
  BY <1>4, <1>6, <1>7, <1>8, <1>9, <1>10

\* conclude_test, before anything is rechecked.
LEMMA ConcludedComplete ==
  ASSUME NEW t, Sound(t), Complete(t), NEW n \in DOMAIN t, NEW c \in Conclusions,
         NEW u, u = Put(t, n, Concluded(t[n], c))
  PROVE  /\ Sound(u) /\ Free(u) /\ Bounded(u) /\ n \in DOMAIN u
         /\ \A m \in DOMAIN u : m # n => MarkedNode(u, m)
<1>1. Shaped(t) /\ Linked(t) /\ t[n] \in Node
  BY DEF Sound, Shaped, Fits
<1>2. /\ DOMAIN u = DOMAIN t /\ u[n] = Concluded(t[n], c)
      /\ \A m \in DOMAIN t : m # n => u[m] = t[m]
  BY DEF Put
<1>3. /\ u[n].kinds = t[n].kinds /\ u[n].values = t[n].values /\ u[n].forced = t[n].forced
      /\ u[n].exhausted = t[n].exhausted
  BY <1>1, <1>2 DEF Node, Concluded
<1>4. Sound(u)
  <2>1. CASE t[n].trans.op = "none"
    <3>1. Becomes(t, u, {<<PosAfter(n, t[n]), Trie!Conclude(c)>>})
      BY <2>1, ConcludedBecomes
    <3> QED
      BY <3>1 DEF Becomes
  <2>2. CASE t[n].trans.op # "none"
    <3>1. Concluded(t[n], c) = t[n] /\ t = [m \in DOMAIN t |-> t[m]]
      BY <2>2, <1>1 DEF Concluded, Shaped
    <3>2. u = t
      BY <3>1 DEF Put
    <3> QED
      BY <3>2
  <2> QED
    BY <2>1, <2>2
<1>5. Free(u) /\ Bounded(u)
  <2>1. \A m \in DOMAIN t : u[m].kinds = t[m].kinds /\ u[m].values = t[m].values
                            /\ u[m].forced = t[m].forced
    BY <1>2, <1>3
  <2> QED
    BY <2>1, <1>2, RemarkedComplete DEF Complete
<1>6. \A m \in DOMAIN t : m # n => MarkedNode(u, m)
  BY <1>1, <1>2, <1>3, OthersMarked DEF Complete, Marked
<1> QED
  BY <1>2, <1>4, <1>5, <1>6

\* A draw of several values has another one.
LEMMA OtherValue ==
  ASSUME NEW k \in Kinds, NEW v \in Children[k], Cardinality(Children[k]) # 1
  PROVE  \E w \in Children[k] : w # v
<1> SUFFICES ASSUME \A w \in Children[k] : w = v PROVE FALSE
  OBVIOUS
<1>1. Children[k] = {v}
  OBVIOUS
<1> QED
  BY <1>1, FS_Singleton

-----------------------------------------------------------------------------
\* What each step of a test case does to it.

\* draw_value inside the values of the current node.
LEMMA AgainCompletes ==
  ASSUME NovelInv, NEW k \in Kinds, NEW f \in Children[k] \cup {NoValue}, NEW v \in Children[k],
         DrawAgain(k, f, v)
  PROVE  Complete(tree') /\ (killed' <=> ~Live(cur'))
<1> DEFINE nd == tree[cur]
           i == idx + 1
           differs == \/ k # nd.kinds[i]
                      \/ f # NoValue /\ i \notin nd.forced
                      \/ v # nd.values[i] /\ i \in nd.forced
<1>1. /\ i <= Len(nd.values)
      /\ \/ Raise("flaky") \/ Raise("assert") \/ UNCHANGED <<tree, cur, killed>>
         \/ /\ ~differs /\ v # nd.values[i] /\ ~nd.exhausted
            /\ tree' = AddChild(SplitAt(tree, cur, i), cur, v)
            /\ Enter(Append(PosIn(cur, nd, i - 1), v))
  BY DEF DrawAgain
<1>2. /\ Sound(tree) /\ cur \in DOMAIN tree /\ idx \in 0 .. Len(nd.values)
      /\ Len(nd.values) \in Nat /\ cur \in Trie!Positions /\ Fits(nd)
      /\ Complete(tree) /\ (killed <=> ~Live(cur))
  BY NodePlaces DEF NovelInv, TreeInv, Sound, Placed
<1>3. i \in 1 .. Len(nd.values) /\ i - 1 \in 0 .. Len(nd.values)
  BY <1>1, <1>2
<1>4. CASE Raise("flaky") \/ Raise("assert") \/ UNCHANGED <<tree, cur, killed>>
  BY <1>2, <1>4 DEF Raise
<1>5. CASE /\ ~differs /\ v # nd.values[i] /\ ~nd.exhausted
           /\ tree' = AddChild(SplitAt(tree, cur, i), cur, v)
           /\ Enter(Append(PosIn(cur, nd, i - 1), v))
  <2> DEFINE w == SplitAt(tree, cur, i)
  <2>1. k = nd.kinds[i] /\ i \notin nd.forced /\ v \in Values
    BY <1>5, TrieParameters DEF Trie!TrieConstants
  <2>2. /\ Free(w) /\ Bounded(w) /\ Sound(w)
        /\ \A m \in DOMAIN w : m # cur => MarkedNode(w, m)
        /\ cur \in DOMAIN w /\ w[cur] = Stem(nd, i)
    <3>1. w = SplitAt(tree, cur, i)
      OBVIOUS
    <3> HIDE DEF w, i
    <3> QED
      BY <3>1, <2>1, <1>2, <1>3, <1>5, SplitParts DEF Complete, Marked, Free
  <2>3. /\ w[cur].trans.op = "branch" /\ w[cur].trans.kind = k
        /\ v \notin w[cur].trans.children /\ ~w[cur].exhausted
    BY <2>1, <2>2, <1>5 DEF Stem, Branch
  <2>4. tree' = AddChild(w, cur, v) /\ cur' = Append(PosIn(cur, nd, i - 1), v) /\ killed' = killed
    BY <1>5 DEF Enter
  <2> HIDE DEF w, i
  <2>5. Complete(tree')
    BY <2>2, <2>3, <2>4, AddedComplete
  <2>6. Live(cur') <=> Live(cur)
    BY <2>1, <2>4, <1>2, <1>3, LivePlace
  <2> QED
    BY <2>4, <2>5, <2>6, <1>2
<1> QED
  BY <1>1, <1>4, <1>5

\* draw_value where nothing was recorded.
LEMMA NewCompletes ==
  ASSUME NovelInv, NEW k \in Kinds, NEW f \in Children[k] \cup {NoValue}, NEW v \in Children[k],
         DrawNew(k, f, v)
  PROVE  Complete(tree') /\ (killed' <=> ~Live(cur'))
<1> DEFINE nd == tree[cur]
           L == Len(nd.values)
           t == [tree EXCEPT ![cur].kinds = Append(@, k), ![cur].values = Append(@, v),
                             ![cur].forced = IF f = NoValue THEN @ ELSE @ \cup {L + 1}]
           ext == Extended(nd, k, v, f)
           u == Put(tree, cur, ext)
<1>1. /\ nd.trans.op = "none" /\ f \in {NoValue, v}
      /\ IF Cardinality(Children[k]) = 1 /\ f = NoValue
         THEN tree' = SplitAt(t, cur, L + 1) /\ Enter(Append(PosAfter(cur, nd), v))
         ELSE tree' = t /\ UNCHANGED <<cur, killed>>
  BY DEF DrawNew, DrawsValue
<1>2. /\ Sound(tree) /\ cur \in DOMAIN tree /\ L \in Nat /\ L \in 0 .. L
      /\ cur \in Trie!Positions /\ Fits(nd) /\ PosIn(cur, nd, L) = PosAfter(cur, nd)
      /\ Complete(tree) /\ (killed <=> ~Live(cur))
      /\ v \in Values /\ ~nd.exhausted
  <2>1. v \in Values
    BY TrieParameters DEF Trie!TrieConstants
  <2>2. Sound(tree) /\ cur \in DOMAIN tree /\ Complete(tree) /\ (killed <=> ~Live(cur))
    BY DEF NovelInv, TreeInv, Placed
  <2>3. ~nd.exhausted
    BY <1>1, <2>2 DEF Sound, Spent, SpentNode
  <2> QED
    BY <2>1, <2>2, <2>3, NodePlaces DEF Sound
<1>3. t = u
  <2>1. Sound(tree) /\ cur \in DOMAIN tree
    BY <1>2
  <2>2. t = Drawn(k, v, f)
    BY DEF Drawn
  <2> HIDE DEF t
  <2> QED
    BY <2>1, <2>2, AppendIs
<1>4. /\ Marked(u) /\ Bounded(u) /\ Sound(u)
      /\ DOMAIN u = DOMAIN tree /\ u[cur] = ext /\ Len(ext.values) = L + 1
      /\ \A m \in DOMAIN u : \A i \in 1 .. Len(u[m].values) :
           m # cur \/ i # L + 1 => FreeAt(u[m], i)
      /\ f # NoValue \/ (\E w \in Children[k] : w # v) => FreeAt(u[cur], L + 1)
  <2>1. ext = Extended(tree[cur], k, v, f) /\ u = Put(tree, cur, ext)
    OBVIOUS
  <2> HIDE DEF t, ext, u
  <2> QED
    BY <2>1, <1>1, <1>2, AppendedComplete
<1>5. ext.forced = (IF f = NoValue THEN nd.forced ELSE nd.forced \cup {L + 1})
      /\ ext.exhausted = nd.exhausted /\ ext.trans = nd.trans
  BY DEF Extended
<1> HIDE DEF t, u, ext
<1>6. CASE Cardinality(Children[k]) = 1 /\ f = NoValue
  <2>1. tree' = SplitAt(u, cur, L + 1) /\ cur' = Append(PosAfter(cur, nd), v) /\ killed' = killed
    BY <1>1, <1>3, <1>6 DEF Enter
  <2>2. /\ L + 1 \notin u[cur].forced /\ L + 1 \in 1 .. Len(u[cur].values)
        /\ ~u[cur].exhausted /\ u[cur].trans.op = "none" /\ cur \in DOMAIN u
    BY <1>1, <1>2, <1>4, <1>5, <1>6 DEF Fits
  <2>3. /\ Free(tree') /\ Bounded(tree')
        /\ \A m \in DOMAIN tree' : m # cur => MarkedNode(tree', m)
        /\ MarkedNode(tree', cur)
    <3> DEFINE i == L + 1
               w == SplitAt(u, cur, i)
    <3>1. /\ i \notin u[cur].forced /\ i \in 1 .. Len(u[cur].values) /\ w = SplitAt(u, cur, i)
          /\ \A m \in DOMAIN u : \A j \in 1 .. Len(u[m].values) :
               m # cur \/ j # i => FreeAt(u[m], j)
          /\ tree' = w
      BY <2>1, <2>2, <1>4
    <3> HIDE DEF i, w, L
    <3>2. /\ Free(w) /\ Bounded(w)
          /\ \A m \in DOMAIN w : m # cur => MarkedNode(w, m)
          /\ MarkedNode(w, cur)
      BY <3>1, <2>2, <1>4, SplitParts DEF Marked
    <3> QED
      BY <3>1, <3>2
  <2>4. Live(cur') <=> Live(cur)
    <3>1. Live(Append(PosIn(cur, nd, L), v)) <=> Live(cur)
      BY <1>2, LivePlace
    <3> QED
      BY <3>1, <2>1, <1>2
  <2> QED
    BY <2>1, <2>3, <2>4, <1>2 DEF Complete, Marked
<1>7. CASE ~(Cardinality(Children[k]) = 1 /\ f = NoValue)
  <2>1. tree' = u /\ cur' = cur /\ killed' = killed
    BY <1>1, <1>3, <1>7
  <2>2. f # NoValue \/ \E w \in Children[k] : w # v
    BY <1>7, OtherValue
  <2>3. Free(u)
    BY <2>2, <1>4 DEF Free
  <2> QED
    BY <2>1, <2>3, <1>2, <1>4 DEF Complete
<1> QED
  BY <1>6, <1>7

\* draw_value at the end of a node that something follows.
LEMMA FollowCompletes ==
  ASSUME NovelInv, NEW k \in Kinds, NEW f \in Children[k] \cup {NoValue}, NEW v \in Children[k],
         DrawFollow(k, f, v)
  PROVE  Complete(tree') /\ (killed' <=> ~Live(cur'))
<1> DEFINE nd == tree[cur]
           at == Append(PosAfter(cur, nd), v)
<1>1. \/ Raise("flaky") \/ Raise("assert")
      \/ /\ nd.trans.op = "branch" /\ k = nd.trans.kind
         /\ tree' = IF v \in nd.trans.children THEN tree ELSE AddChild(tree, cur, v)
         /\ cur' = at /\ killed' = killed
  BY DEF DrawFollow, Enter
<1>2. /\ Sound(tree) /\ cur \in DOMAIN tree /\ Len(nd.values) \in 0 .. Len(nd.values)
      /\ cur \in Trie!Positions /\ Fits(nd) /\ PosIn(cur, nd, Len(nd.values)) = PosAfter(cur, nd)
      /\ Complete(tree) /\ (killed <=> ~Live(cur)) /\ v \in Values
  <2>1. v \in Values
    BY TrieParameters DEF Trie!TrieConstants
  <2> QED
    BY <2>1, NodePlaces DEF NovelInv, TreeInv, Sound, Placed
<1>3. CASE Raise("flaky") \/ Raise("assert")
  BY <1>2, <1>3 DEF Raise
<1>4. CASE /\ nd.trans.op = "branch" /\ k = nd.trans.kind
           /\ tree' = IF v \in nd.trans.children THEN tree ELSE AddChild(tree, cur, v)
           /\ cur' = at /\ killed' = killed
  <2>1. ASSUME v \in nd.trans.children PROVE Complete(tree')
    BY <2>1, <1>2, <1>4
  <2>2. ASSUME v \notin nd.trans.children PROVE Complete(tree')
    <3>1. ~nd.exhausted /\ v \in Children[nd.trans.kind]
      BY <1>2, <1>4, <2>2 DEF Sound, Spent, SpentNode
    <3>2. tree' = AddChild(tree, cur, v) /\ nd.trans.op = "branch"
      BY <2>2, <1>4
    <3>3. Free(tree) /\ Bounded(tree) /\ \A m \in DOMAIN tree : m # cur => MarkedNode(tree, m)
      BY <1>2 DEF Complete, Marked
    <3> QED
      BY <3>1, <3>2, <3>3, <2>2, <1>2, AddedComplete
  <2>3. Complete(tree')
    BY <2>1, <2>2, <1>2, <1>4
  <2>4. Live(cur') <=> Live(cur)
    BY <1>2, <1>4, LivePlace
  <2> QED
    BY <2>3, <2>4, <1>2, <1>4
<1> QED
  BY <1>1, <1>3, <1>4

\* kill_branch.
LEMMA KillCompletes ==
  ASSUME NovelInv, KillBranch
  PROVE  Complete(tree') /\ (killed' <=> ~Live(cur'))
<1> DEFINE nd == tree[cur]
           at == Append(PosAfter(cur, nd), KillMark)
           new == [nd EXCEPT !.trans = Trie!Kill]
           t == Grown(tree, cur, new, at)
<1>1. /\ ~killed
      /\ \/ Raise("flaky")
         \/ /\ tree' = IF nd.trans.op = "none" THEN UpdateExhausted(t, cur) ELSE tree
            /\ killed' = TRUE /\ cur' = at
  <2>1. t = [m \in DOMAIN tree \cup {at} |->
               CASE m = cur -> [nd EXCEPT !.trans = [op |-> "kill"]]
                 [] m = at  -> EmptyNode
                 [] OTHER   -> tree[m]]
    BY DEF Grown, Trie!Kill
  <2> HIDE DEF t
  <2> QED
    BY <2>1 DEF KillBranch
<1>2. /\ Sound(tree) /\ cur \in DOMAIN tree /\ Len(nd.values) \in 0 .. Len(nd.values)
      /\ cur \in Trie!Positions /\ Fits(nd) /\ PosIn(cur, nd, Len(nd.values)) = PosAfter(cur, nd)
      /\ Complete(tree) /\ (killed <=> ~Live(cur))
  BY NodePlaces DEF NovelInv, TreeInv, Sound, Placed
<1>3. CASE Raise("flaky")
  BY <1>2, <1>3 DEF Raise
<1>4. CASE /\ tree' = IF nd.trans.op = "none" THEN UpdateExhausted(t, cur) ELSE tree
           /\ killed' = TRUE /\ cur' = at
  <2>1. ~Live(cur') /\ Live(cur)
    BY <1>1, <1>2, <1>4, LivePlace
  <2>2. CASE nd.trans.op = "none"
    <3>1. /\ Sound(t) /\ Free(t) /\ Bounded(t) /\ cur \in DOMAIN t
          /\ \A m \in DOMAIN t : m # cur => MarkedNode(t, m)
      <4>1. t = WithKill(tree, cur)
        BY DEF WithKill
      <4>2. Sound(tree) /\ Complete(tree) /\ cur \in DOMAIN tree /\ tree[cur].trans.op = "none"
        BY <2>2, <1>2
      <4> HIDE DEF t, new, at, nd
      <4> QED
        BY <4>1, <4>2, KilledComplete
    <3> HIDE DEF t
    <3> QED
      BY <3>1, <2>1, <2>2, <1>4, UpdateComplete
  <2>3. CASE nd.trans.op # "none"
    BY <2>1, <2>3, <1>2, <1>4
  <2> QED
    BY <2>2, <2>3
<1> QED
  BY <1>1, <1>3, <1>4

\* The root is not behind a discard.
LEMMA RootIsLive == Live(<<>>)
BY EmptySeq DEF Live, Range

\* conclude_test.
LEMMA ConcludeCompletes ==
  ASSUME NovelInv, NEW c \in Conclusions, ConcludeTest(c)
  PROVE  Complete(tree') /\ (killed' <=> ~Live(cur'))
<1> DEFINE t == [tree EXCEPT ![cur] = Concluded(@, c)]
<1>1. \/ Raise("flaky")
      \/ /\ tree' = IF killed THEN Recheck(t, cur) ELSE UpdateExhausted(t, cur)
         /\ cur' = <<>> /\ killed' = FALSE
  BY DEF ConcludeTest
<1>2. /\ Sound(tree) /\ cur \in DOMAIN tree /\ Complete(tree) /\ (killed <=> ~Live(cur))
  BY DEF NovelInv, TreeInv, Placed
<1>3. t = Put(tree, cur, Concluded(tree[cur], c))
  <2>1. tree = [m \in DOMAIN tree |-> tree[m]]
    BY <1>2 DEF Sound, Shaped
  <2> QED
    BY <2>1, <1>2 DEF Put
<1> HIDE DEF t
<1>4. CASE Raise("flaky")
  BY <1>2, <1>4 DEF Raise
<1>5. CASE /\ tree' = IF killed THEN Recheck(t, cur) ELSE UpdateExhausted(t, cur)
           /\ cur' = <<>> /\ killed' = FALSE
  <2>1. /\ Sound(t) /\ Free(t) /\ Bounded(t) /\ cur \in DOMAIN t
        /\ \A m \in DOMAIN t : m # cur => MarkedNode(t, m)
    BY <1>2, <1>3, ConcludedComplete
  <2>2. Complete(tree')
    BY <2>1, <1>2, <1>5, RecheckComplete, UpdateComplete
  <2> QED
    BY <2>2, <1>5, RootIsLive
<1> QED
  BY <1>1, <1>4, <1>5

\* The empty tree is complete.
LEMMA NovelInit == ASSUME Init PROVE NovelInv
<1>1. TreeInv
  BY InitHolds
<1>2. DOMAIN tree = {<<>>} /\ tree[<<>>] = EmptyNode /\ cur = <<>> /\ killed = FALSE
  BY DEF Init
<1>3. Marked(tree)
  BY <1>2 DEF Marked, MarkedNode, SpentNode, EmptyNode
<1>4. Free(tree)
  BY <1>2, EmptyFits DEF Free
<1>5. Bounded(tree)
  <2>1. \A n \in DOMAIN tree : Len(n) <= 0
    BY <1>2, EmptySeq
  <2> QED
    BY <2>1 DEF Bounded
<1> QED
  BY <1>1, <1>2, <1>3, <1>4, <1>5, RootIsLive DEF NovelInv, Complete

\* Every step keeps the tree complete.
LEMMA NovelStep == ASSUME NovelInv, [Next]_vars PROVE NovelInv'
<1>1. TreeInv'
  BY StepKeeps DEF NovelInv
<1>2. Complete(tree') /\ (killed' <=> ~Live(cur'))
  <2>1. CASE TestCase
    <3>1. ASSUME NEW k \in Kinds, NEW f \in Children[k] \cup {NoValue}, NEW v \in Children[k],
                 DrawAgain(k, f, v) \/ DrawNew(k, f, v) \/ DrawFollow(k, f, v)
          PROVE  Complete(tree') /\ (killed' <=> ~Live(cur'))
      BY <3>1, AgainCompletes, NewCompletes, FollowCompletes
    <3> QED
      BY <2>1, <3>1, KillCompletes, ConcludeCompletes DEF TestCase
  <2>2. CASE StartNovel \/ StartAny \/ UNCHANGED vars
    BY <2>2 DEF StartNovel, StartAny, Start, vars, NovelInv
  <2>3. CASE Abandon
    BY <2>3, RootIsLive DEF Abandon, NovelInv
  <2> QED
    BY <2>1, <2>2, <2>3 DEF Next
<1> QED
  BY <1>1, <1>2 DEF NovelInv

-----------------------------------------------------------------------------
\* generate_novel_prefix.

\* The walk never gets behind a discard: a node that discards is marked at once.
LEMMA WalkedIsLive ==
  ASSUME NovelInv, NEW n \in DOMAIN tree, Walked(n)
  PROVE  Live(n)
<1> DEFINE Bad == {m \in DOMAIN tree : IsPrefix(m, n) /\ ~Live(m)}
<1>1. Shaped(tree) /\ Linked(tree) /\ Marked(tree)
  BY DEF NovelInv, TreeInv, Sound, Complete
<1>2. \A x \in DOMAIN tree : x \in Trie!Positions /\ Len(x) \in Nat
  <2>1. DOMAIN tree \subseteq Trie!Positions
    BY <1>1 DEF Shaped
  <2> QED
    BY <2>1, LenProperties DEF Trie!Positions
<1> SUFFICES ASSUME ~Live(n) PROVE FALSE
  OBVIOUS
<1>3. {Len(x) : x \in Bad} \in SUBSET Nat /\ {Len(x) : x \in Bad} # {}
  <2>1. n \in Bad
    BY <1>2, PrefixOrder
  <2> QED
    BY <2>1, <1>2
<1>4. PICK l \in {Len(x) : x \in Bad} : \A h \in {Len(x) : x \in Bad} : l <= h
  <2> HIDE DEF Bad
  <2> QED
    BY <1>3, Least
<1>5. PICK m \in Bad : \A x \in Bad : Len(m) <= Len(x)
  BY <1>4
<1>6. m \in DOMAIN tree /\ IsPrefix(m, n) /\ ~Live(m) /\ m # <<>>
  BY <1>5, RootIsLive
<1>7. PICK k \in DOMAIN tree :
        \E v \in Exits(tree[k]) : m = Append(PosAfter(k, tree[k]), v)
  BY <1>1, <1>6 DEF Linked, Entered
<1>8. PICK v \in Exits(tree[k]) : m = Append(PosAfter(k, tree[k]), v)
  BY <1>7
<1>9. IsPrefix(k, m) /\ Len(m) > Len(k) /\ Fits(tree[k])
  <2>1. k \in Trie!Positions /\ Fits(tree[k]) /\ v \in Values \cup {KillMark}
    BY <1>1, NodePlaces
  <2> QED
    BY <2>1, <1>8, BeginsAfter
<1>10. IsPrefix(k, n) /\ k # n
  <2>1. IsPrefix(k, n)
    BY <1>2, <1>6, <1>9, PrefixOrder
  <2>2. Len(m) <= Len(n)
    BY <1>2, <1>6, PrefixOrder
  <2> QED
    BY <2>1, <2>2, <1>2, <1>6, <1>9
<1>11. Live(k)
  <2>1. k \notin Bad
    BY <1>2, <1>5, <1>6, <1>9
  <2> QED
    BY <2>1, <1>10
<1>12. tree[k].trans.op = "kill"
  <2>1. tree[k].trans.op # "branch"
    BY <1>1, <1>6, <1>8, <1>11, LiveExits
  <2> QED
    BY <2>1 DEF Exits
<1>13. ~tree[k].exhausted /\ AllForced(tree[k])
  BY <1>10 DEF Walked
<1>14. SpentNode(tree, k)
  BY <1>9, <1>12, <1>13, AllForcedIs DEF SpentNode
<1> QED
  BY <1>1, <1>11, <1>13, <1>14 DEF Marked, MarkedNode

\* The walk goes on from a node whose values are all forced.
LEMMA WalksOn ==
  ASSUME NovelInv, NEW n \in DOMAIN tree, Walked(n), AllForced(tree[n]),
         NEW v \in Exits(tree[n]), NEW c, c = Append(PosAfter(n, tree[n]), v),
         ~tree[c].exhausted
  PROVE  c \in DOMAIN tree /\ Walked(c) /\ Len(c) > Len(n)
<1>1. Shaped(tree) /\ Linked(tree)
  BY DEF NovelInv, TreeInv, Sound
<1>2. c \in DOMAIN tree
  BY <1>1 DEF Linked, Closed
<1>3. Len(c) > Len(n)
  <2>1. n \in Trie!Positions /\ Fits(tree[n]) /\ v \in Values \cup {KillMark}
    BY <1>1, NodePlaces
  <2> QED
    BY <2>1, BeginsAfter
<1>4. ASSUME NEW m \in DOMAIN tree, IsPrefix(m, c)
      PROVE  ~tree[m].exhausted /\ (m # c => AllForced(tree[m]))
  <2>1. CASE m = c
    BY <2>1
  <2>2. CASE m # c
    <3>1. IsPrefix(m, n)
      BY <2>2, <1>1, <1>2, <1>4, TrailGoesUp
    <3> QED
      BY <3>1 DEF Walked
  <2> QED
    BY <2>1, <2>2
<1>5. Walked(c)
  BY <1>4 DEF Walked
<1> QED
  BY <1>2, <1>3, <1>5

FirstFree(nd) == CHOOSE j \in 1 .. Len(nd.values) :
                   /\ j \notin nd.forced
                   /\ \A h \in 1 .. j - 1 : h \in nd.forced

\* A node whose values are not all forced has a first that is not.
LEMMA FirstFreeIs ==
  ASSUME NEW nd, Fits(nd), ~AllForced(nd)
  PROVE  FirstFree(nd) \in 1 .. Len(nd.values) /\ FirstFree(nd) \notin nd.forced
<1> DEFINE L == Len(nd.values)
           T == {j \in 1 .. L : j \notin nd.forced}
<1>1. L \in Nat /\ nd.forced \subseteq 1 .. L
  BY LenProperties DEF Fits, Node
<1>2. T \in SUBSET Nat /\ T # {}
  <2>1. nd.forced # 1 .. L
    BY AllForcedIs
  <2>2. PICK j \in 1 .. L : j \notin nd.forced
    BY <2>1, <1>1
  <2>3. j \in T /\ T \subseteq 1 .. L /\ 1 .. L \subseteq Nat
    BY <2>2, <1>1
  <2> HIDE DEF T
  <2> QED
    BY <2>3
<1>3. PICK j \in T : \A h \in T : j <= h
  <2> HIDE DEF T
  <2> QED
    BY <1>2, Least
<1>4. j \in 1 .. L /\ j \notin nd.forced /\ \A h \in 1 .. j - 1 : h \in nd.forced
  BY <1>1, <1>3
<1> QED
  BY <1>4 DEF FirstFree

\* The prefixes of a node, by what it has.
LEMMA PrefixesAre ==
  ASSUME NEW n \in DOMAIN tree
  PROVE  /\ ~AllForced(tree[n]) =>
              PrefixesFrom(n) = {Append(PosIn(n, tree[n], FirstFree(tree[n]) - 1), v) :
                v \in Children[tree[n].kinds[FirstFree(tree[n])]]
                        \ {tree[n].values[FirstFree(tree[n])]}}
         /\ AllForced(tree[n]) /\ tree[n].trans.op = "none" =>
              PrefixesFrom(n) = {PosAfter(n, tree[n])}
         /\ AllForced(tree[n]) /\ tree[n].trans.op = "branch" =>
              PrefixesFrom(n) = {Append(PosAfter(n, tree[n]), v) :
                v \in Children[tree[n].trans.kind] \ tree[n].trans.children}
         /\ AllForced(tree[n]) /\ tree[n].trans.op \notin {"none", "branch"} =>
              PrefixesFrom(n) = {}
BY DEF PrefixesFrom, FirstFree

\* Until the tree is exhausted, there is a novel prefix.
LEMMA SomePrefix ==
  ASSUME NovelInv, ~tree[<<>>].exhausted
  PROVE  NovelPrefixes # {}
<1> DEFINE W == {m \in DOMAIN tree : Walked(m)}
<1>1. Shaped(tree) /\ Linked(tree) /\ Marked(tree) /\ Free(tree) /\ Bounded(tree)
  BY DEF NovelInv, TreeInv, Sound, Complete
<1>2. \A x \in DOMAIN tree : x \in Trie!Positions /\ Len(x) \in Nat
  <2>1. DOMAIN tree \subseteq Trie!Positions
    BY <1>1 DEF Shaped
  <2> QED
    BY <2>1, LenProperties DEF Trie!Positions
<1>3. <<>> \in W
  <2>1. <<>> \in DOMAIN tree /\ Len(<<>>) = 0
    BY <1>1, EmptySeq DEF Shaped
  <2>2. \A m \in DOMAIN tree : IsPrefix(m, <<>>) => m = <<>>
    <3> SUFFICES ASSUME NEW m \in DOMAIN tree, IsPrefix(m, <<>>) PROVE m = <<>>
      OBVIOUS
    <3>1. Len(m) <= Len(<<>>)
      BY <2>1, <1>2, PrefixOrder
    <3>2. Len(m) = Len(<<>>)
      BY <3>1, <2>1, <1>2
    <3> QED
      BY <3>2, <2>1, <1>2, PrefixOrder
  <2> QED
    BY <2>1, <2>2 DEF Walked
<1>4. PICK b \in Nat : \A m \in DOMAIN tree : Len(m) <= b
  BY <1>1 DEF Bounded
<1>5. {b - Len(m) : m \in W} \in SUBSET Nat /\ {b - Len(m) : m \in W} # {}
  BY <1>2, <1>3, <1>4
<1>6. PICK l \in {b - Len(m) : m \in W} : \A h \in {b - Len(m) : m \in W} : l <= h
  <2> HIDE DEF W
  <2> QED
    BY <1>5, Least
<1>7. PICK n \in W : \A m \in W : b - Len(n) <= b - Len(m)
  BY <1>6
<1>8. n \in DOMAIN tree /\ Walked(n) /\ \A m \in DOMAIN tree : Walked(m) => Len(m) <= Len(n)
  BY <1>2, <1>4, <1>7
<1> DEFINE nd == tree[n]
<1>9. Live(n) /\ ~nd.exhausted /\ Fits(nd)
  <2>1. ~nd.exhausted
    BY <1>2, <1>8, PrefixOrder DEF Walked
  <2> QED
    BY <2>1, <1>1, <1>8, WalkedIsLive DEF Shaped
<1>10. ~SpentNode(tree, n)
  BY <1>1, <1>8, <1>9 DEF Marked, MarkedNode
<1> SUFFICES PrefixesFrom(n) # {}
  BY <1>8 DEF NovelPrefixes
<1> HIDE DEF W
<1>11. CASE ~AllForced(nd)
  <2> DEFINE i == FirstFree(nd)
  <2>1. i \in 1 .. Len(nd.values) /\ i \notin nd.forced
    BY <1>9, <1>11, FirstFreeIs
  <2>2. PICK w \in Children[nd.kinds[i]] : w # nd.values[i]
    <3> HIDE DEF i
    <3> QED
      BY <2>1, <1>1, <1>8 DEF Free, FreeAt
  <2>3. Append(PosIn(n, nd, i - 1), w) \in PrefixesFrom(n)
    BY <2>2, <1>8, <1>11, PrefixesAre
  <2> QED
    BY <2>3
<1>12. CASE AllForced(nd) /\ nd.trans.op = "none"
  BY <1>8, <1>12, PrefixesAre
<1>13. CASE AllForced(nd) /\ nd.trans.op \notin {"none", "branch"}
  BY <1>9, <1>10, <1>13, AllForcedIs DEF SpentNode
<1>14. CASE AllForced(nd) /\ nd.trans.op = "branch"
  <2>1. CASE nd.trans.children = Children[nd.trans.kind]
    <3>1. nd.forced = 1 .. Len(nd.values)
      BY <1>9, <1>14, AllForcedIs
    <3>2. PICK v \in nd.trans.children : ~tree[Append(PosAfter(n, nd), v)].exhausted
      BY <3>1, <2>1, <1>10, <1>14 DEF SpentNode
    <3> DEFINE c == Append(PosAfter(n, nd), v)
    <3>3. v \in Exits(nd) /\ ~tree[c].exhausted /\ c = Append(PosAfter(n, nd), v)
      BY <3>2, <1>14 DEF Exits
    <3> HIDE DEF c
    <3>4. c \in DOMAIN tree /\ Walked(c) /\ Len(c) > Len(n)
      BY <3>3, <1>8, <1>14, WalksOn
    <3> QED
      BY <3>4, <1>2, <1>8
  <2>2. CASE nd.trans.children # Children[nd.trans.kind]
    <3>1. nd.trans.children \subseteq Children[nd.trans.kind]
      BY <1>9, <1>14 DEF Fits
    <3>2. PICK v \in Children[nd.trans.kind] : v \notin nd.trans.children
      BY <3>1, <2>2
    <3>3. PrefixesFrom(n) = {Append(PosAfter(n, nd), x) :
                               x \in Children[nd.trans.kind] \ nd.trans.children}
      BY <1>8, <1>14, PrefixesAre
    <3>4. Append(PosAfter(n, nd), v) \in PrefixesFrom(n)
      BY <3>2, <3>3
    <3> QED
      BY <3>4
  <2> QED
    BY <2>1, <2>2
<1> QED
  BY <1>11, <1>12, <1>13, <1>14

\* Another value in place of one of a node leads out of the tree.
LEMMA OtherUnvisited ==
  ASSUME NEW t, Shaped(t), Linked(t), NEW n \in DOMAIN t, NEW i \in 1 .. Len(t[n].values),
         NEW w \in Values, w # t[n].values[i],
         NEW m \in DOMAIN t, NEW j \in 0 .. Len(t[m].values)
  PROVE  Append(PosIn(n, t[n], i - 1), w) # PosIn(m, t[m], j)
<1> SUFFICES ASSUME Append(PosIn(n, t[n], i - 1), w) = PosIn(m, t[m], j) PROVE FALSE
  OBVIOUS
<1> DEFINE V == Values \cup {KillMark}
           p == PosIn(n, t[n], i - 1)
<1>1. Trie!Positions = Seq(V) /\ w \in V
  BY DEF Trie!Positions
<1>2. \A k \in DOMAIN t :
        /\ Len(t[k].values) \in Nat
        /\ Len(t[k].values) \in 0 .. Len(t[k].values)
        /\ PosAfter(k, t[k]) \in Seq(V)
        /\ PosIn(k, t[k], Len(t[k].values)) = PosAfter(k, t[k])
        /\ Exits(t[k]) \subseteq V
  BY <1>1, NodePlaces
<1>3. i - 1 \in 0 .. Len(t[n].values)
  BY <1>2
<1>4. p \in Seq(V)
  BY <1>1, <1>3, PlacesType
<1>5. CASE j > 0
  <2> DEFINE q == PosIn(m, t[m], j - 1)
             v == t[m].values[j]
  <2>1. j - 1 \in 0 .. Len(t[m].values)
    BY <1>2, <1>5
  <2>2. q \in Seq(V) /\ v \in V /\ Append(p, w) = Append(q, v)
    BY <2>1, <1>1, <1>5, PlacesType
  <2>3. p = q /\ w = v
    <3> HIDE DEF p, q, v, V
    <3> QED
      BY <2>2, <1>1, <1>4, AppendInjective
  <2>4. n = m /\ i - 1 = j - 1
    BY <2>1, <2>3, <1>3 DEF Linked, Apart
  <2> QED
    BY <2>3, <2>4
<1>6. CASE j = 0
  <2>1. PosIn(m, t[m], j) = m
    BY <1>6, PlacesType
  <2>2. m # <<>>
    BY <2>1, <1>1, <1>4, AppendProperties
  <2>3. PICK k \in DOMAIN t : \E v \in Exits(t[k]) : m = Append(PosAfter(k, t[k]), v)
    BY <2>2 DEF Linked, Entered
  <2>4. PICK v \in Exits(t[k]) : m = Append(PosAfter(k, t[k]), v)
    BY <2>3
  <2>5. v \in V /\ PosAfter(k, t[k]) \in Seq(V) /\ Append(p, w) = Append(PosAfter(k, t[k]), v)
    BY <2>1, <2>4, <1>2
  <2>6. p = PosAfter(k, t[k])
    <3> HIDE DEF p, V
    <3> QED
      BY <2>5, <1>1, <1>4, AppendInjective
  <2>7. i - 1 = Len(t[k].values) /\ n = k
    <3> DEFINE e == Len(t[k].values)
    <3>1. PosIn(n, t[n], i - 1) = PosIn(k, t[k], e) /\ e \in 0 .. Len(t[k].values)
      BY <2>6, <1>2
    <3> HIDE DEF p, e
    <3>2. n = k /\ i - 1 = e
      BY <3>1, <1>3 DEF Linked, Apart
    <3> QED
      BY <3>2 DEF e
  <2> QED
    BY <2>7, <1>2
<1> QED
  BY <1>2, <1>5, <1>6

\* What follows a step and is not a place of the tree is worth exploring.
LEMMA NextIsFrontier ==
  ASSUME NEW t, Shaped(t), Linked(t), NEW known, known = Unfolded(Recorded(t)),
         NEW q \in DOMAIN known, NEW v \in Trie!Allowed(known[q]),
         NEW p, p = Append(q, v), Live(p),
         \A m \in DOMAIN t : \A j \in 0 .. Len(t[m].values) : p # PosIn(m, t[m], j)
  PROVE  p \in Trie!Frontier(known)
<1>1. p \notin DOMAIN known
  <2> SUFFICES ASSUME p \in DOMAIN known PROVE FALSE
    OBVIOUS
  <2>1. PICK m \in DOMAIN t :
          \/ \E i \in 1 .. Len(t[m].values) : p = PosIn(m, t[m], i - 1)
          \/ t[m].trans.op # "none" /\ p = PosAfter(m, t[m])
    BY KnownPlaces
  <2>2. /\ Len(t[m].values) \in Nat
        /\ PosIn(m, t[m], Len(t[m].values)) = PosAfter(m, t[m])
        /\ Len(t[m].values) \in 0 .. Len(t[m].values)
    BY NodePlaces
  <2>3. \A i \in 1 .. Len(t[m].values) : i - 1 \in 0 .. Len(t[m].values)
    BY <2>2
  <2> QED
    BY <2>1, <2>2, <2>3
<1>2. p \in Trie!Edge(known)
  BY <1>1 DEF Trie!Edge
<1> QED
  BY <1>2 DEF Trie!Frontier, Live, Trie!Range, Range

\* A novel prefix is worth exploring.
LEMMA NovelIsFrontier ==
  ASSUME NovelInv, NEW n \in DOMAIN tree, Walked(n), NEW p \in PrefixesFrom(n)
  PROVE  p \in Trie!Frontier(Unfold)
<1> DEFINE nd == tree[n]
<1>1. Shaped(tree) /\ Linked(tree)
  BY DEF NovelInv, TreeInv, Sound
<1>2. /\ n \in Trie!Positions /\ Fits(nd) /\ Live(n) /\ Len(nd.values) \in Nat
      /\ Len(nd.values) \in 0 .. Len(nd.values)
      /\ PosIn(n, nd, Len(nd.values)) = PosAfter(n, nd)
  BY <1>1, NodePlaces, WalkedIsLive
<1>3. Children \in [Kinds -> SUBSET Values] /\ KillMark \notin Values
  BY TrieParameters DEF Trie!TrieConstants
<1>4. Live(PosAfter(n, nd)) /\ \A v \in Values : Live(Append(PosAfter(n, nd), v))
  BY <1>2, LivePlace
<1>5. ASSUME ~AllForced(nd) PROVE p \in Trie!Frontier(Unfold)
  <2> DEFINE i == FirstFree(nd)
             q == PosIn(n, nd, i - 1)
  <2>1. i \in 1 .. Len(nd.values) /\ i \notin nd.forced
    BY <1>2, <1>5, FirstFreeIs
  <2>2. PICK v \in Children[nd.kinds[i]] \ {nd.values[i]} : p = Append(q, v)
    BY <1>5, PrefixesAre
  <2> HIDE DEF i
  <2>3. i - 1 \in 0 .. Len(nd.values) /\ v # nd.values[i]
    BY <2>1, <2>2, <1>2
  <2>4. v \in Values
    <3>1. nd.kinds \in Seq(Kinds) /\ Len(nd.kinds) = Len(nd.values)
      BY <1>2 DEF Fits, Node
    <3>2. nd.kinds[i] \in Kinds
      BY <3>1, <2>1, ElementOfSeq
    <3> QED
      BY <3>2, <2>2, <1>3
  <2>5. Live(p)
    BY <2>2, <2>3, <2>4, <1>2, LivePlace
  <2>6. q \in DOMAIN Unfold /\ Unfold[q] = StepIn(nd, i)
    BY <2>1, <1>1, KnownSteps DEF Unfold
  <2>7. Trie!Allowed(StepIn(nd, i)) = Children[nd.kinds[i]]
    BY <2>1, <1>2, AllowedSteps
  <2>8. v \in Trie!Allowed(Unfold[q])
    BY <2>2, <2>6, <2>7
  <2>9. \A m \in DOMAIN tree : \A j \in 0 .. Len(tree[m].values) : p # PosIn(m, tree[m], j)
    BY <2>1, <2>2, <2>3, <2>4, <1>1, OtherUnvisited
  <2> HIDE DEF q
  <2> QED
    BY <2>2, <2>5, <2>6, <2>8, <2>9, <1>1, NextIsFrontier DEF Unfold
<1>6. ASSUME AllForced(nd), nd.trans.op = "none" PROVE p \in Trie!Frontier(Unfold)
  <2>1. p = PosAfter(n, nd)
    BY <1>6, PrefixesAre
  <2>2. p \in Trie!Edge(Unfold)
    BY <2>1, <1>1, <1>6, EndIsEdge DEF Unfold
  <2> QED
    BY <2>1, <2>2, <1>4 DEF Trie!Frontier, Live, Trie!Range, Range
<1>7. ASSUME AllForced(nd), nd.trans.op = "branch" PROVE p \in Trie!Frontier(Unfold)
  <2> DEFINE q == PosAfter(n, nd)
  <2>1. PICK v \in Children[nd.trans.kind] \ nd.trans.children : p = Append(q, v)
    BY <1>7, PrefixesAre
  <2>2. q \in DOMAIN Unfold /\ Unfold[q] = StepOut(nd)
    BY <1>1, <1>7, KnownSteps DEF Unfold
  <2>3. v \in Trie!Allowed(Unfold[q])
    BY <2>1, <2>2, <1>2, <1>7, AllowedSteps
  <2>4. v \in Values
    <3>1. nd.trans.kind \in Kinds
      BY <1>2, <1>7 DEF Fits, Node, Transitions, Branch, Trie!Kill, Trie!Conclude
    <3> QED
      BY <3>1, <2>1, <1>3
  <2>5. Live(p)
    BY <2>1, <2>4, <1>4
  <2>6. v \notin Exits(nd)
    BY <2>1, <1>7 DEF Exits
  <2>7. \A m \in DOMAIN tree : \A j \in 0 .. Len(tree[m].values) : p # PosIn(m, tree[m], j)
    BY <2>1, <2>4, <2>6, <1>1, Unvisited
  <2> HIDE DEF q
  <2> QED
    BY <2>1, <2>2, <2>3, <2>5, <2>7, <1>1, NextIsFrontier DEF Unfold
<1>8. ASSUME AllForced(nd), nd.trans.op \notin {"none", "branch"}
      PROVE  p \in Trie!Frontier(Unfold)
  BY <1>8, PrefixesAre
<1> QED
  BY <1>5, <1>6, <1>7, <1>8

\* What generate_novel_prefix can return is new, and it can return something until the end.
LEMMA NovelHolds == ASSUME NovelInv PROVE NovelPrefixesAreNovel
<1> SUFFICES ASSUME ~flaky
             PROVE  /\ tree[<<>>].exhausted <=> Trie!Frontier(Unfold) = {}
                    /\ tree[<<>>].exhausted <=> NovelPrefixes = {}
                    /\ NovelPrefixes \subseteq Trie!Frontier(Unfold)
  <2>1. ~flaky => Unfold = prog
    BY DEF NovelInv, TreeInv, TreeIsFaithful
  <2> QED
    BY <2>1 DEF NovelPrefixesAreNovel
<1>1. Sound(tree) /\ <<>> \in DOMAIN tree /\ DOMAIN tree \subseteq Trie!Positions
  BY DEF NovelInv, TreeInv, Sound, Shaped
<1>2. tree[<<>>].exhausted => Trie!Frontier(Unfold) = {}
  BY <1>1, RootExhausted DEF Unfold
<1>3. tree[<<>>].exhausted => NovelPrefixes = {}
  <2>1. \A n \in DOMAIN tree : IsPrefix(<<>>, n)
    <3>1. <<>> \in Trie!Positions /\ Len(<<>>) = 0
      BY <1>1, EmptySeq
    <3>2. \A n \in DOMAIN tree : n \in Trie!Positions /\ Len(n) \in Nat
      BY <1>1, LenProperties DEF Trie!Positions
    <3> QED
      BY <3>1, <3>2, Prefixed
  <2>2. ASSUME tree[<<>>].exhausted, NEW n \in DOMAIN tree PROVE ~Walked(n)
    BY <2>1, <2>2, <1>1 DEF Walked
  <2> QED
    BY <2>2 DEF NovelPrefixes
<1>4. ~tree[<<>>].exhausted => NovelPrefixes # {}
  BY SomePrefix
<1>5. NovelPrefixes \subseteq Trie!Frontier(Unfold)
  BY NovelIsFrontier DEF NovelPrefixes
<1> QED
  BY <1>2, <1>3, <1>4, <1>5

\* Between test cases, the tree is marked as exhausted exactly when every position not
\* behind a discard was tried, and exactly then no novel prefix is left; what
\* generate_novel_prefix can return was never tried before.
THEOREM TreeNovel == Spec => []NovelPrefixesAreNovel
<1>1. Init => NovelInv
  BY NovelInit
<1>2. NovelInv /\ [Next]_vars => NovelInv'
  BY NovelStep
<1>3. NovelInv => NovelPrefixesAreNovel
  BY NovelHolds
<1> QED
  BY <1>1, <1>2, <1>3, PTL DEF Spec

-----------------------------------------------------------------------------
\* How the choices lead the test function on from position to position.

\* What was drawn on the way to a position is counted one value at a time.
LEMMA DrawsAppended ==
  ASSUME NEW p \in Trie!Positions, NEW v \in Values \cup {KillMark}
  PROVE  /\ DrawsIn(p) \in Nat
         /\ DrawsIn(<<>>) = 0
         /\ DrawsIn(Append(p, v)) = IF v = KillMark THEN DrawsIn(p) ELSE DrawsIn(p) + 1
<1> DEFINE V == Values \cup {KillMark}
           D(q) == {i \in DOMAIN q : q[i] # KillMark}
           q == Append(p, v)
           n == Len(p)
<1>1. p \in Seq(V) /\ v \in V
  BY DEF Trie!Positions
<1>2. D(<<>>) = {}
  OBVIOUS
<1> HIDE DEF V
<1>3. /\ n \in Nat /\ DOMAIN p = 1 .. n /\ q \in Seq(V) /\ Len(q) = n + 1
      /\ \A j \in 1 .. n : q[j] = p[j]
      /\ q[n + 1] = v
  BY <1>1, LenProperties, AppendProperties
<1>4. DOMAIN q = 1 .. n + 1
  BY <1>3, LenProperties
<1> HIDE DEF q, n
<1>5. D(p) \subseteq 1 .. n
  BY <1>3
<1>6. IsFiniteSet(D(p))
  <2>1. IsFiniteSet(1 .. n)
    BY <1>3, FS_Interval
  <2> QED
    BY <2>1, <1>5, FS_Subset
<1>7. Cardinality(D(p)) \in Nat /\ Cardinality(D(<<>>)) = 0
  BY <1>2, <1>6, FS_CardinalityType, FS_EmptySet
<1>8. ASSUME v = KillMark PROVE D(q) = D(p)
  BY <1>3, <1>4, <1>8
<1>9. ASSUME v # KillMark PROVE D(q) = D(p) \cup {n + 1} /\ n + 1 \notin D(p)
  <2>1. n + 1 \notin 1 .. n /\ \A i : i \in 1 .. n + 1 <=> i \in 1 .. n \/ i = n + 1
    BY <1>3
  <2>2. \A i : i \in D(q) <=> i \in D(p) \/ i = n + 1
    BY <2>1, <1>3, <1>4, <1>9
  <2> QED
    BY <2>1, <2>2, <1>3
<1>10. v # KillMark => Cardinality(D(q)) = Cardinality(D(p)) + 1
  <2> HIDE DEF D
  <2> QED
    BY <1>6, <1>9, FS_AddElement
<1> QED
  BY <1>7, <1>8, <1>10 DEF DrawsIn, q

\* The part of a position before its last value is found in it again.
LEMMA BeginningOf ==
  ASSUME NEW p \in Trie!Positions, NEW v \in Values \cup {KillMark}
  PROVE  /\ Len(p) \in Nat
         /\ Append(p, v) \in Trie!Positions
         /\ Len(Append(p, v)) = Len(p) + 1
         /\ \A i \in 1 .. Len(p) : Append(p, v)[i] = p[i]
         /\ Append(p, v)[Len(p) + 1] = v
         /\ \A i \in 0 .. Len(p) : SubSeq(Append(p, v), 1, i) = SubSeq(p, 1, i)
         /\ SubSeq(p, 1, Len(p)) = p
         /\ SubSeq(Append(p, v), 1, Len(p) + 1) = Append(p, v)
<1> DEFINE V == Values \cup {KillMark}
<1>1. p \in Seq(V) /\ v \in V /\ Trie!Positions = Seq(V)
  BY DEF Trie!Positions
<1> HIDE DEF V
<1>2. /\ Len(p) \in Nat /\ Append(p, v) \in Seq(V) /\ Len(Append(p, v)) = Len(p) + 1
      /\ \A i \in 1 .. Len(p) : Append(p, v)[i] = p[i]
      /\ Append(p, v)[Len(p) + 1] = v
  BY <1>1, LenProperties, AppendProperties
<1>3. \A i \in 0 .. Len(p) : SubSeq(Append(p, v), 1, i) = SubSeq(p, 1, i)
  BY <1>1, PosInAppended
<1>4. SubSeq(p, 1, Len(p)) = p /\ SubSeq(Append(p, v), 1, Len(Append(p, v))) = Append(p, v)
  BY <1>1, <1>2, SubSeqFull
<1> QED
  BY <1>1, <1>2, <1>3, <1>4

\* The choices, of which DrawsIn(p) were used on the way to p, make the test function go
\* on from p with v.
LeadsTo(choices, p, v) ==
  /\ DrawsIn(Append(p, v)) <= Len(choices)
  /\ prog[p].op = "draw" /\ prog[p].forced = NoValue =>
       v = Fit(prog[p].kind, choices[DrawsIn(Append(p, v))])

\* The choices lead to a position when they lead to where it comes from, and on.
LEMMA FollowsOn ==
  ASSUME NEW choices, Len(choices) \in Nat,
         NEW p \in Trie!Positions, NEW v \in Values \cup {KillMark}
  PROVE  /\ Follows(choices, <<>>)
         /\ Follows(choices, Append(p, v)) <=> Follows(choices, p) /\ LeadsTo(choices, p, v)
<1> DEFINE q == Append(p, v)
           n == Len(p)
           OK(x, i) == LET s == prog[SubSeq(x, 1, i - 1)]
                       IN  s.op = "draw" /\ s.forced = NoValue =>
                             x[i] = Fit(s.kind, choices[DrawsIn(SubSeq(x, 1, i))])
<1>1. /\ n \in Nat /\ Len(q) = n + 1
      /\ \A i \in 1 .. n : q[i] = p[i]
      /\ q[n + 1] = v
      /\ \A i \in 0 .. n : SubSeq(q, 1, i) = SubSeq(p, 1, i)
      /\ SubSeq(p, 1, n) = p
      /\ SubSeq(q, 1, n + 1) = q
  BY BeginningOf
<1>2. /\ DrawsIn(p) \in Nat /\ DrawsIn(<<>>) = 0 /\ DrawsIn(q) \in Nat
      /\ DrawsIn(p) <= DrawsIn(q)
  BY DrawsAppended
<1>3. Follows(choices, <<>>)
  BY <1>2 DEF Follows
<1> HIDE DEF q, n
<1>4. \A i \in 1 .. n : OK(q, i) <=> OK(p, i)
  <2> SUFFICES ASSUME NEW i \in 1 .. n PROVE OK(q, i) <=> OK(p, i)
    OBVIOUS
  <2>1. i \in 0 .. n /\ i - 1 \in 0 .. n
    BY <1>1
  <2>2. SubSeq(q, 1, i) = SubSeq(p, 1, i) /\ SubSeq(q, 1, i - 1) = SubSeq(p, 1, i - 1)
    BY <2>1, <1>1
  <2>3. q[i] = p[i]
    BY <1>1
  <2> QED
    BY <2>2, <2>3, Zenon
<1>5. OK(q, n + 1) <=> (prog[p].op = "draw" /\ prog[p].forced = NoValue =>
                          v = Fit(prog[p].kind, choices[DrawsIn(q)]))
  <2> SUFFICES ASSUME NEW i, i = n + 1
               PROVE  OK(q, i) <=> (prog[p].op = "draw" /\ prog[p].forced = NoValue =>
                                      v = Fit(prog[p].kind, choices[DrawsIn(q)]))
    OBVIOUS
  <2>1. i - 1 = n /\ n \in 0 .. n
    BY <1>1
  <2>2. SubSeq(q, 1, i - 1) = p
    BY <2>1, <1>1
  <2>3. q[i] = v /\ SubSeq(q, 1, i) = q
    BY <1>1
  <2> QED
    BY <2>2, <2>3, Zenon
<1>6. Follows(choices, p) <=> DrawsIn(p) <= Len(choices) /\ \A i \in 1 .. n : OK(p, i)
  BY DEF Follows, n
<1>7. Follows(choices, q) <=> DrawsIn(q) <= Len(choices) /\ \A i \in 1 .. n + 1 : OK(q, i)
  BY <1>1 DEF Follows
<1>8. LeadsTo(choices, p, v) <=> DrawsIn(q) <= Len(choices) /\ OK(q, n + 1)
  BY <1>5 DEF LeadsTo, q
<1> HIDE DEF OK
<1>9. (\A i \in 1 .. n + 1 : OK(q, i)) <=> (\A i \in 1 .. n : OK(q, i)) /\ OK(q, n + 1)
  BY <1>1
<1>10. DrawsIn(q) <= Len(choices) => DrawsIn(p) <= Len(choices)
  BY <1>2
<1>11. Follows(choices, q) <=> Follows(choices, p) /\ LeadsTo(choices, p, v)
  BY <1>4, <1>6, <1>7, <1>8, <1>9, <1>10
<1> QED
  BY <1>3, <1>11 DEF q

\* The place of a node from which a value leads to another is where a step that allows the
\* value is known.
LEMMA ComesFrom ==
  ASSUME NEW t, Shaped(t), Linked(t), NEW known, known = Unfolded(Recorded(t)),
         NEW p \in Trie!Positions, NEW v \in Values \cup {KillMark},
         NEW m \in DOMAIN t, NEW j \in 0 .. Len(t[m].values),
         Append(p, v) = PosIn(m, t[m], j)
  PROVE  p \in DOMAIN known /\ v \in Trie!Allowed(known[p])
<1> DEFINE V == Values \cup {KillMark}
<1>1. Trie!Positions = Seq(V) /\ v \in V /\ Values \subseteq V
  BY DEF Trie!Positions
<1> HIDE DEF V
<1>2. p \in Seq(V)
  BY <1>1
<1>3. Fits(t[m]) /\ Len(t[m].values) \in Nat
  BY NodePlaces
<1>4. CASE j > 0
  <2> DEFINE q == PosIn(m, t[m], j - 1)
             w == t[m].values[j]
  <2>1. j - 1 \in 0 .. Len(t[m].values) /\ j \in 1 .. Len(t[m].values)
    BY <1>3, <1>4
  <2>2. q \in Seq(V) /\ w \in V /\ Append(p, v) = Append(q, w)
    <3>1. q \in Trie!Positions
      BY <2>1, PlacesType
    <3>2. PosIn(m, t[m], j) = Append(q, w) /\ w \in Values
      BY <1>4, PlacesType
    <3> QED
      BY <3>1, <3>2, <1>1
  <2>3. q \in DOMAIN known /\ known[q] = StepIn(t[m], j)
    BY <2>1, KnownSteps
  <2>4. w \in Trie!Allowed(StepIn(t[m], j))
    BY <2>1, <1>3, AllowedSteps
  <2> HIDE DEF q, w
  <2>5. p = q /\ v = w
    BY <2>2, <1>1, <1>2, AppendInjective
  <2> QED
    BY <2>3, <2>4, <2>5
<1>5. CASE j = 0
  <2>1. PosIn(m, t[m], j) = m
    BY <1>5, PlacesType
  <2>2. m # <<>>
    BY <2>1, <1>1, <1>2, AppendProperties
  <2>3. PICK k \in DOMAIN t : \E w \in Exits(t[k]) : m = Append(PosAfter(k, t[k]), w)
    BY <2>2 DEF Linked, Entered
  <2>4. PICK w \in Exits(t[k]) : m = Append(PosAfter(k, t[k]), w)
    BY <2>3
  <2>5. w \in V /\ PosAfter(k, t[k]) \in Seq(V) /\ Append(p, v) = Append(PosAfter(k, t[k]), w)
    <3>1. Exits(t[k]) \subseteq Values \cup {KillMark} /\ PosAfter(k, t[k]) \in Trie!Positions
      BY NodePlaces
    <3> QED
      BY <3>1, <2>1, <2>4, <1>1 DEF V
  <2>6. t[k].trans.op # "none" /\ Fits(t[k])
    BY <2>4 DEF Exits, Shaped
  <2>7. PosAfter(k, t[k]) \in DOMAIN known /\ known[PosAfter(k, t[k])] = StepOut(t[k])
    BY <2>6, KnownSteps
  <2>8. w \in Trie!Allowed(StepOut(t[k]))
    BY <2>6, AllowedSteps
  <2>9. p = PosAfter(k, t[k]) /\ v = w
    BY <2>5, <1>1, <1>2, AppendInjective
  <2> QED
    BY <2>7, <2>8, <2>9
<1> QED
  BY <1>3, <1>4, <1>5

\* A draw that was not forced, and any other step.
FreeDraw(s) == s.op = "draw" /\ s.forced = NoValue

\* What is known of a tree: at positions, steps which allow values of their kind, or a
\* single one when nothing was drawn freely.
LEMMA KnownTypes ==
  ASSUME NEW t, Shaped(t), Linked(t), NEW known, known = Unfolded(Recorded(t)),
         NEW q \in DOMAIN known
  PROVE  /\ q \in Trie!Positions
         /\ Trie!Allowed(known[q]) \subseteq Values \cup {KillMark}
         /\ \A v, w \in Trie!Allowed(known[q]) : v = w \/ FreeDraw(known[q])
         /\ FreeDraw(known[q]) => Trie!Allowed(known[q]) \subseteq Values
         /\ \E m \in DOMAIN t : \E j \in 0 .. Len(t[m].values) : q = PosIn(m, t[m], j)
<1>0. Children \in [Kinds -> SUBSET Values] /\ KillMark \notin Values /\ NoValue \notin Values
  BY TrieParameters DEF Trie!TrieConstants
<1>1. PICK n \in DOMAIN t :
        \/ \E i \in 1 .. Len(t[n].values) : q = PosIn(n, t[n], i - 1)
        \/ t[n].trans.op # "none" /\ q = PosAfter(n, t[n])
  BY KnownPlaces
<1> DEFINE nd == t[n]
<1>2. /\ Fits(nd) /\ Len(nd.values) \in Nat
      /\ Len(nd.values) \in 0 .. Len(nd.values)
      /\ PosIn(n, nd, Len(nd.values)) = PosAfter(n, nd)
      /\ PosAfter(n, nd) \in Trie!Positions
  BY NodePlaces
<1>3. CASE \E i \in 1 .. Len(nd.values) : q = PosIn(n, nd, i - 1)
  <2>1. PICK i \in 1 .. Len(nd.values) : q = PosIn(n, nd, i - 1)
    BY <1>3
  <2>2. i - 1 \in 0 .. Len(nd.values)
    BY <1>2
  <2>3. q \in Trie!Positions
    BY <2>1, <2>2, PlacesType
  <2>4. known[q] = StepIn(nd, i)
    BY <2>1, KnownSteps
  <2>5. nd.kinds[i] \in Kinds /\ nd.values[i] \in Values
    <3>1. nd.kinds \in Seq(Kinds) /\ nd.values \in Seq(Values) /\ Len(nd.kinds) = Len(nd.values)
      BY <1>2 DEF Fits, Node
    <3> QED
      BY <3>1, ElementOfSeq
  <2>6. Trie!Allowed(known[q]) = IF i \in nd.forced THEN {nd.values[i]} ELSE Children[nd.kinds[i]]
    BY <2>4, <1>2, AllowedSteps
  <2>7. i \notin nd.forced => FreeDraw(known[q])
    BY <2>4 DEF FreeDraw, StepIn
  <2> QED
    BY <2>1, <2>2, <2>3, <2>5, <2>6, <2>7, <1>0
<1>4. CASE nd.trans.op # "none" /\ q = PosAfter(n, nd)
  <2>1. known[q] = StepOut(nd)
    BY <1>4, KnownSteps
  <2>2. ASSUME nd.trans.op = "branch"
        PROVE  FreeDraw(known[q]) /\ Trie!Allowed(known[q]) \subseteq Values
    <3>1. nd.trans.kind \in Kinds
      BY <2>2, <1>2 DEF Fits, Node, Transitions, Branch, Trie!Kill, Trie!Conclude
    <3>2. Trie!Allowed(known[q]) = Children[nd.trans.kind]
      BY <2>1, <2>2, <1>2, AllowedSteps
    <3> QED
      BY <3>1, <3>2, <2>1, <2>2, <1>0 DEF FreeDraw, StepOut
  <2>3. ASSUME nd.trans.op # "branch"
        PROVE  Trie!Allowed(known[q]) \in {{}, {KillMark}} /\ ~FreeDraw(known[q])
    <3>1. nd.trans.op \in {"kill", "conclude"}
      BY <2>3, <1>2, <1>4, AllowedSteps
    <3> QED
      BY <3>1, <2>1, <1>2, AllowedSteps DEF FreeDraw, StepOut
  <2> QED
    BY <2>2, <2>3, <1>2, <1>4
<1> QED
  BY <1>1, <1>3, <1>4

\* The tree is faithful to the test function.
Faithful == /\ Shaped(tree) /\ Linked(tree) /\ Bounded(tree)
            /\ prog = Unfolded(Recorded(tree))

\* The positions to which the choices lead the test function, as far as it is known.
Reached(choices) == {p \in DOMAIN prog \cup Trie!Edge(prog) : Follows(choices, p)}

\* They begin at the start, and each but that is reached from the one before it.
LEMMA ReachedNext ==
  ASSUME Faithful, NEW choices \in Seq(Values)
  PROVE  /\ <<>> \in Reached(choices)
         /\ Reached(choices) \subseteq Trie!Positions
         /\ \A p \in Trie!Positions, v \in Values \cup {KillMark} :
              Append(p, v) \in Reached(choices) <=>
                /\ p \in Reached(choices) /\ p \in DOMAIN prog
                /\ v \in Trie!Allowed(prog[p])
                /\ LeadsTo(choices, p, v)
<1> DEFINE V == Values \cup {KillMark}
<1>0. Trie!Positions = Seq(V) /\ Values \cup {KillMark} = V
  BY DEF Trie!Positions
<1>1. Shaped(tree) /\ Linked(tree) /\ prog = Unfolded(Recorded(tree)) /\ Len(choices) \in Nat
  BY LenProperties DEF Faithful
<1>2. \A q \in DOMAIN prog :
        /\ q \in Trie!Positions
        /\ Trie!Allowed(prog[q]) \subseteq V
        /\ \E m \in DOMAIN tree : \E j \in 0 .. Len(tree[m].values) : q = PosIn(m, tree[m], j)
  BY <1>1, KnownTypes
<1> HIDE DEF V
<1>3. <<>> \in Seq(V) /\ \A q \in Seq(V), w \in V : Append(q, w) \in Seq(V) /\ Append(q, w) # <<>>
  BY EmptySeq, AppendProperties
<1>4. \A q \in Trie!Edge(prog) : q = <<>> \/ \E p \in DOMAIN prog : \E w \in Trie!Allowed(prog[p]) : q = Append(p, w)
  BY DEF Trie!Edge
<1>5. \A p \in DOMAIN prog : \A w \in Trie!Allowed(prog[p]) :
        Append(p, w) \in DOMAIN prog \cup Trie!Edge(prog)
  BY DEF Trie!Edge
<1>6. <<>> \in DOMAIN prog \cup Trie!Edge(prog)
  BY DEF Trie!Edge
<1>7. \A p \in Trie!Positions, v \in V :
        Follows(choices, Append(p, v)) <=> Follows(choices, p) /\ LeadsTo(choices, p, v)
  BY <1>0, <1>1, FollowsOn
<1>8. <<>> \in Reached(choices)
  <2>1. Follows(choices, <<>>)
    <3>1. <<>> \in Trie!Positions /\ KillMark \in Values \cup {KillMark}
      BY <1>0, <1>3
    <3> QED
      BY <3>1, <1>1, FollowsOn
  <2> QED
    BY <2>1, <1>6 DEF Reached
<1>9. Reached(choices) \subseteq Trie!Positions
  <2>1. ASSUME NEW q \in Trie!Edge(prog) PROVE q \in Seq(V)
    <3>1. CASE q = <<>>
      BY <3>1, <1>3
    <3>2. ASSUME NEW p \in DOMAIN prog, NEW w \in Trie!Allowed(prog[p]), q = Append(p, w)
          PROVE  q \in Seq(V)
      <4>1. p \in Seq(V) /\ w \in V
        BY <1>0, <1>2
      <4> QED
        BY <4>1, <3>2, <1>3
    <3> QED
      BY <3>1, <3>2, <1>4
  <2>2. \A q \in DOMAIN prog : q \in Seq(V)
    BY <1>0, <1>2
  <2> QED
    BY <2>1, <2>2, <1>0 DEF Reached
<1>10. ASSUME NEW p \in Trie!Positions, NEW v \in V, Append(p, v) \in Reached(choices)
       PROVE  p \in DOMAIN prog /\ v \in Trie!Allowed(prog[p])
  <2>1. CASE Append(p, v) \in DOMAIN prog
    <3>1. PICK m \in DOMAIN tree : \E j \in 0 .. Len(tree[m].values) : Append(p, v) = PosIn(m, tree[m], j)
      BY <2>1, <1>2
    <3>2. PICK j \in 0 .. Len(tree[m].values) : Append(p, v) = PosIn(m, tree[m], j)
      BY <3>1
    <3>3. v \in Values \cup {KillMark}
      BY DEF V
    <3> QED
      BY <3>2, <3>3, <1>1, ComesFrom
  <2>2. CASE Append(p, v) \in Trie!Edge(prog)
    <3>1. p \in Seq(V) /\ Append(p, v) # <<>>
      BY <1>0, <1>3
    <3>2. PICK q \in DOMAIN prog : \E w \in Trie!Allowed(prog[q]) : Append(p, v) = Append(q, w)
      BY <3>1, <2>2, <1>4
    <3>3. PICK w \in Trie!Allowed(prog[q]) : Append(p, v) = Append(q, w)
      BY <3>2
    <3>4. q \in Seq(V) /\ w \in V
      BY <1>0, <1>2
    <3>5. p = q /\ v = w
      BY <3>1, <3>3, <3>4, AppendInjective
    <3> QED
      BY <3>5
  <2> QED
    BY <2>1, <2>2, <1>10 DEF Reached
<1>11. ASSUME NEW p \in Trie!Positions, NEW v \in V
       PROVE  Append(p, v) \in Reached(choices) <=>
                /\ p \in Reached(choices) /\ p \in DOMAIN prog
                /\ v \in Trie!Allowed(prog[p])
                /\ LeadsTo(choices, p, v)
  BY <1>5, <1>7, <1>10 DEF Reached
<1> QED
  BY <1>0, <1>8, <1>9, <1>11

\* From a position the choices lead to one other at most.
LEMMA OneWayOn ==
  ASSUME Faithful, NEW choices \in Seq(Values), NEW p \in Trie!Positions,
         NEW v \in Values \cup {KillMark}, Append(p, v) \in Reached(choices),
         NEW w \in Values \cup {KillMark}, Append(p, w) \in Reached(choices)
  PROVE  v = w
<1>1. /\ p \in DOMAIN prog
      /\ v \in Trie!Allowed(prog[p]) /\ LeadsTo(choices, p, v)
      /\ w \in Trie!Allowed(prog[p]) /\ LeadsTo(choices, p, w)
  BY ReachedNext
<1>2. v = w \/ FreeDraw(prog[p])
  BY <1>1, KnownTypes DEF Faithful
<1>3. ASSUME FreeDraw(prog[p]) PROVE v = w
  <2>1. prog[p].op = "draw" /\ prog[p].forced = NoValue
    BY <1>3 DEF FreeDraw
  <2>2. \A x \in Trie!Allowed(prog[p]) : x # KillMark
    <3>1. KillMark \notin Values
      BY TrieParameters DEF Trie!TrieConstants
    <3>2. Trie!Allowed(prog[p]) \subseteq Values
      BY <1>1, <1>3, KnownTypes DEF Faithful
    <3> QED
      BY <3>1, <3>2
  <2>3. /\ DrawsIn(Append(p, v)) = DrawsIn(p) + 1
        /\ DrawsIn(Append(p, w)) = DrawsIn(p) + 1
    BY <2>2, <1>1, DrawsAppended
  <2> QED
    BY <2>1, <2>3, <1>1 DEF LeadsTo
<1> QED
  BY <1>2, <1>3

\* A position that was reached is the start, or comes from one.
LEMMA ReachedBefore ==
  ASSUME Faithful, NEW choices \in Seq(Values), NEW p \in Reached(choices), Len(p) # 0
  PROVE  \E q \in Reached(choices), v \in Values \cup {KillMark} :
           q \in Trie!Positions /\ p = Append(q, v) /\ Len(p) = Len(q) + 1
<1> DEFINE V == Values \cup {KillMark}
<1>1. Trie!Positions = Seq(V) /\ p \in Trie!Positions
  BY ReachedNext DEF Trie!Positions
<1> HIDE DEF V
<1>2. p \in Seq(V) /\ p # <<>>
  BY <1>1, EmptySeq
<1>3. PICK q \in Seq(V), v \in V : p = Append(q, v)
  BY <1>2, SequenceEmptyOrAppend
<1>4. Len(p) = Len(q) + 1
  BY <1>3, AppendProperties
<1>5. v \in Values \cup {KillMark} /\ q \in Trie!Positions
  BY <1>1 DEF V
<1>6. q \in Reached(choices)
  BY <1>3, <1>5, ReachedNext
<1> QED
  BY <1>3, <1>4, <1>5, <1>6

\* The positions reached follow each other: none are equally long.
LEMMA ReachedOnce ==
  ASSUME Faithful, NEW choices \in Seq(Values),
         NEW p \in Reached(choices), NEW q \in Reached(choices), Len(p) = Len(q)
  PROVE  p = q
<1> DEFINE R == Reached(choices)
           T == {k \in Nat : \E x \in R, y \in R : Len(x) = k /\ Len(y) = k /\ x # y}
<1>1. \A x \in R : x \in Trie!Positions /\ Len(x) \in Nat
  BY ReachedNext, LenProperties DEF Trie!Positions
<1>2. ASSUME T # {} PROVE FALSE
  <2>1. PICK k \in T : \A h \in T : k <= h
    <3>1. T \in SUBSET Nat
      OBVIOUS
    <3> HIDE DEF T
    <3> QED
      BY <3>1, <1>2, Least
  <2>2. PICK x \in R, y \in R : Len(x) = k /\ Len(y) = k /\ x # y
    BY <2>1
  <2>3. CASE k = 0
    <3>1. x = <<>> /\ y = <<>>
      BY <2>2, <2>3, <1>1, EmptySeq DEF Trie!Positions
    <3> QED
      BY <3>1, <2>2
  <2>4. CASE k # 0
    <3>1. PICK a \in R, v \in Values \cup {KillMark} :
            a \in Trie!Positions /\ x = Append(a, v) /\ Len(x) = Len(a) + 1
      BY <2>2, <2>4, ReachedBefore
    <3>2. PICK b \in R, w \in Values \cup {KillMark} :
            b \in Trie!Positions /\ y = Append(b, w) /\ Len(y) = Len(b) + 1
      BY <2>2, <2>4, ReachedBefore
    <3>3. Len(a) = Len(b) /\ Len(a) \in Nat /\ Len(a) < k
      BY <3>1, <3>2, <2>2, <1>1
    <3>4. a = b
      <4>1. Len(a) \notin T
        BY <3>3, <2>1
      <4> QED
        BY <4>1, <3>3
    <3>5. v = w
      BY <3>1, <3>2, <3>4, OneWayOn
    <3> QED
      BY <3>1, <3>2, <3>4, <3>5, <2>2
  <2> QED
    BY <2>3, <2>4
<1>3. Len(p) \in Nat /\ (p # q => Len(p) \in T)
  BY <1>1
<1> QED
  BY <1>2, <1>3

\* A position from which the choices lead no further is where the run is last known to be.
LEMMA LastReached ==
  ASSUME Faithful, NEW choices \in Seq(Values), NEW p \in Reached(choices),
         \A v \in Values \cup {KillMark} : Append(p, v) \notin Reached(choices)
  PROVE  Longest(Reached(choices)) = p
<1> DEFINE R == Reached(choices)
           T == {k \in Nat : k > Len(p) /\ \E x \in R : Len(x) = k}
<1>1. \A x \in R : x \in Trie!Positions /\ Len(x) \in Nat
  BY ReachedNext, LenProperties DEF Trie!Positions
<1>2. ASSUME T # {} PROVE FALSE
  <2>1. PICK k \in T : \A h \in T : k <= h
    <3>1. T \in SUBSET Nat
      OBVIOUS
    <3> HIDE DEF T
    <3> QED
      BY <3>1, <1>2, Least
  <2>2. PICK x \in R : Len(x) = k
    BY <2>1
  <2>3. PICK a \in R, v \in Values \cup {KillMark} :
          a \in Trie!Positions /\ x = Append(a, v) /\ Len(x) = Len(a) + 1
    <3>1. Len(x) # 0
      BY <2>1, <2>2, <1>1
    <3> QED
      BY <3>1, ReachedBefore
  <2>4. Len(a) \notin T
    BY <2>1, <2>2, <2>3, <1>1
  <2>5. Len(a) = Len(p)
    BY <2>1, <2>2, <2>3, <2>4, <1>1
  <2>6. a = p
    BY <2>5, ReachedOnce
  <2> QED
    BY <2>3, <2>6
<1>3. \A x \in R : Len(x) <= Len(p)
  BY <1>1, <1>2
<1> HIDE DEF R, T
<1> DEFINE c == CHOOSE x \in R : \A y \in R : Len(y) <= Len(x)
<1>4. p \in R
  BY DEF R
<1>5. c \in R /\ \A y \in R : Len(y) <= Len(c)
  BY <1>3, <1>4
<1> HIDE DEF c
<1>6. Len(c) = Len(p)
  BY <1>1, <1>3, <1>4, <1>5
<1>7. c = p
  BY <1>4, <1>5, <1>6, ReachedOnce DEF R
<1> QED
  BY <1>7 DEF Longest, c, R

-----------------------------------------------------------------------------
\* Where a run is last known to be, and what it gives.

\* What a draw makes of a choice is one of its values.
LEMMA FitIsChild ==
  ASSUME NEW k \in Kinds, NEW c
  PROVE  Fit(k, c) \in Children[k] /\ Fit(k, c) \in Values
<1>1. Children[k] # {}
  BY TreeConstants
<1>2. Children[k] \subseteq Values
  BY TrieParameters DEF Trie!TrieConstants
<1>3. Fit(k, c) \in Children[k]
  BY <1>1 DEF Fit
<1> QED
  BY <1>2, <1>3

\* The run is last known to be at a position of which nothing is known,
LEMMA ReplayUnseen ==
  ASSUME Faithful, NEW choices \in Seq(Values), NEW p \in Reached(choices), p \notin DOMAIN prog
  PROVE  Replay(choices) = "unseen"
<1>1. p \in Trie!Positions
  BY ReachedNext
<1>2. Longest(Reached(choices)) = p
  <2>1. \A v \in Values \cup {KillMark} : Append(p, v) \notin Reached(choices)
    BY <1>1, ReachedNext
  <2> QED
    BY <2>1, LastReached
<1> QED
  BY <1>2 DEF Replay, Reached

\* or at a draw for which no choice is left,
LEMMA ReplayOverrun ==
  ASSUME Faithful, NEW choices \in Seq(Values), NEW p \in Reached(choices),
         p \in DOMAIN prog, prog[p].op = "draw", KillMark \notin Trie!Allowed(prog[p]),
         DrawsIn(p) = Len(choices)
  PROVE  Replay(choices) = "overrun"
<1>1. p \in Trie!Positions
  BY ReachedNext
<1>2. Longest(Reached(choices)) = p
  <2>1. ASSUME NEW v \in Values \cup {KillMark}, Append(p, v) \in Reached(choices) PROVE FALSE
    <3>1. v # KillMark /\ DrawsIn(Append(p, v)) <= Len(choices)
      BY <2>1, <1>1, ReachedNext DEF LeadsTo
    <3>2. DrawsIn(p) \in Nat /\ DrawsIn(Append(p, v)) = DrawsIn(p) + 1
      BY <3>1, <1>1, DrawsAppended
    <3> QED
      BY <3>1, <3>2
  <2> QED
    BY <2>1, LastReached
<1> QED
  BY <1>2 DEF Replay, Reached

\* or where the test function concludes.
LEMMA ReplayConcludes ==
  ASSUME Faithful, NEW choices \in Seq(Values), NEW p \in Reached(choices),
         p \in DOMAIN prog, prog[p].op = "conclude"
  PROVE  Replay(choices) = prog[p].as
<1>1. p \in Trie!Positions
  BY ReachedNext
<1>2. Longest(Reached(choices)) = p
  <2>1. Trie!Allowed(prog[p]) = {}
    BY DEF Trie!Allowed
  <2>2. \A v \in Values \cup {KillMark} : Append(p, v) \notin Reached(choices)
    BY <2>1, <1>1, ReachedNext
  <2> QED
    BY <2>2, LastReached
<1> QED
  BY <1>2 DEF Replay, Reached

\* A draw goes on with the next choice.
LEMMA DrawGoesOn ==
  ASSUME Faithful, NEW choices \in Seq(Values), NEW p \in Reached(choices),
         p \in DOMAIN prog, FreeDraw(prog[p]), prog[p].kind \in Kinds,
         DrawsIn(p) < Len(choices),
         NEW v, v = Fit(prog[p].kind, choices[DrawsIn(p) + 1])
  PROVE  Append(p, v) \in Reached(choices)
<1>1. p \in Trie!Positions
  BY ReachedNext
<1>2. v \in Children[prog[p].kind] /\ v \in Values
  BY FitIsChild
<1>3. v # KillMark /\ v \in Values \cup {KillMark}
  BY <1>2, TrieParameters DEF Trie!TrieConstants
<1>4. DrawsIn(p) \in Nat /\ DrawsIn(Append(p, v)) = DrawsIn(p) + 1
  BY <1>1, <1>3, DrawsAppended
<1>5. v \in Trie!Allowed(prog[p])
  BY <1>2 DEF FreeDraw, Trie!Allowed
<1>6. LeadsTo(choices, p, v)
  <2>1. DrawsIn(Append(p, v)) <= Len(choices)
    BY <1>4, LenProperties
  <2>2. v = Fit(prog[p].kind, choices[DrawsIn(Append(p, v))])
    BY <1>4
  <2> QED
    BY <2>1, <2>2 DEF LeadsTo
<1> QED
  BY <1>1, <1>3, <1>5, <1>6, ReachedNext

\* In a node one value is drawn from each place to the next.
LEMMA PlaceDraws ==
  ASSUME NEW t, Shaped(t), NEW n \in DOMAIN t, NEW i \in 0 .. Len(t[n].values)
  PROVE  DrawsIn(n) \in Nat /\ DrawsIn(PosIn(n, t[n], i)) = DrawsIn(n) + i
<1> DEFINE L == Len(t[n].values)
           P(k) == PosIn(n, t[n], k)
           T == {k \in Nat : k <= i /\ DrawsIn(P(k)) # DrawsIn(n) + k}
<1>1. n \in Trie!Positions /\ L \in Nat /\ P(0) = n
  BY NodePlaces
<1>2. DrawsIn(n) \in Nat
  <2>1. KillMark \in Values \cup {KillMark}
    OBVIOUS
  <2> QED
    BY <2>1, <1>1, DrawsAppended
<1>3. ASSUME NEW k \in 1 .. L PROVE DrawsIn(P(k)) = DrawsIn(P(k - 1)) + 1
  <2> DEFINE p == P(k - 1)
             v == t[n].values[k]
  <2>1. k \in 0 .. L /\ k - 1 \in 0 .. L /\ k > 0
    BY <1>1
  <2>2. P(k) = Append(p, v) /\ v \in Values
    BY <2>1, PlacesType
  <2>3. p \in Trie!Positions
    BY <2>1, PlacesType
  <2>4. v # KillMark /\ v \in Values \cup {KillMark}
    BY <2>2, TrieParameters DEF Trie!TrieConstants
  <2> HIDE DEF p, v, P
  <2>5. DrawsIn(Append(p, v)) = DrawsIn(p) + 1
    BY <2>3, <2>4, DrawsAppended
  <2> QED
    BY <2>2, <2>5 DEF p
<1> HIDE DEF P
<1>4. ASSUME T # {} PROVE FALSE
  <2>1. PICK k \in T : \A h \in T : k <= h
    <3>1. T \in SUBSET Nat
      OBVIOUS
    <3> HIDE DEF T
    <3> QED
      BY <3>1, <1>4, Least
  <2>2. k # 0
    BY <2>1, <1>1, <1>2
  <2>3. k - 1 \in Nat /\ k - 1 < k /\ k \in 1 .. L /\ k - 1 <= i
    BY <2>1, <2>2, <1>1
  <2>4. DrawsIn(P(k - 1)) = DrawsIn(n) + (k - 1)
    BY <2>1, <2>3
  <2>5. DrawsIn(P(k)) = DrawsIn(n) + k
    BY <2>3, <2>4, <1>2, <1>3
  <2> QED
    BY <2>1, <2>5
<1>5. i \in Nat /\ i <= i
  BY <1>1
<1>6. DrawsIn(P(i)) = DrawsIn(n) + i
  BY <1>4, <1>5
<1> QED
  BY <1>2, <1>6 DEF P

\* The choices give the i-th value of node n another value.
DiffersAt(choices, n, i) ==
  /\ DrawsIn(n) + i <= Len(choices) /\ MayDiffer(tree[n], i)
  /\ Fit(tree[n].kinds[i], choices[DrawsIn(n) + i]) # tree[n].values[i]

\* The step before the i-th value of a node, where the simulation draws.
LEMMA StepAt ==
  ASSUME Faithful, NEW n \in DOMAIN tree, NEW i \in 1 .. Len(tree[n].values),
         NEW p, p = PosIn(n, tree[n], i - 1)
  PROVE  /\ p \in DOMAIN prog /\ prog[p] = StepIn(tree[n], i)
         /\ prog[p].op = "draw" /\ prog[p].kind = tree[n].kinds[i] /\ prog[p].kind \in Kinds
         /\ FreeDraw(prog[p]) <=> MayDiffer(tree[n], i)
         /\ tree[n].values[i] \in Values /\ tree[n].values[i] \in Trie!Allowed(prog[p])
         /\ KillMark \notin Trie!Allowed(prog[p])
<1> DEFINE nd == tree[n]
<1>0. Children \in [Kinds -> SUBSET Values] /\ KillMark \notin Values /\ NoValue \notin Values
  BY TrieParameters DEF Trie!TrieConstants
<1>1. p \in DOMAIN prog /\ prog[p] = StepIn(nd, i)
  BY KnownSteps DEF Faithful
<1>2. Fits(nd)
  BY DEF Faithful, Shaped
<1>3. nd.kinds[i] \in Kinds /\ nd.values[i] \in Values
  <2>1. nd.kinds \in Seq(Kinds) /\ nd.values \in Seq(Values) /\ Len(nd.kinds) = Len(nd.values)
    BY <1>2 DEF Fits, Node
  <2> QED
    BY <2>1, ElementOfSeq
<1>4. /\ Trie!Allowed(StepIn(nd, i)) = IF i \in nd.forced THEN {nd.values[i]} ELSE Children[nd.kinds[i]]
      /\ nd.values[i] \in Trie!Allowed(StepIn(nd, i))
  BY <1>2, AllowedSteps
<1>5. /\ StepIn(nd, i).op = "draw" /\ StepIn(nd, i).kind = nd.kinds[i]
      /\ StepIn(nd, i).forced = IF i \in nd.forced THEN nd.values[i] ELSE NoValue
  BY DEF StepIn
<1>6. nd.values[i] # NoValue
  BY <1>0, <1>3
<1>7. FreeDraw(StepIn(nd, i)) <=> MayDiffer(nd, i)
  BY <1>5, <1>6 DEF FreeDraw, MayDiffer
<1>8. KillMark \notin Trie!Allowed(StepIn(nd, i))
  BY <1>0, <1>3, <1>4
<1> QED
  BY <1>1, <1>3, <1>4, <1>5, <1>7, <1>8

\* As long as the choices give the values of a node again, they lead along it.
LEMMA NodeReached ==
  ASSUME Faithful, NEW choices \in Seq(Values), NEW n \in DOMAIN tree, n \in Reached(choices),
         NEW i \in 0 .. Len(tree[n].values), DrawsIn(n) + i <= Len(choices),
         \A j \in 1 .. i : ~DiffersAt(choices, n, j)
  PROVE  PosIn(n, tree[n], i) \in Reached(choices)
<1> DEFINE L == Len(tree[n].values)
           P(k) == PosIn(n, tree[n], k)
           T == {k \in Nat : k <= i /\ P(k) \notin Reached(choices)}
<1>0. Shaped(tree) /\ Len(choices) \in Nat
  BY LenProperties DEF Faithful
<1>1. L \in Nat /\ P(0) = n
  BY <1>0, NodePlaces
<1>2. DrawsIn(n) \in Nat /\ \A k \in 0 .. L : DrawsIn(P(k)) = DrawsIn(n) + k
  <2>1. 0 \in 0 .. L
    BY <1>1
  <2> QED
    BY <2>1, <1>0, PlaceDraws
<1>3. ASSUME NEW k \in 1 .. i, P(k - 1) \in Reached(choices) PROVE P(k) \in Reached(choices)
  <2> DEFINE p == P(k - 1)
             v == tree[n].values[k]
  <2>1. k \in 0 .. L /\ k - 1 \in 0 .. L /\ k > 0 /\ k \in 1 .. L
    BY <1>1
  <2>2. P(k) = Append(p, v)
    BY <2>1, <1>0, PlacesType
  <2>3. p \in Trie!Positions
    BY <2>1, <1>0, PlacesType
  <2>4. /\ p \in DOMAIN prog /\ prog[p].kind = tree[n].kinds[k]
        /\ FreeDraw(prog[p]) <=> MayDiffer(tree[n], k)
        /\ v \in Values /\ v \in Trie!Allowed(prog[p])
    BY <2>1, StepAt
  <2>5. DrawsIn(P(k)) = DrawsIn(n) + k /\ DrawsIn(n) + k <= Len(choices)
    BY <2>1, <1>0, <1>2
  <2>6. ASSUME FreeDraw(prog[p])
        PROVE  v = Fit(prog[p].kind, choices[DrawsIn(P(k))])
    BY <2>4, <2>5, <2>6 DEF DiffersAt
  <2> HIDE DEF p, v, P
  <2>7. LeadsTo(choices, p, v)
    BY <2>2, <2>5, <2>6 DEF LeadsTo, FreeDraw
  <2>8. Append(p, v) \in Reached(choices)
    BY <2>3, <2>4, <2>7, <1>3, ReachedNext DEF p
  <2> QED
    BY <2>2, <2>8
<1> HIDE DEF P
<1>4. ASSUME T # {} PROVE FALSE
  <2>1. PICK k \in T : \A h \in T : k <= h
    <3>1. T \in SUBSET Nat
      OBVIOUS
    <3> HIDE DEF T
    <3> QED
      BY <3>1, <1>4, Least
  <2>2. k # 0
    BY <2>1, <1>1
  <2>3. k - 1 \in Nat /\ k - 1 < k /\ k \in 1 .. i /\ k - 1 <= i
    BY <2>1, <2>2, <1>1
  <2>4. P(k - 1) \in Reached(choices)
    BY <2>1, <2>3
  <2> QED
    BY <2>1, <2>3, <2>4, <1>3
<1>5. i \in Nat /\ i <= i
  BY <1>1
<1>6. P(i) \in Reached(choices)
  BY <1>4, <1>5
<1> QED
  BY <1>6 DEF P

\* What is no place of the tree is not known.
LEMMA PlacesOnly ==
  ASSUME Faithful, NEW p,
         \A m \in DOMAIN tree : \A j \in 0 .. Len(tree[m].values) : p # PosIn(m, tree[m], j)
  PROVE  p \notin DOMAIN prog
BY KnownTypes DEF Faithful

\* The result of simulating a node is that of the run when a value differs,
LEMMA NodeDiffers ==
  ASSUME Faithful, NEW choices \in Seq(Values), NEW n \in DOMAIN tree, n \in Reached(choices),
         NEW d \in 1 .. Len(tree[n].values), DiffersAt(choices, n, d)
  PROVE  Replay(choices) = "unseen"
<1> DEFINE L == Len(tree[n].values)
           T == {k \in 1 .. L : DiffersAt(choices, n, k)}
<1>0. Shaped(tree) /\ Linked(tree) /\ Len(choices) \in Nat
  BY LenProperties DEF Faithful
<1>1. L \in Nat
  BY <1>0, NodePlaces
<1>2. PICK i \in T : \A h \in T : i <= h
  <2>1. T \in SUBSET Nat /\ T # {}
    BY <1>1
  <2> HIDE DEF T
  <2> QED
    BY <2>1, Least
<1> DEFINE p == PosIn(n, tree[n], i - 1)
           v == Fit(tree[n].kinds[i], choices[DrawsIn(n) + i])
<1>3. /\ i \in 1 .. L /\ i - 1 \in 0 .. L
      /\ DrawsIn(n) + i <= Len(choices) /\ MayDiffer(tree[n], i) /\ v # tree[n].values[i]
      /\ \A j \in 1 .. i - 1 : ~DiffersAt(choices, n, j)
  <2>1. i \in 1 .. L /\ i - 1 \in 0 .. L
    BY <1>1, <1>2
  <2>2. \A j \in 1 .. i - 1 : ~DiffersAt(choices, n, j)
    BY <1>1, <1>2
  <2> QED
    BY <2>1, <2>2, <1>2 DEF DiffersAt
<1>4. DrawsIn(n) \in Nat /\ DrawsIn(p) = DrawsIn(n) + (i - 1)
  BY <1>0, <1>3, PlaceDraws
<1>5. p \in Reached(choices)
  <2>1. DrawsIn(n) + (i - 1) <= Len(choices)
    BY <1>0, <1>3, <1>4
  <2> QED
    BY <2>1, <1>3, NodeReached
<1>6. /\ p \in DOMAIN prog /\ FreeDraw(prog[p])
      /\ prog[p].kind = tree[n].kinds[i] /\ prog[p].kind \in Kinds
  BY <1>3, StepAt
<1>7. v \in Values
  BY <1>6, FitIsChild
<1>8. v = Fit(prog[p].kind, choices[DrawsIn(p) + 1]) /\ DrawsIn(p) < Len(choices)
  <2>1. DrawsIn(p) + 1 = DrawsIn(n) + i /\ DrawsIn(p) < Len(choices)
    <3>1. i \in Nat
      BY <1>1, <1>3
    <3> HIDE DEF p, v, L, T
    <3> QED
      BY <3>1, <1>0, <1>3, <1>4
  <2> QED
    BY <2>1, <1>6
<1>9. Append(p, v) \notin DOMAIN prog
  <2>1. \A m \in DOMAIN tree : \A j \in 0 .. Len(tree[m].values) : Append(p, v) # PosIn(m, tree[m], j)
    BY <1>0, <1>3, <1>7, OtherUnvisited
  <2> QED
    BY <2>1, PlacesOnly
<1> HIDE DEF p, v
<1>10. Append(p, v) \in Reached(choices)
  BY <1>5, <1>6, <1>8, DrawGoesOn
<1> QED
  BY <1>9, <1>10, ReplayUnseen

\* when the choices run out,
LEMMA NodeOverruns ==
  ASSUME Faithful, NEW choices \in Seq(Values), NEW n \in DOMAIN tree, n \in Reached(choices),
         \A j \in 1 .. Len(tree[n].values) : ~DiffersAt(choices, n, j),
         DrawsIn(n) + Len(tree[n].values) > Len(choices)
  PROVE  Replay(choices) = "overrun"
<1> DEFINE L == Len(tree[n].values)
<1>0. Shaped(tree) /\ Len(choices) \in Nat
  BY LenProperties DEF Faithful
<1>1. L \in Nat
  BY <1>0, NodePlaces
<1>2. DrawsIn(n) \in Nat /\ DrawsIn(n) <= Len(choices)
  <2>1. 0 \in 0 .. L
    BY <1>1
  <2> QED
    BY <2>1, <1>0, PlaceDraws DEF Reached, Follows
<1> DEFINE i == Len(choices) - DrawsIn(n)
           p == PosIn(n, tree[n], i)
<1>3. i \in 0 .. L /\ i + 1 \in 1 .. L /\ DrawsIn(n) + i = Len(choices) /\ i + 1 - 1 = i
  BY <1>0, <1>1, <1>2
<1> HIDE DEF i
<1>4. p \in Reached(choices)
  <2>1. \A j \in 1 .. i : ~DiffersAt(choices, n, j)
    BY <1>1, <1>3
  <2>2. DrawsIn(n) + i <= Len(choices)
    BY <1>0, <1>3
  <2> QED
    BY <2>1, <2>2, <1>3, NodeReached
<1>5. p \in DOMAIN prog /\ prog[p].op = "draw" /\ KillMark \notin Trie!Allowed(prog[p])
  <2>1. p = PosIn(n, tree[n], i + 1 - 1)
    BY <1>3
  <2> HIDE DEF p
  <2> QED
    BY <2>1, <1>3, StepAt
<1>6. DrawsIn(p) = Len(choices)
  BY <1>0, <1>3, PlaceDraws
<1> QED
  BY <1>4, <1>5, <1>6, ReplayOverrun

-----------------------------------------------------------------------------
\* The simulation goes from node to node as the run does from position to position.

\* The simulation goes on to a child.
GoesOn(choices, n) ==
  /\ SimulateNode(choices, n) = "onward"
  /\ ChildValue(choices, n) \in Exits(tree[n])
  /\ Append(PosAfter(n, tree[n]), ChildValue(choices, n)) \in Reached(choices)

\* What simulating a node to which the choices lead gives is what the run gives, unless it
\* goes on to a child, to which the choices lead too.
LEMMA NodeAgrees ==
  ASSUME Faithful, NEW choices \in Seq(Values), NEW n \in DOMAIN tree, n \in Reached(choices)
  PROVE  \/ GoesOn(choices, n)
         \/ /\ SimulateNode(choices, n) = Replay(choices)
            /\ SimulateNode(choices, n) # "onward" \/ Exits(tree[n]) = {}
<1> DEFINE nd == tree[n]
           L == Len(nd.values)
           e == PosAfter(n, nd)
           v == ChildValue(choices, n)
           left == Len(choices) - DrawsIn(n) - L
<1>0. Shaped(tree) /\ Linked(tree) /\ Len(choices) \in Nat /\ prog = Unfolded(Recorded(tree))
  BY LenProperties DEF Faithful
<1>1. /\ Fits(nd) /\ L \in Nat /\ L \in 0 .. L /\ e = PosIn(n, nd, L)
      /\ e \in Trie!Positions /\ Exits(nd) \subseteq Values \cup {KillMark}
  BY <1>0, NodePlaces
<1>2. DrawsIn(n) \in Nat /\ DrawsIn(e) = DrawsIn(n) + L
  BY <1>0, <1>1, PlaceDraws
<1>3. CASE \E i \in 1 .. L : DiffersAt(choices, n, i)
  <2>1. SimulateNode(choices, n) = "unseen"
    BY <1>3 DEF DiffersAt, SimulateNode
  <2>2. Replay(choices) = "unseen"
    BY <1>3, NodeDiffers
  <2> QED
    BY <2>1, <2>2
<1>4. CASE ~(\E i \in 1 .. L : DiffersAt(choices, n, i)) /\ left < 0
  <2>1. SimulateNode(choices, n) = "overrun"
    BY <1>4 DEF DiffersAt, SimulateNode
  <2>2. DrawsIn(n) + L > Len(choices)
    BY <1>0, <1>1, <1>2, <1>4
  <2>3. Replay(choices) = "overrun"
    BY <2>2, <1>4, NodeOverruns
  <2> QED
    BY <2>1, <2>3
<1>5. CASE ~(\E i \in 1 .. L : DiffersAt(choices, n, i)) /\ ~(left < 0)
  <2>1. SimulateNode(choices, n) =
          CASE nd.trans.op = "none" -> "unseen"
            [] nd.trans.op = "conclude" -> nd.trans.as
            [] nd.trans.op = "kill" -> "onward"
            [] OTHER -> IF left = 0 THEN "overrun"
                        ELSE IF v \in nd.trans.children THEN "onward" ELSE "unseen"
    BY <1>5 DEF DiffersAt, SimulateNode
  <2>2. left \in Nat /\ DrawsIn(e) + left = Len(choices)
    BY <1>0, <1>1, <1>2, <1>5
  <2> HIDE DEF left, v
  <2>3. e \in Reached(choices)
    <3>1. DrawsIn(n) + L <= Len(choices)
      BY <2>2, <1>0, <1>1, <1>2
    <3> QED
      BY <3>1, <1>1, <1>5, NodeReached
  <2>4. nd.trans.op # "none" => e \in DOMAIN prog /\ prog[e] = StepOut(nd)
    BY <1>0, KnownSteps
  <2>5. nd.trans.op \in {"none", "branch", "kill", "conclude"}
    BY <1>1, AllowedSteps
  <2>6. CASE nd.trans.op = "none"
    <3>1. e \notin DOMAIN prog
      <4>1. e \in Trie!Edge(prog)
        BY <2>6, <1>0, EndIsEdge
      <4> QED
        BY <4>1 DEF Trie!Edge
    <3>2. Replay(choices) = "unseen"
      BY <3>1, <2>3, ReplayUnseen
    <3> QED
      BY <3>2, <2>1, <2>6
  <2>7. CASE nd.trans.op = "conclude"
    <3>1. prog[e] = nd.trans
      BY <2>4, <2>7 DEF StepOut
    <3>2. Replay(choices) = nd.trans.as
      BY <3>1, <2>3, <2>4, <2>7, ReplayConcludes
    <3>3. Exits(nd) = {}
      BY <2>7 DEF Exits
    <3>4. SimulateNode(choices, n) = nd.trans.as
      BY <2>1, <2>7
    <3> QED
      BY <3>2, <3>3, <3>4
  <2>8. CASE nd.trans.op = "kill"
    <3>1. v = KillMark /\ v \in Exits(nd) /\ SimulateNode(choices, n) = "onward"
      BY <2>1, <2>8 DEF ChildValue, Exits, v
    <3>2. v \in Trie!Allowed(prog[e]) /\ prog[e].op = "kill"
      BY <3>1, <2>4, <2>8, <1>1, AllowedSteps DEF StepOut
    <3>3. DrawsIn(Append(e, v)) = DrawsIn(e)
      BY <3>1, <1>1, DrawsAppended
    <3>4. LeadsTo(choices, e, v)
      <4>1. DrawsIn(Append(e, v)) <= Len(choices)
        BY <3>3, <2>2, <1>0, <1>1, <1>2
      <4> QED
        BY <4>1, <3>2 DEF LeadsTo
    <3>5. v \in Values \cup {KillMark}
      BY <3>1
    <3>6. Append(e, v) \in Reached(choices)
      BY <3>2, <3>4, <3>5, <2>3, <2>4, <2>8, <1>1, ReachedNext
    <3> QED
      BY <3>1, <3>6 DEF GoesOn, v
  <2>9. CASE nd.trans.op = "branch"
    <3>1. nd.trans.kind \in Kinds
      BY <2>9, <1>1 DEF Fits, Node, Transitions, Branch, Trie!Kill, Trie!Conclude
    <3>2. /\ e \in DOMAIN prog /\ prog[e].op = "draw" /\ FreeDraw(prog[e])
          /\ prog[e].kind = nd.trans.kind
      BY <2>4, <2>9 DEF StepOut, FreeDraw
    <3>3. CASE left = 0
      <4>1. KillMark \notin Trie!Allowed(prog[e])
        <5>1. Trie!Allowed(prog[e]) \subseteq Values
          BY <3>2, <1>0, KnownTypes
        <5> QED
          BY <5>1, TrieParameters DEF Trie!TrieConstants
      <4>2. DrawsIn(e) = Len(choices)
        BY <3>3, <2>2, <1>1, <1>2
      <4>3. Replay(choices) = "overrun"
        BY <4>1, <4>2, <3>2, <2>3, ReplayOverrun
      <4>4. SimulateNode(choices, n) = "overrun"
        BY <2>1, <2>9, <3>3
      <4> QED
        BY <4>3, <4>4
    <3>4. CASE left # 0
      <4>1. v = Fit(nd.trans.kind, choices[DrawsIn(e) + 1])
        BY <2>9, <1>2 DEF ChildValue, v
      <4>2. DrawsIn(e) < Len(choices)
        BY <3>4, <2>2, <1>0, <1>1, <1>2
      <4>3. Append(e, v) \in Reached(choices)
        BY <4>1, <4>2, <3>1, <3>2, <2>3, DrawGoesOn
      <4>4. v \in Values
        BY <4>1, <3>1, FitIsChild
      <4>5. CASE v \in nd.trans.children
        <5>1. v \in Exits(nd) /\ SimulateNode(choices, n) = "onward"
          BY <4>5, <3>4, <2>1, <2>9 DEF Exits
        <5> QED
          BY <5>1, <4>3 DEF GoesOn, v
      <4>6. CASE v \notin nd.trans.children
        <5>1. Append(e, v) \notin DOMAIN prog
          <6>1. v \notin Exits(nd) /\ v \in Values \cup {KillMark}
            BY <4>4, <4>6, <2>9 DEF Exits
          <6>2. \A m \in DOMAIN tree : \A j \in 0 .. Len(tree[m].values) :
                  Append(e, v) # PosIn(m, tree[m], j)
            BY <6>1, <1>0, Unvisited
          <6> QED
            BY <6>2, PlacesOnly
        <5>2. Replay(choices) = "unseen"
          BY <5>1, <4>3, ReplayUnseen
        <5>3. SimulateNode(choices, n) = "unseen"
          BY <4>6, <3>4, <2>1, <2>9
        <5> QED
          BY <5>2, <5>3
      <4> QED
        BY <4>5, <4>6
    <3> QED
      BY <3>3, <3>4
  <2> QED
    BY <2>5, <2>6, <2>7, <2>8, <2>9
<1> QED
  BY <1>3, <1>4, <1>5

\* What comes after a node that has children is a value or the mark.
LEMMA ChildValueType ==
  ASSUME Faithful, NEW choices, NEW n \in DOMAIN tree, Exits(tree[n]) # {}
  PROVE  /\ ChildValue(choices, n) \in Values \cup {KillMark}
         /\ Append(PosAfter(n, tree[n]), ChildValue(choices, n)) \in Trie!Positions
         /\ \A v \in Exits(tree[n]) :
              Len(Append(PosAfter(n, tree[n]), v)) =
                Len(Append(PosAfter(n, tree[n]), ChildValue(choices, n)))
<1> DEFINE nd == tree[n]
           e == PosAfter(n, nd)
<1>1. Fits(nd) /\ e \in Trie!Positions /\ Exits(nd) \subseteq Values \cup {KillMark}
  BY NodePlaces DEF Faithful
<1>2. ASSUME nd.trans.op = "kill" PROVE ChildValue(choices, n) \in Values \cup {KillMark}
  BY <1>2 DEF ChildValue
<1>3. ASSUME nd.trans.op = "branch" PROVE ChildValue(choices, n) \in Values \cup {KillMark}
  <2>1. nd.trans.kind \in Kinds
    BY <1>1, <1>3 DEF Fits, Node, Transitions, Branch, Trie!Kill, Trie!Conclude
  <2>2. ChildValue(choices, n) = Fit(nd.trans.kind, choices[DrawsIn(n) + Len(nd.values) + 1])
    BY <1>3 DEF ChildValue
  <2> QED
    BY <2>1, <2>2, FitIsChild
<1>4. ChildValue(choices, n) \in Values \cup {KillMark}
  BY <1>2, <1>3 DEF Exits
<1>5. \A v \in Values \cup {KillMark} : Append(e, v) \in Trie!Positions /\ Len(Append(e, v)) = Len(e) + 1
  BY <1>1, BeginningOf
<1> QED
  BY <1>1, <1>4, <1>5

\* The child of a node on the way to another is on that way, and no other position as long.
LEMMA ChildOnTrail ==
  ASSUME Faithful, NEW choices, NEW m \in DOMAIN tree, NEW n \in DOMAIN tree,
         IsPrefix(m, n), m # n,
         NEW c, c = Append(PosAfter(m, tree[m]), ChildValue(choices, m)),
         NEW x \in Trie!Positions, IsPrefix(n, x), IsPrefix(c, x)
  PROVE  IsPrefix(c, n)
<1>0. Shaped(tree) /\ Linked(tree) /\ DOMAIN tree \subseteq Trie!Positions
  BY DEF Faithful, Shaped
<1>1. PICK v \in Exits(tree[m]) : IsPrefix(Append(PosAfter(m, tree[m]), v), n)
  BY <1>0, NextOnTrail
<1> DEFINE d == Append(PosAfter(m, tree[m]), v)
<1>2. c \in Trie!Positions /\ Len(d) = Len(c)
  <2>1. Exits(tree[m]) # {}
    BY <1>1
  <2>2. /\ c \in Trie!Positions
        /\ \A u \in Exits(tree[m]) : Len(Append(PosAfter(m, tree[m]), u)) = Len(c)
    BY <2>1, ChildValueType
  <2> QED
    BY <2>2, <1>1
<1>3. d \in Trie!Positions
  <2>1. v \in Values \cup {KillMark} /\ PosAfter(m, tree[m]) \in Trie!Positions
    BY <1>0, <1>1, NodePlaces
  <2> QED
    BY <2>1, BeginningOf
<1> HIDE DEF d
<1>4. IsPrefix(d, n)
  BY <1>1 DEF d
<1>5. IsPrefix(d, x)
  BY <1>0, <1>3, <1>4, PrefixOrder
<1>6. c = d
  BY <1>2, <1>3, <1>5, PrefixOrder
<1> QED
  BY <1>4, <1>6

\* The nodes that are simulated are those to which the choices lead.
LEMMA SimulatedReached ==
  ASSUME Faithful, NEW choices \in Seq(Values), NEW n \in Simulated(choices)
  PROVE  n \in Reached(choices)
<1> DEFINE S == Simulated(choices)
           T == {k \in Nat : \E x \in S : Len(x) = k /\ x \notin Reached(choices)}
<1>0. /\ Shaped(tree) /\ Linked(tree)
      /\ \A x \in DOMAIN tree : x \in Trie!Positions /\ Len(x) \in Nat
  BY LenProperties DEF Faithful, Shaped, Trie!Positions
<1>1. S \subseteq DOMAIN tree
  BY DEF Simulated
<1>2. ASSUME T # {} PROVE FALSE
  <2>1. PICK l \in T : \A h \in T : l <= h
    <3>1. T \in SUBSET Nat
      OBVIOUS
    <3> HIDE DEF T
    <3> QED
      BY <3>1, <1>2, Least
  <2>2. PICK x \in S : Len(x) = l /\ x \notin Reached(choices)
    BY <2>1
  <2>3. x # <<>>
    BY <2>2, ReachedNext
  <2>4. PICK m \in DOMAIN tree : \E w \in Exits(tree[m]) : x = Append(PosAfter(m, tree[m]), w)
    BY <2>2, <2>3, <1>0, <1>1 DEF Linked, Entered
  <2>5. PICK w \in Exits(tree[m]) : x = Append(PosAfter(m, tree[m]), w)
    BY <2>4
  <2>6. IsPrefix(m, x) /\ Len(m) < Len(x) /\ x \in DOMAIN tree /\ m # x
    <3>1. Fits(tree[m]) /\ w \in Values \cup {KillMark} /\ m \in Trie!Positions
      BY <2>5, <1>0, NodePlaces
    <3>2. IsPrefix(m, x) /\ Len(x) > Len(m)
      BY <3>1, <2>5, BeginsAfter
    <3>3. m # x
      BY <3>2, <1>0
    <3> QED
      BY <3>2, <3>3, <1>0, <1>1
  <2>7. m \in S
    <3>1. ASSUME NEW k \in DOMAIN tree, IsStrictPrefix(k, m)
          PROVE  /\ SimulateNode(choices, k) = "onward"
                 /\ IsPrefix(Append(PosAfter(k, tree[k]), ChildValue(choices, k)), m)
      <4>1. IsPrefix(k, m) /\ k # m
        BY <3>1 DEF IsStrictPrefix
      <4>2. IsPrefix(k, x) /\ Len(k) <= Len(m)
        BY <4>1, <2>6, <1>0, PrefixOrder
      <4>3. k # x
        BY <4>2, <2>6, <1>0
      <4>4. /\ SimulateNode(choices, k) = "onward"
            /\ IsPrefix(Append(PosAfter(k, tree[k]), ChildValue(choices, k)), x)
        BY <4>2, <4>3, <2>2 DEF Simulated, IsStrictPrefix
      <4>5. IsPrefix(Append(PosAfter(k, tree[k]), ChildValue(choices, k)), m)
        BY <4>1, <4>4, <2>6, <1>0, ChildOnTrail
      <4> QED
        BY <4>4, <4>5
    <3> QED
      BY <3>1 DEF Simulated
  <2>8. m \in Reached(choices)
    <3>1. Len(m) \notin T
      BY <2>1, <2>2, <2>6, <1>0
    <3> QED
      BY <3>1, <2>7, <1>0
  <2> DEFINE c == Append(PosAfter(m, tree[m]), ChildValue(choices, m))
  <2>9. SimulateNode(choices, m) = "onward" /\ IsPrefix(c, x)
    BY <2>2, <2>6 DEF Simulated, IsStrictPrefix
  <2>10. c \in Reached(choices)
    BY <2>5, <2>8, <2>9, NodeAgrees DEF GoesOn
  <2>11. c \in Trie!Positions /\ Len(x) = Len(c)
    <3>1. Exits(tree[m]) # {}
      BY <2>5
    <3>2. /\ c \in Trie!Positions
          /\ \A u \in Exits(tree[m]) : Len(Append(PosAfter(m, tree[m]), u)) = Len(c)
      BY <3>1, ChildValueType
    <3> QED
      BY <3>2, <2>5
  <2> HIDE DEF c
  <2>12. c = x
    BY <2>6, <2>9, <2>11, <1>0, PrefixOrder
  <2> QED
    BY <2>2, <2>10, <2>12
<1>3. n \in DOMAIN tree /\ Len(n) \in Nat
  BY <1>0, <1>1
<1> QED
  BY <1>2, <1>3

\* The child to which it goes on is simulated.
LEMMA ChildSimulated ==
  ASSUME Faithful, NEW choices \in Seq(Values), NEW n \in Simulated(choices), GoesOn(choices, n),
         NEW c, c = Append(PosAfter(n, tree[n]), ChildValue(choices, n))
  PROVE  c \in Simulated(choices) /\ Len(c) > Len(n)
<1>0. /\ Shaped(tree) /\ Linked(tree)
      /\ \A x \in DOMAIN tree : x \in Trie!Positions /\ Len(x) \in Nat
  BY LenProperties DEF Faithful, Shaped, Trie!Positions
<1>1. n \in DOMAIN tree
  BY DEF Simulated
<1>2. ChildValue(choices, n) \in Exits(tree[n])
  BY DEF GoesOn
<1>3. c \in DOMAIN tree
  BY <1>0, <1>1, <1>2 DEF Linked, Closed
<1>4. IsPrefix(n, c) /\ Len(c) > Len(n)
  <2>1. Fits(tree[n]) /\ ChildValue(choices, n) \in Values \cup {KillMark}
    BY <1>0, <1>1, <1>2, NodePlaces
  <2> QED
    BY <2>1, <1>0, <1>1, BeginsAfter
<1>5. ASSUME NEW m \in DOMAIN tree, IsStrictPrefix(m, c)
      PROVE  /\ SimulateNode(choices, m) = "onward"
             /\ IsPrefix(Append(PosAfter(m, tree[m]), ChildValue(choices, m)), c)
  <2>1. IsPrefix(m, c) /\ m # c
    BY <1>5 DEF IsStrictPrefix
  <2>2. IsPrefix(m, n)
    BY <2>1, <1>0, <1>1, <1>2, <1>3, TrailGoesUp
  <2>3. CASE m = n
    <3>1. IsPrefix(c, c)
      BY <1>0, <1>3, PrefixOrder
    <3> QED
      BY <3>1, <2>3 DEF GoesOn
  <2>4. CASE m # n
    <3> DEFINE d == Append(PosAfter(m, tree[m]), ChildValue(choices, m))
    <3>1. SimulateNode(choices, m) = "onward" /\ IsPrefix(d, n)
      BY <2>2, <2>4 DEF Simulated, IsStrictPrefix
    <3>2. Exits(tree[m]) # {}
      BY <2>2, <2>4, <1>0, <1>1, NextOnTrail
    <3>3. d \in Trie!Positions
      BY <3>2, ChildValueType
    <3> HIDE DEF d
    <3>4. IsPrefix(d, c)
      BY <3>1, <3>3, <1>0, <1>1, <1>3, <1>4, PrefixOrder
    <3> QED
      BY <3>1, <3>4 DEF d
  <2> QED
    BY <2>3, <2>4
<1> QED
  BY <1>3, <1>4, <1>5 DEF Simulated

\* One of the nodes simulated is the last.
LEMMA LastSimulated ==
  ASSUME Faithful, NEW choices \in Seq(Values)
  PROVE  /\ Longest(Simulated(choices)) \in Simulated(choices)
         /\ \A x \in Simulated(choices) : Len(x) <= Len(Longest(Simulated(choices)))
<1> DEFINE S == Simulated(choices)
<1>0. /\ <<>> \in DOMAIN tree
      /\ \A x \in DOMAIN tree : x \in Trie!Positions /\ Len(x) \in Nat
  BY LenProperties DEF Faithful, Shaped, Trie!Positions
<1>1. \A x \in S : x \in DOMAIN tree
  BY DEF Simulated
<1>2. <<>> \in S
  <2>1. ASSUME NEW m \in DOMAIN tree, IsStrictPrefix(m, <<>>) PROVE FALSE
    <3>1. IsPrefix(m, <<>>) /\ m # <<>>
      BY <2>1 DEF IsStrictPrefix
    <3>2. Len(m) <= 0 /\ Len(m) \in Nat
      BY <3>1, <1>0, PrefixOrder, EmptySeq
    <3>3. m = <<>>
      BY <3>2, <1>0, EmptySeq DEF Trie!Positions
    <3> QED
      BY <3>1, <3>3
  <2> QED
    BY <2>1, <1>0 DEF Simulated
<1>3. PICK b \in Nat : \A n \in DOMAIN tree : Len(n) <= b
  BY DEF Faithful, Bounded
<1> DEFINE T == {k \in Nat : \E x \in S : k = b - Len(x)}
<1> HIDE DEF S
<1>4. PICK k \in T : \A h \in T : k <= h
  <2>1. T \in SUBSET Nat
    OBVIOUS
  <2>2. b - Len(<<>>) \in T
    BY <1>0, <1>1, <1>2, <1>3
  <2> HIDE DEF T
  <2> QED
    BY <2>1, <2>2, Least
<1>5. PICK n \in S : k = b - Len(n)
  BY <1>4
<1>6. \A x \in S : Len(x) <= Len(n)
  <2> SUFFICES ASSUME NEW x \in S PROVE Len(x) <= Len(n)
    OBVIOUS
  <2>1. Len(x) \in Nat /\ Len(n) \in Nat /\ Len(x) <= b
    BY <1>0, <1>1, <1>3
  <2>2. b - Len(x) \in T
    BY <2>1
  <2>3. b - Len(n) <= b - Len(x)
    BY <2>2, <1>4, <1>5
  <2> QED
    BY <2>1, <2>3, <1>3
<1> QED
  BY <1>6 DEF Longest, S

\* What simulate_test_function predicts is what the run gives.
LEMMA SimulationHolds == ASSUME NovelInv PROVE SimulationAgrees
<1> SUFFICES ASSUME ~flaky, NEW k \in 0 .. MaxDraws, NEW choices \in [1 .. k -> Values]
             PROVE  Simulate(choices) = Replay(choices)
  BY DEF SimulationAgrees
<1>1. Faithful
  BY DEF Faithful, NovelInv, TreeInv, Sound, Complete, TreeIsFaithful, Unfold
<1>2. choices \in Seq(Values)
  BY TreeConstants
<1> DEFINE n == Longest(Simulated(choices))
<1>3. n \in Simulated(choices) /\ \A x \in Simulated(choices) : Len(x) <= Len(n)
  BY <1>1, <1>2, LastSimulated
<1> HIDE DEF n
<1>4. n \in DOMAIN tree /\ n \in Reached(choices)
  BY <1>1, <1>2, <1>3, SimulatedReached DEF Simulated
<1>5. ~GoesOn(choices, n)
  <2> SUFFICES ASSUME GoesOn(choices, n) PROVE FALSE
    OBVIOUS
  <2> DEFINE c == Append(PosAfter(n, tree[n]), ChildValue(choices, n))
  <2>1. c \in Simulated(choices) /\ Len(c) > Len(n)
    BY <1>1, <1>2, <1>3, ChildSimulated
  <2>2. \A x \in DOMAIN tree : Len(x) \in Nat
    BY <1>1, LenProperties DEF Faithful, Shaped, Trie!Positions
  <2>3. c \in DOMAIN tree
    BY <2>1 DEF Simulated
  <2> HIDE DEF c
  <2> QED
    BY <2>1, <2>2, <2>3, <1>3, <1>4
<1>6. SimulateNode(choices, n) = Replay(choices)
  BY <1>1, <1>2, <1>4, <1>5, NodeAgrees
<1> QED
  BY <1>6 DEF Simulate, n

\* Between test cases, what simulate_test_function predicts of any choices, and
\* cached_test_function returns in place of a run, is what running the test function on them
\* gives, as far as that is known.
THEOREM SimulationIsReplay == Spec => []SimulationAgrees
<1>1. Init => NovelInv
  BY NovelInit
<1>2. NovelInv /\ [Next]_vars => NovelInv'
  BY NovelStep
<1>3. NovelInv => SimulationAgrees
  BY SimulationHolds
<1> QED
  BY <1>1, <1>2, <1>3, PTL DEF Spec
=============================================================================
