----------------------- MODULE DirectoryDatabaseProofs -----------------------
(***************************************************************************)
(* Proofs about DirectoryDatabase, for any number of processes, keys and   *)
(* values, and processes that die between any two calls.                   *)
(***************************************************************************)
EXTENDS DirectoryDatabase, FiniteSetTheorems, SequenceTheorems, TLAPS

AllKeys == Keys \cup {Meta}
AnyValue == Values \cup AllKeys
Frames ==
  [op : {"save"}, key : AllKeys, value : AnyValue, at : {"mkdir", "exists", "rename", "fill"}]
  \cup [op : {"delete"}, key : AllKeys, value : AnyValue, at : {"unlink", "rmdir"}]
  \cup [op : {"move"}, src : Keys, key : Keys, value : Values,
        at : {"check", "look", "makedirs", "rename", "prune"}]

Types ==
  /\ owner \in [Keys -> SUBSET Procs]
  /\ stack \in [Procs -> Seq(Frames)]
  /\ kept \subseteq SUBSET (Keys \X Values)
  /\ pending \subseteq Procs \X (Keys \X Values)
  /\ torn = {}

\* A key that one process alone uses, and what is kept under such keys only.
Single(k) == k \in Keys /\ Cardinality(owner[k]) = 1
AllSingle(c) == \A f \in c : Cardinality(owner[f[1]]) = 1

\* A process works on its own keys only.  A value that it moves may be kept under the
\* one key as under the other.
FrameOK(p, x, K) ==
  /\ x.key \in Keys => p \in owner[x.key]
  /\ x.op = "move" =>
       /\ p \in owner[x.src]
       /\ \A c \in K : AllSingle(c) /\ <<x.src, x.value>> \in c => <<x.key, x.value>> \in c

\* What is below the frame being executed did not begin, or waits to look.
Below(x) == \/ x.op = "save" /\ x.at = "mkdir"
            \/ x.op = "move" /\ x.at = "look"

\* What a process found out about its own keys is still true when it uses it.  A file
\* about to be deleted is gone already, or nobody was promised that it stays.
TopOK(x, D, F, K) ==
  /\ x.op = "save" /\ x.at \in {"exists", "rename"} /\ Single(x.key) => x.key \in D
  /\ x.op = "save" => x.at # "fill"
  /\ x.op = "delete" /\ x.at = "unlink" =>
       \/ <<x.key, x.value>> \notin F
       \/ \A c \in K : AllSingle(c) => <<x.key, x.value>> \notin c
  /\ x.op = "move" /\ Single(x.key) =>
       /\ x.at = "makedirs" => x.key \notin D
       /\ x.at = "rename" => x.key \in D
       /\ x.at = "prune" => <<x.key, x.value>> \in F

StackOK(p, s, D, F, K) ==
  /\ \A i \in 1 .. Len(s) : FrameOK(p, s[i], K)
  /\ \A i \in 2 .. Len(s) : Below(s[i])
  /\ Len(s) > 0 => TopOK(s[1], D, F, K)
StacksOK == \A p \in Procs : StackOK(p, stack[p], dirs, files, kept)

\* The last frame of an operation saves what it will have saved.
WillSave(s, f) ==
  Len(s) > 0 /\ s[Len(s)].op \in {"save", "move"} /\ f = <<s[Len(s)].key, s[Len(s)].value>>
PendingOK == \A x \in pending : WillSave(stack[x[1]], x[2])

KeptOK == \A c \in kept : AllSingle(c) => c \cap files # {}

Safe == Types /\ StacksOK /\ PendingOK /\ KeptOK
Inv == ~exdev => Safe

-----------------------------------------------------------------------------
\* The frames that take the place of the first one.
LEMMA Replaced ==
  ASSUME NEW S, NEW s \in Seq(S), Len(s) > 0, NEW new \in Seq(S), NEW t, t = new \o Tail(s)
  PROVE  /\ t \in Seq(S)
         /\ Len(t) = Len(new) + Len(s) - 1
         /\ \A i \in 1 .. Len(new) : t[i] = new[i]
         /\ \A i \in 1 .. Len(t) : i > Len(new) =>
              i - Len(new) + 1 \in 2 .. Len(s) /\ t[i] = s[i - Len(new) + 1]
  <1>1. /\ Tail(s) \in Seq(S) /\ Len(Tail(s)) = Len(s) - 1
        /\ \A i \in 1 .. Len(s) - 1 : Tail(s)[i] = s[i + 1]
    <2>1. s # <<>>  OBVIOUS
    <2> QED  BY <2>1, HeadTailProperties
  <1> DEFINE r == Tail(s)
  <1>2. r \in Seq(S) /\ Len(r) = Len(s) - 1 /\ \A i \in 1 .. Len(s) - 1 : r[i] = s[i + 1]
    BY <1>1
  <1> HIDE DEF r
  <1>3. /\ new \o r \in Seq(S) /\ Len(new \o r) = Len(new) + Len(r)
        /\ \A i \in 1 .. Len(new) + Len(r) :
             (new \o r)[i] = IF i <= Len(new) THEN new[i] ELSE r[i - Len(new)]
    BY <1>2, ConcatProperties
  <1>4. t = new \o r  BY DEF r
  <1>5. Len(new) \in Nat /\ Len(s) \in Nat  OBVIOUS
  <1>6. \A i \in 1 .. Len(new) : t[i] = new[i]
    BY <1>2, <1>3, <1>4, <1>5
  <1>7. ASSUME NEW i \in 1 .. Len(t), i > Len(new)
        PROVE  i - Len(new) + 1 \in 2 .. Len(s) /\ t[i] = s[i - Len(new) + 1]
    <2>1. i - Len(new) \in 1 .. Len(s) - 1  BY <1>2, <1>3, <1>4, <1>5, <1>7
    <2>2. t[i] = r[i - Len(new)]  BY <1>2, <1>3, <1>4, <1>5, <1>7
    <2> QED  BY <1>2, <1>5, <2>1, <2>2
  <1> QED  BY <1>2, <1>3, <1>4, <1>5, <1>6, <1>7

\* One process uses a key that is used by one process.
LEMMA OneOwner ==
  ASSUME DatabaseConstants, Types, NEW k, Single(k), NEW p \in owner[k], NEW q \in owner[k]
  PROVE  p = q
  <1>1. owner[k] \subseteq Procs  BY DEF Types, Single
  <1>2. IsFiniteSet(owner[k])  BY <1>1, FS_Subset DEF DatabaseConstants
  <1>3. \E x : owner[k] = {x}  BY <1>2, FS_Singleton DEF Single
  <1> QED  BY <1>3

\* The values that are kept are those of keys, so that their keys are Single.
LEMMA KeptKeys ==
  ASSUME Types, NEW c \in kept, AllSingle(c), NEW k, NEW v, <<k, v>> \in c
  PROVE  Single(k)
  <1>1. <<k, v>> \in Keys \X Values  BY DEF Types
  <1>2. Cardinality(owner[<<k, v>>[1]]) = 1  BY DEF AllSingle
  <1> QED  BY <1>1, <1>2 DEF Single

\* A step of p changes nothing under the keys that others alone use, and promises
\* nothing there that was not promised.
Local(p) ==
  \A k : Single(k) /\ p \notin owner[k] =>
    /\ k \in dirs' <=> k \in dirs
    /\ \A v : <<k, v>> \in files' <=> <<k, v>> \in files
KeptLocal(p) ==
  \A c \in kept' : AllSingle(c) => \A f \in c : p \notin owner[f[1]] =>
    \E b \in kept : f \in b /\ b \subseteq c

\* A step of another process leaves the stack of p as it was, and what p knows true.
LEMMA OthersStay ==
  ASSUME DatabaseConstants, Types, kept' \subseteq SUBSET (Keys \X Values),
         NEW p \in Procs, NEW q \in Procs, p # q, NEW s \in Seq(Frames),
         StackOK(q, s, dirs, files, kept), Local(p), KeptLocal(p)
  PROVE  StackOK(q, s, dirs', files', kept')
  <1>1. ASSUME NEW k, Single(k), q \in owner[k]  PROVE p \notin owner[k]
    BY <1>1, OneOwner
  <1>2. ASSUME NEW c \in kept', AllSingle(c), NEW k, NEW v, <<k, v>> \in c, q \in owner[k]
        PROVE  \E b \in kept : <<k, v>> \in b /\ b \subseteq c /\ AllSingle(b)
    <2>1. <<k, v>> \in Keys \X Values  BY <1>2
    <2>2. Cardinality(owner[<<k, v>>[1]]) = 1  BY <1>2 DEF AllSingle
    <2>3. Single(k)  BY <2>1, <2>2 DEF Single
    <2>4. p \notin owner[k]  BY <1>1, <1>2, <2>3
    <2>5. PICK b \in kept : <<k, v>> \in b /\ b \subseteq c
      BY <1>2, <2>4 DEF KeptLocal
    <2> QED  BY <1>2, <2>5 DEF AllSingle
  <1>3. ASSUME NEW i \in 1 .. Len(s)  PROVE FrameOK(q, s[i], kept')
    <2> DEFINE x == s[i]
    <2>1. FrameOK(q, x, kept)  BY DEF StackOK
    <2> HIDE DEF x
    <2>2. ASSUME x.op = "move", NEW c \in kept', AllSingle(c), <<x.src, x.value>> \in c
          PROVE  <<x.key, x.value>> \in c
      <3>1. PICK b \in kept : <<x.src, x.value>> \in b /\ b \subseteq c /\ AllSingle(b)
        BY <1>2, <2>1, <2>2 DEF FrameOK
      <3> QED  BY <2>1, <2>2, <3>1 DEF FrameOK
    <2>3. FrameOK(q, x, kept')  BY <2>1, <2>2 DEF FrameOK
    <2> QED  BY <2>3 DEF x
  <1>4. ASSUME Len(s) > 0  PROVE TopOK(s[1], dirs', files', kept')
    <2> DEFINE x == s[1]
    <2>1. FrameOK(q, x, kept) /\ TopOK(x, dirs, files, kept) /\ x \in Frames
      BY <1>4 DEF StackOK
    <2> HIDE DEF x
    <2>2. x.key \in Keys => q \in owner[x.key]  BY <2>1 DEF FrameOK
    <2>3. Single(x.key) => (x.key \in dirs' <=> x.key \in dirs)
      BY <1>1, <2>2 DEF Local, Single
    <2>4. Single(x.key) => (<<x.key, x.value>> \in files' <=> <<x.key, x.value>> \in files)
      BY <1>1, <2>2 DEF Local, Single
    <2>5. ASSUME x.op = "delete", x.at = "unlink", <<x.key, x.value>> \in files',
                 NEW c \in kept', AllSingle(c), <<x.key, x.value>> \in c
          PROVE  FALSE
      <3>1. <<x.key, x.value>> \in Keys \X Values  BY <2>5
      <3>2. Cardinality(owner[<<x.key, x.value>>[1]]) = 1  BY <2>5 DEF AllSingle
      <3>3. Single(x.key)  BY <3>1, <3>2 DEF Single
      <3>4. <<x.key, x.value>> \in files  BY <2>4, <2>5, <3>3
      <3>5. q \in owner[x.key]  BY <2>2, <3>3 DEF Single
      <3>6. PICK b \in kept : <<x.key, x.value>> \in b /\ AllSingle(b)
        BY <1>2, <2>5, <3>5
      <3> QED  BY <2>1, <2>5, <3>4, <3>6 DEF TopOK
    <2>6. TopOK(x, dirs', files', kept')  BY <2>1, <2>3, <2>4, <2>5 DEF TopOK
    <2> QED  BY <2>6 DEF x
  <1> QED  BY <1>3, <1>4 DEF StackOK

\* The new frames of p begin well, and what is below them was not disturbed.
LEMMA OwnStays ==
  ASSUME NEW p, NEW s \in Seq(Frames), Len(s) > 0, NEW D, NEW F, NEW K, NEW D1, NEW F1,
         StackOK(p, s, D, F, K),
         NEW new \in Seq(Frames), NEW t, t = new \o Tail(s),
         \A i \in 1 .. Len(new) : FrameOK(p, new[i], K),
         \A i \in 2 .. Len(new) : Below(new[i]),
         Len(new) > 0 => TopOK(new[1], D1, F1, K)
  PROVE  StackOK(p, t, D1, F1, K)
  <1> DEFINE n == Len(new)
  <1>1. /\ t \in Seq(Frames) /\ Len(t) = n + Len(s) - 1
        /\ \A i \in 1 .. n : t[i] = new[i]
        /\ \A i \in 1 .. Len(t) : i > n => i - n + 1 \in 2 .. Len(s) /\ t[i] = s[i - n + 1]
    BY Replaced
  <1>2. n \in Nat /\ Len(s) \in Nat  OBVIOUS
  <1>3. ASSUME NEW i \in 1 .. Len(t)  PROVE FrameOK(p, t[i], K)
    <2>1. CASE i <= n  BY <1>1, <1>2, <2>1
    <2>2. CASE i > n
      <3>1. i - n + 1 \in 1 .. Len(s)  BY <1>1, <1>2, <2>2
      <3> QED  BY <1>1, <2>2, <3>1 DEF StackOK
    <2> QED  BY <1>1, <1>2, <2>1, <2>2
  <1>4. ASSUME NEW i \in 1 .. Len(t), i > n  PROVE Below(t[i])
    BY <1>1, <1>4 DEF StackOK
  <1>5. ASSUME NEW i \in 2 .. Len(t)  PROVE Below(t[i])
    <2>1. CASE i <= n  BY <1>1, <1>2, <2>1
    <2>2. CASE i > n  BY <1>4, <2>2
    <2> QED  BY <1>1, <1>2, <2>1, <2>2
  <1>6. ASSUME Len(t) > 0  PROVE TopOK(t[1], D1, F1, K)
    <2>1. CASE n > 0  BY <1>1, <1>2, <2>1
    <2>2. CASE n = 0
      <3>1. Below(t[1])  BY <1>1, <1>2, <1>4, <1>6, <2>2
      <3> DEFINE x == t[1]
      <3>2. (x.op = "save" /\ x.at = "mkdir") \/ (x.op = "move" /\ x.at = "look")
        BY <3>1 DEF Below
      <3> HIDE DEF x
      <3>3. TopOK(x, D1, F1, K)  BY <3>2 DEF TopOK
      <3> QED  BY <3>3 DEF x
    <2>3. n > 0 \/ n = 0  BY <1>2
    <2> QED  BY <2>1, <2>2, <2>3
  <1> QED  BY <1>3, <1>5, <1>6 DEF StackOK

\* Owners are given once and for all.
LEMMA SafeNext ==
  ASSUME owner' = owner, Types',
         \A q \in Procs : StackOK(q, stack'[q], dirs', files', kept'),
         \A x \in pending' : WillSave(stack'[x[1]], x[2]),
         \A c \in kept' : AllSingle(c) => c \cap files' # {}
  PROVE  Safe'
  <1>1. ASSUME NEW q \in Procs  PROVE StackOK(q, stack[q], dirs, files, kept)'
    <2>1. StackOK(q, stack'[q], dirs', files', kept')  OBVIOUS
    <2>2. ASSUME NEW i \in 1 .. Len(stack'[q])  PROVE FrameOK(q, stack[q][i], kept)'
      <3>1. FrameOK(q, stack'[q][i], kept')  BY <2>1 DEF StackOK
      <3> QED  BY <3>1 DEF FrameOK, AllSingle
    <2>3. ASSUME NEW i \in 2 .. Len(stack'[q])  PROVE Below(stack[q][i])'
      <3>1. Below(stack'[q][i])  BY <2>1 DEF StackOK
      <3> QED  BY <3>1 DEF Below
    <2>4. ASSUME Len(stack'[q]) > 0  PROVE TopOK(stack[q][1], dirs, files, kept)'
      <3>1. TopOK(stack'[q][1], dirs', files', kept')  BY <2>1, <2>4 DEF StackOK
      <3> QED  BY <3>1 DEF TopOK, Single, AllSingle
    <2> QED  BY <2>2, <2>3, <2>4 DEF StackOK
  <1>2. StacksOK'  BY <1>1 DEF StacksOK
  <1>3. PendingOK'  BY DEF PendingOK, WillSave
  <1>4. KeptOK'  BY DEF KeptOK, AllSingle
  <1> QED  BY <1>2, <1>3, <1>4 DEF Safe

\* The last frame stays the last, unless it is replaced.
LEMMA LastFrame ==
  ASSUME NEW s \in Seq(Frames), Len(s) > 0, NEW new \in Seq(Frames), NEW t, t = new \o Tail(s)
  PROVE  /\ Len(s) = 1 => Len(t) = Len(new) /\ (Len(new) > 0 => t[Len(t)] = new[Len(new)])
         /\ Len(s) # 1 => Len(t) > 0 /\ t[Len(t)] = s[Len(s)]
  <1> DEFINE n == Len(new)
  <1>1. /\ t \in Seq(Frames) /\ Len(t) = n + Len(s) - 1
        /\ \A i \in 1 .. n : t[i] = new[i]
        /\ \A i \in 1 .. Len(t) : i > n => i - n + 1 \in 2 .. Len(s) /\ t[i] = s[i - n + 1]
    BY Replaced
  <1>2. n \in Nat /\ Len(s) \in Nat  OBVIOUS
  <1>3. ASSUME Len(s) = 1, n > 0  PROVE t[n] = new[n]
    BY <1>1, <1>2, <1>3
  <1>4. ASSUME Len(s) # 1  PROVE Len(t) > 0 /\ t[Len(t)] = s[Len(s)]
    <2>1. ASSUME NEW m \in Nat, NEW l \in Nat, l > 0, l # 1
          PROVE  m + l - 1 \in 1 .. m + l - 1 /\ m + l - 1 > m /\ m + l - 1 - m + 1 = l
      BY <2>1
    <2>2. n + Len(s) - 1 \in 1 .. n + Len(s) - 1 /\ n + Len(s) - 1 > n
          /\ n + Len(s) - 1 - n + 1 = Len(s)
      BY <1>2, <1>4, <2>1
    <2>3. Len(t) = n + Len(s) - 1  BY <1>1
    <2>4. Len(t) \in 1 .. Len(t) /\ Len(t) > n /\ Len(t) - n + 1 = Len(s)
      BY <2>2, <2>3
    <2> QED  BY <1>1, <1>2, <2>4
  <1>5. Len(s) = 1 => Len(t) = n  BY <1>1, <1>2
  <1> QED  BY <1>3, <1>4, <1>5

\* What p still has to do promises what it promised before.
LEMMA PendingStays ==
  ASSUME NEW s \in Seq(Frames), Len(s) > 0, NEW new \in Seq(Frames), NEW f, WillSave(s, f),
         Len(s) = 1 /\ s[1].op # "delete" => WillSave(new, <<s[1].key, s[1].value>>)
  PROVE  WillSave(new \o Tail(s), f)
  <1>1. \E t : t = new \o Tail(s)  OBVIOUS
  <1>2. PICK t : t = new \o Tail(s)  BY <1>1
  <1>3. /\ Len(s) = 1 => Len(t) = Len(new) /\ (Len(new) > 0 => t[Len(t)] = new[Len(new)])
        /\ Len(s) # 1 => Len(t) > 0 /\ t[Len(t)] = s[Len(s)]
    BY <1>2, LastFrame
  <1>4. CASE Len(s) = 1
    <2>1. s[1].op # "delete" /\ f = <<s[1].key, s[1].value>>  BY <1>4 DEF WillSave
    <2>2. WillSave(new, f)  BY <1>4, <2>1
    <2>3. WillSave(t, f)  BY <1>3, <1>4, <2>2 DEF WillSave
    <2> QED  BY <1>2, <2>3
  <1>5. CASE Len(s) # 1
    <2>1. WillSave(t, f)  BY <1>3, <1>5 DEF WillSave
    <2> QED  BY <1>2, <2>1
  <1> QED  BY <1>4, <1>5

\* A step of p that replaces the frame being executed, and promises nothing new.
LEMMA Continues ==
  ASSUME DatabaseConstants, Safe, owner' = owner, torn' = {}, UNCHANGED history,
         NEW p \in Procs, Len(stack[p]) > 0, NEW new \in Seq(Frames), Instead(p, new),
         Local(p), \A c \in kept : AllSingle(c) => c \cap files' # {},
         \A i \in 1 .. Len(new) : FrameOK(p, new[i], kept),
         \A i \in 2 .. Len(new) : Below(new[i]),
         Len(new) > 0 => TopOK(new[1], dirs', files', kept),
         Len(stack[p]) = 1 /\ Top(p).op # "delete" => WillSave(new, TopFile(p))
  PROVE  Safe'
  <1> DEFINE s == stack[p]
             t == new \o Tail(s)
  <1>1. stack \in [Procs -> Seq(Frames)] /\ kept \subseteq SUBSET (Keys \X Values)
    BY DEF Safe, Types
  <1>2. s \in Seq(Frames) /\ Len(s) > 0 /\ Head(s) = s[1]  BY <1>1
  <1>3. stack'[p] = t /\ \A q \in Procs : q # p => stack'[q] = stack[q]
    BY <1>1 DEF Instead
  <1>4. Len(s) = 1 /\ s[1].op # "delete" => WillSave(new, <<s[1].key, s[1].value>>)
    BY <1>2 DEF Top, TopFile
  <1>5. StackOK(p, s, dirs, files, kept)  BY DEF Safe, StacksOK
  <1>6. t \in Seq(Frames)
    <2> HIDE DEF s
    <2> QED  BY <1>2, Replaced
  <1>7. stack' \in [Procs -> Seq(Frames)]  BY <1>1, <1>6 DEF Instead
  <1>8. StackOK(p, t, dirs', files', kept)
    <2> HIDE DEF s
    <2> QED  BY <1>2, <1>5, OwnStays
  <1>9. kept' = kept /\ pending' = pending  BY DEF history
  <1>10. KeptLocal(p)  BY <1>9 DEF KeptLocal
  <1>11. ASSUME NEW q \in Procs  PROVE StackOK(q, stack'[q], dirs', files', kept')
    <2>1. CASE q = p  BY <1>3, <1>8, <1>9, <2>1
    <2>2. CASE q # p
      <3>1. stack[q] \in Seq(Frames) /\ StackOK(q, stack[q], dirs, files, kept) /\ Types
        BY <1>1 DEF Safe, StacksOK
      <3>2. StackOK(q, stack[q], dirs', files', kept')
        BY <1>1, <1>9, <1>10, <2>2, <3>1, OthersStay
      <3> QED  BY <1>3, <2>2, <3>2
    <2> QED  BY <2>1, <2>2
  <1>12. ASSUME NEW x \in pending'  PROVE WillSave(stack'[x[1]], x[2])
    <2>1. x[1] \in Procs /\ WillSave(stack[x[1]], x[2])
      BY <1>9 DEF Safe, Types, PendingOK
    <2>2. CASE x[1] = p
      <3>1. WillSave(s, x[2])  BY <2>1, <2>2
      <3>2. WillSave(t, x[2])
        <4> HIDE DEF s
        <4> QED  BY <1>2, <1>4, <3>1, PendingStays
      <3> QED  BY <1>3, <2>2, <3>2
    <2>3. CASE x[1] # p  BY <1>3, <2>1, <2>3
    <2> QED  BY <2>2, <2>3
  <1>13. \A c \in kept' : AllSingle(c) => c \cap files' # {}  BY <1>9
  <1>14. Types'  BY <1>7, <1>9 DEF Safe, Types
  <1> QED  BY <1>11, <1>12, <1>13, <1>14, SafeNext

\* The operation of p, or a save or delete that is part of it, returns.
LEMMA Returns ==
  ASSUME DatabaseConstants, Safe, owner' = owner, torn' = {},
         NEW p \in Procs, Len(stack[p]) > 0, Return(p),
         Local(p), \A c \in kept : AllSingle(c) => c \cap files' # {},
         Top(p).op # "delete" /\ Single(Top(p).key) => TopFile(p) \in files'
  PROVE  Safe'
  <1> DEFINE s == stack[p]
  <1>1. stack \in [Procs -> Seq(Frames)] /\ kept \subseteq SUBSET (Keys \X Values)
        /\ pending \subseteq Procs \X (Keys \X Values)
    BY DEF Safe, Types
  <1>2. s \in Seq(Frames) /\ Len(s) > 0 /\ Head(s) = s[1]  BY <1>1
  <1>3. CASE Len(s) # 1
    <2>1. Instead(p, <<>>) /\ UNCHANGED history  BY <1>3 DEF Return
    <2>2. <<>> \in Seq(Frames) /\ Len(<<>>) = 0  OBVIOUS
    <2>3. PICK new : new = <<>>  OBVIOUS
    <2>4. new \in Seq(Frames) /\ Len(new) = 0 /\ Instead(p, new)  BY <2>1, <2>2, <2>3
    <2>5. /\ \A i \in 1 .. Len(new) : FrameOK(p, new[i], kept)
          /\ \A i \in 2 .. Len(new) : Below(new[i])
          /\ Len(new) > 0 => TopOK(new[1], dirs', files', kept)
      BY <2>4
    <2> QED  BY <1>3, <2>1, <2>4, <2>5, Continues
  <1>4. CASE Len(s) = 1
    <2> DEFINE mine == {x \in pending : x[1] = p}
    <2>1. /\ pending' = pending \ mine
          /\ kept' = {c \in kept : \A x \in mine : x[2] \notin c} \cup {{x[2]} : x \in mine}
      BY <1>4 DEF Return
    <2>2. stack' = [stack EXCEPT ![p] = <<>> \o Tail(s)]  BY DEF Return, Instead
    <2>3. <<>> \o Tail(s) = <<>>
      <3> HIDE DEF s
      <3>1. s # <<>>  BY <1>4
      <3>2. Tail(s) \in Seq(Frames) /\ Len(Tail(s)) = 0  BY <1>2, <1>4, <3>1, HeadTailProperties
      <3>3. Tail(s) = <<>>  BY <3>2, EmptySeq
      <3> QED  BY <3>3
    <2>4. stack' = [stack EXCEPT ![p] = <<>>]  BY <2>2, <2>3
    <2>5. ASSUME NEW x \in mine
          PROVE  s[1].op # "delete" /\ x[2] = <<s[1].key, s[1].value>> /\ x[2] \in Keys \X Values
      <3>1. WillSave(s, x[2])  BY DEF Safe, PendingOK
      <3>2. x[2] \in Keys \X Values  BY <1>1
      <3> HIDE DEF s
      <3> QED  BY <1>4, <3>1, <3>2 DEF WillSave
    <2>6. FrameOK(p, s[1], kept)  BY <1>2 DEF Safe, StacksOK, StackOK
    <2>7. s[1] = Top(p)  BY <1>2 DEF Top
    <2>8. ASSUME NEW x \in mine
          PROVE  /\ p \in owner[x[2][1]]
                 /\ AllSingle({x[2]}) => x[2] \in files'
      <3> DEFINE k == s[1].key
                 v == s[1].value
      <3>1. x[2] = <<k, v>> /\ k \in Keys /\ s[1].op # "delete"  BY <2>5
      <3>2. p \in owner[k]  BY <2>6, <3>1 DEF FrameOK
      <3>3. ASSUME AllSingle({x[2]})  PROVE x[2] \in files'
        <4>1. Single(k)  BY <3>1, <3>3 DEF AllSingle, Single
        <4> QED  BY <2>7, <3>1, <4>1 DEF TopFile
      <3> QED  BY <3>1, <3>2, <3>3
    <2>9. kept' \subseteq SUBSET (Keys \X Values)  BY <1>1, <2>1, <2>5
    <2>10. KeptLocal(p)
      <3> SUFFICES ASSUME NEW c \in kept', NEW f \in c, p \notin owner[f[1]]
                   PROVE  \E b \in kept : f \in b /\ b \subseteq c
        BY DEF KeptLocal
      <3>1. c \in kept \/ \E x \in mine : c = {x[2]}  BY <2>1
      <3>2. ~ \E x \in mine : c = {x[2]}  BY <2>8
      <3> QED  BY <3>1, <3>2
    <2>11. ASSUME NEW q \in Procs  PROVE StackOK(q, stack'[q], dirs', files', kept')
      <3>1. CASE q = p
        <4>1. stack'[q] = <<>>  BY <1>1, <2>4, <3>1
        <4>2. Len(<<>>) = 0  OBVIOUS
        <4> QED  BY <4>1, <4>2 DEF StackOK
      <3>2. CASE q # p
        <4>1. stack[q] \in Seq(Frames) /\ StackOK(q, stack[q], dirs, files, kept) /\ Types
          BY <1>1 DEF Safe, StacksOK
        <4>2. StackOK(q, stack[q], dirs', files', kept')
          BY <2>9, <2>10, <3>2, <4>1, OthersStay
        <4>3. stack'[q] = stack[q]  BY <1>1, <2>4, <3>2
        <4> QED  BY <4>2, <4>3
      <3> QED  BY <3>1, <3>2
    <2>12. ASSUME NEW x \in pending'  PROVE WillSave(stack'[x[1]], x[2])
      <3>1. x \in pending /\ x[1] # p /\ x[1] \in Procs  BY <1>1, <2>1
      <3>2. WillSave(stack[x[1]], x[2])  BY <3>1 DEF Safe, PendingOK
      <3> QED  BY <1>1, <2>4, <3>1, <3>2
    <2>13. ASSUME NEW c \in kept', AllSingle(c)  PROVE c \cap files' # {}
      <3>1. CASE c \in kept  BY <2>13, <3>1
      <3>2. ASSUME NEW x \in mine, c = {x[2]}  PROVE c \cap files' # {}
        BY <2>8, <2>13, <3>2
      <3> QED  BY <2>1, <3>1, <3>2
    <2>14. Types'
      <3>1. <<>> \in Seq(Frames)  OBVIOUS
      <3>2. stack' \in [Procs -> Seq(Frames)]  BY <1>1, <2>4, <3>1
      <3>3. pending' \subseteq Procs \X (Keys \X Values)  BY <1>1, <2>1
      <3> QED  BY <2>9, <3>2, <3>3 DEF Safe, Types
    <2> QED  BY <2>11, <2>12, <2>13, <2>14, SafeNext
  <1> QED  BY <1>3, <1>4

-----------------------------------------------------------------------------
\* The frame that p is executing.
LEMMA TopFrame ==
  ASSUME Safe, NEW p \in Procs, stack[p] # <<>>
  PROVE  /\ Len(stack[p]) > 0 /\ stack[p] \in Seq(Frames) /\ Top(p) \in Frames
         /\ FrameOK(p, Top(p), kept) /\ TopOK(Top(p), dirs, files, kept)
  <1>1. stack[p] \in Seq(Frames)  BY DEF Safe, Types
  <1>2. Len(stack[p]) > 0 /\ Top(p) = stack[p][1]  BY <1>1 DEF Top
  <1>3. Len(stack[p]) \in Nat  BY <1>1
  <1>4. 1 \in 1 .. Len(stack[p])  BY <1>2, <1>3
  <1> QED  BY <1>1, <1>2, <1>4 DEF Safe, StacksOK, StackOK

\* What a frame of a stack carries.
LEMMA FrameShape ==
  ASSUME NEW x \in Frames
  PROVE  /\ x.key \in AllKeys /\ x.value \in AnyValue
         /\ x.op = "move" => x.src \in Keys /\ x.key \in Keys /\ x.value \in Values
  BY DEF Frames, AllKeys, AnyValue

\* A frame that goes on to its next system call is still a frame.
LEMMA NextCall ==
  ASSUME NEW x \in Frames, NEW a,
         x.op = "save" => a \in {"exists", "rename"},
         x.op = "delete" => a = "rmdir",
         x.op = "move" => a \in {"look", "makedirs", "rename", "prune"}
  PROVE  LET y == [x EXCEPT !.at = a] IN
         /\ y \in Frames
         /\ y.op = x.op /\ y.key = x.key /\ y.value = x.value /\ y.at = a
         /\ x.op = "move" => y.src = x.src
  <1>1. CASE x \in [op : {"save"}, key : AllKeys, value : AnyValue,
                    at : {"mkdir", "exists", "rename", "fill"}]
    BY <1>1 DEF Frames
  <1>2. CASE x \in [op : {"delete"}, key : AllKeys, value : AnyValue, at : {"unlink", "rmdir"}]
    BY <1>2 DEF Frames
  <1>3. CASE x \in [op : {"move"}, src : Keys, key : Keys, value : Values,
                    at : {"check", "look", "makedirs", "rename", "prune"}]
    BY <1>3 DEF Frames
  <1> QED  BY <1>1, <1>2, <1>3 DEF Frames

\* A frame goes on to its next call.
LEMMA GoesOn ==
  ASSUME DatabaseConstants, Safe, owner' = owner, torn' = {}, UNCHANGED history,
         NEW p \in Procs, stack[p] # <<>>, NEW a, GoOn(p, a),
         Top(p).op = "save" => a \in {"exists", "rename"},
         Top(p).op = "delete" => a = "rmdir",
         Top(p).op = "move" => a \in {"look", "makedirs", "rename", "prune"},
         Local(p), \A c \in kept : AllSingle(c) => c \cap files' # {},
         TopOK([Top(p) EXCEPT !.at = a], dirs', files', kept)
  PROVE  Safe'
  <1> DEFINE x == Top(p)
             y == [x EXCEPT !.at = a]
             new == <<y>>
  <1>1. Len(stack[p]) > 0 /\ x \in Frames /\ FrameOK(p, x, kept)  BY TopFrame
  <1>2. /\ y \in Frames /\ y.op = x.op /\ y.key = x.key /\ y.value = x.value
        /\ x.op = "move" => y.src = x.src
    <2> HIDE DEF x
    <2> QED  BY <1>1, NextCall DEF x
  <1>3. TopOK(y, dirs', files', kept) /\ Instead(p, new)  BY DEF GoOn
  <1>4. TopFile(p) = <<x.key, x.value>>  BY DEF TopFile
  <1> HIDE DEF x, y
  <1>5. new \in Seq(Frames) /\ Len(new) = 1 /\ new[1] = y  BY <1>2
  <1>6. FrameOK(p, y, kept)  BY <1>1, <1>2 DEF FrameOK
  <1>7. x.op # "delete" => WillSave(new, TopFile(p))
    <2>1. x.op \in {"save", "delete", "move"}  BY <1>1 DEF Frames
    <2> QED  BY <1>2, <1>4, <1>5, <2>1 DEF WillSave
  <1>8. PICK n : n = new  OBVIOUS
  <1>9. n \in Seq(Frames) /\ Len(n) = 1 /\ n[1] = y /\ Instead(p, n)  BY <1>3, <1>5, <1>8
  <1>10. Len(stack[p]) = 1 /\ Top(p).op # "delete" => WillSave(n, TopFile(p))
    BY <1>7, <1>8 DEF x
  <1>11. /\ \A i \in 1 .. Len(n) : FrameOK(p, n[i], kept)
         /\ \A i \in 2 .. Len(n) : Below(n[i])
         /\ Len(n) > 0 => TopOK(n[1], dirs', files', kept)
    BY <1>3, <1>6, <1>9
  <1> QED  BY <1>1, <1>9, <1>10, <1>11, Continues

\* A step under the keys of p's frame is local to p.
LEMMA OwnKeys ==
  ASSUME Safe, NEW p \in Procs, NEW x, FrameOK(p, x, kept), NEW k, Single(k), p \notin owner[k]
  PROVE  k # x.key /\ (x.op = "move" => k # x.src)
  BY DEF FrameOK, Single

\* A move that failed has lost the value already, or may not keep it: the values of a key
\* whose directory another process made or removed are not kept.
LEMMA Fallback ==
  ASSUME DatabaseConstants, Safe, owner' = owner, torn' = {},
         NEW p \in Procs, stack[p] # <<>>, Top(p).op = "move", DeleteAndSave(p),
         Local(p), files' = files,
         ~Single(Top(p).key) \/ <<Top(p).src, Top(p).value>> \notin files
  PROVE  Safe'
  <1> DEFINE x == Top(p)
             a == Delete(x.src, x.value)
             b == Save(Meta, x.key)
             c == Save(x.key, x.value)
             new == <<a, b, c>>
  <1>1. Len(stack[p]) > 0 /\ x \in Frames /\ FrameOK(p, x, kept)  BY TopFrame
  <1>2. x.src \in Keys /\ x.key \in Keys /\ x.value \in Values
    <2> HIDE DEF x
    <2>1. x.op = "move"  BY DEF x
    <2> QED  BY <1>1, <2>1, FrameShape
  <1>3. UNCHANGED history /\ Instead(p, new)
    <2>1. <<a>> \o <<b, c>> = new
      <3> HIDE DEF a, b, c
      <3> DEFINE S == {a, b, c}
      <3>1. <<a>> \in Seq(S) /\ <<b, c>> \in Seq(S) /\ new \in Seq(S)  OBVIOUS
      <3>2. /\ <<a>> \o <<b, c>> \in Seq(S) /\ Len(<<a>> \o <<b, c>>) = Len(new)
            /\ \A i \in 1 .. Len(new) : (<<a>> \o <<b, c>>)[i] = new[i]
        OBVIOUS
      <3> HIDE DEF S
      <3> QED  BY <3>1, <3>2, SeqEqual
    <2> QED  BY <2>1 DEF DeleteAndSave, SaveListed
  <1>4. ~Single(x.key) \/ <<x.src, x.value>> \notin files  OBVIOUS
  <1>5. p \in owner[x.src] /\ p \in owner[x.key]  BY <1>1, <1>2 DEF FrameOK
  <1>6. TopFile(p) = <<x.key, x.value>>  BY DEF TopFile
  <1>7. \A d \in kept : AllSingle(d) /\ <<x.src, x.value>> \in d => <<x.key, x.value>> \in d
    BY <1>1 DEF FrameOK
  <1> HIDE DEF x
  <1>8. /\ a \in Frames /\ a.op = "delete" /\ a.key = x.src /\ a.value = x.value
        /\ b \in Frames /\ b.op = "save" /\ b.key = Meta /\ b.at = "mkdir"
        /\ c \in Frames /\ c.op = "save" /\ c.key = x.key /\ c.value = x.value /\ c.at = "mkdir"
    BY <1>2 DEF Frames, AllKeys, AnyValue, Save, Delete
  <1> HIDE DEF a, b, c
  <1>9. FrameOK(p, a, kept)  BY <1>5, <1>8 DEF FrameOK
  <1>10. FrameOK(p, b, kept)  BY <1>8 DEF FrameOK, DatabaseConstants
  <1>11. FrameOK(p, c, kept)  BY <1>5, <1>8 DEF FrameOK
  <1>12. TopOK(a, dirs', files', kept)
    <2>1. ASSUME Single(x.key) => <<x.src, x.value>> \notin files,
                 NEW d \in kept, AllSingle(d), <<x.src, x.value>> \in d
          PROVE  <<x.src, x.value>> \notin files
      <3>1. <<x.key, x.value>> \in d /\ Types  BY <1>7, <2>1 DEF Safe
      <3>2. Single(x.key)  BY <2>1, <3>1, KeptKeys
      <3> QED  BY <2>1, <3>2
    <2> QED  BY <1>4, <1>8, <2>1 DEF TopOK
  <1>13. new \in Seq(Frames) /\ Len(new) = 3 /\ new[1] = a /\ new[2] = b /\ new[3] = c
    BY <1>8
  <1>14. WillSave(new, TopFile(p))  BY <1>6, <1>8, <1>13 DEF WillSave
  <1>15. Below(b) /\ Below(c)  BY <1>8 DEF Below
  <1>16. PICK n : n = new  OBVIOUS
  <1>17. /\ n \in Seq(Frames) /\ Len(n) = 3 /\ n[1] = a /\ n[2] = b /\ n[3] = c
         /\ Instead(p, n) /\ WillSave(n, TopFile(p))
    BY <1>3, <1>13, <1>14, <1>16
  <1>18. /\ \A i \in 1 .. Len(n) : FrameOK(p, n[i], kept)
         /\ \A i \in 2 .. Len(n) : Below(n[i])
         /\ Len(n) > 0 => TopOK(n[1], dirs', files', kept)
    <2>1. 1 .. Len(n) = {1, 2, 3} /\ 2 .. Len(n) = {2, 3}  BY <1>17
    <2> QED  BY <1>9, <1>10, <1>11, <1>12, <1>15, <1>17, <2>1
  <1>19. \A d \in kept : AllSingle(d) => d \cap files' # {}  BY DEF Safe, KeptOK
  <1> QED  BY <1>1, <1>3, <1>17, <1>18, <1>19, Continues

-----------------------------------------------------------------------------
\* What the steps of a save keep.
LEMMA SaveSteps ==
  ASSUME DatabaseConstants, Safe, ~exdev, NEW p \in Procs,
         SaveMkdir(p) \/ SaveExists(p) \/ SaveRename(p) \/ SaveCreate(p) \/ SaveFill(p)
  PROVE  Safe'
  <1> DEFINE x == Top(p)
  <1>1. stack[p] # <<>> /\ x.op = "save"
    BY DEF SaveMkdir, SaveExists, SaveRename, SaveCreate, SaveFill, At
  <1>2. /\ Len(stack[p]) > 0 /\ x \in Frames /\ FrameOK(p, x, kept)
        /\ TopOK(x, dirs, files, kept)
    BY <1>1, TopFrame
  <1>3. torn = {} /\ \A c \in kept : AllSingle(c) => c \cap files # {}
    BY DEF Safe, Types, KeptOK
  <1>4. TopFile(p) = <<x.key, x.value>>  BY DEF TopFile
  <1>5. \A k : Single(k) /\ p \notin owner[k] => k # x.key
    <2> HIDE DEF x
    <2> QED  BY <1>2, OwnKeys
  <1>6. \A a \in {"exists", "rename"} :
          LET y == [x EXCEPT !.at = a] IN y.op = "save" /\ y.key = x.key /\ y.at = a
    <2> HIDE DEF x
    <2>1. x.op = "save"  BY <1>1 DEF x
    <2> QED  BY <1>2, <2>1, NextCall
  <1>7. CASE SaveMkdir(p)
    <2>1. /\ dirs' = dirs \cup {x.key} /\ GoOn(p, "exists") /\ owner' = owner
          /\ files' = files /\ torn' = {} /\ UNCHANGED history
      BY <1>3, <1>7 DEF SaveMkdir, given
    <2>2. Local(p)  BY <1>5, <2>1 DEF Local
    <2>3. TopOK([x EXCEPT !.at = "exists"], dirs', files', kept)
      <3> DEFINE y == [x EXCEPT !.at = "exists"]
      <3>1. y.op = "save" /\ y.key = x.key /\ y.at = "exists"  BY <1>6
      <3>2. x.key \in dirs'  BY <2>1
      <3> HIDE DEF y
      <3>3. TopOK(y, dirs', files', kept)  BY <3>1, <3>2 DEF TopOK
      <3> QED  BY <3>3 DEF y
    <2> QED  BY <1>1, <1>3, <2>1, <2>2, <2>3, GoesOn
  <1>8. CASE SaveExists(p)
    <2>1. /\ x.at = "exists" /\ owner' = owner /\ dirs' = dirs /\ files' = files /\ torn' = {}
      BY <1>3, <1>8 DEF SaveExists, given, fs, At
    <2>2. Local(p)  BY <2>1 DEF Local
    <2>3. CASE TopFile(p) \in files
      <3>1. Return(p)  BY <1>8, <2>3 DEF SaveExists
      <3> QED  BY <1>2, <1>3, <2>1, <2>2, <2>3, <3>1, Returns
    <2>4. CASE TopFile(p) \notin files
      <3>1. GoOn(p, "rename") /\ UNCHANGED history  BY <1>8, <2>4 DEF SaveExists
      <3>2. TopOK([x EXCEPT !.at = "rename"], dirs', files', kept)
        <4> DEFINE y == [x EXCEPT !.at = "rename"]
        <4>1. y.op = "save" /\ y.key = x.key /\ y.at = "rename"  BY <1>6
        <4>2. Single(x.key) => x.key \in dirs'  BY <1>1, <1>2, <2>1 DEF TopOK
        <4> HIDE DEF y
        <4>3. TopOK(y, dirs', files', kept)  BY <4>1, <4>2 DEF TopOK
        <4> QED  BY <4>3 DEF y
      <3> QED  BY <1>1, <1>3, <2>1, <2>2, <3>1, <3>2, GoesOn
    <2> QED  BY <2>3, <2>4
  <1>9. CASE SaveRename(p)
    <2>1. /\ x.at = "rename" /\ owner' = owner /\ dirs' = dirs /\ torn' = {} /\ Return(p)
          /\ files' = IF x.key \in dirs THEN files \cup {TopFile(p)} ELSE files
      BY <1>3, <1>9 DEF SaveRename, given, At
    <2>2. Local(p)  BY <1>4, <1>5, <2>1 DEF Local
    <2>3. Single(x.key) => TopFile(p) \in files'  BY <1>1, <1>2, <2>1 DEF TopOK
    <2>4. \A c \in kept : AllSingle(c) => c \cap files' # {}  BY <1>3, <2>1
    <2> QED  BY <1>2, <2>1, <2>2, <2>3, <2>4, Returns
  <1>10. ~SaveCreate(p)  BY DEF SaveCreate
  <1>11. ~SaveFill(p)
    <2>1. x.at # "fill"  BY <1>1, <1>2 DEF TopOK
    <2> QED  BY <2>1 DEF SaveFill, At
  <1> QED  BY <1>7, <1>8, <1>9, <1>10, <1>11

\* What the steps of a delete keep: the file it unlinks was promised to nobody.
LEMMA DeleteSteps ==
  ASSUME DatabaseConstants, Safe, NEW p \in Procs, DeleteUnlink(p) \/ DeleteRmdir(p)
  PROVE  Safe'
  <1> DEFINE x == Top(p)
  <1>1. stack[p] # <<>> /\ x.op = "delete"  BY DEF DeleteUnlink, DeleteRmdir, At
  <1>2. /\ Len(stack[p]) > 0 /\ x \in Frames /\ FrameOK(p, x, kept)
        /\ TopOK(x, dirs, files, kept)
    BY <1>1, TopFrame
  <1>3. torn = {} /\ \A c \in kept : AllSingle(c) => c \cap files # {}
    BY DEF Safe, Types, KeptOK
  <1>4. TopFile(p) = <<x.key, x.value>>  BY DEF TopFile
  <1>5. \A k : Single(k) /\ p \notin owner[k] => k # x.key
    <2> HIDE DEF x
    <2> QED  BY <1>2, OwnKeys
  <1>6. CASE DeleteUnlink(p) /\ TopFile(p) \in files
    <2>1. /\ x.at = "unlink" /\ owner' = owner /\ dirs' = dirs /\ torn' = {}
          /\ files' = files \ {TopFile(p)} /\ GoOn(p, "rmdir") /\ UNCHANGED history
      BY <1>3, <1>6 DEF DeleteUnlink, given, At
    <2>2. Local(p)  BY <1>4, <1>5, <2>1 DEF Local
    <2>3. \A c \in kept : AllSingle(c) => TopFile(p) \notin c
      BY <1>1, <1>2, <1>4, <1>6, <2>1 DEF TopOK
    <2>4. \A c \in kept : AllSingle(c) => c \cap files' # {}  BY <1>3, <2>1, <2>3
    <2>5. TopOK([x EXCEPT !.at = "rmdir"], dirs', files', kept)
      <3> DEFINE y == [x EXCEPT !.at = "rmdir"]
      <3>1. y.op = "delete" /\ y.at = "rmdir"
        <4>1. x.op = "delete"  BY <1>1
        <4> HIDE DEF x
        <4> QED  BY <1>2, <4>1, NextCall
      <3> HIDE DEF y
      <3>2. TopOK(y, dirs', files', kept)  BY <3>1 DEF TopOK
      <3> QED  BY <3>2 DEF y
    <2> QED  BY <1>1, <2>1, <2>2, <2>4, <2>5, GoesOn
  <1>7. CASE DeleteUnlink(p) /\ TopFile(p) \notin files
    <2>1. owner' = owner /\ dirs' = dirs /\ torn' = {} /\ files' = files /\ Return(p)
      BY <1>3, <1>7 DEF DeleteUnlink, given
    <2>2. Local(p)  BY <2>1 DEF Local
    <2> QED  BY <1>1, <1>2, <1>3, <2>1, <2>2, Returns
  <1>8. CASE DeleteRmdir(p) /\ x.key \in dirs /\ Empty(x.key)
    <2> DEFINE y == Delete(Meta, x.key)
               new == <<y>>
    <2>1. /\ owner' = owner /\ dirs' = dirs \ {x.key} /\ torn' = {} /\ files' = files
          /\ Instead(p, new) /\ UNCHANGED history
      BY <1>3, <1>8 DEF DeleteRmdir, given
    <2>2. Local(p)  BY <1>5, <2>1 DEF Local
    <2>3. y \in Frames /\ y.op = "delete" /\ y.key = Meta
      <3>1. x.key \in AllKeys
        <4> HIDE DEF x
        <4> QED  BY <1>2, FrameShape
      <3> HIDE DEF x
      <3> QED  BY <3>1 DEF Frames, AllKeys, AnyValue, Delete
    <2> HIDE DEF y
    <2>4. FrameOK(p, y, kept)  BY <2>3 DEF FrameOK, DatabaseConstants
    <2>5. TopOK(y, dirs', files', kept)
      <3>1. \A c \in kept : \A v : <<Meta, v>> \notin c  BY DEF Safe, Types, DatabaseConstants
      <3> QED  BY <2>3, <3>1 DEF TopOK
    <2>6. PICK n : n = new  OBVIOUS
    <2>7. n \in Seq(Frames) /\ Len(n) = 1 /\ n[1] = y /\ Instead(p, n)  BY <2>1, <2>3, <2>6
    <2>8. /\ \A i \in 1 .. Len(n) : FrameOK(p, n[i], kept)
          /\ \A i \in 2 .. Len(n) : Below(n[i])
          /\ Len(n) > 0 => TopOK(n[1], dirs', files', kept)
      BY <2>4, <2>5, <2>7
    <2> QED  BY <1>1, <1>2, <1>3, <2>1, <2>2, <2>7, <2>8, Continues
  <1>9. CASE DeleteRmdir(p) /\ ~(x.key \in dirs /\ Empty(x.key))
    <2>1. owner' = owner /\ dirs' = dirs /\ torn' = {} /\ files' = files /\ Return(p)
      BY <1>3, <1>9 DEF DeleteRmdir, given
    <2>2. Local(p)  BY <2>1 DEF Local
    <2> QED  BY <1>1, <1>2, <1>3, <2>1, <2>2, Returns
  <1> QED  BY <1>6, <1>7, <1>8, <1>9

\* What the steps of a move keep: the value is kept under one of its keys.
LEMMA MoveSteps ==
  ASSUME DatabaseConstants, Safe, NEW p \in Procs,
         \/ MoveCheck(p) \/ MoveLook(p) \/ MoveMakedirs(p) \/ MoveRename(p) \/ MovePrune(p)
  PROVE  Safe'
  <1> DEFINE x == Top(p)
             from == <<x.src, x.value>>
             to == <<x.key, x.value>>
             Next_(a) == [x EXCEPT !.at = a]
  <1>1. stack[p] # <<>> /\ x.op = "move"
    BY DEF MoveCheck, MoveLook, MoveMakedirs, MoveRename, MovePrune, At
  <1>2. /\ Len(stack[p]) > 0 /\ x \in Frames /\ FrameOK(p, x, kept)
        /\ TopOK(x, dirs, files, kept)
    BY <1>1, TopFrame
  <1>3. torn = {} /\ \A c \in kept : AllSingle(c) => c \cap files # {}
    BY DEF Safe, Types, KeptOK
  <1>4. TopFile(p) = to  BY DEF TopFile
  <1>5. x.src \in Keys /\ x.key \in Keys /\ x.value \in Values
    <2>1. x.op = "move"  BY <1>1
    <2> HIDE DEF x
    <2> QED  BY <1>2, <2>1, FrameShape
  <1>6. \A k : Single(k) /\ p \notin owner[k] => k # x.key /\ k # x.src
    <2>1. x.op = "move"  BY <1>1
    <2> HIDE DEF x
    <2> QED  BY <1>2, <2>1, OwnKeys
  <1>7. \A a \in {"look", "makedirs", "rename", "prune"} :
          /\ Next_(a) \in Frames /\ Next_(a).op = "move" /\ Next_(a).at = a
          /\ Next_(a).key = x.key /\ Next_(a).value = x.value /\ Next_(a).src = x.src
    <2>1. x.op = "move"  BY <1>1
    <2> HIDE DEF x
    <2> QED  BY <1>2, <2>1, NextCall
  <1>8. owner' = owner
    BY DEF MoveCheck, MoveLook, MoveMakedirs, MoveRename, MovePrune, given
  <1>9. CASE MoveCheck(p) /\ x.key \in dirs
    <2>1. /\ dirs' = dirs /\ torn' = {} /\ files' = files
          /\ GoOn(p, "look") /\ UNCHANGED history
      BY <1>3, <1>9 DEF MoveCheck, fs, GoOn
    <2>2. Local(p)  BY <2>1 DEF Local
    <2>3. TopOK(Next_("look"), dirs', files', kept)
      <3>1. Next_("look").op = "move" /\ Next_("look").at = "look"  BY <1>7
      <3> HIDE DEF Next_
      <3> QED  BY <3>1 DEF TopOK
    <2> QED  BY <1>1, <1>3, <1>8, <2>1, <2>2, <2>3, GoesOn
  <1>10. CASE MoveCheck(p) /\ x.key \notin dirs
    <2> DEFINE a == Save(Meta, x.key)
               b == Next_("look")
               new == <<a, b>>
    <2>1. /\ dirs' = dirs /\ torn' = {} /\ files' = files /\ UNCHANGED history
          /\ Instead(p, <<a>> \o <<b>>)
      BY <1>3, <1>10 DEF MoveCheck, fs
    <2>2. Local(p)  BY <2>1 DEF Local
    <2>3. /\ a \in Frames /\ a.op = "save" /\ a.key = Meta /\ a.at = "mkdir"
      <3> HIDE DEF x
      <3> QED  BY <1>5 DEF Frames, AllKeys, AnyValue, Save
    <2>4. b \in Frames /\ b.op = "move" /\ b.at = "look" /\ b.key = x.key
          /\ b.value = x.value /\ b.src = x.src
      BY <1>7
    <2> HIDE DEF a, b
    <2>5. <<a>> \o <<b>> = new
      <3> DEFINE S == {a, b}
      <3>1. /\ <<a>> \o <<b>> \in Seq(S) /\ Len(<<a>> \o <<b>>) = Len(new) /\ new \in Seq(S)
            /\ \A i \in 1 .. Len(new) : (<<a>> \o <<b>>)[i] = new[i]
        OBVIOUS
      <3> HIDE DEF S
      <3> QED  BY <3>1, SeqEqual
    <2>6. FrameOK(p, a, kept) /\ FrameOK(p, b, kept)
      BY <1>1, <1>2, <2>3, <2>4 DEF FrameOK, DatabaseConstants
    <2>7. TopOK(a, dirs', files', kept)  BY <2>3 DEF TopOK
    <2>8. WillSave(new, TopFile(p))  BY <1>4, <2>4 DEF WillSave
    <2>9. Below(b)  BY <2>4 DEF Below
    <2>10. PICK n : n = new  OBVIOUS
    <2>11. /\ n \in Seq(Frames) /\ Len(n) = 2 /\ n[1] = a /\ n[2] = b
           /\ Instead(p, n) /\ WillSave(n, TopFile(p))
      <3>1. n \in Seq(Frames) /\ Len(n) = 2 /\ n[1] = a /\ n[2] = b  BY <2>3, <2>4, <2>10
      <3> HIDE DEF new
      <3>2. Instead(p, n)  BY <2>1, <2>5, <2>10
      <3> QED  BY <2>8, <2>10, <3>1, <3>2
    <2>12. /\ \A i \in 1 .. Len(n) : FrameOK(p, n[i], kept)
           /\ \A i \in 2 .. Len(n) : Below(n[i])
           /\ Len(n) > 0 => TopOK(n[1], dirs', files', kept)
      <3>1. 1 .. Len(n) = {1, 2} /\ 2 .. Len(n) = {2}  BY <2>11
      <3> QED  BY <2>6, <2>7, <2>9, <2>11, <3>1
    <2> QED  BY <1>2, <1>3, <1>8, <2>1, <2>2, <2>11, <2>12, Continues
  <1>11. CASE MoveLook(p)
    <2> DEFINE a == IF x.key \in dirs THEN "rename" ELSE "makedirs"
    <2>1. /\ dirs' = dirs /\ torn' = {} /\ files' = files /\ GoOn(p, a) /\ UNCHANGED history
      BY <1>3, <1>11 DEF MoveLook, fs
    <2>2. Local(p)  BY <2>1 DEF Local
    <2>3. a \in {"rename", "makedirs"} /\ (a = "rename" <=> x.key \in dirs)  OBVIOUS
    <2> HIDE DEF a
    <2>4. TopOK(Next_(a), dirs', files', kept)
      <3> DEFINE y == Next_(a)
      <3>1. y.op = "move" /\ y.at = a /\ y.key = x.key  BY <1>7, <2>3
      <3> HIDE DEF y
      <3>2. TopOK(y, dirs', files', kept)  BY <2>1, <2>3, <3>1 DEF TopOK
      <3> QED  BY <3>2 DEF y
    <2> QED  BY <1>1, <1>3, <1>8, <2>1, <2>2, <2>3, <2>4, GoesOn
  <1>12. CASE MoveMakedirs(p)
    <2>1. /\ x.at = "makedirs" /\ dirs' = dirs \cup {x.key} /\ torn' = {} /\ files' = files
      BY <1>3, <1>12 DEF MoveMakedirs, At
    <2>2. Local(p)  BY <1>6, <2>1 DEF Local
    <2>3. CASE x.key \in dirs
      <3>1. DeleteAndSave(p)  BY <1>12, <2>3 DEF MoveMakedirs
      <3>2. ~Single(x.key)  BY <1>1, <1>2, <2>1, <2>3 DEF TopOK
      <3> QED  BY <1>1, <1>8, <2>1, <2>2, <3>1, <3>2, Fallback
    <2>4. CASE x.key \notin dirs
      <3>1. GoOn(p, "rename") /\ UNCHANGED history  BY <1>12, <2>4 DEF MoveMakedirs
      <3>2. TopOK(Next_("rename"), dirs', files', kept)
        <4> DEFINE y == Next_("rename")
        <4>1. y.op = "move" /\ y.at = "rename" /\ y.key = x.key  BY <1>7
        <4>2. x.key \in dirs'  BY <2>1
        <4> HIDE DEF y
        <4>3. TopOK(y, dirs', files', kept)  BY <4>1, <4>2 DEF TopOK
        <4> QED  BY <4>3 DEF y
      <3> QED  BY <1>1, <1>3, <1>8, <2>1, <2>2, <3>1, <3>2, GoesOn
    <2> QED  BY <2>3, <2>4
  <1>13. CASE MoveRename(p) /\ from \in files /\ x.key \in dirs
    <2>1. /\ dirs' = dirs /\ files' = {IF f = from THEN to ELSE f : f \in files}
          /\ torn' = {IF f = from THEN to ELSE f : f \in torn \ {to}}
          /\ GoOn(p, "prune") /\ UNCHANGED history
      BY <1>4, <1>13 DEF MoveRename
    <2>2. torn' = {}  BY <1>3, <2>1
    <2>3. to \in files' /\ \A f : f # from /\ f # to => (f \in files' <=> f \in files)
      BY <1>13, <2>1
    <2>4. Local(p)
      <3> SUFFICES ASSUME NEW k, Single(k), p \notin owner[k]
                   PROVE  \A v : <<k, v>> \in files' <=> <<k, v>> \in files
        BY <2>1 DEF Local
      <3>1. k # x.key /\ k # x.src  BY <1>6
      <3> QED  BY <2>3, <3>1
    <2>5. ASSUME NEW c \in kept, AllSingle(c)  PROVE c \cap files' # {}
      <3>1. PICK f : f \in c /\ f \in files  BY <1>3, <2>5
      <3>2. from \in c => to \in c  BY <1>1, <1>2, <2>5 DEF FrameOK
      <3>3. CASE f = from  BY <2>3, <3>1, <3>2, <3>3
      <3>4. CASE f = to  BY <2>3, <3>1, <3>4
      <3>5. CASE f # from /\ f # to  BY <2>3, <3>1, <3>5
      <3> QED  BY <3>3, <3>4, <3>5
    <2>6. TopOK(Next_("prune"), dirs', files', kept)
      <3> DEFINE y == Next_("prune")
      <3>1. y.op = "move" /\ y.at = "prune" /\ <<y.key, y.value>> = to  BY <1>7
      <3> HIDE DEF y, to
      <3>2. TopOK(y, dirs', files', kept)  BY <2>3, <3>1 DEF TopOK
      <3> QED  BY <3>2 DEF y
    <2> QED  BY <1>1, <1>8, <2>1, <2>2, <2>4, <2>5, <2>6, GoesOn
  <1>14. CASE MoveRename(p) /\ ~(from \in files /\ x.key \in dirs)
    <2>1. x.at = "rename" /\ dirs' = dirs /\ torn' = {} /\ files' = files /\ DeleteAndSave(p)
      BY <1>3, <1>14 DEF MoveRename, At
    <2>2. Local(p)  BY <2>1 DEF Local
    <2>3. ~Single(x.key) \/ from \notin files  BY <1>1, <1>2, <1>14, <2>1 DEF TopOK
    <2> QED  BY <1>1, <1>8, <2>1, <2>2, <2>3, Fallback
  <1>15. CASE MovePrune(p)
    <2>1. /\ x.at = "prune" /\ torn' = {} /\ files' = files /\ Return(p)
          /\ dirs' = dirs \/ dirs' = dirs \ {x.src}
      BY <1>3, <1>15 DEF MovePrune, At
    <2>2. Local(p)  BY <1>6, <2>1 DEF Local
    <2>3. Single(x.key) => TopFile(p) \in files'  BY <1>1, <1>2, <1>4, <2>1 DEF TopOK
    <2> QED  BY <1>2, <1>3, <1>8, <2>1, <2>2, <2>3, Returns
  <1> QED  BY <1>9, <1>10, <1>11, <1>12, <1>13, <1>14, <1>15

-----------------------------------------------------------------------------
\* An operation begins, or is cut off: p's stack is a new one, and what was pending for p
\* or promised under its keys may go.
LEMMA Restarts ==
  ASSUME DatabaseConstants, Safe, owner' = owner, torn' = {}, dirs' = dirs, files' = files,
         NEW p \in Procs, NEW new \in Seq(Frames), stack' = [stack EXCEPT ![p] = new],
         kept' \subseteq SUBSET (Keys \X Values), KeptLocal(p),
         pending' \subseteq Procs \X (Keys \X Values),
         \A x \in pending' : IF x[1] = p THEN WillSave(new, x[2]) ELSE x \in pending,
         \A c \in kept' : AllSingle(c) => c \cap files # {},
         StackOK(p, new, dirs, files, kept')
  PROVE  Safe'
  <1>1. stack \in [Procs -> Seq(Frames)]  BY DEF Safe, Types
  <1>2. Local(p)  BY DEF Local
  <1>3. ASSUME NEW q \in Procs  PROVE StackOK(q, stack'[q], dirs', files', kept')
    <2>1. CASE q = p  BY <1>1, <2>1
    <2>2. CASE q # p
      <3>1. stack[q] \in Seq(Frames) /\ StackOK(q, stack[q], dirs, files, kept) /\ Types
        BY <1>1 DEF Safe, StacksOK
      <3>2. StackOK(q, stack[q], dirs', files', kept')  BY <1>2, <2>2, <3>1, OthersStay
      <3>3. stack'[q] = stack[q]  BY <1>1, <2>2
      <3> QED  BY <3>2, <3>3
    <2> QED  BY <2>1, <2>2
  <1>4. ASSUME NEW x \in pending'  PROVE WillSave(stack'[x[1]], x[2])
    <2>1. x[1] \in Procs  OBVIOUS
    <2>2. CASE x[1] = p  BY <1>1, <2>2
    <2>3. CASE x[1] # p
      <3>1. WillSave(stack[x[1]], x[2])  BY <2>3 DEF Safe, PendingOK
      <3> QED  BY <1>1, <2>1, <2>3, <3>1
    <2> QED  BY <2>2, <2>3
  <1>5. Types'  BY <1>1 DEF Safe, Types
  <1> QED  BY <1>3, <1>4, <1>5, SafeNext

\* A process that is idle has promised to save nothing.
LEMMA IdlePromisesNothing ==
  ASSUME Safe, NEW p \in Procs, stack[p] = <<>>, NEW x \in pending
  PROVE  x[1] # p
  <1>1. WillSave(stack[x[1]], x[2])  BY DEF Safe, PendingOK
  <1>2. Len(<<>>) = 0  OBVIOUS
  <1> QED  BY <1>1, <1>2 DEF WillSave

\* save() is called.
LEMMA StartSaveStep ==
  ASSUME DatabaseConstants, Safe, NEW p \in Procs, NEW k \in Keys, NEW v \in Values,
         StartSave(p, k, v)
  PROVE  Safe'
  <1> DEFINE a == Save(Meta, k)
             b == Save(k, v)
             new == <<a, b>>
  <1>1. /\ owner' = owner /\ dirs' = dirs /\ files' = files /\ torn' = {} /\ kept' = kept
        /\ stack' = [stack EXCEPT ![p] = new] /\ p \in owner[k] /\ stack[p] = <<>>
        /\ pending' \subseteq pending \cup {<<p, <<k, v>>>>}
    BY DEF StartSave, fs, given, SaveListed, Uses, Promising, Safe, Types
  <1>2. /\ kept \subseteq SUBSET (Keys \X Values) /\ pending \subseteq Procs \X (Keys \X Values)
        /\ \A c \in kept : AllSingle(c) => c \cap files # {}
    BY DEF Safe, Types, KeptOK
  <1>3. /\ a \in Frames /\ a.op = "save" /\ a.key = Meta /\ a.at = "mkdir"
        /\ b \in Frames /\ b.op = "save" /\ b.key = k /\ b.value = v /\ b.at = "mkdir"
    BY DEF Frames, AllKeys, AnyValue, Save
  <1> HIDE DEF a, b
  <1>4. new \in Seq(Frames) /\ Len(new) = 2 /\ new[1] = a /\ new[2] = b  BY <1>3
  <1> HIDE DEF new
  <1>5. WillSave(new, <<k, v>>)  BY <1>3, <1>4 DEF WillSave
  <1>6. StackOK(p, new, dirs, files, kept)
    <2>1. FrameOK(p, a, kept) /\ FrameOK(p, b, kept)
      BY <1>1, <1>3 DEF FrameOK, DatabaseConstants
    <2>2. Below(b) /\ TopOK(a, dirs, files, kept)  BY <1>3 DEF Below, TopOK
    <2>3. 1 .. Len(new) = {1, 2} /\ 2 .. Len(new) = {2}  BY <1>4
    <2> QED  BY <1>4, <2>1, <2>2, <2>3 DEF StackOK
  <1>7. \A x \in pending' : IF x[1] = p THEN WillSave(new, x[2]) ELSE x \in pending
    BY <1>1, <1>5, IdlePromisesNothing
  <1>8. pending' \subseteq Procs \X (Keys \X Values)  BY <1>1, <1>2
  <1>9. KeptLocal(p)  BY <1>1 DEF KeptLocal
  <1> QED  BY <1>1, <1>2, <1>4, <1>6, <1>7, <1>8, <1>9, Restarts

\* delete() is called.
LEMMA StartDeleteStep ==
  ASSUME DatabaseConstants, Safe, NEW p \in Procs, NEW k \in Keys, NEW v \in Values,
         StartDelete(p, k, v)
  PROVE  Safe'
  <1> DEFINE a == Delete(k, v)
             new == <<a>>
  <1>1. /\ owner' = owner /\ dirs' = dirs /\ files' = files /\ torn' = {}
        /\ kept' = {c \in kept : <<k, v>> \notin c}
        /\ stack' = [stack EXCEPT ![p] = new] /\ p \in owner[k] /\ stack[p] = <<>>
        /\ pending' \subseteq pending
    BY DEF StartDelete, fs, given, Uses, Safe, Types
  <1>2. /\ kept \subseteq SUBSET (Keys \X Values) /\ pending \subseteq Procs \X (Keys \X Values)
        /\ \A c \in kept : AllSingle(c) => c \cap files # {}
    BY DEF Safe, Types, KeptOK
  <1>3. a \in Frames /\ a.op = "delete" /\ a.key = k /\ a.value = v
    BY DEF Frames, AllKeys, AnyValue, Delete
  <1> HIDE DEF a
  <1>4. new \in Seq(Frames) /\ Len(new) = 1 /\ new[1] = a  BY <1>3
  <1> HIDE DEF new
  <1>5. StackOK(p, new, dirs, files, kept')
    <2>1. FrameOK(p, a, kept')  BY <1>1, <1>3 DEF FrameOK
    <2>2. TopOK(a, dirs, files, kept')  BY <1>1, <1>3 DEF TopOK
    <2> QED  BY <1>4, <2>1, <2>2 DEF StackOK
  <1>6. \A x \in pending' : IF x[1] = p THEN WillSave(new, x[2]) ELSE x \in pending
    BY <1>1, IdlePromisesNothing
  <1>7. KeptLocal(p)  BY <1>1 DEF KeptLocal
  <1>8. \A c \in kept' : AllSingle(c) => c \cap files # {}  BY <1>1, <1>2
  <1>9. kept' \subseteq SUBSET (Keys \X Values) /\ pending' \subseteq Procs \X (Keys \X Values)
    BY <1>1, <1>2
  <1> QED  BY <1>1, <1>4, <1>5, <1>6, <1>7, <1>8, <1>9, Restarts

\* move() from one key to another is called.
LEMMA StartMoveStep ==
  ASSUME DatabaseConstants, Safe, NEW p \in Procs, NEW s \in Keys, NEW d \in Keys,
         NEW v \in Values, StartMove(p, s, d, v)
  PROVE  Safe'
  <1> DEFINE a == Move(s, d, v)
             new == <<a>>
  <1>1. /\ owner' = owner /\ dirs' = dirs /\ files' = files /\ torn' = {}
        /\ kept' = {IF <<s, v>> \in c THEN c \cup {<<d, v>>} ELSE c : c \in kept}
        /\ stack' = [stack EXCEPT ![p] = new] /\ stack[p] = <<>>
        /\ p \in owner[s] /\ p \in owner[d]
        /\ pending' \subseteq pending \cup {<<p, <<d, v>>>>}
    BY DEF StartMove, fs, given, Uses, Promising, Safe, Types
  <1>2. /\ kept \subseteq SUBSET (Keys \X Values) /\ pending \subseteq Procs \X (Keys \X Values)
        /\ \A c \in kept : AllSingle(c) => c \cap files # {}
    BY DEF Safe, Types, KeptOK
  <1>3. a \in Frames /\ a.op = "move" /\ a.src = s /\ a.key = d /\ a.value = v /\ a.at = "check"
    BY DEF Frames, Move
  <1> HIDE DEF a
  <1>4. new \in Seq(Frames) /\ Len(new) = 1 /\ new[1] = a  BY <1>3
  <1> HIDE DEF new
  <1>5. ASSUME NEW c \in kept'
        PROVE  /\ <<s, v>> \in c => <<d, v>> \in c
               /\ \E b \in kept : b \subseteq c /\ c \subseteq b \cup {<<d, v>>}
    <2>1. PICK b \in kept : c = IF <<s, v>> \in b THEN b \cup {<<d, v>>} ELSE b  BY <1>1
    <2>2. CASE <<s, v>> \in b  BY <2>1, <2>2
    <2>3. CASE <<s, v>> \notin b  BY <2>1, <2>3
    <2> QED  BY <2>2, <2>3
  <1>6. StackOK(p, new, dirs, files, kept')
    <2>1. FrameOK(p, a, kept')  BY <1>1, <1>3, <1>5 DEF FrameOK
    <2>2. TopOK(a, dirs, files, kept')  BY <1>3 DEF TopOK
    <2> QED  BY <1>4, <2>1, <2>2 DEF StackOK
  <1>7. \A x \in pending' : IF x[1] = p THEN WillSave(new, x[2]) ELSE x \in pending
    <2>1. WillSave(new, <<d, v>>)  BY <1>3, <1>4 DEF WillSave
    <2> QED  BY <1>1, <2>1, IdlePromisesNothing
  <1>8. KeptLocal(p)
    <2> SUFFICES ASSUME NEW c \in kept', NEW f \in c, p \notin owner[f[1]]
                 PROVE  \E b \in kept : f \in b /\ b \subseteq c
      BY DEF KeptLocal
    <2>1. f # <<d, v>>  BY <1>1
    <2> QED  BY <1>5, <2>1
  <1>9. ASSUME NEW c \in kept', AllSingle(c)  PROVE c \cap files # {}
    <2>1. PICK b \in kept : b \subseteq c  BY <1>5
    <2>2. AllSingle(b)  BY <1>9, <2>1 DEF AllSingle
    <2> QED  BY <1>2, <2>1, <2>2
  <1>10. kept' \subseteq SUBSET (Keys \X Values)
    <2> SUFFICES ASSUME NEW c \in kept', NEW f \in c  PROVE f \in Keys \X Values
      OBVIOUS
    <2>1. PICK b \in kept : c \subseteq b \cup {<<d, v>>}  BY <1>5
    <2> QED  BY <1>2, <2>1
  <1>11. pending' \subseteq Procs \X (Keys \X Values)  BY <1>1, <1>2
  <1> QED  BY <1>1, <1>4, <1>6, <1>7, <1>8, <1>9, <1>10, <1>11, Restarts

\* A process dies between two system calls: its stack is gone.
LEMMA CrashStep ==
  ASSUME DatabaseConstants, Safe, NEW p \in Procs, Crash(p)
  PROVE  Safe'
  <1>1. PICK new : new = <<>>  OBVIOUS
  <1>2. new \in Seq(Frames) /\ Len(new) = 0 /\ stack' = [stack EXCEPT ![p] = new]
    BY <1>1 DEF Crash
  <1>3. /\ owner' = owner /\ dirs' = dirs /\ files' = files /\ torn' = {} /\ kept' = kept
        /\ pending' = {x \in pending : x[1] # p}
    BY DEF Crash, given, Safe, Types
  <1>4. /\ kept \subseteq SUBSET (Keys \X Values) /\ pending \subseteq Procs \X (Keys \X Values)
        /\ \A c \in kept : AllSingle(c) => c \cap files # {}
    BY DEF Safe, Types, KeptOK
  <1>5. StackOK(p, new, dirs, files, kept')  BY <1>2 DEF StackOK
  <1>6. KeptLocal(p)  BY <1>3 DEF KeptLocal
  <1>7. \A x \in pending' : IF x[1] = p THEN WillSave(new, x[2]) ELSE x \in pending
    BY <1>3
  <1>8. pending' \subseteq Procs \X (Keys \X Values)  BY <1>3, <1>4
  <1> QED  BY <1>2, <1>3, <1>4, <1>5, <1>6, <1>7, <1>8, Restarts

-----------------------------------------------------------------------------
\* An empty directory is safe.
LEMMA InitInv == ASSUME DatabaseConstants, Init PROVE Inv
  <1>1. Types
    <2>1. <<>> \in Seq(Frames)  OBVIOUS
    <2> QED  BY <2>1 DEF Types, Init, DatabaseConstants
  <1>2. StacksOK
    <2>1. \A p \in Procs : Len(stack[p]) = 0  BY DEF Init
    <2> QED  BY <2>1 DEF StacksOK, StackOK
  <1>3. PendingOK /\ KeptOK  BY DEF PendingOK, KeptOK, Init
  <1> QED  BY <1>1, <1>2, <1>3 DEF Inv, Safe

\* Every system call keeps the invariant.
LEMMA StepInv == ASSUME DatabaseConstants, Inv, [Next]_vars PROVE Inv'
  <1>1. exdev' = exdev
    <2>1. ASSUME NEW p \in Procs, NEW k \in Keys, NEW v \in Values,
                 StartSave(p, k, v) \/ StartDelete(p, k, v)
          PROVE  UNCHANGED given
      BY <2>1 DEF StartSave, StartDelete
    <2>2. ASSUME NEW p \in Procs, NEW s \in Keys, NEW d \in Keys, NEW v \in Values,
                 StartMove(p, s, d, v)
          PROVE  UNCHANGED given
      BY <2>2 DEF StartMove
    <2>3. ASSUME NEW p \in Procs,
                 \/ SaveMkdir(p) \/ SaveExists(p) \/ SaveRename(p) \/ SaveCreate(p) \/ SaveFill(p)
          PROVE  UNCHANGED given
      BY <2>3 DEF SaveMkdir, SaveExists, SaveRename, SaveCreate, SaveFill
    <2>4. ASSUME NEW p \in Procs, DeleteUnlink(p) \/ DeleteRmdir(p) \/ Crash(p)
          PROVE  UNCHANGED given
      BY <2>4 DEF DeleteUnlink, DeleteRmdir, Crash
    <2>5. ASSUME NEW p \in Procs,
                 MoveCheck(p) \/ MoveLook(p) \/ MoveMakedirs(p) \/ MoveRename(p) \/ MovePrune(p)
          PROVE  UNCHANGED given
      BY <2>5 DEF MoveCheck, MoveLook, MoveMakedirs, MoveRename, MovePrune
    <2>6. CASE UNCHANGED vars
      BY <2>6 DEF vars, given
    <2> QED  BY <2>1, <2>2, <2>3, <2>4, <2>5, <2>6 DEF Next, given
  <1>2. SUFFICES ASSUME ~exdev, Safe  PROVE Safe'
    BY <1>1 DEF Inv
  <1>3. CASE UNCHANGED vars
    BY <1>2, <1>3 DEF vars, Safe, Types, StacksOK, StackOK, FrameOK, TopOK, Below, PendingOK,
                      WillSave, KeptOK, Single, AllSingle
  <1>4. CASE Next
    <2> PICK p \in Procs :
          \/ \E k \in Keys, v \in Values : StartSave(p, k, v) \/ StartDelete(p, k, v)
          \/ \E s, d \in Keys, v \in Values : StartMove(p, s, d, v)
          \/ SaveMkdir(p) \/ SaveExists(p) \/ SaveRename(p) \/ SaveCreate(p) \/ SaveFill(p)
          \/ DeleteUnlink(p) \/ DeleteRmdir(p)
          \/ MoveCheck(p) \/ MoveLook(p) \/ MoveMakedirs(p) \/ MoveRename(p) \/ MovePrune(p)
          \/ Crash(p)
      BY <1>4 DEF Next
    <2>1. CASE \E k \in Keys, v \in Values : StartSave(p, k, v) \/ StartDelete(p, k, v)
      BY <1>2, <2>1, StartSaveStep, StartDeleteStep
    <2>2. CASE \E s, d \in Keys, v \in Values : StartMove(p, s, d, v)
      BY <1>2, <2>2, StartMoveStep
    <2>3. CASE SaveMkdir(p) \/ SaveExists(p) \/ SaveRename(p) \/ SaveCreate(p) \/ SaveFill(p)
      BY <1>2, <2>3, SaveSteps
    <2>4. CASE DeleteUnlink(p) \/ DeleteRmdir(p)  BY <1>2, <2>4, DeleteSteps
    <2>5. CASE MoveCheck(p) \/ MoveLook(p) \/ MoveMakedirs(p) \/ MoveRename(p) \/ MovePrune(p)
      BY <1>2, <2>5, MoveSteps
    <2>6. CASE Crash(p)  BY <1>2, <2>6, CrashStep
    <2> QED  BY <2>1, <2>2, <2>3, <2>4, <2>5, <2>6
  <1> QED  BY <1>3, <1>4

\* save, delete and move of DirectoryBasedExampleDatabase: what a process saved or moved
\* under keys that it alone uses stays under one of them until it is asked to delete it,
\* whatever the other processes do to the directory and the metakey, and whoever dies.
THEOREM OwnSavesStay == ASSUME DatabaseConstants PROVE Spec => []OwnSavesStick
  <1>1. Init => Inv  BY InitInv
  <1>2. Inv /\ [Next]_vars => Inv'  BY StepInv
  <1>3. Inv => OwnSavesStick
    <2> SUFFICES ASSUME ~exdev, Safe, NEW c \in kept, AllSingle(c)  PROVE Stands(c)
      BY DEF Inv, OwnSavesStick, AllSingle
    <2>1. c \cap files # {} /\ torn = {}  BY DEF Safe, KeptOK, Types
    <2> QED  BY <2>1 DEF Stands
  <1> QED  BY <1>1, <1>2, <1>3, PTL DEF Spec
=============================================================================
