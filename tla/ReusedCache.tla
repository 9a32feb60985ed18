----------------------------- MODULE ReusedCache -----------------------------
(***************************************************************************)
(* What LRUReusedCache (cache.py) promises: a map of bounded size that     *)
(* evicts the key used least recently, keys that were never used again     *)
(* after their insertion before all others, and pinned keys never.         *)
(***************************************************************************)
EXTENDS Integers, FiniteSets

CONSTANTS
  Keys,      \* what can be cached
  Values,    \* under what
  MaxSize,   \* max_size
  MaxPins    \* bound: a key is pinned at most so often

CacheConstants == MaxSize \in Nat \ {0} /\ MaxPins \in Nat

VARIABLES
  cache,     \* for every key in the cache its value, whether it was used again, its pins
  older      \* <<j, k>>: key j was used less recently than key k

vars == <<cache, older>>

Cached == DOMAIN cache
Entry(v, r, p) == [value |-> v, reused |-> r, pins |-> p]

\* Key k is used now, and the keys of K are the others.
Used(k, K) == {p \in older : p[1] \in K /\ p[2] \in K} \cup (K \X {k})

\* The key that has to go first: the smallest score of those not pinned.
Evictable(k) ==
  /\ cache[k].pins = 0
  /\ \A j \in Cached \ {k} :
       \/ cache[j].pins > 0
       \/ cache[j].reused /\ ~cache[k].reused
       \/ cache[j].reused = cache[k].reused /\ <<k, j>> \in older

Init == cache = <<>> /\ older = {}

\* Write value v under k, with p more pins.
Rewrite(k, v, p) ==
  /\ k \in Cached
  /\ cache' = [cache EXCEPT ![k] = Entry(v, TRUE, @.pins + p)]
  /\ older' = Used(k, Cached \ {k})

Insert(k, v, p) ==
  /\ k \notin Cached
  /\ Cardinality(Cached) < MaxSize
  /\ cache' = [x \in Cached \cup {k} |-> IF x = k THEN Entry(v, FALSE, p) ELSE cache[x]]
  /\ older' = Used(k, Cached)

Replace(j, k, v, p) ==
  /\ k \notin Cached
  /\ Cardinality(Cached) = MaxSize
  /\ Evictable(j)
  /\ cache' = [x \in (Cached \ {j}) \cup {k} |->
                 IF x = k THEN Entry(v, FALSE, p) ELSE cache[x]]
  /\ older' = Used(k, Cached \ {j})

Store(k, v, p) ==
  Rewrite(k, v, p) \/ Insert(k, v, p) \/ \E j \in Cached : Replace(j, k, v, p)

Write(k, v) == Store(k, v, 0)

Pin(k, v) ==
  /\ k \in Cached => cache[k].pins < MaxPins
  /\ Store(k, v, 1)

Read(k) ==
  /\ k \in Cached
  /\ cache' = [cache EXCEPT ![k].reused = TRUE]
  /\ older' = Used(k, Cached \ {k})

Unpin(k) ==
  /\ k \in Cached /\ cache[k].pins > 0
  /\ cache' = [cache EXCEPT ![k].pins = @ - 1]
  /\ UNCHANGED older

Clear == cache' = <<>> /\ older' = {}

Next ==
  \/ \E k \in Keys : Read(k) \/ Unpin(k) \/ \E v \in Values : Write(k, v) \/ Pin(k, v)
  \/ Clear

Spec == Init /\ [][Next]_vars

-----------------------------------------------------------------------------
TypeOK ==
  /\ Cached \subseteq Keys
  /\ cache \in [Cached -> [value : Values, reused : BOOLEAN, pins : Nat]]
  /\ older \subseteq Cached \X Cached

\* The cache never outgrows its size.
Bounded == IsFiniteSet(Cached) /\ Cardinality(Cached) <= MaxSize

\* One of any two keys was used less recently than the other.
Ordered ==
  /\ \A j, k \in Cached : j # k => (<<j, k>> \in older <=> <<k, j>> \notin older)
  /\ \A i, j, k \in Cached :
       <<i, j>> \in older /\ <<j, k>> \in older => <<i, k>> \in older
  /\ \A k \in Cached : <<k, k>> \notin older

\* "it may not be evicted until unpin(key) has been called": unless the cache is
\* cleared, a pinned key stays, and loses a pin only by an unpin of its own.
PinnedStay ==
  [][cache' = <<>> \/ \A k \in Cached : cache[k].pins > 0 =>
       /\ k \in Cached'
       /\ cache'[k].pins >= cache[k].pins - 1
       /\ cache'[k].pins < cache[k].pins => Unpin(k)]_vars
=============================================================================
