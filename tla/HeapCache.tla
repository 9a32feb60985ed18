------------------------------ MODULE HeapCache ------------------------------
(***************************************************************************)
(* GenericCache and LRUReusedCache (cache.py): a binary heap of entries,   *)
(* the one to evict at its root, and the index of every key in it.         *)
(*                                                                         *)
(* A score is a class and a tick; only the order of the ticks matters, so  *)
(* order holds the keys by their last tick instead.  Positions count from  *)
(* 1: the children of i are 2i and 2i + 1.                                 *)
(***************************************************************************)
EXTENDS Integers, FiniteSetsExt, SequencesExt

CONSTANTS Keys, Values, MaxSize, MaxPins

VARIABLES
  data,      \* the heap
  index,     \* keys_to_indices
  order      \* the keys in the heap by the tick of their scores

vars == <<data, index, order>>

Entry(k, v) == [key |-> k, value |-> v, reused |-> FALSE, pins |-> 0]
Place(ord, k) == CHOOSE i \in DOMAIN ord : ord[i] = k
Forgotten(k) == RemoveAt(order, Place(order, k))
Ticked(k) == Append(Forgotten(k), k)

\* Entry.sort_key, as a sequence of numbers.
SortKey(ord, e) ==
  IF e.pins > 0 THEN <<1>>
  ELSE <<0, IF e.reused THEN 2 ELSE 1, Place(ord, e.key)>>

\* Tuples compare by the first place where they differ.
Less(s, t) ==
  \E i \in DOMAIN s \cap DOMAIN t : s[i] < t[i] /\ \A j \in 1..i - 1 : s[j] = t[j]

-----------------------------------------------------------------------------
\* A heap under repair is a record of data, index and the order of its scores.
OutOfOrder(h, i, j) == Less(SortKey(h.order, h.data[j]), SortKey(h.order, h.data[i]))

Swap(h, i, j) ==
  [h EXCEPT !.data[i] = h.data[j], !.data[j] = h.data[i],
            !.index[h.data[j].key] = i, !.index[h.data[i].key] = j]

Children(h, i) == {2 * i, 2 * i + 1} \cap DOMAIN h.data

\* The first of the children with the smallest sort key.
SmallestChild(h, i) ==
  Min({j \in Children(h, i) : \A k \in Children(h, i) : ~OutOfOrder(h, j, k)})

\* One turn of each loop of __balance, which looks at the entry at m.at.
BubbleUp(m) ==
  IF m.at > 1 /\ OutOfOrder(m.heap, m.at \div 2, m.at)
  THEN [heap |-> Swap(m.heap, m.at \div 2, m.at), at |-> m.at \div 2] ELSE m

BubbleDown(m) ==
  LET child == SmallestChild(m.heap, m.at)
  IN  IF Children(m.heap, m.at) # {} /\ OutOfOrder(m.heap, m.at, child)
      THEN [heap |-> Swap(m.heap, m.at, child), at |-> child] ELSE m

\* __balance: neither loop takes more turns than there are entries.
Balance(h, i) ==
  LET n == Len(h.data)
      up[k \in 0 .. n] == IF k = 0 THEN [heap |-> h, at |-> i] ELSE BubbleUp(up[k - 1])
      down[k \in 0 .. n] == IF k = 0 THEN up[n] ELSE BubbleDown(down[k - 1])
  IN  down[n].heap

Become(h) == data' = h.data /\ index' = h.index /\ order' = h.order

-----------------------------------------------------------------------------
\* Mutant: the use of a pinned entry goes unnoticed.
AccessedPinned(i, e) ==
  IF e.pins > 0 THEN [data |-> [data EXCEPT ![i] = e], index |-> index, order |-> order]
  ELSE Balance([data  |-> [data EXCEPT ![i] = [e EXCEPT !.reused = TRUE]],
                index |-> index, order |-> Ticked(e.key)], i)

\* __entry_was_accessed, the entry having become e: a pinned one is not moved.
Accessed(i, e) ==
  LET h == [data  |-> [data EXCEPT ![i] = [e EXCEPT !.reused = TRUE]],
            index |-> index,
            order |-> Ticked(e.key)]
  IN IF e.pins = 0 THEN Balance(h, i) ELSE h

\* __setitem__ of a key that is there.
Updated(k, v) == Accessed(index[k], [data[index[k]] EXCEPT !.value = v])

\* __setitem__ of a new key: at the end, or in place of the root.
IndexOf(k, i, gone) == [x \in (DOMAIN index \ gone) \cup {k} |-> IF x = k THEN i ELSE index[x]]

Added(k, v) ==
  LET i == Len(data) + 1 IN
  Balance([data  |-> Append(data, Entry(k, v)),
           index |-> IndexOf(k, i, {}),
           order |-> Append(order, k)], i)

Evicted(k, v) ==
  LET gone == data[1].key IN
  Balance([data  |-> [data EXCEPT ![1] = Entry(k, v)],
           index |-> IndexOf(k, 1, {gone}),
           order |-> Append(Forgotten(gone), k)], 1)

\* A ValueError: no key can go when even the root of the heap is pinned.
AllPinned(k) == k \notin DOMAIN index /\ Len(data) = MaxSize /\ data[1].pins > 0

AfterSet(k, v) ==
  IF k \in DOMAIN index THEN Updated(k, v)
  ELSE IF Len(data) < MaxSize THEN Added(k, v) ELSE Evicted(k, v)

\* Entry k gets one pin more or less, and moves when that is its first or last.
Pinned(h, k, n) ==
  LET i == h.index[k]
      g == [h EXCEPT !.data[i].pins = @ + n]
  IN IF {h.data[i].pins, g.data[i].pins} = {0, 1} THEN Balance(g, i) ELSE g

-----------------------------------------------------------------------------
Init == data = <<>> /\ index = <<>> /\ order = <<>>

\* cache[k]
Read(k) == k \in DOMAIN index /\ Become(Accessed(index[k], data[index[k]]))

\* cache[k] = v
Write(k, v) == ~AllPinned(k) /\ Become(AfterSet(k, v))

Pin(k, v) ==
  /\ ~AllPinned(k)
  /\ k \in DOMAIN index => data[index[k]].pins < MaxPins
  /\ Become(Pinned(AfterSet(k, v), k, 1))

Unpin(k) ==
  /\ k \in DOMAIN index /\ data[index[k]].pins > 0
  /\ Become(Pinned([data |-> data, index |-> index, order |-> order], k, -1))

Clear == data' = <<>> /\ index' = <<>> /\ order' = <<>>

Next ==
  \/ \E k \in Keys : Read(k) \/ Unpin(k) \/ \E v \in Values : Write(k, v) \/ Pin(k, v)
  \/ Clear

Spec == Init /\ [][Next]_vars

-----------------------------------------------------------------------------
\* What the heap stands for: the map that LRUReusedCache promises.
Reused == INSTANCE ReusedCache WITH
  cache <- [k \in DOMAIN index |->
              [value |-> data[index[k]].value,
               reused |-> data[index[k]].reused,
               pins |-> data[index[k]].pins]],
  older <- {<<order[p[1]], order[p[2]]>> :
              p \in {p \in (DOMAIN order) \X (DOMAIN order) : p[1] < p[2]}}

\* The heap implements that map: the key it evicts is the one the docstring
\* promises, and pinned keys stay.
ImplementsReused == Reused!Spec
=============================================================================
