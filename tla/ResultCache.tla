----------------------------- MODULE ResultCache -----------------------------
(***************************************************************************)
(* The cache that the engine keeps results in (engine.py, __data_cache):   *)
(* a HeapCache under names that can stand next to those of other modules.  *)
(***************************************************************************)
CONSTANTS Keys, CachedValues, MaxSize, MaxPins

VARIABLES heap, index, ticks

Heap == INSTANCE HeapCache WITH Values <- CachedValues, data <- heap, order <- ticks

\* LRUReusedCache keeps its promise: every operation on the heap is one on the promised
\* map, so that it is the entry promised to go that __balance leaves at the root.
ImplementsReused == Heap!ImplementsReused
=============================================================================
