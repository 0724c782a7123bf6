----------------------------- MODULE ChunkCache -----------------------------
(***************************************************************************)
(* The LRU cache of base chunks (storage/cache.h, storage/cache.cpp), as   *)
(* operators on its state, a record                                        *)
(*                                                                         *)
(*   lru      the nodes between dummy_head and dummy_tail, newest first    *)
(*   map      the ids in map_; the node of an id is the first with that id *)
(*   mem      current_memory                                               *)
(*   crashed  add evicted dummy_head and dereferenced its null prev        *)
(*                                                                         *)
(* A chunk is a sequence of bytes.  The hit and miss counters, which are   *)
(* only printed, are left out.                                             *)
(***************************************************************************)
EXTENDS Integers, SequencesExt

CONSTANTS MaxMemoryUsage,  \* max_memory_usage, in bytes
          SizeT            \* number of values of a size_t (2^64 in the code)

ASSUME CacheAssumption ==
  /\ SizeT \in Nat \ {0}
  /\ MaxMemoryUsage \in 0..SizeT - 1

EmptyCache == [lru |-> <<>>, map |-> {}, mem |-> 0, crashed |-> FALSE]

Cached(c, id) == id \in c.map

\* The node that map_ has for a cached id.
NodeOf(c, id) == SelectInSeq(c.lru, LAMBDA n : n.id = id)

CachedChunk(c, id) == c.lru[NodeOf(c, id)].chunk

\* Mutant: a hit does not move the node to the head.
CacheGetInPlace(c, id) == c

\* get: a hit moves the node to the head of the list; a miss changes nothing.
CacheGet(c, id) ==
  IF Cached(c, id)
    THEN [c EXCEPT !.lru = <<c.lru[NodeOf(c, id)]>> \o RemoveAt(@, NodeOf(c, id))]
    ELSE c

\* The guard of the eviction loop, after k turns.  Each turn takes the length
\* of the chunk that comes in off current_memory, not of the one that goes.
MemAfter(c, len, k) == (c.mem - k * len) % SizeT

NeedsRoom(c, len, k) == (MemAfter(c, len, k) + len) % SizeT >= MaxMemoryUsage

\* The number of turns of the eviction loop that find a node to evict.
Evictions(c, len) ==
  {k \in 0..Len(c.lru) : /\ ~NeedsRoom(c, len, k)
                         /\ \A j \in 0..k - 1 : NeedsRoom(c, len, j)}

\* Mutant: the victim stays in map_.
CacheAddStaleMap(c, id, chunk) ==
  LET len == Len(chunk) IN
  IF Evictions(c, len) = {}
    THEN [c EXCEPT !.crashed = TRUE]
    ELSE LET k    == CHOOSE j \in Evictions(c, len) : TRUE
             kept == SubSeq(c.lru, 1, Len(c.lru) - k)
         IN [c EXCEPT !.lru = <<[id |-> id, chunk |-> chunk]>> \o kept,
                      !.map = @ \cup {id},
                      !.mem = (MemAfter(c, len, k) + len) % SizeT]

\* Mutant: room is made without taking anything off current_memory.
CacheAddLeak(c, id, chunk) ==
  LET len == Len(chunk) IN
  IF c.mem + len < MaxMemoryUsage
    THEN [c EXCEPT !.lru = <<[id |-> id, chunk |-> chunk]>> \o @,
                   !.map = @ \cup {id},
                   !.mem = @ + len]
    ELSE [c EXCEPT !.crashed = TRUE]

\* add: evict from the tail while there is no room, then insert at the head.
\* If the list runs out of nodes first, the loop evicts dummy_head.
CacheAdd(c, id, chunk) ==
  LET len == Len(chunk) IN
  IF Evictions(c, len) = {}
    THEN [c EXCEPT !.crashed = TRUE]
    ELSE LET k    == CHOOSE j \in Evictions(c, len) : TRUE
             kept == SubSeq(c.lru, 1, Len(c.lru) - k)
             gone == {c.lru[i].id : i \in Len(kept) + 1..Len(c.lru)}
         IN [c EXCEPT !.lru = <<[id |-> id, chunk |-> chunk]>> \o kept,
                      !.map = (@ \ gone) \cup {id},
                      !.mem = (MemAfter(c, len, k) + len) % SizeT]
-----------------------------------------------------------------------------
(* For the properties of the modules that use chunks.                      *)

\* Total length of a sequence of chunks.
TotalLen(chunks) ==
  LET upTo[n \in 0..Len(chunks)] ==
        IF n = 0 THEN 0 ELSE upTo[n - 1] + Len(chunks[n])
  IN upTo[Len(chunks)]
=============================================================================
