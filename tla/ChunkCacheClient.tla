-------------------------- MODULE ChunkCacheClient --------------------------
(***************************************************************************)
(* The cache as Storage::GetDeltaEncodedChunk uses it: look the base chunk *)
(* up, and on a miss read it from the store and add it.  A stored chunk    *)
(* never changes, so its id determines its bytes and their number.         *)
(***************************************************************************)
EXTENDS ChunkCache, FiniteSets

CONSTANTS Ids,       \* ids of base chunks
          Lens       \* lengths a base chunk can have

ASSUME ClientAssumption == Ids \subseteq Nat /\ Lens \subseteq Nat \ {0}

\* A chunk and the limit, megabytes, are far from the end of a size_t.
ASSUME LimitAssumption == \A l \in Lens : MaxMemoryUsage + l <= SizeT

VARIABLES cache,     \* cache_
          lenOf,     \* length of each stored base chunk
          recent     \* history: ids looked up, the latest first, each once

cacheVars == <<cache, lenOf, recent>>

\* Bytes of chunk id in the store: distinct from those of every other chunk.
StoredChunk(id) == [i \in 1..lenOf[id] |-> id]

Init ==
  /\ cache = EmptyCache
  /\ lenOf \in [Ids -> Lens]
  /\ recent = <<>>

\* GetDeltaEncodedChunk, as far as the cache goes.
Lookup(id) ==
  /\ ~cache.crashed
  /\ cache' = IF Cached(cache, id) THEN CacheGet(cache, id)
                                   ELSE CacheAdd(cache, id, StoredChunk(id))
  /\ recent' = <<id>> \o RemoveFirst(recent, id)
  /\ UNCHANGED lenOf

Next == \E id \in Ids : Lookup(id)

Spec == Init /\ [][Next]_cacheVars
-----------------------------------------------------------------------------
CachedIds == {cache.lru[i].id : i \in 1..Len(cache.lru)}

\* Sum of the lengths of the chunks that the cache holds in memory.
Resident == TotalLen([i \in 1..Len(cache.lru) |-> cache.lru[i].chunk])

\* map_ has a node for exactly the ids in the list, no id has two nodes, and
\* the chunk of a node is the stored one: a lookup never returns the bytes of
\* another chunk, nor a node that was deleted.
MapMatchesList ==
  /\ cache.map = CachedIds
  /\ Cardinality(CachedIds) = Len(cache.lru)
  /\ \A id \in cache.map : CachedChunk(cache, id) = StoredChunk(id)

\* What is cached are the ids used last, in the order of their last use: get
\* and add together evict the least recently used chunk only.
KeepsMostRecent ==
  ~cache.crashed =>
    \A i \in 1..Len(cache.lru) : cache.lru[i].id = recent[i]

\* Where all chunks have one length, as with min_chunk_size = max_chunk_size,
\* current_memory is the memory in use, and it stays below the limit.
ExactForEqualLengths ==
  (\A i, j \in Ids : lenOf[i] = lenOf[j]) =>
    /\ cache.mem = Resident
    /\ Resident > 0 => Resident < MaxMemoryUsage

\* The eviction loop runs out of nodes only on an empty cache, for a chunk that
\* does not fit at all: it never empties a cache that held something.
CrashesOnlyWhenEmpty ==
  cache.crashed => /\ cache.lru = <<>>
                   /\ Len(recent) = 1
                   /\ lenOf[recent[1]] >= MaxMemoryUsage

\* What the limit of the cache guarantees although add takes the wrong length
\* off its counter, which may wrap below zero.
LimitKept == ExactForEqualLengths /\ CrashesOnlyWhenEmpty
=============================================================================
