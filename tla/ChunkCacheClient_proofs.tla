---------------------- MODULE ChunkCacheClient_proofs ----------------------
(***************************************************************************)
(* Proofs about the chunk cache as the store uses it: what get and add     *)
(* keep, and what that makes of the limit.                                 *)
(***************************************************************************)
EXTENDS ChunkCacheClient, Storage_proofs

\* The nodes are those of stored base chunks.
NodesStored ==
  \A i \in 1..Len(cache.lru) :
    /\ cache.lru[i].id \in Ids
    /\ cache.lru[i].chunk = StoredChunk(cache.lru[i].id)

\* The ids looked up are each listed once, and the list starts with the ids of
\* the nodes; an empty cache that has not crashed has not been used.
RecencyKept ==
  /\ recent \in Seq(Ids)
  /\ \A i, j \in 1..Len(recent) : recent[i] = recent[j] => i = j
  /\ ~cache.crashed =>
       /\ Len(cache.lru) <= Len(recent)
       /\ \A i \in 1..Len(cache.lru) : cache.lru[i].id = recent[i]
       /\ cache.lru = <<>> => recent = <<>>

\* Where all chunks have one length the counter counts nodes.
EqualLengths == \A i, j \in Ids : lenOf[i] = lenOf[j]

CounterExact ==
  EqualLengths => \A id \in Ids : cache.mem = Len(cache.lru) * lenOf[id]

CInv ==
  /\ lenOf \in [Ids -> Lens]
  /\ CacheOK(cache)
  /\ NodesStored
  /\ RecencyKept
  /\ CounterExact
  /\ CrashesOnlyWhenEmpty

\* The stored chunk has the length that is stored.
LEMMA StoredChunkType ==
  ASSUME lenOf \in [Ids -> Lens], NEW id \in Ids
  PROVE  /\ StoredChunk(id) \in Seq(Nat) /\ Len(StoredChunk(id)) = lenOf[id]
         /\ lenOf[id] \in Nat \ {0} /\ MaxMemoryUsage + lenOf[id] <= SizeT
<1>1. lenOf[id] \in Nat \ {0} /\ lenOf[id] \in Lens /\ id \in Nat
  BY ClientAssumption
<1> DEFINE n == lenOf[id]
<1> HIDE DEF n
<1>2. [i \in 1..n |-> id] \in Seq(Nat) /\ Len([i \in 1..n |-> id]) = n
  <2>1. [i \in 1..n |-> id] \in [1..n -> Nat] /\ n \in Nat
    BY <1>1 DEF n
  <2> QED
    BY <2>1, SeqDef
<1> QED
  BY <1>1, <1>2, LimitAssumption DEF StoredChunk, n

\* Where the ids looked up are after the next lookup.
LEMMA RecentMoves ==
  ASSUME NEW r \in Seq(Ids), \A i, j \in 1..Len(r) : r[i] = r[j] => i = j,
         NEW id \in Ids, NEW next, next = Cons(id, RemoveFirst(r, id))
  PROVE  /\ next \in Seq(Ids) /\ next[1] = id
         /\ \A i, j \in 1..Len(next) : next[i] = next[j] => i = j
         /\ \A k \in 1..Len(r) :
              r[k] = id => /\ Len(next) = Len(r)
                           /\ \A i \in 2..k : next[i] = r[i - 1]
                           /\ \A i \in k + 1..Len(r) : next[i] = r[i]
         /\ (\A k \in 1..Len(r) : r[k] # id) =>
              /\ Len(next) = Len(r) + 1
              /\ \A i \in 2..Len(next) : next[i] = r[i - 1]
<1>0. Len(r) \in Nat
  OBVIOUS
<1>1. CASE \A k \in 1..Len(r) : r[k] # id
  <2>1. next = <<id>> \o r
    BY <1>1 DEF RemoveFirst, Cons
  <2>2. /\ <<id>> \o r \in Seq(Ids) /\ (<<id>> \o r)[1] = id
        /\ Len(<<id>> \o r) = Len(r) + 1
        /\ \A i \in 2..Len(r) + 1 : (<<id>> \o r)[i] = r[i - 1]
    BY <1>0
  <2>3. /\ next \in Seq(Ids) /\ next[1] = id /\ Len(next) = Len(r) + 1
        /\ \A i \in 2..Len(r) + 1 : next[i] = r[i - 1]
    BY ONLY <2>1, <2>2
  <2>4. \A i, j \in 1..Len(next) : next[i] = next[j] => i = j
    <3> SUFFICES ASSUME NEW i \in 1..Len(next), NEW j \in 1..Len(next), next[i] = next[j]
                 PROVE  i = j
      OBVIOUS
    <3>1. i # 1 => i - 1 \in 1..Len(r) /\ next[i] = r[i - 1]
      BY <1>0, <2>3
    <3>2. j # 1 => j - 1 \in 1..Len(r) /\ next[j] = r[j - 1]
      BY <1>0, <2>3
    <3>3. i # 1 /\ j # 1 => i - 1 = j - 1
      BY <3>1, <3>2
    <3>4. i = 1 <=> j = 1
      BY <1>1, <2>3, <3>1, <3>2
    <3> QED
      BY <1>0, <2>3, <3>3, <3>4
  <2> QED
    BY <1>1, <2>3, <2>4
<1>2. ASSUME NEW k \in 1..Len(r), r[k] = id
      PROVE  /\ next \in Seq(Ids) /\ next[1] = id /\ Len(next) = Len(r)
             /\ \A i \in 2..k : next[i] = r[i - 1]
             /\ \A i \in k + 1..Len(r) : next[i] = r[i]
  <2>1. SelectInSeq(r, LAMBDA v : v = id) = k
    <3> DEFINE I == {i \in 1..Len(r) : r[i] = id}
    <3>1. I = {k}
      BY <1>2
    <3>2. Min({k}) \in {k}
      <4>1. {k} \subseteq Nat /\ {k} # {}
        BY <1>0
      <4> QED
        BY <4>1, MinIsLeast
    <3>3. SelectInSeq(r, LAMBDA v : v = id) = IF I # {} THEN Min(I) ELSE 0
      BY DEF SelectInSeq
    <3> HIDE DEF I
    <3> QED
      BY <3>1, <3>2, <3>3
  <2>2. next = Moved(r, k, id)
    BY <1>2, <2>1 DEF RemoveFirst, Moved, Cons
  <2> DEFINE m == Moved(r, k, id)
  <2>3. m \in Seq(Ids) /\ Len(m) = Len(r)
    BY MoveToFront
  <2>4. m[1] = id
    BY MoveToFront
  <2>5. \A i \in 2..k : m[i] = r[i - 1]
    BY MoveToFront
  <2>6. \A i \in k + 1..Len(r) : m[i] = r[i]
    BY MoveToFront
  <2> HIDE DEF m
  <2>7. next = m
    BY <2>2 DEF m
  <2> QED
    BY ONLY <2>3, <2>4, <2>5, <2>6, <2>7
<1>3. ASSUME NEW k \in 1..Len(r), r[k] = id
      PROVE  \A i, j \in 1..Len(next) : next[i] = next[j] => i = j
  <2> DEFINE from(i) == IF i = 1 THEN k ELSE IF i <= k THEN i - 1 ELSE i
  <2>0. /\ Len(next) = Len(r) /\ next[1] = r[k]
        /\ \A i \in 2..k : next[i] = r[i - 1]
        /\ \A i \in k + 1..Len(r) : next[i] = r[i]
    BY <1>2, <1>3
  <2>1. \A i \in 1..Len(r) : from(i) \in 1..Len(r) /\ next[i] = r[from(i)]
    BY <1>0, <2>0
  <2>2. \A i, j \in 1..Len(r) : from(i) = from(j) => i = j
    BY <1>0
  <2> HIDE DEF from
  <2>3. ASSUME NEW i \in 1..Len(next), NEW j \in 1..Len(next), next[i] = next[j]
        PROVE  i = j
    <3>1. r[from(i)] = r[from(j)] /\ i \in 1..Len(r) /\ j \in 1..Len(r)
      BY <2>0, <2>1, <2>3
    <3>2. from(i) = from(j)
      BY <2>1, <3>1
    <3> QED
      BY <2>2, <3>1, <3>2
  <2> QED
    BY <2>3
<1> QED
  <2>1. CASE \A k \in 1..Len(r) : r[k] # id
    BY <1>1, <2>1
  <2>2. CASE \E k \in 1..Len(r) : r[k] = id
    <3>1. PICK k \in 1..Len(r) : r[k] = id
      BY <2>2
    <3>2. /\ next \in Seq(Ids) /\ next[1] = id
          /\ \A i, j \in 1..Len(next) : next[i] = next[j] => i = j
      BY <1>2, <1>3, <3>1
    <3> QED
      BY <1>2, <2>2, <3>2
  <2> QED
    BY <2>1, <2>2

\* The invariant holds when the cache is created.
LEMMA CInvInit == Init => CInv
<1> SUFFICES ASSUME Init PROVE CInv
  OBVIOUS
<1> USE DEF Init
<1>1. CacheOK(cache)
  BY EmptyCacheOK
<1>2. /\ cache.lru = <<>> /\ Len(cache.lru) = 0 /\ cache.mem = 0 /\ ~cache.crashed
      /\ Len(recent) = 0
  BY DEF EmptyCache
<1>3. NodesStored /\ RecencyKept
  BY <1>2 DEF NodesStored, RecencyKept
<1>4. CounterExact
  <2> SUFFICES ASSUME NEW id \in Ids PROVE cache.mem = Len(cache.lru) * lenOf[id]
    BY DEF CounterExact
  <2>1. 0 * lenOf[id] = 0
    BY StoredChunkType
  <2> QED
    BY <1>2, <2>1
<1> QED
  BY <1>1, <1>2, <1>3, <1>4 DEF CInv, CrashesOnlyWhenEmpty

\* A hit.
LEMMA HitStep ==
  ASSUME CInv, NEW id \in Ids, Lookup(id), id \in cache.map
  PROVE  CInv'
<1> DEFINE d == CacheGet(cache, id)
           k == NodeOf(cache, id)
<1>1. ~cache.crashed /\ cache' = d /\ lenOf' = lenOf
      /\ recent' = Cons(id, RemoveFirst(recent, id))
  BY DEF Lookup, Cached, Cons
<1>2. /\ CacheOK(cache) /\ lenOf \in [Ids -> Lens]
      /\ \A i \in 1..Len(cache.lru) : cache.lru[i].id = recent[i]
      /\ Len(cache.lru) <= Len(recent) /\ recent \in Seq(Ids)
      /\ \A i, j \in 1..Len(recent) : recent[i] = recent[j] => i = j
      /\ Len(recent) \in Nat /\ Len(cache.lru) \in Nat
  BY <1>1 DEF CInv, RecencyKept, CacheOK, Caches
<1>3. k \in 1..Len(cache.lru) /\ cache.lru[k].id = id
  BY <1>2, NodeOfCached
<1>4. /\ CacheOK(d) /\ d.mem = cache.mem /\ d.crashed = cache.crashed
      /\ Len(d.lru) = Len(cache.lru)
      /\ d.lru[1] = cache.lru[k]
      /\ \A i \in 2..k : d.lru[i] = cache.lru[i - 1]
      /\ \A i \in k + 1..Len(cache.lru) : d.lru[i] = cache.lru[i]
  BY <1>2, GetMoves, GetOK
<1>5. \A i \in 1..Len(d.lru) : \E j \in 1..Len(cache.lru) : d.lru[i] = cache.lru[j]
  BY <1>2, GetPermutes
<1> HIDE DEF d, k
<1>6. k \in 1..Len(recent) /\ recent[k] = id
  BY <1>2, <1>3
<1>7. /\ recent' \in Seq(Ids) /\ recent'[1] = id /\ Len(recent') = Len(recent)
      /\ \A i, j \in 1..Len(recent') : recent'[i] = recent'[j] => i = j
      /\ \A i \in 2..k : recent'[i] = recent[i - 1]
      /\ \A i \in k + 1..Len(recent) : recent'[i] = recent[i]
  <2>1. /\ recent' \in Seq(Ids) /\ recent'[1] = id
        /\ \A i, j \in 1..Len(recent') : recent'[i] = recent'[j] => i = j
    BY <1>1, <1>2, RecentMoves
  <2>2. \A x \in 1..Len(recent) :
          recent[x] = id => /\ Len(recent') = Len(recent)
                            /\ \A i \in 2..x : recent'[i] = recent[i - 1]
                            /\ \A i \in x + 1..Len(recent) : recent'[i] = recent[i]
    BY <1>1, <1>2, RecentMoves
  <2> QED
    BY <1>6, <2>1, <2>2
<1>8. ASSUME NEW i \in 1..Len(d.lru) PROVE d.lru[i].id = recent'[i]
  <2>1. CASE i = 1
    BY <1>3, <1>4, <1>7, <2>1
  <2>2. CASE i \in 2..k
    <3>1. i - 1 \in 1..Len(cache.lru)
      BY <1>2, <1>3, <2>2
    <3> QED
      BY <1>2, <1>4, <1>7, <2>2, <3>1
  <2>3. CASE i \in k + 1..Len(cache.lru)
    <3>1. i \in k + 1..Len(recent) /\ i \in 1..Len(cache.lru)
      BY <1>2, <1>3, <2>3
    <3> QED
      BY <1>2, <1>4, <1>7, <2>3, <3>1
  <2> QED
    BY <1>2, <1>3, <1>4, <2>1, <2>2, <2>3
<1>9. RecencyKept'
  <2>1. d.lru # <<>>
    BY <1>2, <1>3, <1>4
  <2>2. Len(d.lru) <= Len(recent')
    BY <1>2, <1>4, <1>7
  <2> QED
    BY <1>1, <1>7, <1>8, <2>1, <2>2 DEF RecencyKept
<1>10. NodesStored'
  BY <1>1, <1>5 DEF CInv, NodesStored, StoredChunk
<1>11. CounterExact'
  BY <1>1, <1>4 DEF CInv, CounterExact, EqualLengths
<1>12. CrashesOnlyWhenEmpty'
  BY <1>1, <1>4 DEF CrashesOnlyWhenEmpty
<1> QED
  BY <1>1, <1>2, <1>4, <1>9, <1>10, <1>11, <1>12 DEF CInv

\* A miss.
LEMMA MissStep ==
  ASSUME CInv, NEW id \in Ids, Lookup(id), id \notin cache.map
  PROVE  CInv'
<1> DEFINE chunk == StoredChunk(id)
           d == CacheAdd(cache, id, chunk)
<1>1. ~cache.crashed /\ cache' = d /\ lenOf' = lenOf
      /\ recent' = Cons(id, RemoveFirst(recent, id))
  BY DEF Lookup, Cached, Cons
<1>2. /\ CacheOK(cache) /\ lenOf \in [Ids -> Lens]
      /\ \A i \in 1..Len(cache.lru) : cache.lru[i].id = recent[i]
      /\ Len(cache.lru) <= Len(recent) /\ recent \in Seq(Ids)
      /\ \A i, j \in 1..Len(recent) : recent[i] = recent[j] => i = j
      /\ Len(recent) \in Nat /\ Len(cache.lru) \in Nat
      /\ cache.lru = <<>> => recent = <<>>
      /\ cache.map = IdsOf(cache.lru) /\ cache \in Caches
  BY <1>1 DEF CInv, RecencyKept, CacheOK, Caches
<1>3. /\ chunk \in Seq(Nat) /\ Len(chunk) = lenOf[id] /\ lenOf[id] \in Nat \ {0}
      /\ MaxMemoryUsage + lenOf[id] <= SizeT
  BY <1>2, StoredChunkType
<1> HIDE DEF chunk, d
<1>4. id \in Nat \ cache.map
  BY ClientAssumption
<1>5. \A k \in 1..Len(cache.lru) : recent[k] # id
  BY <1>2 DEF IdsOf
<1>6. /\ recent' \in Seq(Ids) /\ recent'[1] = id /\ Len(recent') \in Nat
      /\ \A i, j \in 1..Len(recent') : recent'[i] = recent'[j] => i = j
      /\ Len(cache.lru) + 1 <= Len(recent')
      /\ \A i \in 2..Len(cache.lru) + 1 : recent'[i] = recent[i - 1]
      /\ recent = <<>> => Len(recent') = 1
  <2>0. /\ recent' \in Seq(Ids) /\ recent'[1] = id
        /\ \A i, j \in 1..Len(recent') : recent'[i] = recent'[j] => i = j
    BY <1>1, <1>2, RecentMoves
  <2>1. CASE \A k \in 1..Len(recent) : recent[k] # id
    <3>1. /\ Len(recent') = Len(recent) + 1
          /\ \A i \in 2..Len(recent') : recent'[i] = recent[i - 1]
      BY <1>1, <1>2, <2>1, RecentMoves
    <3>2. \A i \in 2..Len(cache.lru) + 1 : i \in 2..Len(recent')
      BY <1>2, <3>1
    <3>3. recent = <<>> => Len(recent') = 1
      BY <3>1
    <3> QED
      BY <1>2, <2>0, <3>1, <3>2, <3>3
  <2>2. CASE \E k \in 1..Len(recent) : recent[k] = id
    <3>1. PICK k \in 1..Len(recent) : recent[k] = id
      BY <2>2
    <3>2. k > Len(cache.lru)
      BY <1>2, <1>5, <3>1
    <3>3. /\ Len(recent') = Len(recent)
          /\ \A i \in 2..k : recent'[i] = recent[i - 1]
      <4>1. \A x \in 1..Len(recent) :
              recent[x] = id => /\ Len(recent') = Len(recent)
                                /\ \A i \in 2..x : recent'[i] = recent[i - 1]
                                /\ \A i \in x + 1..Len(recent) : recent'[i] = recent[i]
        <5>1. /\ recent \in Seq(Ids) /\ recent' = Cons(id, RemoveFirst(recent, id))
              /\ \A i, j \in 1..Len(recent) : recent[i] = recent[j] => i = j
          BY <1>1, <1>2
        <5> QED
          BY SMTT(30), <5>1, RecentMoves
      <4> QED
        BY <3>1, <4>1
    <3>4. \A i \in 2..Len(cache.lru) + 1 : i \in 2..k
      BY <1>2, <3>2
    <3>5. recent # <<>>
      BY <3>1
    <3> QED
      BY <1>2, <2>0, <3>1, <3>2, <3>3, <3>4, <3>5
  <2> QED
    BY <2>1, <2>2
<1>7. CASE Evictions(cache, Len(chunk)) = {}
  <2>1. d = [cache EXCEPT !.crashed = TRUE]
    BY <1>7 DEF CacheAdd, d
  <2>2. cache.lru = <<>> /\ Len(chunk) >= MaxMemoryUsage
    <3>1. Len(chunk) \in Nat
      BY <1>3
    <3>2. MaxMemoryUsage \in Nat
      BY CacheAssumption
    <3> QED
      BY <1>2, <1>7, <3>1, <3>2, AtMostOneVictim
  <2>3. /\ d.lru = cache.lru /\ d.mem = cache.mem /\ d.crashed
    BY <1>2, <2>1 DEF Caches
  <2>4. CacheOK(d)
    BY <1>2, <2>1 DEF CacheOK, Caches
  <2>5. CrashesOnlyWhenEmpty'
    BY <1>1, <1>2, <1>3, <1>6, <2>2, <2>3 DEF CrashesOnlyWhenEmpty
  <2>6. RecencyKept'
    BY <1>1, <1>6, <2>3 DEF RecencyKept
  <2>7. NodesStored' /\ CounterExact'
    BY <1>1, <2>3 DEF CInv, NodesStored, CounterExact, EqualLengths, StoredChunk
  <2> QED
    BY <1>1, <1>2, <2>4, <2>5, <2>6, <2>7 DEF CInv
<1>8. CASE Evictions(cache, Len(chunk)) # {}
  <2>1. PICK k \in Evictions(cache, Len(chunk)) :
           /\ k \in {0, 1} /\ k <= Len(cache.lru)
           /\ d \in Caches /\ d.crashed = cache.crashed
           /\ Len(d.lru) = Len(cache.lru) - k + 1
           /\ d.lru[1] = [id |-> id, chunk |-> chunk]
           /\ \A i \in 2..Len(d.lru) : d.lru[i] = cache.lru[i - 1]
           /\ d.map = IdsOf(d.lru)
           /\ d.mem < MaxMemoryUsage
           /\ d.mem = IF k = 0 THEN (cache.mem + Len(chunk)) % SizeT ELSE cache.mem
    <3>1. CacheOK(cache) /\ chunk \in Seq(Nat)
      BY <1>2, <1>3
    <3> QED
      BY <1>4, <1>8, <3>1, AddMoves, ZenonT(60) DEF d
  <2>2. CacheOK(d)
    BY <1>2, <1>3, <1>4, AddOK DEF d
  <2>3. /\ Len(d.lru) \in Nat \ {0} /\ Len(d.lru) <= Len(cache.lru) + 1
        /\ \A i \in 2..Len(d.lru) : /\ i \in 2..Len(cache.lru) + 1
                                     /\ i - 1 \in 1..Len(cache.lru)
    BY <1>2, <2>1
  <2>4. \A i \in 1..Len(d.lru) : i = 1 \/ i \in 2..Len(d.lru)
    BY <2>3
  <2>5. \A i \in 1..Len(d.lru) : d.lru[i].id = recent'[i]
    <3>1. ASSUME NEW i \in 2..Len(d.lru) PROVE d.lru[i].id = recent'[i]
      <4>1. i - 1 \in 1..Len(cache.lru) /\ i \in 2..Len(cache.lru) + 1
        BY <2>3
      <4>2. d.lru[i] = cache.lru[i - 1]
        BY <2>1
      <4>3. recent'[i] = recent[i - 1]
        BY <1>6, <4>1
      <4>4. cache.lru[i - 1].id = recent[i - 1]
        BY <1>2, <4>1
      <4> QED
        BY <4>2, <4>3, <4>4
    <3>2. d.lru[1].id = recent'[1]
      BY <1>6, <2>1
    <3> QED
      BY <2>4, <3>1, <3>2
  <2>6. RecencyKept'
    <3>1. d.lru # <<>>
      BY <2>3
    <3>2. Len(d.lru) <= Len(recent')
      BY <1>2, <1>6, <2>3
    <3> QED
      BY <1>1, <1>6, <2>5, <3>1, <3>2 DEF RecencyKept
  <2>7. NodesStored'
    <3>1. \A i \in 2..Len(d.lru) :
            d.lru[i].id \in Ids /\ d.lru[i].chunk = StoredChunk(d.lru[i].id)
      BY <2>1, <2>3 DEF CInv, NodesStored
    <3>2. d.lru[1].id \in Ids /\ d.lru[1].chunk = StoredChunk(d.lru[1].id)
      BY <2>1 DEF chunk
    <3>3. \A i : StoredChunk(i)' = StoredChunk(i)
      BY <1>1 DEF StoredChunk
    <3> QED
      BY <1>1, <2>4, <3>1, <3>2, <3>3 DEF NodesStored
  <2>8. CounterExact'
    <3> SUFFICES ASSUME EqualLengths, NEW x \in Ids
                 PROVE  d.mem = Len(d.lru) * lenOf[x]
      BY <1>1 DEF CounterExact, EqualLengths
    <3> DEFINE l == lenOf[id]
               n == Len(cache.lru)
    <3>1. lenOf[x] = l
      BY DEF EqualLengths
    <3>2. cache.mem = n * l
      BY DEF CInv, CounterExact
    <3>3. /\ cache.mem \in 0..SizeT - 1 /\ l \in Nat /\ n \in Nat
          /\ MaxMemoryUsage + l <= SizeT /\ Len(chunk) = l
          /\ SizeT \in Nat \ {0} /\ MaxMemoryUsage \in Nat
          /\ n = 0 => cache.mem = 0
          /\ n # 0 => cache.mem < MaxMemoryUsage
      BY <1>2, <1>3, CacheAssumption DEF CacheOK, Caches
    <3> HIDE DEF l, n
    <3>4. CASE k = 0
      <4>1. Len(d.lru) = n + 1
        BY <2>1, <3>4, <3>3 DEF n
      <4>2. (n + 1) * l = n * l + l
        BY <3>3
      <4>3. d.mem = (cache.mem + l) % SizeT
        BY <2>1, <3>3, <3>4
      <4>4. cache.mem + l \in 0..SizeT - 1
        <5>1. CASE n # 0
          BY <3>3, <5>1
        <5>2. CASE n = 0
          <6>1. d.mem \in 0..SizeT - 1 /\ d.mem < MaxMemoryUsage
            BY <2>1 DEF Caches
          <6>2. MaxMemoryUsage > 0
            BY <3>3, <6>1
          <6> QED
            BY <3>3, <5>2, <6>2
        <5> QED
          BY <5>1, <5>2
      <4>5. d.mem = cache.mem + l
        BY <3>3, <4>3, <4>4, SmallRemainder
      <4> QED
        BY <3>1, <3>2, <4>1, <4>2, <4>5
    <3>5. CASE k = 1
      <4>1. Len(d.lru) = n
        BY <2>1, <3>3, <3>5 DEF n
      <4>2. d.mem = cache.mem
        BY <2>1, <3>5
      <4> QED
        BY <3>1, <3>2, <4>1, <4>2
    <3> QED
      BY <2>1, <3>4, <3>5
  <2>9. CrashesOnlyWhenEmpty'
    BY <1>1, <2>1 DEF CrashesOnlyWhenEmpty
  <2> QED
    BY <1>1, <1>2, <2>2, <2>6, <2>7, <2>8, <2>9 DEF CInv
<1> QED
  BY <1>7, <1>8

\* Every lookup preserves the invariant.
LEMMA CInvNext == CInv /\ [Next]_cacheVars => CInv'
<1> SUFFICES ASSUME CInv, [Next]_cacheVars PROVE CInv'
  OBVIOUS
<1>1. ASSUME NEW id \in Ids, Lookup(id) PROVE CInv'
  BY <1>1, HitStep, MissStep
<1>2. CASE UNCHANGED cacheVars
  BY <1>2 DEF cacheVars, CInv, NodesStored, RecencyKept, CounterExact, EqualLengths,
              CrashesOnlyWhenEmpty, StoredChunk
<1> QED
  BY <1>1, <1>2 DEF Next
-----------------------------------------------------------------------------
\* A list without repeated ids has as many ids as nodes.
LEMMA IdsCount ==
  ASSUME CacheOK(cache)
  PROVE  Cardinality(CachedIds) = Len(cache.lru)
<1> DEFINE n == Len(cache.lru)
           f == [i \in 1..n |-> cache.lru[i].id]
<1>1. /\ n \in Nat
      /\ \A i, j \in 1..n : cache.lru[i].id = cache.lru[j].id => i = j
      /\ CachedIds = {cache.lru[i].id : i \in 1..n}
  BY DEF CacheOK, Caches, CachedIds
<1> HIDE DEF n
<1>2. f \in Bijection(1..n, CachedIds)
  BY <1>1 DEF Bijection, Injection, IsInjective, Surjection
<1>3. ExistsBijection(1..n, CachedIds)
  BY <1>2 DEF ExistsBijection
<1>4. IsFiniteSet(1..n) /\ Cardinality(1..n) = n
  <2>1. 1 \in Int /\ n \in Int
    BY <1>1
  <2>2. IsFiniteSet(1..n) /\ Cardinality(1..n) = IF 1 > n THEN 0 ELSE n - 1 + 1
    BY <2>1, FS_Interval
  <2> QED
    BY <1>1, <2>2
<1>5. Cardinality(CachedIds) = Cardinality(1..n)
  BY <1>3, <1>4, FS_Bijection
<1> QED
  BY <1>4, <1>5 DEF n

\* Chunks of one length have that length times their number.
LEMMA TotalLenEqual ==
  ASSUME NEW cs \in Seq(Seq(Nat)), NEW l \in Nat,
         \A i \in 1..Len(cs) : Len(cs[i]) = l
  PROVE  TotalLen(cs) = Len(cs) * l
<1> DEFINE n == Len(cs)
<1>0. n \in Nat
  OBVIOUS
<1>1. PICK f : IsSum(f, cs, n)
  BY <1>0, SumExists
<1>2. \A k \in 0..n : f[k] = IF k = 0 THEN 0 ELSE f[k - 1] + Len(cs[k])
  BY <1>1 DEF IsSum
<1> DEFINE T == {k \in 0..n : f[k] # k * l}
<1>3. T = {}
  <2> SUFFICES ASSUME T # {} PROVE FALSE
    OBVIOUS
  <2>1. PICK k \in T : \A j \in T : k <= j
    <3>1. T \subseteq Nat
      OBVIOUS
    <3> QED
      BY <3>1, LeastNat
  <2>2. 0 * l = 0
    OBVIOUS
  <2>3. k # 0
    BY <1>0, <1>2, <2>1, <2>2
  <2>4. f[k - 1] = (k - 1) * l
    BY <1>0, <2>1, <2>3
  <2>5. f[k] = (k - 1) * l + l
    <3>1. k \in 0..n /\ k \in 1..Len(cs)
      BY <1>0, <2>1, <2>3
    <3>2. f[k] = f[k - 1] + Len(cs[k])
      BY <1>2, <2>3, <3>1
    <3>3. Len(cs[k]) = l
      BY <3>1
    <3> QED
      BY <2>4, <3>2, <3>3
  <2>6. (k - 1) * l + l = k * l
    BY <2>1
  <2> QED
    BY <2>1, <2>5, <2>6
<1>4. f[n] = n * l
  BY <1>0, <1>3
<1> QED
  BY <1>1, <1>4, TotalLenIs

\* The counter counts the bytes that the nodes hold.
LEMMA ResidentIs ==
  ASSUME CInv, EqualLengths
  PROVE  /\ cache.mem = Resident
         /\ Resident > 0 => Resident < MaxMemoryUsage
<1> DEFINE n  == Len(cache.lru)
           cs == [i \in 1..n |-> cache.lru[i].chunk]
<1>1. /\ CacheOK(cache) /\ lenOf \in [Ids -> Lens] /\ n \in Nat
      /\ cache.lru = <<>> => cache.mem = 0
      /\ cache.lru # <<>> => cache.mem < MaxMemoryUsage
  BY DEF CInv, CacheOK, Caches
<1>2. \A i \in 1..n : /\ cs[i] \in Seq(Nat)
                      /\ cache.lru[i].id \in Ids
                      /\ Len(cs[i]) = lenOf[cache.lru[i].id]
  BY <1>1, StoredChunkType DEF CInv, NodesStored
<1>3. cs \in Seq(Seq(Nat)) /\ Len(cs) = n
  <2>1. cs \in [1..n -> Seq(Nat)]
    BY <1>2
  <2> HIDE DEF cs, n
  <2> QED
    BY <1>1, <2>1, SeqDef
<1>4. Resident = TotalLen(cs)
  BY DEF Resident
<1> HIDE DEF cs
<1>5. CASE n = 0
  <2>1. cs = <<>> /\ cache.lru = <<>>
    BY <1>1, <1>3, <1>5
  <2> QED
    BY <1>1, <1>4, <2>1, TotalLenEmpty
<1>6. CASE n # 0
  <2> DEFINE l == lenOf[cache.lru[1].id]
  <2>1. l \in Nat /\ cache.lru[1].id \in Ids
    BY <1>1, <1>2, <1>6, StoredChunkType
  <2>2. \A i \in 1..Len(cs) : Len(cs[i]) = l
    BY <1>2, <1>3, <2>1 DEF EqualLengths
  <2>3. cache.mem = n * l
    BY <2>1 DEF CInv, CounterExact
  <2> HIDE DEF l
  <2>4. TotalLen(cs) = n * l
    BY <1>3, <2>1, <2>2, TotalLenEqual
  <2>5. cache.lru # <<>>
    BY <1>6
  <2> QED
    BY <1>1, <1>4, <2>3, <2>4, <2>5
<1> QED
  BY <1>5, <1>6

\* map_ and the list always agree, and the bytes found for an id are its own.
THEOREM MapIsList == Spec => []MapMatchesList
<1>1. CInv => MapMatchesList
  <2> SUFFICES ASSUME CInv PROVE MapMatchesList
    OBVIOUS
  <2>1. CacheOK(cache)
    BY DEF CInv
  <2>2. cache.map = CachedIds
    BY <2>1 DEF CacheOK, IdsOf, CachedIds
  <2>3. Cardinality(CachedIds) = Len(cache.lru)
    BY <2>1, IdsCount
  <2>4. ASSUME NEW id \in cache.map PROVE CachedChunk(cache, id) = StoredChunk(id)
    <3>1. /\ NodeOf(cache, id) \in 1..Len(cache.lru)
          /\ cache.lru[NodeOf(cache, id)].id = id
      BY <2>1, NodeOfCached
    <3> QED
      BY <3>1 DEF CInv, NodesStored, CachedChunk
  <2> QED
    BY <2>2, <2>3, <2>4 DEF MapMatchesList
<1> QED
  BY CInvInit, CInvNext, <1>1, PTL DEF Spec

\* What is cached is what was looked up last, whatever was evicted.
THEOREM LeastRecentlyUsed == Spec => []KeepsMostRecent
<1>1. CInv => KeepsMostRecent
  BY DEF CInv, RecencyKept, KeepsMostRecent
<1> QED
  BY CInvInit, CInvNext, <1>1, PTL DEF Spec

\* The limit of the cache holds as far as add can make it hold: although the
\* eviction loop takes the length of the chunk that comes in off the counter.
THEOREM LimitAlwaysKept == Spec => []LimitKept
<1>1. CInv => LimitKept
  BY ResidentIs DEF CInv, LimitKept, ExactForEqualLengths, EqualLengths
<1> QED
  BY CInvInit, CInvNext, <1>1, PTL DEF Spec
=============================================================================
