---------------------- MODULE DeltaCompression_proofs ----------------------
(***************************************************************************)
(* Proofs about the sequential compressor, for every data set, similarity, *)
(* cache limit and group size.  The store is faithful whatever the number  *)
(* of chunks; that it is the store that ChunkStoreSpec describes, that the *)
(* lines of the files are right, and that grouping compresses every chunk  *)
(* once, holds for as long as chunk ids do not wrap around.                *)
(***************************************************************************)
EXTENDS DeltaCompression, Storage_proofs

\* The store is in order, and has a faithful record for each chunk cut; what
\* the index lists is stored.
ChunksOK ==
  /\ cut \in Seq(Contents) /\ pending \in Seq(Contents)
  /\ nextId = Len(cut) % IdSpace
  /\ StoreOK(storage_) /\ Len(storage_.meta) = Len(cut)
  /\ Faithful(storage_, cut)
  /\ \A n \in 0..Len(cut) - 1 : storage_.meta[n + 1].type \in {BaseChunk, DeltaChunk}
  /\ \A x \in index_ : x.id \in 0..Len(cut) - 1

\* No chunk id has been used twice; the last id is left out, as AddFile takes it
\* for the mark of a line that has not started.
FewChunks == Len(cut) < IdSpace

\* The classes of the chunks stored.
kinds == [n \in 0..Len(cut) - 1 |-> storage_.meta[n + 1].type]
bases == [n \in 0..Len(cut) - 1 |-> storage_.meta[n + 1].base]

\* The chunks are classified by the chunks before them, and the index has the
\* base chunks.
ClassesOK ==
  /\ MatchedTo(Similar, cut, kinds, bases, Len(cut))
  /\ IndexFor(cut, kinds, index_, Len(cut))
-----------------------------------------------------------------------------
\* In a store that is in order the files stand at their ends already.
LEMMA SeekEndKeeps ==
  ASSUME NEW st, StoreOK(st)
  PROVE  SeekEnd(st) = st
BY DEF SeekEnd, StoreOK, Stores

\* Ids do not exceed the number of the chunk, and are that number before they
\* wrap around.
LEMMA IdIs ==
  ASSUME ChunksOK
  PROVE  /\ nextId \in 0..Len(cut) /\ Len(cut) \in Nat
         /\ Len(cut) < IdSpace => nextId = Len(cut)
<1>1. Len(cut) \in Nat /\ IdSpace \in Nat \ {0} /\ nextId = Len(cut) % IdSpace
  BY SequentialAssumption DEF ChunksOK
<1> QED
  BY <1>1, SmallRemainder

\* The next chunk of the file, and what the store has of the chunks before it.
LEMMA NextIs ==
  ASSUME ChunksOK, NextChunk
  PROVE  /\ Head(pending) \in Contents /\ Head(pending) \in Seq(Nat)
         /\ cut' = Append(cut, Head(pending)) /\ cut' \in Seq(Contents)
         /\ Len(cut') = Len(cut) + 1 /\ cut'[Len(cut) + 1] = Head(pending)
         /\ \A n \in 0..Len(cut) - 1 : cut'[n + 1] = cut[n + 1]
         /\ pending' \in Seq(Contents)
         /\ nextId' = Len(cut') % IdSpace
         /\ Faithful(storage_, cut')
<1>1. cut \in Seq(Contents) /\ pending \in Seq(Contents) /\ pending # <<>>
      /\ Len(cut) \in Nat
  BY DEF ChunksOK, NextChunk
<1>2. Head(pending) \in Contents /\ Tail(pending) \in Seq(Contents)
  BY <1>1
<1>3. Head(pending) \in Seq(Nat)
  BY <1>2, SequentialAssumption
<1>4. /\ cut' = Append(cut, Head(pending)) /\ pending' = Tail(pending)
      /\ nextId' = (nextId + 1) % IdSpace
  BY DEF NextChunk
<1>5. /\ cut' \in Seq(Contents)
      /\ Len(cut') = Len(cut) + 1 /\ cut'[Len(cut) + 1] = Head(pending)
      /\ \A n \in 0..Len(cut) - 1 : cut'[n + 1] = cut[n + 1]
  BY <1>1, <1>2, <1>4
<1>6. nextId' = Len(cut') % IdSpace
  <2>1. nextId = Len(cut) % IdSpace /\ IdSpace \in Nat \ {0}
    BY SequentialAssumption DEF ChunksOK
  <2>2. 1 \in Int /\ Len(cut) \in Int
    BY <1>1
  <2>3. ((Len(cut) % IdSpace) + 1) % IdSpace = (Len(cut) + 1) % IdSpace
    BY <2>1, <2>2, ModSum
  <2> QED
    BY <1>4, <1>5, <2>1, <2>3
<1>7. Faithful(storage_, cut')
  <2>1. /\ Faithful(storage_, cut) /\ Len(storage_.meta) = Len(cut)
    BY DEF ChunksOK
  <2>2. \A n \in Owning(storage_) : n \in 0..Len(cut) - 1
    BY <2>1 DEF Owning
  <2> QED
    BY <1>5, <2>1, <2>2 DEF Faithful
<1> QED
  BY <1>2, <1>3, <1>4, <1>5, <1>6, <1>7

\* AddFile stores the next chunk, as a base or as a delta chunk.
LEMMA AddStores ==
  ASSUME ChunksOK, AddBase \/ AddDelta
  PROVE  \E type \in {BaseChunk, DeltaChunk}, base \in 0..Len(cut) :
           /\ Appended(storage_, storage_', cut', type, base, Head(pending))
           /\ type = BaseChunk =>
                /\ base = nextId /\ BaseChunkIDs(Head(pending)) = {}
                /\ index_' = index_ \cup {[feature |-> Head(pending), id |-> nextId]}
           /\ type = DeltaChunk =>
                base \in BaseChunkIDs(Head(pending)) /\ index_' = index_
<1> DEFINE chunk == Head(pending)
           Goal(type, base) ==
             /\ Appended(storage_, storage_', cut', type, base, chunk)
             /\ type = BaseChunk =>
                  /\ base = nextId /\ BaseChunkIDs(chunk) = {}
                  /\ index_' = index_ \cup {[feature |-> chunk, id |-> nextId]}
             /\ type = DeltaChunk => base \in BaseChunkIDs(chunk) /\ index_' = index_
<1>1. /\ chunk \in Seq(Nat) /\ cut'[Len(cut) + 1] = chunk
      /\ Faithful(storage_, cut')
  BY NextIs DEF AddBase, AddDelta
<1>2. /\ StoreOK(storage_) /\ Len(storage_.meta) = Len(cut)
      /\ \A x \in index_ : x.id \in 0..Len(cut) - 1
      /\ \A n \in 0..Len(cut) - 1 : storage_.meta[n + 1].type \in {BaseChunk, DeltaChunk}
  BY DEF ChunksOK
<1>3. cut'[Len(storage_.meta) + 1] = chunk
  BY <1>1, <1>2
<1>4. BaseChunk # DeltaChunk /\ BaseChunk # DuplicateChunk /\ DeltaChunk # DuplicateChunk
  BY DEF BaseChunk, DeltaChunk, DuplicateChunk
<1>5. nextId \in 0..Len(cut) /\ Len(cut) \in Nat /\ nextId \in Nat
  BY IdIs
<1> HIDE DEF chunk
<1>6. ASSUME AddBase PROVE Goal(BaseChunk, nextId)
  <2>1. /\ storage_' = WriteBaseChunk(storage_, chunk, nextId)
        /\ BaseChunkIDs(chunk) = {}
        /\ index_' = index_ \cup {[feature |-> chunk, id |-> nextId]}
    BY <1>6 DEF AddBase, chunk
  <2>2. storage_' = WritePlainChunk(storage_, chunk, nextId, BaseChunk)
    BY <2>1 DEF WriteBaseChunk, WritePlainChunk
  <2>3. BaseChunk \in {BaseChunk, DeltaChunk}
    OBVIOUS
  <2>4. Appended(storage_, storage_', cut', BaseChunk, nextId, chunk)
    BY <1>1, <1>2, <1>3, <1>5, <2>2, <2>3, PlainAppended
  <2> QED
    BY <1>4, <2>1, <2>4
<1>7. ASSUME AddDelta PROVE \E base \in 0..Len(cut) : Goal(DeltaChunk, base)
  <2>1. PICK base \in BaseChunkIDs(chunk) :
          storage_' = WriteDeltaChunk(GetDeltaEncodedChunk(storage_, base), chunk, base)
    BY <1>7 DEF AddDelta, chunk
  <2>2. index_' = index_
    BY <1>7 DEF AddDelta
  <2>3. base \in 0..Len(cut) - 1
    BY <1>2, <2>1 DEF BaseChunkIDs
  <2>4. base \in Owning(storage_)
    BY <1>2, <1>4, <2>3 DEF Owning
  <2>5. Appended(storage_, storage_', cut', DeltaChunk, base, chunk)
    BY <1>1, <1>2, <1>3, <2>1, <2>4, DeltaAppended
  <2>6. Goal(DeltaChunk, base)
    BY <1>4, <2>1, <2>2, <2>5
  <2> QED
    BY <1>5, <2>3, <2>6
<1> HIDE DEF Goal
<1>8. \E type \in {BaseChunk, DeltaChunk}, base \in 0..Len(cut) : Goal(type, base)
  BY <1>5, <1>6, <1>7
<1> QED
  BY <1>8 DEF Goal, chunk
-----------------------------------------------------------------------------
\* Storing a chunk keeps the store faithful.
LEMMA AddChunksOK ==
  ASSUME ChunksOK, AddBase \/ AddDelta
  PROVE  ChunksOK'
<1>1. PICK type \in {BaseChunk, DeltaChunk}, base \in 0..Len(cut) :
        /\ Appended(storage_, storage_', cut', type, base, Head(pending))
        /\ type = BaseChunk =>
             /\ base = nextId /\ BaseChunkIDs(Head(pending)) = {}
             /\ index_' = index_ \cup {[feature |-> Head(pending), id |-> nextId]}
        /\ type = DeltaChunk =>
             base \in BaseChunkIDs(Head(pending)) /\ index_' = index_
  BY AddStores
<1>2. /\ cut' \in Seq(Contents) /\ pending' \in Seq(Contents)
      /\ nextId' = Len(cut') % IdSpace /\ Len(cut') = Len(cut) + 1
  BY NextIs DEF AddBase, AddDelta
<1>3. /\ StoreOK(storage_) /\ Len(storage_.meta) = Len(cut) /\ Len(cut) \in Nat
      /\ \A x \in index_ : x.id \in 0..Len(cut) - 1
      /\ \A n \in 0..Len(cut) - 1 : storage_.meta[n + 1].type \in {BaseChunk, DeltaChunk}
  BY IdIs DEF ChunksOK
<1>4. PICK rec \in ChunkMetas : /\ storage_'.meta = Append(storage_.meta, rec)
                                /\ rec.type = type
  BY <1>1 DEF Appended
<1>5. storage_.meta \in Seq(ChunkMetas)
  BY <1>3 DEF StoreOK, Stores
<1>6. /\ Len(storage_'.meta) = Len(cut) + 1
      /\ storage_'.meta[Len(cut) + 1].type = type
      /\ \A n \in 0..Len(cut) - 1 : storage_'.meta[n + 1] = storage_.meta[n + 1]
  BY <1>3, <1>4, <1>5
<1>7. \A n \in 0..Len(cut') - 1 : storage_'.meta[n + 1].type \in {BaseChunk, DeltaChunk}
  <2>1. \A n \in 0..Len(cut') - 1 : n \in 0..Len(cut) - 1 \/ n = Len(cut)
    BY <1>2, <1>3
  <2> QED
    BY <1>3, <1>6, <2>1
<1>8. \A x \in index_' : x.id \in 0..Len(cut') - 1
  <2>1. nextId \in 0..Len(cut)
    BY IdIs
  <2>2. 0..Len(cut') - 1 = 0..Len(cut) /\ \A i \in 0..Len(cut) - 1 : i \in 0..Len(cut)
    BY <1>2, <1>3
  <2>3. CASE type = DeltaChunk
    BY <1>1, <1>3, <2>2, <2>3
  <2>4. CASE type = BaseChunk
    BY <1>1, <1>3, <2>1, <2>2, <2>4
  <2> QED
    BY <2>3, <2>4
<1>9. StoreOK(storage_)' /\ Faithful(storage_, cut)'
  <2>1. StoreOK(storage_') /\ Faithful(storage_', cut')
    BY <1>1 DEF Appended
  <2>2. StoreOK(storage_)'
    BY <2>1 DEF StoreOK, Stores, CacheOK, Owning, ChunkContent, FromFileStream, ReadMeta
  <2>3. Faithful(storage_, cut)'
    BY <2>1 DEF Faithful, Owning, ChunkContent, FromFileStream, ReadMeta
  <2> QED
    BY <2>2, <2>3
<1> QED
  BY <1>2, <1>6, <1>7, <1>8, <1>9 DEF ChunksOK

\* At the start there is nothing to be wrong.
LEMMA ChunksInit == Init => ChunksOK
<1> SUFFICES ASSUME Init PROVE ChunksOK
  OBVIOUS
<1>1. /\ cut = <<>> /\ pending = <<>> /\ nextId = 0 /\ index_ = {} /\ storage_ = EmptyStore
  BY DEF Init
<1>2. StoreOK(storage_) /\ Len(storage_.meta) = 0
  BY <1>1, EmptyStoreOK DEF EmptyStore
<1>3. Owning(storage_) = {}
  BY <1>2 DEF Owning
<1>4. 0 % IdSpace = 0
  BY SequentialAssumption
<1>5. 0..Len(cut) - 1 = {} /\ Len(cut) = 0
  BY <1>1
<1> QED
  BY <1>1, <1>2, <1>3, <1>4, <1>5 DEF ChunksOK, Faithful

\* Neither starting nor ending AddFile touches what is stored.
LEMMA ControlKeeps ==
  ASSUME ChunksOK, EndAddFile \/ (\E f \in Files : StartAddFile(f)) \/ UNCHANGED vars
  PROVE  /\ UNCHANGED <<storage_, cut, nextId, index_>>
         /\ pending' \in Seq(Contents)
<1>1. CASE EndAddFile
  <2>1. StoreOK(storage_) /\ pending \in Seq(Contents)
    BY DEF ChunksOK
  <2> QED
    BY <1>1, <2>1, SeekEndKeeps DEF EndAddFile
<1>2. CASE \E f \in Files : StartAddFile(f)
  BY <1>2, SequentialAssumption DEF StartAddFile
<1>3. CASE UNCHANGED vars
  BY <1>3 DEF vars, ChunksOK
<1> QED
  BY <1>1, <1>2, <1>3

\* Every step keeps the store faithful.
LEMMA ChunksNext == ChunksOK /\ [Next]_vars => ChunksOK'
<1> SUFFICES ASSUME ChunksOK, [Next]_vars PROVE ChunksOK'
  OBVIOUS
<1>1. CASE AddBase \/ AddDelta
  BY <1>1, AddChunksOK
<1>2. CASE EndAddFile \/ (\E f \in Files : StartAddFile(f)) \/ UNCHANGED vars
  <2>1. UNCHANGED <<storage_, cut, nextId, index_>> /\ pending' \in Seq(Contents)
    BY <1>2, ControlKeeps
  <2> QED
    BY <2>1 DEF ChunksOK
<1> QED
  BY <1>1, <1>2 DEF Next

\* The store of the sequential compressor is what its readers take it for,
\* whatever its index returns and however its cache evicts.
THEOREM SequentialStoreFaithful == Spec => []StoreFaithful
<1>1. ChunksOK => StoreFaithful
  <2> SUFFICES ASSUME ChunksOK PROVE StoreFaithful
    OBVIOUS
  <2>1. /\ StoreOK(storage_) /\ Len(storage_.meta) = Len(cut) /\ Len(cut) \in Nat
        /\ Faithful(storage_, cut)
        /\ \A n \in 0..Len(cut) - 1 : storage_.meta[n + 1].type \in {BaseChunk, DeltaChunk}
    BY IdIs DEF ChunksOK
  <2>2. storage_.mpos = Len(storage_.meta) /\ storage_.dpos = Len(storage_.data)
    BY <2>1 DEF StoreOK
  <2>3. ASSUME NEW i \in 1..Len(storage_.meta)
        PROVE  ChunkContent(storage_, i - 1) = Kept(cut[i])
    <3>1. i - 1 \in 0..Len(cut) - 1 /\ (i - 1) + 1 = i
      BY <2>1
    <3>2. i - 1 \in Owning(storage_)
      <4>1. storage_.meta[(i - 1) + 1].type \in {BaseChunk, DeltaChunk}
        BY <2>1, <3>1
      <4> QED
        BY <2>1, <3>1, <4>1 DEF Owning, BaseChunk, DeltaChunk, DuplicateChunk
    <3> QED
      BY <2>1, <3>1, <3>2 DEF Faithful
  <2> QED
    BY <2>1, <2>2, <2>3 DEF StoreFaithful
<1> QED
  BY <1>1, ChunksInit, ChunksNext, PTL DEF Spec
-----------------------------------------------------------------------------
\* The step that stores a chunk, in terms of the classes.
LEMMA AddClasses ==
  ASSUME ChunksOK, ClassesOK, AddBase \/ AddDelta, FewChunks
  PROVE  /\ ClassesOK'
         /\ \A n \in 0..Len(cut) - 1 : kinds'[n] = kinds[n] /\ bases'[n] = bases[n]
<1> USE DEF BaseChunk, DeltaChunk, DuplicateChunk
<1> DEFINE j == Len(cut)
           chunk == Head(pending)
<1>1. PICK type \in {BaseChunk, DeltaChunk}, base \in 0..j :
        /\ Appended(storage_, storage_', cut', type, base, chunk)
        /\ type = BaseChunk =>
             /\ base = nextId /\ BaseChunkIDs(chunk) = {}
             /\ index_' = index_ \cup {[feature |-> chunk, id |-> nextId]}
        /\ type = DeltaChunk =>
             base \in BaseChunkIDs(chunk) /\ index_' = index_
  BY AddStores
<1>2. j \in Nat /\ nextId = j
  BY IdIs DEF FewChunks
<1>3. /\ Len(cut') = j + 1 /\ cut'[j + 1] = chunk
      /\ \A n \in 0..j - 1 : cut'[n + 1] = cut[n + 1]
  BY NextIs DEF AddBase, AddDelta
<1>4. Len(storage_.meta) = j /\ storage_.meta \in Seq(ChunkMetas)
  BY DEF ChunksOK, StoreOK, Stores
<1>5. PICK rec \in ChunkMetas : /\ storage_'.meta = Append(storage_.meta, rec)
                                /\ rec.type = type /\ rec.base = base
  BY <1>1 DEF Appended
<1>6. /\ storage_'.meta[j + 1] = rec
      /\ \A n \in 0..j - 1 : storage_'.meta[n + 1] = storage_.meta[n + 1]
  BY <1>2, <1>4, <1>5
<1> HIDE DEF chunk
<1>7. /\ kinds'[j] = type /\ bases'[j] = base
      /\ \A n \in 0..j - 1 : kinds'[n] = kinds[n] /\ bases'[n] = bases[n]
  <2>1. /\ \A n \in 0..j : kinds'[n] = storage_'.meta[n + 1].type
        /\ \A n \in 0..j : bases'[n] = storage_'.meta[n + 1].base
    BY <1>2, <1>3 DEF kinds, bases
  <2>2. /\ \A n \in 0..j - 1 : kinds[n] = storage_.meta[n + 1].type
        /\ \A n \in 0..j - 1 : bases[n] = storage_.meta[n + 1].base
    BY <1>2 DEF kinds, bases
  <2>3. j \in 0..j /\ \A n \in 0..j - 1 : n \in 0..j
    BY <1>2
  <2>4. kinds'[j] = storage_'.meta[j + 1].type /\ bases'[j] = storage_'.meta[j + 1].base
    BY <2>1, <2>3
  <2>5. kinds'[j] = type /\ bases'[j] = base
    BY <1>5, <1>6, <2>4
  <2>6. ASSUME NEW n \in 0..j - 1
        PROVE  kinds'[n] = kinds[n] /\ bases'[n] = bases[n]
    <3>1. storage_'.meta[n + 1] = storage_.meta[n + 1]
      BY <1>6
    <3>2. kinds'[n] = storage_'.meta[n + 1].type /\ bases'[n] = storage_'.meta[n + 1].base
      BY <2>1, <2>3
    <3>3. kinds[n] = storage_.meta[n + 1].type /\ bases[n] = storage_.meta[n + 1].base
      BY <2>2
    <3> QED
      BY <3>1, <3>2, <3>3
  <2> QED
    BY <2>5, <2>6
<1> HIDE DEF j
<1>8. /\ MatchedTo(Similar, cut, kinds, bases, j)
      /\ IndexFor(cut, kinds, index_, j)
  BY DEF ClassesOK, j
<1>9. MatchedTo(Similar, cut', kinds', bases', j)
  <2>1. \A n \in 0..j - 1 :
          cut'[n + 1] = cut[n + 1] /\ kinds'[n] = kinds[n] /\ bases'[n] = bases[n]
    BY <1>3, <1>7
  <2> QED
    BY <1>2, <1>8, <2>1, MatchedKept
<1>10. IndexFor(cut', kinds', index_, j)
  <2>1. \A n \in 0..j - 1 : cut'[n + 1] = cut[n + 1] /\ kinds'[n] = kinds[n]
    BY <1>3, <1>7
  <2> QED
    BY <1>2, <1>8, <2>1, IndexKept
<1>11. \A n : n \in BaseChunkIDs(chunk) <=>
                n \in 0..j - 1 /\ kinds'[n] = BaseChunk /\ <<chunk, cut'[n + 1]>> \in Similar
  <2>1. /\ \A x \in index_ : /\ x.id \in 0..j - 1 /\ kinds'[x.id] = BaseChunk
                              /\ x.feature = cut'[x.id + 1]
        /\ \A n \in 0..j - 1 :
             kinds'[n] = BaseChunk => \E x \in index_ : x.id = n /\ x.feature = cut'[n + 1]
    BY <1>2, <1>10, IndexEntries
  <2>2. \A n : n \in BaseChunkIDs(chunk) <=>
               \E x \in index_ : x.id = n /\ <<chunk, x.feature>> \in Similar
    BY DEF BaseChunkIDs
  <2> TAKE n
  <2>3. ASSUME n \in BaseChunkIDs(chunk)
        PROVE  n \in 0..j - 1 /\ kinds'[n] = BaseChunk /\ <<chunk, cut'[n + 1]>> \in Similar
    <3>1. PICK x \in index_ : x.id = n /\ <<chunk, x.feature>> \in Similar
      BY <2>2, <2>3
    <3>2. x.id \in 0..j - 1 /\ kinds'[x.id] = BaseChunk /\ x.feature = cut'[x.id + 1]
      BY <2>1
    <3> QED
      BY <3>1, <3>2
  <2>4. ASSUME n \in 0..j - 1, kinds'[n] = BaseChunk, <<chunk, cut'[n + 1]>> \in Similar
        PROVE  n \in BaseChunkIDs(chunk)
    <3>1. PICK x \in index_ : x.id = n /\ x.feature = cut'[n + 1]
      BY <2>1, <2>4
    <3> QED
      BY <2>2, <2>4, <3>1
  <2> QED
    BY <2>3, <2>4
<1>12. MatchedTo(Similar, cut', kinds', bases', j + 1)
  <2>1. kinds'[j] \in {BaseChunk, DeltaChunk, DuplicateChunk}
    BY <1>7
  <2>2. kinds'[j] = DeltaChunk =>
          /\ bases'[j] \in 0..j - 1
          /\ kinds'[bases'[j]] = BaseChunk
          /\ <<cut'[j + 1], cut'[bases'[j] + 1]>> \in Similar
    BY <1>1, <1>3, <1>7, <1>11 DEF j
  <2>3. kinds'[j] = BaseChunk =>
          /\ bases'[j] = j
          /\ \A m \in 0..j - 1 :
               kinds'[m] = BaseChunk => <<cut'[j + 1], cut'[m + 1]>> \notin Similar
    BY <1>1, <1>2, <1>3, <1>7, <1>11 DEF j
  <2> QED
    BY <1>2, <1>9, <2>1, <2>2, <2>3, MatchedNext
<1>13. IndexFor(cut', kinds', index_', j + 1)
  <2>1. index_' = IF kinds'[j] = BaseChunk
                    THEN index_ \cup {[feature |-> cut'[j + 1], id |-> j]}
                    ELSE index_
    BY <1>1, <1>2, <1>3, <1>7 DEF j
  <2> QED
    BY <1>2, <1>10, <2>1, IndexNext
<1> QED
  BY <1>3, <1>7, <1>12, <1>13 DEF ClassesOK, j
-----------------------------------------------------------------------------
\* What the store holds, as the abstract specification sees it.
StoredRecords ==
  [i \in 1..Len(storage_.meta) |->
    [type |-> IF RecordType(i) = BaseChunk THEN "base" ELSE "delta",
     base |-> storage_.meta[i].base]]

\* The classes of the records, as the abstract specification sees them.
LEMMA RecordsAre ==
  ASSUME ChunksOK
  PROVE  /\ DOMAIN StoredRecords = 1..Len(cut) /\ Len(cut) \in Nat
         /\ \A i \in 1..Len(cut) :
              StoredRecords[i] = [type |-> IF kinds[i - 1] = BaseChunk THEN "base" ELSE "delta",
                                  base |-> bases[i - 1]]
<1>1. Len(storage_.meta) = Len(cut) /\ Len(cut) \in Nat
  BY IdIs DEF ChunksOK
<1>2. ASSUME NEW i \in 1..Len(cut)
      PROVE  RecordType(i) = kinds[i - 1] /\ storage_.meta[i].base = bases[i - 1]
  <2>1. i - 1 \in 0..Len(cut) - 1 /\ (i - 1) + 1 = i
    BY <1>1
  <2> QED
    BY <2>1 DEF kinds, bases, RecordType
<1> QED
  BY <1>1, <1>2 DEF StoredRecords

\* At the start no chunk is classified, and after a step that stores nothing the
\* classes are what they were.
LEMMA ClassesInit == Init => ClassesOK
<1> SUFFICES ASSUME Init PROVE ClassesOK
  OBVIOUS
<1>1. Len(cut) = 0 /\ index_ = {} /\ 0..0 - 1 = {}
  BY DEF Init
<1> QED
  BY <1>1 DEF ClassesOK, MatchedTo, IndexFor

\* Every step keeps the classes right as long as ids do not wrap around.
LEMMA ClassesNext ==
  ChunksOK /\ ClassesOK /\ FewChunks /\ [Next]_vars => ClassesOK'
<1> SUFFICES ASSUME ChunksOK, ClassesOK, FewChunks, [Next]_vars PROVE ClassesOK'
  OBVIOUS
<1>1. CASE AddBase \/ AddDelta
  BY <1>1, AddClasses
<1>2. CASE EndAddFile \/ (\E f \in Files : StartAddFile(f)) \/ UNCHANGED vars
  <2>1. UNCHANGED <<storage_, cut, index_>>
    BY <1>2, ControlKeeps
  <2> QED
    BY <2>1 DEF ClassesOK, kinds, bases
<1> QED
  BY <1>1, <1>2 DEF Next

\* The class of a chunk that is stored is one that the abstract specification
\* allows after the chunks stored before it.
LEMMA ClassAllowed ==
  ASSUME ChunksOK, FewChunks, ChunksOK', ClassesOK', AddBase \/ AddDelta,
         \A n \in 0..Len(cut) - 1 : kinds'[n] = kinds[n] /\ bases'[n] = bases[n]
  PROVE  [type |-> IF kinds'[Len(cut)] = BaseChunk THEN "base" ELSE "delta",
          base |-> bases'[Len(cut)]] \in Store!Records(Head(pending))
<1> USE DEF BaseChunk, DeltaChunk, DuplicateChunk
<1> DEFINE c == Head(pending)
           j == Len(cut)
           k == kinds'
           b == bases'
           r == [type |-> IF k[j] = BaseChunk THEN "base" ELSE "delta", base |-> b[j]]
<1>1. /\ j \in Nat /\ Len(cut') = j + 1 /\ cut'[j + 1] = c
      /\ \A n \in 0..j - 1 : cut'[n + 1] = cut[n + 1]
  BY NextIs, IdIs DEF AddBase, AddDelta
<1>2. MatchedTo(Similar, cut', k, b, j + 1)
  BY <1>1 DEF ClassesOK
<1>3. k[j] \in {BaseChunk, DeltaChunk}
  <2>1. \A n \in 0..Len(cut') - 1 : storage_'.meta[n + 1].type \in {BaseChunk, DeltaChunk}
    BY DEF ChunksOK
  <2>2. j \in 0..Len(cut') - 1
    BY <1>1
  <2>3. k[j] = storage_'.meta[j + 1].type
    BY <2>2 DEF kinds
  <2> QED
    BY <2>1, <2>2, <2>3
<1>4. Store!Records(c) =
        IF Store!SimilarBases(c) # {}
          THEN {[type |-> "delta", base |-> i - 1] : i \in Store!SimilarBases(c)}
        ELSE {[type |-> "base", base |-> j]}
  BY DEF Store!Records
<1>5. Store!SimilarBases(c) =
        {i \in 1..j : StoredRecords[i].type = "base" /\ <<c, cut[i]>> \in Similar}
  BY DEF Store!SimilarBases, StoredRecords
<1>6. ASSUME NEW i \in 1..j
      PROVE  StoredRecords[i].type = "base" <=> kinds[i - 1] = BaseChunk
  BY <1>6, RecordsAre
<1> HIDE DEF c, j, k, b
<1>7. \A i \in 1..j : kinds[i - 1] = k[i - 1]
  <2>1. \A n \in 0..j - 1 : kinds[n] = k[n]
    BY DEF j, k
  <2>2. \A i \in 1..j : i - 1 \in 0..j - 1
    BY <1>1
  <2> QED
    BY <2>1, <2>2
<1>8. Store!SimilarBases(c) =
        {i \in 1..j : k[i - 1] = BaseChunk /\ <<c, cut[i]>> \in Similar}
  BY <1>5, <1>6, <1>7
<1>9. /\ k[j] = DeltaChunk =>
           /\ b[j] \in 0..j - 1
           /\ k[b[j]] = BaseChunk
           /\ <<cut'[j + 1], cut'[b[j] + 1]>> \in Similar
      /\ k[j] = BaseChunk =>
           /\ b[j] = j
           /\ \A m \in 0..j - 1 :
                k[m] = BaseChunk => <<cut'[j + 1], cut'[m + 1]>> \notin Similar
  <2>1. j \in 0..(j + 1) - 1
    BY <1>1
  <2> QED
    BY <1>2, <2>1 DEF MatchedTo
<1> HIDE DEF r
<1>10. ASSUME k[j] = DeltaChunk PROVE r \in Store!Records(c)
  <2>1. r = [type |-> "delta", base |-> b[j]]
    BY <1>10 DEF r
  <2>2. b[j] \in 0..j - 1 /\ k[b[j]] = BaseChunk /\ <<c, cut[b[j] + 1]>> \in Similar
    BY <1>1, <1>9, <1>10
  <2>3. b[j] + 1 \in 1..j /\ (b[j] + 1) - 1 = b[j]
    BY <1>1, <2>2
  <2>4. b[j] + 1 \in Store!SimilarBases(c)
    BY <1>8, <2>2, <2>3
  <2> QED
    BY <1>4, <2>1, <2>3, <2>4
<1>11. ASSUME k[j] = BaseChunk PROVE r \in Store!Records(c)
  <2>1. r = [type |-> "base", base |-> j]
    BY <1>9, <1>11 DEF r
  <2>2. Store!SimilarBases(c) = {}
    <3> SUFFICES ASSUME NEW i \in 1..j, k[i - 1] = BaseChunk, <<c, cut[i]>> \in Similar
                 PROVE  FALSE
      BY <1>8
    <3>1. i - 1 \in 0..j - 1 /\ (i - 1) + 1 = i
      BY <1>1
    <3>2. cut'[(i - 1) + 1] = cut[i]
      BY <1>1, <3>1
    <3> QED
      BY <1>1, <1>9, <1>11, <3>1, <3>2
  <2> QED
    BY <1>4, <2>1, <2>2
<1>12. r \in Store!Records(c)
  BY <1>3, <1>10, <1>11
<1> QED
  BY <1>12 DEF r, c, k, b, j
-----------------------------------------------------------------------------
\* AddFile stores a chunk in the abstract store.
LEMMA AddStoresAbstractly ==
  ASSUME ChunksOK, ClassesOK, FewChunks, ChunksOK', ClassesOK', AddBase \/ AddDelta
  PROVE  Store!Next
<1> DEFINE c == Head(pending)
           r == [type |-> IF kinds'[Len(cut)] = BaseChunk THEN "base" ELSE "delta",
                 base |-> bases'[Len(cut)]]
           old == StoredRecords
           new == StoredRecords'
           j == Len(cut)
           Class(i) == [type |-> IF kinds'[i - 1] = BaseChunk THEN "base" ELSE "delta",
                        base |-> bases'[i - 1]]
<1>1. \A n \in 0..j - 1 : kinds'[n] = kinds[n] /\ bases'[n] = bases[n]
  BY AddClasses
<1>2. c \in Contents /\ cut' = Append(cut, c) /\ Len(cut') = j + 1 /\ j \in Nat
  BY NextIs, IdIs DEF AddBase, AddDelta
<1>3. r \in Store!Records(c)
  BY <1>1, ClassAllowed
<1>4. /\ DOMAIN old = 1..j
      /\ \A i \in 1..j :
           old[i] = [type |-> IF kinds[i - 1] = BaseChunk THEN "base" ELSE "delta",
                     base |-> bases[i - 1]]
  BY RecordsAre
<1>5. DOMAIN new = 1..j + 1 /\ \A i \in 1..j + 1 : new[i] = Class(i)
  <2>1. Len(storage_.meta)' = Len(cut') /\ Len(cut') \in Nat
    BY <1>2 DEF ChunksOK
  <2>2. ASSUME NEW i \in 1..Len(cut')
        PROVE  storage_'.meta[i].type = kinds'[i - 1] /\ storage_'.meta[i].base = bases'[i - 1]
    <3>1. i - 1 \in 0..Len(cut') - 1 /\ (i - 1) + 1 = i
      BY <2>1
    <3> QED
      BY <3>1 DEF kinds, bases
  <2> QED
    BY <1>2, <2>1, <2>2 DEF StoredRecords, RecordType
<1>6. ASSUME NEW i \in 1..j PROVE new[i] = old[i]
  <2>1. i - 1 \in 0..j - 1 /\ i \in 1..j + 1
    BY <1>2
  <2>2. kinds'[i - 1] = kinds[i - 1] /\ bases'[i - 1] = bases[i - 1]
    BY <1>1, <2>1
  <2> QED
    BY <1>4, <1>5, <2>1, <2>2
<1>7. new[j + 1] = r
  <2>1. j + 1 \in 1..j + 1 /\ (j + 1) - 1 = j
    BY <1>2
  <2> QED
    BY <1>5, <2>1
<1>8. new = [i \in 1..j + 1 |-> new[i]] /\ old = [i \in 1..j |-> old[i]]
  BY <1>4, <1>5 DEF StoredRecords
<1> HIDE DEF Class, new, old, r, c, j
<1>9. new = Append(old, r)
  <2> DEFINE R == {new[i] : i \in 1..j + 1}
  <2>1. \A i \in 1..j + 1 : new[i] \in R
    OBVIOUS
  <2>2. \A i \in 1..j : old[i] \in R
    <3>1. \A i \in 1..j : i \in 1..j + 1
      BY <1>2
    <3> QED
      BY <1>6, <3>1
  <2>3. r \in R
    <3>1. j + 1 \in 1..j + 1
      BY <1>2
    <3> QED
      BY <1>7, <3>1
  <2> HIDE DEF R
  <2>4. new \in Seq(R) /\ Len(new) = j + 1 /\ old \in Seq(R) /\ Len(old) = j
    <3>1. new \in Seq(R) /\ Len(new) = j + 1
      <4>1. new \in [1..j + 1 -> R] /\ j + 1 \in Nat
        BY <1>2, <1>8, <2>1
      <4> QED
        BY <1>5, <4>1
    <3>2. old \in Seq(R) /\ Len(old) = j
      <4>1. old \in [1..j -> R]
        BY <1>8, <2>2
      <4> QED
        BY <1>2, <1>4, <4>1
    <3> QED
      BY <3>1, <3>2
  <2>5. Append(old, r) \in Seq(R) /\ Len(Append(old, r)) = j + 1
        /\ \A i \in 1..j + 1 : new[i] = Append(old, r)[i]
    BY <1>2, <1>6, <1>7, <2>3, <2>4
  <2> QED
    BY <2>4, <2>5, SeqEqual
<1>10. PICK x \in Contents : x = c
  BY <1>2
<1>11. cut' = Append(cut, x) /\ r \in Store!Records(x)
  BY <1>2, <1>3, <1>10
<1>12. Store!Store(x)
  BY <1>9, <1>11 DEF Store!Store, old, new, StoredRecords
<1> QED
  BY <1>12 DEF Store!Next

\* For as long as chunk ids do not wrap around, the sequential compressor
\* implements the sequential specification of the chunk store.
THEOREM SequentialImplementsStore == Spec /\ []FewChunks => ImplementsStore
<1>1. Init => Store!Init
  <2> SUFFICES ASSUME Init PROVE Store!Init
    OBVIOUS
  <2>1. cut = <<>> /\ storage_.meta = <<>>
    BY DEF Init, EmptyStore
  <2> QED
    BY <2>1 DEF Store!Init
<1>2. /\ ChunksOK /\ ChunksOK' /\ ClassesOK /\ ClassesOK' /\ FewChunks /\ [Next]_vars
      => [Store!Next]_<<cut, StoredRecords>>
  <2> SUFFICES ASSUME ChunksOK, ChunksOK', ClassesOK, ClassesOK', FewChunks, [Next]_vars
               PROVE  [Store!Next]_<<cut, StoredRecords>>
    OBVIOUS
  <2>1. CASE AddBase \/ AddDelta
    BY <2>1, AddStoresAbstractly
  <2>2. CASE EndAddFile \/ (\E f \in Files : StartAddFile(f)) \/ UNCHANGED vars
    <3>1. UNCHANGED <<storage_, cut>>
      BY <2>2, ControlKeeps
    <3> QED
      BY <3>1 DEF StoredRecords, RecordType
  <2> QED
    BY <2>1, <2>2 DEF Next
<1>3. [Store!Next]_<<cut, StoredRecords>> =>
        [Store!Next]_<<cut, [i \in 1..Len(storage_.meta) |->
                [type |-> IF RecordType(i) = BaseChunk THEN "base" ELSE "delta",
                 base |-> storage_.meta[i].base]]>>
  BY DEF StoredRecords
<1>4. Spec /\ []FewChunks => [](ChunksOK /\ ClassesOK /\ FewChunks)
  BY ChunksInit, ChunksNext, ClassesInit, ClassesNext, PTL DEF Spec
<1> QED
  BY <1>1, <1>2, <1>3, <1>4, PTL DEF Spec, ImplementsStore, Store!Spec
-----------------------------------------------------------------------------
\* The line of a file whose chunks have the ids from first to last - 1: it has
\* the first of them, and the last that is a delta chunk.
LineIs(line, k, first, last) ==
  /\ first < last => line.start = first
  /\ \A n \in first..last - 1 : k[n] = DeltaChunk =>
       /\ line.end \in first..last - 1
       /\ k[line.end] = DeltaChunk
       /\ n <= line.end

\* The number of chunks cut when AddFile returned for the i-th time, or so far.
LastOf(i) == IF i < Len(bounds) THEN bounds[i + 1] ELSE Len(cut)

\* The files follow each other; the lines written are right, and so is the line
\* of the file that is being added, which has no start before its first chunk.
LinesOK ==
  /\ running \in BOOLEAN
  /\ metas \in Seq([start : Nat, end : Nat]) /\ file_meta \in [start : Nat, end : Nat]
  /\ bounds \in Seq(Nat)
  /\ Len(bounds) = IF running THEN Len(metas) + 1 ELSE Len(metas)
  /\ \A i \in 1..Len(bounds) : bounds[i] <= LastOf(i) /\ LastOf(i) <= Len(cut)
  /\ \A i \in 1..Len(metas) : LineIs(metas[i], kinds, bounds[i], LastOf(i))
  /\ running =>
       /\ LineIs(file_meta, kinds, bounds[Len(bounds)], Len(cut))
       /\ bounds[Len(bounds)] = Len(cut) => file_meta.start = IdSpace - 1

\* The classes of the chunks of a line do not change.
LEMMA LineKept ==
  ASSUME NEW line, NEW k, NEW l, NEW first \in Nat, NEW last \in Nat,
         \A n \in 0..last - 1 : l[n] = k[n],
         LineIs(line, k, first, last)
  PROVE  LineIs(line, l, first, last)
<1>1. \A n \in first..last - 1 : n \in 0..last - 1
  OBVIOUS
<1> QED
  BY <1>1 DEF LineIs

\* A base chunk leaves the end of the line where it is.
LEMMA LineAfterBase ==
  ASSUME NEW line, NEW new, NEW k, NEW first \in Nat, NEW last \in Nat, first <= last,
         k[last] = BaseChunk,
         LineIs(line, k, first, last),
         new.end = line.end, new.start = first
  PROVE  LineIs(new, k, first, last + 1)
<1>1. \A n \in first..(last + 1) - 1 : n \in first..last - 1 \/ n = last
  OBVIOUS
<1>2. \A n \in first..last - 1 : n \in first..(last + 1) - 1
  OBVIOUS
<1>3. BaseChunk # DeltaChunk
  BY DEF BaseChunk, DeltaChunk
<1> QED
  BY <1>1, <1>2, <1>3 DEF LineIs

\* A delta chunk becomes the end of the line.
LEMMA LineAfterDelta ==
  ASSUME NEW new, NEW k, NEW first \in Nat, NEW last \in Nat, first <= last,
         k[last] = DeltaChunk, new.end = last, new.start = first
  PROVE  LineIs(new, k, first, last + 1)
<1>1. \A n \in first..(last + 1) - 1 : n <= last
  OBVIOUS
<1>2. last \in first..(last + 1) - 1
  OBVIOUS
<1> QED
  BY <1>1, <1>2 DEF LineIs

\* What a step that stores a chunk does to the classes and to the line.
LEMMA AddToLine ==
  ASSUME ChunksOK, ClassesOK, FewChunks, ChunksOK', AddBase \/ AddDelta
  PROVE  /\ running /\ running' = running /\ UNCHANGED <<metas, bounds>>
         /\ Len(cut) \in Nat /\ Len(cut') = Len(cut) + 1 /\ nextId = Len(cut)
         /\ \A n \in 0..Len(cut) - 1 : kinds'[n] = kinds[n]
         /\ \/ /\ kinds'[Len(cut)] = BaseChunk
               /\ file_meta' = [file_meta EXCEPT !.start = FirstId]
            \/ /\ kinds'[Len(cut)] = DeltaChunk
               /\ file_meta' = [start |-> FirstId, end |-> nextId]
<1>1. /\ Len(cut) \in Nat /\ Len(cut') = Len(cut) + 1 /\ nextId = Len(cut)
      /\ Len(cut) \in 0..Len(cut') - 1
  BY NextIs, IdIs DEF AddBase, AddDelta, FewChunks
<1>2. \A n \in 0..Len(cut) - 1 : kinds'[n] = kinds[n]
  BY AddClasses
<1>3. running /\ running' = running /\ UNCHANGED <<metas, bounds>>
  BY DEF AddBase, AddDelta, NextChunk
<1>4. PICK type \in {BaseChunk, DeltaChunk}, base \in 0..Len(cut) :
        /\ Appended(storage_, storage_', cut', type, base, Head(pending))
        /\ type = BaseChunk => BaseChunkIDs(Head(pending)) = {}
        /\ type = DeltaChunk => base \in BaseChunkIDs(Head(pending))
  BY AddStores
<1>5. kinds'[Len(cut)] = type
  <2>1. storage_.meta \in Seq(ChunkMetas) /\ Len(storage_.meta) = Len(cut)
    BY DEF ChunksOK, StoreOK, Stores
  <2>2. PICK rec \in ChunkMetas : /\ storage_'.meta = Append(storage_.meta, rec)
                                  /\ rec.type = type
    BY <1>4 DEF Appended
  <2>3. storage_'.meta[Len(cut) + 1] = rec
    BY <2>1, <2>2
  <2>4. kinds'[Len(cut)] = storage_'.meta[Len(cut) + 1].type
    BY <1>1 DEF kinds
  <2> QED
    BY <2>2, <2>3, <2>4
<1>6. ASSUME AddBase
      PROVE  kinds'[Len(cut)] = BaseChunk /\ file_meta' = [file_meta EXCEPT !.start = FirstId]
  <2>1. BaseChunkIDs(Head(pending)) = {}
    BY <1>6 DEF AddBase
  <2>2. file_meta' = [file_meta EXCEPT !.start = FirstId]
    BY <1>6 DEF AddBase
  <2> QED
    BY <1>4, <1>5, <2>1, <2>2
<1>7. ASSUME AddDelta
      PROVE  kinds'[Len(cut)] = DeltaChunk /\ file_meta' = [start |-> FirstId, end |-> nextId]
  <2>1. BaseChunkIDs(Head(pending)) # {}
    BY <1>7 DEF AddDelta
  <2>2. file_meta' = [start |-> FirstId, end |-> nextId]
    BY <1>7 DEF AddDelta
  <2> QED
    BY <1>4, <1>5, <2>1, <2>2
<1> QED
  BY <1>1, <1>2, <1>3, <1>6, <1>7

\* The line of the file in hand after a chunk.
LEMMA AddLine ==
  ASSUME ChunksOK, ClassesOK, FewChunks, ChunksOK', LinesOK, AddBase \/ AddDelta
  PROVE  /\ file_meta' \in [start : Nat, end : Nat]
         /\ LineIs(file_meta', kinds', bounds[Len(bounds)], Len(cut) + 1)
<1> DEFINE first == bounds[Len(bounds)]
           last == Len(cut)
           k == kinds
           l == kinds'
<1>1. /\ running /\ last \in Nat /\ nextId = last
      /\ \A n \in 0..last - 1 : l[n] = k[n]
      /\ \/ l[last] = BaseChunk /\ file_meta' = [file_meta EXCEPT !.start = FirstId]
         \/ l[last] = DeltaChunk /\ file_meta' = [start |-> FirstId, end |-> nextId]
  BY AddToLine
<1>2. first \in Nat /\ first <= last
  <2>1. /\ bounds \in Seq(Nat) /\ metas \in Seq([start : Nat, end : Nat])
        /\ Len(bounds) = Len(metas) + 1
        /\ \A i \in 1..Len(bounds) : bounds[i] <= LastOf(i) /\ LastOf(i) <= Len(cut)
    BY <1>1 DEF LinesOK
  <2>2. Len(bounds) \in 1..Len(bounds) /\ LastOf(Len(bounds)) = Len(cut)
    BY <2>1 DEF LastOf
  <2>3. bounds[Len(bounds)] <= Len(cut)
    BY <2>1, <2>2
  <2> QED
    BY <2>1, <2>2, <2>3
<1>3. /\ file_meta \in [start : Nat, end : Nat]
      /\ LineIs(file_meta, k, first, last)
      /\ first = last => file_meta.start = IdSpace - 1
  BY <1>1 DEF LinesOK
<1>4. FirstId = first
  <2>1. CASE first = last
    BY <1>1, <1>3, <2>1 DEF FirstId
  <2>2. CASE first < last
    <3>1. file_meta.start = first
      BY <1>3, <2>2 DEF LineIs
    <3>2. first # IdSpace - 1
      BY <1>1, <1>2, <2>2, SequentialAssumption DEF FewChunks
    <3> QED
      BY <3>1, <3>2 DEF FirstId
  <2> QED
    BY <1>1, <1>2, <2>1, <2>2
<1> HIDE DEF first, last, k, l
<1>5. LineIs(file_meta, l, first, last)
  BY <1>1, <1>2, <1>3, LineKept
<1>6. /\ file_meta' \in [start : Nat, end : Nat] /\ file_meta'.start = first
      /\ \/ l[last] = BaseChunk /\ file_meta'.end = file_meta.end
         \/ l[last] = DeltaChunk /\ file_meta'.end = last
  BY <1>1, <1>2, <1>3, <1>4
<1>7. LineIs(file_meta', l, first, last + 1)
  <2>1. CASE l[last] = BaseChunk /\ file_meta'.end = file_meta.end
    <3>1. last \in Nat /\ l[last] = BaseChunk
      BY <1>1, <2>1
    <3>2. file_meta'.end = file_meta.end /\ file_meta'.start = first
      BY <1>6, <2>1
    <3> DEFINE new == file_meta'
    <3>3. new.end = file_meta.end /\ new.start = first
      BY <3>2
    <3> HIDE DEF new
    <3>4. LineIs(new, l, first, last + 1)
      BY <1>2, <1>5, <3>1, <3>3, LineAfterBase
    <3> QED
      BY <3>4 DEF new
  <2>2. CASE l[last] = DeltaChunk /\ file_meta'.end = last
    <3> DEFINE new == file_meta'
    <3>1. last \in Nat /\ l[last] = DeltaChunk /\ new.end = last /\ new.start = first
      BY <1>1, <1>6, <2>2
    <3> HIDE DEF new
    <3>2. LineIs(new, l, first, last + 1)
      BY <1>2, <3>1, LineAfterDelta
    <3> QED
      BY <3>2 DEF new
  <2> QED
    BY <1>6, <2>1, <2>2
<1> QED
  BY <1>6, <1>7 DEF l, first, last

\* At the start there is no line.
LEMMA LinesInit == Init => LinesOK
<1> SUFFICES ASSUME Init PROVE LinesOK
  OBVIOUS
<1>1. /\ running = FALSE /\ metas = <<>> /\ bounds = <<>> /\ Len(bounds) = 0 /\ Len(metas) = 0
      /\ file_meta \in [start : Nat, end : Nat]
  BY DEF Init
<1>2. metas \in Seq([start : Nat, end : Nat]) /\ bounds \in Seq(Nat)
  BY <1>1
<1>3. 1..Len(bounds) = {} /\ 1..Len(metas) = {}
  BY <1>1
<1> QED
  BY <1>1, <1>2, <1>3 DEF LinesOK

\* Storing a chunk concerns the line of the file in hand only.
LEMMA LinesAdd ==
  ASSUME ChunksOK, ClassesOK, FewChunks, ChunksOK', LinesOK, AddBase \/ AddDelta
  PROVE  LinesOK'
<1> DEFINE k == kinds
           l == kinds'
<1>1. /\ running /\ running' = running /\ metas' = metas /\ bounds' = bounds
      /\ Len(cut) \in Nat /\ Len(cut') = Len(cut) + 1
      /\ \A n \in 0..Len(cut) - 1 : l[n] = k[n]
  BY AddToLine
<1>2. /\ metas \in Seq([start : Nat, end : Nat]) /\ bounds \in Seq(Nat)
      /\ Len(bounds) = Len(metas) + 1 /\ Len(metas) \in Nat
      /\ \A i \in 1..Len(bounds) : bounds[i] <= LastOf(i) /\ LastOf(i) <= Len(cut)
      /\ \A i \in 1..Len(metas) : LineIs(metas[i], k, bounds[i], LastOf(i))
  BY <1>1 DEF LinesOK
<1>3. /\ file_meta' \in [start : Nat, end : Nat]
      /\ LineIs(file_meta', l, bounds[Len(bounds)], Len(cut) + 1)
  BY AddLine
<1>4. bounds[Len(bounds)] # Len(cut')
  <2>1. Len(bounds) \in 1..Len(bounds) /\ LastOf(Len(bounds)) = Len(cut)
    BY <1>2 DEF LastOf
  <2>2. bounds[Len(bounds)] <= Len(cut) /\ bounds[Len(bounds)] \in Nat
    BY <1>2, <2>1
  <2> QED
    BY <1>1, <2>2
<1>5. /\ LastOf(Len(bounds))' = Len(cut')
      /\ \A i \in 1..Len(metas) : LastOf(i)' = LastOf(i) /\ LastOf(i) = bounds[i + 1]
  BY <1>1, <1>2 DEF LastOf
<1> HIDE DEF k, l
<1>6. ASSUME NEW i \in 1..Len(metas)
      PROVE  LineIs(metas[i], l, bounds[i], LastOf(i)')
  <2>1. i \in 1..Len(bounds) /\ i + 1 \in 1..Len(bounds)
    BY <1>2
  <2>2. bounds[i] \in Nat /\ bounds[i + 1] \in Nat /\ LastOf(i) = bounds[i + 1]
        /\ LastOf(i) <= Len(cut)
    <3>1. LastOf(i) = bounds[i + 1]
      BY <1>5
    <3>2. LastOf(i) <= Len(cut)
      BY <1>2, <2>1
    <3>3. bounds \in Seq(Nat)
      BY <1>2
    <3>4. \A m \in 1..Len(bounds) : bounds[m] \in Nat
      BY <3>3
    <3>5. bounds[i] \in Nat /\ bounds[i + 1] \in Nat
      BY <2>1, <3>4
    <3> QED
      BY <3>1, <3>2, <3>5
  <2>3. \A n \in 0..LastOf(i) - 1 : n \in 0..Len(cut) - 1
    BY <1>1, <2>2
  <2>4. \A n \in 0..LastOf(i) - 1 : l[n] = k[n]
    BY <1>1, <2>3
  <2>5. LineIs(metas[i], k, bounds[i], LastOf(i)) /\ LastOf(i) \in Nat
    BY <1>2, <2>2
  <2>6. LineIs(metas[i], l, bounds[i], LastOf(i))
    BY <2>2, <2>4, <2>5, LineKept
  <2> QED
    BY <1>5, <2>6
<1>7. ASSUME NEW i \in 1..Len(bounds)
      PROVE  bounds[i] <= LastOf(i)' /\ LastOf(i)' <= Len(cut')
  <2>1. bounds[i] \in Nat /\ bounds[i] <= LastOf(i) /\ LastOf(i) <= Len(cut)
    BY <1>2
  <2>2. CASE i \in 1..Len(metas)
    <3>1. LastOf(i)' = LastOf(i) /\ LastOf(i) \in Nat
      <4>1. i + 1 \in 1..Len(bounds)
        BY <1>2, <2>2
      <4>2. bounds[i + 1] \in Nat
        BY SMTT(30), <1>2, <4>1
      <4>3. LastOf(i)' = LastOf(i) /\ LastOf(i) = bounds[i + 1]
        BY <1>5, <2>2
      <4> QED
        BY <4>2, <4>3
    <3> QED
      BY <1>1, <2>1, <3>1
  <2>3. CASE i = Len(bounds)
    <3>1. LastOf(i) = Len(cut)
      BY <2>3 DEF LastOf
    <3> QED
      BY <1>1, <1>5, <2>1, <2>3, <3>1
  <2> QED
    BY <1>2, <2>2, <2>3
<1>8. LineIs(file_meta', l, bounds[Len(bounds)], Len(cut'))
  BY <1>1, <1>3
<1>9. \A i \in 1..Len(metas') : LineIs(metas'[i], kinds', bounds'[i], LastOf(i)')
  BY <1>1, <1>6 DEF l
<1>10. \A i \in 1..Len(bounds') : bounds'[i] <= LastOf(i)' /\ LastOf(i)' <= Len(cut')
  BY <1>1, <1>7
<1>11. LineIs(file_meta', kinds', bounds'[Len(bounds')], Len(cut'))
  BY <1>1, <1>8 DEF l
<1>12. /\ running' \in BOOLEAN
       /\ metas' \in Seq([start : Nat, end : Nat]) /\ bounds' \in Seq(Nat)
       /\ Len(bounds') = Len(metas') + 1 /\ running'
       /\ bounds'[Len(bounds')] # Len(cut')
  BY <1>1, <1>2, <1>4
<1>13. (\A i \in 1..Len(metas) : LineIs(metas[i], kinds, bounds[i], LastOf(i)))'
  BY <1>9 DEF LineIs
<1>14. (\A i \in 1..Len(bounds) : bounds[i] <= LastOf(i) /\ LastOf(i) <= Len(cut))'
  BY <1>10
<1>15. LineIs(file_meta, kinds, bounds[Len(bounds)], Len(cut))'
  BY <1>11 DEF LineIs
<1> QED
  BY <1>3, <1>12, <1>13, <1>14, <1>15 DEF LinesOK

\* AddFile starts a line behind the chunks of the files before.
LEMMA LinesStart ==
  ASSUME ChunksOK, LinesOK, NEW f \in Files, StartAddFile(f)
  PROVE  LinesOK'
<1>1. /\ ~running /\ running' = TRUE /\ bounds' = Append(bounds, Len(cut))
      /\ metas' = metas /\ cut' = cut /\ storage_' = storage_
      /\ \E garbage \in 0..IdSpace - 1 :
           file_meta' = [start |-> IdSpace - 1, end |-> garbage]
  BY DEF StartAddFile
<1>2. /\ metas \in Seq([start : Nat, end : Nat]) /\ bounds \in Seq(Nat)
      /\ Len(bounds) = Len(metas) /\ Len(metas) \in Nat /\ Len(cut) \in Nat
      /\ \A i \in 1..Len(bounds) : bounds[i] <= LastOf(i) /\ LastOf(i) <= Len(cut)
      /\ \A i \in 1..Len(metas) : LineIs(metas[i], kinds, bounds[i], LastOf(i))
  BY SMTT(30), <1>1, IdIs DEF LinesOK
<1>3. /\ bounds' \in Seq(Nat) /\ Len(bounds') = Len(metas) + 1
      /\ bounds'[Len(metas) + 1] = Len(cut)
      /\ \A i \in 1..Len(metas) : bounds'[i] = bounds[i]
  BY <1>1, <1>2
<1>4. file_meta' \in [start : Nat, end : Nat] /\ file_meta'.start = IdSpace - 1
  <2>1. IdSpace - 1 \in Nat /\ \A g \in 0..IdSpace - 1 : g \in Nat
    BY SequentialAssumption
  <2> QED
    BY <1>1, <2>1
<1>5. kinds' = kinds
  BY <1>1 DEF kinds
<1>6. \A i \in 1..Len(metas) : LastOf(i)' = LastOf(i)
  <2> SUFFICES ASSUME NEW i \in 1..Len(metas) PROVE LastOf(i)' = LastOf(i)
    OBVIOUS
  <2>1. CASE i < Len(metas)
    <3>1. i + 1 \in 1..Len(metas) /\ i < Len(metas) + 1
      BY <1>2, <2>1
    <3> QED
      BY <1>2, <1>3, <2>1, <3>1 DEF LastOf
  <2>2. CASE i = Len(metas)
    <3>1. ~(i < Len(metas)) /\ i < Len(metas) + 1
      BY <1>2, <2>2
    <3> QED
      BY <1>2, <1>3, <2>2, <3>1 DEF LastOf
  <2> QED
    BY <1>2, <2>1, <2>2
<1>7. LastOf(Len(metas) + 1)' = Len(cut)
  BY <1>1, <1>2, <1>3 DEF LastOf
<1>8. (\A i \in 1..Len(bounds) : bounds[i] <= LastOf(i) /\ LastOf(i) <= Len(cut))'
  <2> SUFFICES ASSUME NEW i \in 1..Len(bounds')
               PROVE  bounds'[i] <= LastOf(i)' /\ LastOf(i)' <= Len(cut')
    OBVIOUS
  <2>1. CASE i \in 1..Len(metas)
    BY <1>1, <1>2, <1>3, <1>6, <2>1
  <2>2. CASE i = Len(metas) + 1
    BY <1>1, <1>2, <1>3, <1>7, <2>2
  <2> QED
    BY <1>2, <1>3, <2>1, <2>2
<1>9. (\A i \in 1..Len(metas) : LineIs(metas[i], kinds, bounds[i], LastOf(i)))'
  <2>1. \A i \in 1..Len(metas) : LineIs(metas'[i], kinds', bounds'[i], LastOf(i)')
    BY <1>1, <1>2, <1>3, <1>5, <1>6
  <2> QED
    BY <1>1, <2>1 DEF LineIs
<1>10. LineIs(file_meta, kinds, bounds[Len(bounds)], Len(cut))'
  <2>1. Len(cut)..Len(cut) - 1 = {} /\ ~(Len(cut) < Len(cut))
    BY <1>2
  <2> QED
    BY <1>1, <1>3, <2>1 DEF LineIs
<1>11. running' \in BOOLEAN /\ metas' \in Seq([start : Nat, end : Nat])
       /\ Len(bounds') = Len(metas') + 1
  BY <1>1, <1>2, <1>3
<1> QED
  BY <1>1, <1>3, <1>4, <1>8, <1>9, <1>10, <1>11 DEF LinesOK

\* AddFile writes the line at its end.
LEMMA LinesEnd ==
  ASSUME ChunksOK, LinesOK, EndAddFile
  PROVE  LinesOK'
<1>1. /\ running /\ running' = FALSE /\ metas' = Append(metas, file_meta)
      /\ bounds' = bounds /\ file_meta' = file_meta /\ cut' = cut
  BY DEF EndAddFile
<1>2. kinds' = kinds
  BY <1>1, ControlKeeps DEF kinds
<1>3. /\ metas \in Seq([start : Nat, end : Nat]) /\ bounds \in Seq(Nat)
      /\ file_meta \in [start : Nat, end : Nat]
      /\ Len(bounds) = Len(metas) + 1 /\ Len(metas) \in Nat
      /\ \A i \in 1..Len(bounds) : bounds[i] <= LastOf(i) /\ LastOf(i) <= Len(cut)
      /\ \A i \in 1..Len(metas) : LineIs(metas[i], kinds, bounds[i], LastOf(i))
      /\ LineIs(file_meta, kinds, bounds[Len(bounds)], Len(cut))
  BY <1>1 DEF LinesOK
<1>4. /\ metas' \in Seq([start : Nat, end : Nat]) /\ Len(metas') = Len(metas) + 1
      /\ metas'[Len(metas) + 1] = file_meta
      /\ \A i \in 1..Len(metas) : metas'[i] = metas[i]
  BY <1>1, <1>3
<1>5. \A i \in 1..Len(bounds) : LastOf(i)' = LastOf(i)
  BY <1>1 DEF LastOf
<1>6. LastOf(Len(metas) + 1) = Len(cut)
  BY <1>3 DEF LastOf
<1>7. \A i \in 1..Len(metas) + 1 : LineIs(metas'[i], kinds, bounds[i], LastOf(i))
  <2> SUFFICES ASSUME NEW i \in 1..Len(metas) + 1
               PROVE  LineIs(metas'[i], kinds, bounds[i], LastOf(i))
    OBVIOUS
  <2>1. CASE i \in 1..Len(metas)
    BY <1>3, <1>4, <2>1
  <2>2. CASE i = Len(metas) + 1
    BY <1>3, <1>4, <1>6, <2>2
  <2> QED
    BY <1>3, <2>1, <2>2
<1>8. (\A i \in 1..Len(metas) : LineIs(metas[i], kinds, bounds[i], LastOf(i)))'
  <2>1. \A i \in 1..Len(metas') : LineIs(metas'[i], kinds', bounds'[i], LastOf(i)')
    BY <1>1, <1>2, <1>3, <1>4, <1>5, <1>7
  <2> QED
    BY <2>1 DEF LineIs
<1>9. (\A i \in 1..Len(bounds) : bounds[i] <= LastOf(i) /\ LastOf(i) <= Len(cut))'
  BY <1>1, <1>3, <1>5
<1> QED
  BY <1>1, <1>3, <1>4, <1>8, <1>9 DEF LinesOK

\* Every step keeps the lines right as long as ids do not wrap around.
LEMMA LinesNext ==
  ChunksOK /\ ClassesOK /\ FewChunks /\ LinesOK /\ ChunksOK' /\ [Next]_vars => LinesOK'
<1> SUFFICES ASSUME ChunksOK, ClassesOK, FewChunks, LinesOK, ChunksOK', [Next]_vars
             PROVE  LinesOK'
  OBVIOUS
<1>1. CASE AddBase \/ AddDelta
  BY <1>1, LinesAdd
<1>2. CASE \E f \in Files : StartAddFile(f)
  BY <1>2, LinesStart
<1>3. CASE EndAddFile
  BY <1>3, LinesEnd
<1>4. CASE UNCHANGED vars
  <2>1. UNCHANGED <<running, metas, file_meta, bounds, cut, storage_>>
    BY <1>4 DEF vars
  <2>2. kinds' = kinds
    BY <2>1 DEF kinds
  <2> HIDE DEF kinds
  <2> QED
    BY <2>1, <2>2 DEF LinesOK, LineIs, LastOf
<1> QED
  BY <1>1, <1>2, <1>3, <1>4 DEF Next

\* For as long as chunk ids do not wrap around, the line of every file that has
\* chunks starts with the id of its first chunk and ends with the id of its last
\* delta chunk.
THEOREM LinesAreRight == Spec /\ []FewChunks => []LinesEndAtDeltas
<1>1. ChunksOK /\ LinesOK => LinesEndAtDeltas
  <2> SUFFICES ASSUME ChunksOK, LinesOK, NEW i \in 1..Len(metas)
               PROVE  LET ids    == bounds[i]..LastOf(i) - 1
                          deltas == {n \in ids : RecordType(n + 1) = DeltaChunk}
                      IN /\ ids # {} => metas[i].start = bounds[i]
                         /\ deltas # {} => metas[i].end = Max(deltas)
    BY DEF LinesEndAtDeltas, LastOf
  <2> DEFINE ids == bounds[i]..LastOf(i) - 1
             deltas == {n \in ids : RecordType(n + 1) = DeltaChunk}
             end == metas[i].end
  <2>1. /\ LineIs(metas[i], kinds, bounds[i], LastOf(i))
        /\ bounds[i] \in Nat /\ LastOf(i) <= Len(cut) /\ LastOf(i) \in Nat
    <3>1. /\ LineIs(metas[i], kinds, bounds[i], LastOf(i))
          /\ bounds \in Seq(Nat) /\ metas \in Seq([start : Nat, end : Nat])
          /\ Len(bounds) = Len(metas) \/ Len(bounds) = Len(metas) + 1
          /\ \A m \in 1..Len(bounds) : bounds[m] <= LastOf(m) /\ LastOf(m) <= Len(cut)
      BY DEF LinesOK
    <3>2. i \in 1..Len(bounds)
      BY <3>1
    <3>3. \A m \in 1..Len(bounds) : bounds[m] \in Nat
      <4>1. bounds \in Seq(Nat)
        BY <3>1
      <4> QED
        BY <4>1
    <3>4. Len(cut) \in Nat
      BY IdIs
    <3>5. LastOf(i) \in Nat
      <4>1. CASE i < Len(bounds)
        <5>1. i + 1 \in 1..Len(bounds)
          BY <3>1, <3>2, <4>1
        <5> QED
          BY <3>3, <4>1, <5>1 DEF LastOf
      <4>2. CASE ~(i < Len(bounds))
        BY <3>4, <4>2 DEF LastOf
      <4> QED
        BY <4>1, <4>2
    <3>6. LastOf(i) <= Len(cut)
      BY <3>1, <3>2
    <3> QED
      BY <3>1, <3>2, <3>3, <3>5, <3>6
  <2>2. \A n \in ids : RecordType(n + 1) = kinds[n]
    <3>1. \A n \in ids : n \in 0..Len(cut) - 1
      BY <2>1, IdIs
    <3> QED
      BY <3>1 DEF kinds, RecordType
  <2>3. ids # {} => metas[i].start = bounds[i]
    BY <2>1 DEF LineIs
  <2>4. ASSUME deltas # {} PROVE end = Max(deltas)
    <3>1. \A n \in ids : kinds[n] = DeltaChunk =>
            end \in ids /\ kinds[end] = DeltaChunk /\ n <= end
      BY <2>1 DEF LineIs
    <3>2. \A n : n \in deltas <=> n \in ids /\ kinds[n] = DeltaChunk
      BY <2>2
    <3> HIDE DEF deltas, end
    <3>3. end \in deltas /\ \A n \in deltas : n <= end
      BY <2>4, <3>1, <3>2
    <3>4. \A n \in deltas : n \in Int
      BY <2>1, <3>2
    <3>5. \A x \in deltas : (\A n \in deltas : n <= x) => x = end
      BY <3>3, <3>4
    <3> QED
      BY <3>3, <3>4, <3>5 DEF Max
  <2> QED
    BY <2>3, <2>4
<1>2. /\ Spec /\ []FewChunks => [](ChunksOK /\ LinesOK)
  BY ChunksInit, ChunksNext, ClassesInit, ClassesNext, LinesInit, LinesNext, PTL DEF Spec
<1> QED
  BY <1>1, <1>2, PTL
-----------------------------------------------------------------------------
(* Grouping.                                                               *)

\* A set of numbers in order: each of them once, ascending.
LEMMA InOrderIs ==
  ASSUME NEW S \in SUBSET Nat, IsFiniteSet(S)
  PROVE  /\ InOrder(S) \in Seq(Nat) /\ ToSet(InOrder(S)) = S
         /\ \A i, j \in 1..Len(InOrder(S)) : i < j => InOrder(S)[i] < InOrder(S)[j]
<1> DEFINE N == Cardinality(S)
           below(x) == {y \in S : y <= x}
           rank == [x \in S |-> Cardinality(below(x))]
<1>1. N \in Nat
  BY FS_CardinalityType
<1>2. ASSUME NEW x \in S
      PROVE  IsFiniteSet(below(x)) /\ Cardinality(below(x)) \in 1..N
  <2>1. below(x) \in SUBSET S /\ below(x) # {}
    BY <1>2
  <2> HIDE DEF below
  <2>2. IsFiniteSet(below(x)) /\ Cardinality(below(x)) <= N
    BY <2>1, FS_Subset
  <2>3. Cardinality(below(x)) \in Nat /\ Cardinality(below(x)) # 0
    BY <2>1, <2>2, FS_CardinalityType, FS_EmptySet
  <2> QED
    BY <1>1, <2>2, <2>3
<1>3. ASSUME NEW x \in S, NEW y \in S, x < y
      PROVE  Cardinality(below(x)) < Cardinality(below(y))
  <2>1. below(x) \in SUBSET below(y) /\ y \in below(y) /\ y \notin below(x)
    <3>1. \A z \in S : z \in Nat
      OBVIOUS
    <3>2. \A z \in S : z <= x => z <= y
      BY <1>3, <3>1
    <3>3. y <= y /\ ~(y <= x)
      BY <1>3, <3>1
    <3> QED
      BY <3>2, <3>3
  <2>2. /\ IsFiniteSet(below(y)) /\ Cardinality(below(y)) \in 1..N
        /\ Cardinality(below(x)) \in 1..N
    BY <1>2
  <2> HIDE DEF below
  <2>3. /\ Cardinality(below(x)) <= Cardinality(below(y))
        /\ Cardinality(below(y)) # Cardinality(below(x))
    BY <2>1, <2>2, FS_Subset
  <2> QED
    BY <1>1, <2>2, <2>3
<1>4. rank \in [S -> 1..N] /\ \A x \in S : rank[x] = Cardinality(below(x))
  BY <1>2
<1>5. \A x, y \in S : x < y => rank[x] < rank[y]
  BY <1>3, <1>4
<1> HIDE DEF below, rank
<1>6. rank \in Injection(S, 1..N)
  <2>1. \A x, y \in S : rank[x] = rank[y] => x = y
    <3> SUFFICES ASSUME NEW x \in S, NEW y \in S, rank[x] = rank[y] PROVE x = y
      OBVIOUS
    <3>1. rank[x] \in Nat /\ rank[y] \in Nat /\ x \in Nat /\ y \in Nat
      BY <1>4
    <3>2. ~(x < y) /\ ~(y < x)
      BY <1>5, <3>1
    <3> QED
      BY <3>1, <3>2
  <2> QED
    BY <1>4, <2>1 DEF Injection, IsInjective
<1>7. rank \in Surjection(S, 1..N)
  <2>1. IsFiniteSet(1..N) /\ Cardinality(1..N) = N
    BY <1>1, FS_Interval
  <2> QED
    BY <1>6, <2>1, FS_Injection
<1>8. \A k \in 1..N : \E x \in S : rank[x] = k
  BY <1>7 DEF Surjection
<1> DEFINE a == InOrder(S)
<1>9. a = [k \in 1..N |-> CHOOSE x \in S : Cardinality(below(x)) = k]
  BY DEF InOrder, below
<1>10. \A k \in 1..N : a[k] \in S /\ rank[a[k]] = k
  <2> SUFFICES ASSUME NEW k \in 1..N PROVE a[k] \in S /\ rank[a[k]] = k
    OBVIOUS
  <2>1. \E x \in S : Cardinality(below(x)) = k
    BY <1>4, <1>8
  <2>2. a[k] = CHOOSE x \in S : Cardinality(below(x)) = k
    BY <1>9
  <2>3. a[k] \in S /\ Cardinality(below(a[k])) = k
    BY <2>1, <2>2
  <2> QED
    BY <1>4, <2>3
<1>11. DOMAIN a = 1..N
  BY <1>9
<1>12. a \in Seq(Nat) /\ Len(a) = N
  <2>1. \A k \in 1..N : a[k] \in Nat
    BY <1>10
  <2>2. a = [k \in 1..N |-> a[k]]
    BY <1>9
  <2> HIDE DEF a
  <2> QED
    BY <1>1, <2>1, <2>2
<1> HIDE DEF a
<1>13. ToSet(a) = S
  <2>1. \A k \in DOMAIN a : a[k] \in S
    BY <1>10, <1>11
  <2>2. ASSUME NEW x \in S PROVE \E k \in DOMAIN a : a[k] = x
    <3>1. rank[x] \in 1..N /\ a[rank[x]] \in S /\ rank[a[rank[x]]] = rank[x]
      BY <1>4, <1>10
    <3>2. a[rank[x]] = x
      BY <1>6, <3>1 DEF Injection, IsInjective
    <3> QED
      BY <1>11, <3>1, <3>2
  <2> QED
    BY <2>1, <2>2 DEF ToSet
<1>14. ASSUME NEW i \in 1..N, NEW j \in 1..N, i < j PROVE a[i] < a[j]
  <2>1. /\ a[i] \in S /\ a[j] \in S /\ a[i] \in Nat /\ a[j] \in Nat
        /\ rank[a[i]] = i /\ rank[a[j]] = j
    BY <1>10
  <2>2. ~(a[j] < a[i])
    BY <1>1, <1>5, <1>14, <2>1
  <2> QED
    BY <1>14, <2>1, <2>2
<1> QED
  BY <1>12, <1>13, <1>14 DEF a

\* The members of a sequence are pairwise in R.
Distinct(s, R) == \A i, j \in 1..Len(s) : i # j => <<s[i], s[j]>> \in R

\* Two sequences joined.
LEMMA ConcatDistinct ==
  ASSUME NEW S, NEW R, NEW s \in Seq(S), NEW t \in Seq(S), Distinct(s, R), Distinct(t, R),
         \A x \in ToSet(s), y \in ToSet(t) : <<x, y>> \in R /\ <<y, x>> \in R
  PROVE  /\ s \o t \in Seq(S) /\ ToSet(s \o t) = ToSet(s) \cup ToSet(t)
         /\ Distinct(s \o t, R)
<1> DEFINE u == s \o t
           m == Len(s)
           n == Len(t)
<1>1. /\ u \in Seq(S) /\ Len(u) = m + n
      /\ \A i \in 1..m + n : u[i] = IF i <= m THEN s[i] ELSE t[i - m]
  BY ConcatProperties
<1>2. /\ m \in Nat /\ n \in Nat /\ DOMAIN u = 1..m + n
      /\ DOMAIN s = 1..m /\ DOMAIN t = 1..n
  BY <1>1
<1>3. /\ \A i \in 1..m : s[i] \in ToSet(s)
      /\ \A i \in 1..n : t[i] \in ToSet(t)
  BY <1>2 DEF ToSet
<1> HIDE DEF u
<1>4. ToSet(u) = ToSet(s) \cup ToSet(t)
  <2>1. ASSUME NEW i \in 1..m + n PROVE u[i] \in ToSet(s) \cup ToSet(t)
    <3>1. ASSUME i <= m PROVE u[i] \in ToSet(s)
      BY <1>1, <1>2, <1>3, <3>1
    <3>2. ASSUME ~(i <= m) PROVE u[i] \in ToSet(t)
      <4>1. i - m \in 1..n /\ u[i] = t[i - m]
        BY <1>1, <1>2, <3>2
      <4> QED
        BY <1>3, <4>1
    <3> QED
      BY <3>1, <3>2
  <2>2. ASSUME NEW i \in 1..m PROVE s[i] \in ToSet(u)
    <3>1. i \in 1..m + n /\ u[i] = s[i]
      BY <1>1, <1>2
    <3> QED
      BY <1>2, <3>1 DEF ToSet
  <2>3. ASSUME NEW i \in 1..n PROVE t[i] \in ToSet(u)
    <3>1. m + i \in 1..m + n /\ ~(m + i <= m) /\ (m + i) - m = i
      BY <1>2
    <3>2. u[m + i] = t[i]
      BY <1>1, <3>1
    <3> QED
      BY <1>2, <3>1, <3>2 DEF ToSet
  <2>4. ToSet(u) \subseteq ToSet(s) \cup ToSet(t)
    <3>1. ToSet(u) = {u[i] : i \in 1..m + n}
      BY <1>2 DEF ToSet
    <3> QED
      BY <2>1, <3>1
  <2>5. ToSet(s) \subseteq ToSet(u) /\ ToSet(t) \subseteq ToSet(u)
    <3>1. ToSet(s) = {s[i] : i \in 1..m} /\ ToSet(t) = {t[i] : i \in 1..n}
      BY <1>2 DEF ToSet
    <3> QED
      BY <2>2, <2>3, <3>1
  <2> QED
    BY <2>4, <2>5
<1>5. ASSUME NEW i \in 1..m + n, NEW j \in 1..m + n, i # j PROVE <<u[i], u[j]>> \in R
  <2>1. CASE i <= m /\ j <= m
    <3>1. i \in 1..m /\ j \in 1..m /\ u[i] = s[i] /\ u[j] = s[j]
      BY <1>1, <1>2, <2>1
    <3> QED
      BY <1>5, <3>1 DEF Distinct
  <2>2. CASE i <= m /\ ~(j <= m)
    <3>1. i \in 1..m /\ j - m \in 1..n /\ u[i] = s[i] /\ u[j] = t[j - m]
      BY <1>1, <1>2, <2>2
    <3> QED
      BY <1>3, <3>1
  <2>3. CASE ~(i <= m) /\ j <= m
    <3>1. j \in 1..m /\ i - m \in 1..n /\ u[j] = s[j] /\ u[i] = t[i - m]
      BY <1>1, <1>2, <2>3
    <3> QED
      BY <1>3, <3>1
  <2>4. CASE ~(i <= m) /\ ~(j <= m)
    <3>1. i - m \in 1..n /\ j - m \in 1..n /\ u[i] = t[i - m] /\ u[j] = t[j - m]
          /\ i - m # j - m
      BY <1>1, <1>2, <1>5, <2>4
    <3> QED
      BY <3>1 DEF Distinct
  <2> QED
    BY <2>1, <2>2, <2>3, <2>4
<1> QED
  BY <1>1, <1>4, <1>5 DEF u, Distinct

\* h has what flattening seqs has made after each of the first n sequences.
IsFlat(h, seqs, n) ==
  h = [i \in 1..n |-> IF i = 1 THEN seqs[i] ELSE h[i - 1] \o seqs[i]]

\* Flattening goes through all sequences.
LEMMA FlatExists ==
  ASSUME NEW S, NEW seqs \in Seq(Seq(S)), NEW n \in 0..Len(seqs)
  PROVE  \E h : IsFlat(h, seqs, n) /\ h \in [1..n -> Seq(S)]
<1> DEFINE Ok(k) == \E h : IsFlat(h, seqs, k) /\ h \in [1..k -> Seq(S)]
           T == {k \in 0..Len(seqs) : ~Ok(k)}
<1>0. Len(seqs) \in Nat /\ \A k \in 1..Len(seqs) : seqs[k] \in Seq(S)
  OBVIOUS
<1> HIDE DEF Ok
<1> SUFFICES ASSUME T # {} PROVE FALSE
  BY DEF Ok
<1>1. PICK k \in T : \A j \in T : k <= j
  <2>1. T \subseteq Nat
    BY <1>0
  <2> QED
    BY <2>1, LeastNat
<1>2. k \in 0..Len(seqs) /\ ~Ok(k)
  BY <1>1
<1>3. k # 0
  <2>1. Ok(0)
    <3> DEFINE h == [i \in 1..0 |-> <<>>]
    <3>1. 1..0 = {}
      OBVIOUS
    <3>2. IsFlat(h, seqs, 0) /\ h \in [1..0 -> Seq(S)]
      BY <3>1 DEF IsFlat
    <3> QED
      BY <3>2 DEF Ok
  <2> QED
    BY <1>2, <2>1
<1>4. k - 1 \in 0..Len(seqs) /\ Ok(k - 1)
  BY <1>0, <1>1, <1>2, <1>3
<1>5. PICK h : IsFlat(h, seqs, k - 1) /\ h \in [1..k - 1 -> Seq(S)]
  BY <1>4 DEF Ok
<1>6. \A i \in 1..k - 1 : h[i] = IF i = 1 THEN seqs[i] ELSE h[i - 1] \o seqs[i]
  BY <1>5 DEF IsFlat
<1> DEFINE last == IF k = 1 THEN seqs[k] ELSE h[k - 1] \o seqs[k]
           g == [i \in 1..k |-> IF i = k THEN last ELSE h[i]]
<1>7. last \in Seq(S)
  <2>1. CASE k = 1
    BY <1>0, <1>2, <2>1
  <2>2. CASE k # 1
    <3>1. k - 1 \in 1..k - 1 /\ k \in 1..Len(seqs)
      BY <1>0, <1>2, <1>3, <2>2
    <3>2. h[k - 1] \in Seq(S) /\ seqs[k] \in Seq(S)
      BY <1>0, <1>5, <3>1
    <3>3. h[k - 1] \o seqs[k] \in Seq(S)
      BY <3>2, ConcatProperties
    <3> QED
      BY <2>2, <3>3
  <2> QED
    BY <2>1, <2>2
<1>8. g \in [1..k -> Seq(S)]
  <2>1. \A i \in 1..k : i # k => i \in 1..k - 1
    BY <1>2
  <2> HIDE DEF last
  <2> QED
    BY <1>5, <1>7, <2>1
<1>9. IsFlat(g, seqs, k)
  <2>1. ASSUME NEW i \in 1..k
        PROVE  g[i] = IF i = 1 THEN seqs[i] ELSE g[i - 1] \o seqs[i]
    <3>1. CASE i = k
      <4>1. g[i] = last /\ (i # 1 => g[i - 1] = h[k - 1])
        BY <1>2, <3>1
      <4> QED
        BY <3>1, <4>1
    <3>2. CASE i # k
      <4>1. i \in 1..k - 1 /\ g[i] = h[i] /\ (i # 1 => g[i - 1] = h[i - 1])
        BY <1>2, <3>2
      <4> QED
        BY <1>6, <4>1
    <3> QED
      BY <3>1, <3>2
  <2>2. g = [i \in 1..k |-> g[i]]
    OBVIOUS
  <2> HIDE DEF g
  <2> QED
    BY <2>1, <2>2 DEF IsFlat
<1> QED
  BY <1>2, <1>8, <1>9 DEF Ok

\* Flattening keeps all members and no others, and if members of different
\* sequences are in R, and those of each, then all are.
LEMMA FlattenIs ==
  ASSUME NEW S, NEW R, NEW seqs \in Seq(Seq(S)),
         \A i \in 1..Len(seqs) : Distinct(seqs[i], R),
         \A i, j \in 1..Len(seqs) : i # j =>
           \A x \in ToSet(seqs[i]), y \in ToSet(seqs[j]) : <<x, y>> \in R
  PROVE  /\ FlattenSeq(seqs) \in Seq(S)
         /\ \A x : x \in ToSet(FlattenSeq(seqs)) <=>
                     \E i \in 1..Len(seqs) : x \in ToSet(seqs[i])
         /\ Distinct(FlattenSeq(seqs), R)
<1> DEFINE L == Len(seqs)
           flat == FlattenSeq(seqs)
<1>0. L \in Nat /\ \A k \in 1..L : seqs[k] \in Seq(S)
  OBVIOUS
<1>1. ASSUME L = 0
      PROVE  flat \in Seq(S) /\ ToSet(flat) = {} /\ Distinct(flat, R)
  <2>1. flat = seqs
    BY <1>1 DEF FlattenSeq
  <2>2. seqs = <<>>
    BY <1>1
  <2>3. <<>> \in Seq(S) /\ Len(<<>>) = 0 /\ DOMAIN <<>> = {} /\ 1..0 = {}
    OBVIOUS
  <2>4. ToSet(<<>>) = {} /\ Distinct(<<>>, R)
    BY <2>3 DEF ToSet, Distinct
  <2> HIDE DEF flat
  <2> QED
    BY <2>1, <2>2, <2>3, <2>4
<1>2. ASSUME L # 0
      PROVE  /\ flat \in Seq(S) /\ Distinct(flat, R)
             /\ \A x : x \in ToSet(flat) <=> \E i \in 1..L : x \in ToSet(seqs[i])
  <2> DEFINE h == CHOOSE g : IsFlat(g, seqs, L)
             Has(n) == \A x : x \in ToSet(h[n]) <=> \E i \in 1..n : x \in ToSet(seqs[i])
             Ok(n) == h[n] \in Seq(S) /\ Has(n) /\ Distinct(h[n], R)
             T == {n \in 1..L : ~Ok(n)}
  <2>1. flat = h[L]
    BY <1>2 DEF FlattenSeq, IsFlat
  <2>2. IsFlat(h, seqs, L)
    <3>1. L \in 0..Len(seqs)
      BY <1>0
    <3>2. \E g : IsFlat(g, seqs, L)
      BY <3>1, FlatExists
    <3> QED
      BY <3>2
  <2> HIDE DEF h
  <2>3. \A n \in 1..L : h[n] = IF n = 1 THEN seqs[n] ELSE h[n - 1] \o seqs[n]
    BY <2>2 DEF IsFlat
  <2> HIDE DEF Ok
  <2>4. T = {}
    <3> SUFFICES ASSUME T # {} PROVE FALSE
      OBVIOUS
    <3>1. PICK n \in T : \A j \in T : n <= j
      <4>1. T \subseteq Nat
        BY <1>0
      <4> QED
        BY <4>1, LeastNat
    <3>2. n \in 1..L /\ ~Ok(n) /\ n \in Nat
      BY <1>0, <3>1
    <3>3. ASSUME n = 1 PROVE Ok(n)
      <4>1. h[n] = seqs[n]
        BY <2>3, <3>2, <3>3
      <4>2. Has(n)
        <5>1. 1..n = {n}
          BY <3>3
        <5> QED
          BY <4>1, <5>1
      <4> QED
        BY <1>0, <3>2, <4>1, <4>2 DEF Ok
    <3>4. ASSUME n # 1 PROVE Ok(n)
      <4>1. n - 1 \in 1..L /\ n - 1 < n
        BY <1>0, <3>2, <3>4
      <4>2. Ok(n - 1)
        BY <3>1, <3>2, <4>1
      <4> DEFINE s == h[n - 1]
                 t == seqs[n]
      <4>3. s \in Seq(S) /\ t \in Seq(S) /\ Has(n - 1) /\ Distinct(s, R) /\ Distinct(t, R)
        BY <1>0, <3>2, <4>2 DEF Ok
      <4>4. h[n] = s \o t
        BY <2>3, <3>2, <3>4
      <4>5. ASSUME NEW x \in ToSet(s), NEW y \in ToSet(t)
            PROVE  <<x, y>> \in R /\ <<y, x>> \in R
        <5>1. PICK i \in 1..n - 1 : x \in ToSet(seqs[i])
          BY <4>3
        <5>2. i \in 1..Len(seqs) /\ n \in 1..Len(seqs) /\ i # n
          BY <1>0, <3>2, <5>1
        <5> QED
          BY <5>1, <5>2
      <4> HIDE DEF s, t
      <4>6. h[n] \in Seq(S) /\ ToSet(h[n]) = ToSet(s) \cup ToSet(t) /\ Distinct(h[n], R)
        BY <4>3, <4>4, <4>5, ConcatDistinct
      <4>7. Has(n)
        <5>1. 1..n = (1..n - 1) \cup {n}
          BY <3>2
        <5>2. \A x : x \in ToSet(s) <=> \E i \in 1..n - 1 : x \in ToSet(seqs[i])
          BY <4>3 DEF s
        <5>3. \A x : x \in ToSet(t) <=> x \in ToSet(seqs[n])
          BY DEF t
        <5> QED
          BY <4>6, <5>1, <5>2, <5>3
      <4> QED
        BY <4>6, <4>7 DEF Ok
    <3> QED
      BY <3>2, <3>3, <3>4
  <2>5. Ok(L)
    <3>1. L \in 1..L
      BY <1>0, <1>2
    <3>2. \A n \in 1..L : Ok(n)
      BY <2>4
    <3> HIDE DEF L
    <3> QED
      BY <3>1, <3>2
  <2> HIDE DEF flat
  <2> QED
    BY <2>1, <2>5 DEF Ok
<1> HIDE DEF flat
<1> QED
  BY <1>0, <1>1, <1>2 DEF flat
-----------------------------------------------------------------------------
\* A product grows with its factor.
LEMMA ProductGrows ==
  ASSUME NEW g \in Nat, NEW a \in Int, NEW b \in Int, a <= b
  PROVE  a * g <= b * g /\ a * g \in Int /\ b * g \in Int
<1>1. b - a \in Nat /\ (b - a) * g >= 0
  OBVIOUS
<1>2. (b - a) * g = b * g - a * g
  OBVIOUS
<1> QED
  BY <1>1, <1>2

\* The number of groups that l chunks make: the last is not empty, and is full
\* if and only if there is no remainder.
LEMMA GroupCount ==
  ASSUME NEW l \in Nat \ {0}, NEW g \in Nat \ {0}
  PROVE  LET n == (l + g - 1) \div g
         IN /\ n \in Nat \ {0}
            /\ (n - 1) * g < l /\ l <= n * g
            /\ l % g = 0 <=> l = n * g
<1> DEFINE m == l + g - 1
           n == (l + g - 1) \div g
<1>1. m \in Nat /\ n = m \div g
  OBVIOUS
<1> HIDE DEF m, n
<1>2. n \in Int /\ m % g \in 0..g - 1 /\ m = g * n + (m % g)
  BY <1>1
<1>3. g * n = n * g /\ n * g \in Int /\ (n - 1) * g = n * g - g
  BY <1>2
<1>4. (n - 1) * g < l /\ l <= n * g
  BY <1>2, <1>3 DEF m
<1>5. n > 0
  <2> SUFFICES ASSUME n <= 0 PROVE FALSE
    BY <1>2
  <2>1. n * g <= 0 * g
    BY <1>2, ProductGrows
  <2>2. 0 * g = 0
    OBVIOUS
  <2> QED
    BY <1>3, <1>4, <2>1, <2>2
<1>6. ASSUME l = n * g PROVE l % g = 0
  <2>1. l = g * n
    BY <1>3, <1>6
  <2>2. (g * n) % g = 0
    BY <1>2
  <2> QED
    BY <2>1, <2>2
<1>7. ASSUME l % g = 0 PROVE l = n * g
  <2> DEFINE q == l \div g
  <2>1. q \in Int /\ l = g * q + (l % g)
    OBVIOUS
  <2> HIDE DEF q
  <2>2. l = q * g
    BY <1>7, <2>1
  <2>3. q <= n
    <3> SUFFICES ASSUME n + 1 <= q PROVE FALSE
      BY <1>2, <2>1
    <3>1. (n + 1) * g <= q * g /\ (n + 1) * g = n * g + g
      BY <1>2, <2>1, ProductGrows
    <3> QED
      BY <1>3, <1>4, <2>2, <3>1
  <2>4. n <= q
    <3> SUFFICES ASSUME q <= n - 1 PROVE FALSE
      BY <1>2, <2>1
    <3>1. q * g <= (n - 1) * g
      BY <1>2, <2>1, ProductGrows
    <3> QED
      BY <1>3, <1>4, <2>2, <3>1
  <2> QED
    BY <1>2, <2>1, <2>2, <2>3, <2>4
<1> QED
  BY <1>2, <1>4, <1>5, <1>6, <1>7 DEF n

\* The least of two numbers.
LEMMA MinOfTwo ==
  ASSUME NEW a \in Int, NEW b \in Int
  PROVE  Min({a, b}) = IF a <= b THEN a ELSE b
<1> DEFINE m == IF a <= b THEN a ELSE b
<1>1. m \in {a, b} /\ \A y \in {a, b} : m <= y
  OBVIOUS
<1>2. \A x \in {a, b} : (\A y \in {a, b} : x <= y) => x = m
  OBVIOUS
<1> QED
  BY <1>1, <1>2 DEF Min

\* Where the k-th group of l chunks begins and ends.
First(k) == (k - 1) * GroupSize
End(l, k) == IF k * GroupSize <= l THEN k * GroupSize ELSE l

\* The groups of l chunks: they follow each other, and only the last may be short.
LEMMA GroupsAre ==
  ASSUME NEW l \in Nat \ {0}, NEW n \in Nat \ {0},
         (n - 1) * GroupSize < l, l <= n * GroupSize
  PROVE  /\ \A k \in 1..n : /\ First(k) \in Nat /\ End(l, k) \in Nat
                            /\ First(k) < End(l, k) /\ End(l, k) <= l
                            /\ End(l, k) - First(k) <= GroupSize
                            /\ k * GroupSize \in Int
                            /\ k < n => End(l, k) - First(k) = GroupSize
                            /\ k = n => End(l, k) = l
         /\ \A j, k \in 1..n : j < k => End(l, j) <= First(k)
         /\ \A p \in 1..l : \E k \in 1..n : First(k) < p /\ p <= End(l, k)
<1>0. GroupSize \in Nat \ {0}
  BY GroupingAssumption
<1>1. ASSUME NEW k \in 1..n
      PROVE  /\ First(k) \in Nat /\ First(k) < l /\ k * GroupSize \in Int
             /\ k * GroupSize = First(k) + GroupSize
             /\ k < n => k * GroupSize < l
             /\ First(k) <= (n - 1) * GroupSize
  <2>1. k \in Int /\ n \in Int /\ k - 1 <= n - 1 /\ 0 <= k - 1
    BY <1>1
  <2>2. (k - 1) * GroupSize <= (n - 1) * GroupSize /\ 0 * GroupSize <= (k - 1) * GroupSize
        /\ (k - 1) * GroupSize \in Int /\ (n - 1) * GroupSize \in Int
    BY <1>0, <2>1, ProductGrows
  <2>3. k < n => k * GroupSize <= (n - 1) * GroupSize
    BY <1>0, <2>1, ProductGrows
  <2>4. k * GroupSize = (k - 1) * GroupSize + GroupSize
    BY <1>0, <2>1
  <2>5. 0 * GroupSize = 0
    BY <1>0
  <2> QED
    BY <1>0, <2>2, <2>3, <2>4, <2>5 DEF First
<1>2. ASSUME NEW k \in 1..n
      PROVE  /\ End(l, k) \in Nat
             /\ First(k) < End(l, k) /\ End(l, k) <= l
             /\ End(l, k) - First(k) <= GroupSize
             /\ k < n => End(l, k) - First(k) = GroupSize
             /\ k = n => End(l, k) = l
             /\ End(l, k) <= k * GroupSize
  <2> DEFINE f == First(k)
             e == k * GroupSize
  <2>1. /\ f \in Nat /\ f < l /\ e \in Int /\ e = f + GroupSize /\ (k < n => e < l)
        /\ (k = n => l <= e)
    BY <1>1
  <2>2. End(l, k) = IF e <= l THEN e ELSE l
    BY DEF End
  <2> HIDE DEF f, e
  <2>3. /\ End(l, k) \in Nat
        /\ f < End(l, k) /\ End(l, k) <= l
        /\ End(l, k) - f <= GroupSize
        /\ k < n => End(l, k) - f = GroupSize
        /\ k = n => End(l, k) = l
        /\ End(l, k) <= e
    BY <1>0, <2>1, <2>2
  <2> QED
    BY <2>3 DEF f, e
<1>3. ASSUME NEW j \in 1..n, NEW k \in 1..n, j < k PROVE End(l, j) <= First(k)
  <2>1. j <= k - 1 /\ j \in Int /\ k - 1 \in Int
    BY <1>3
  <2>2. j * GroupSize <= (k - 1) * GroupSize /\ j * GroupSize \in Int
    BY <1>0, <2>1, ProductGrows
  <2>3. End(l, j) <= j * GroupSize /\ End(l, j) \in Nat /\ First(k) \in Nat
    BY <1>1, <1>2
  <2> QED
    BY <2>2, <2>3 DEF First
<1>4. ASSUME NEW p \in 1..l PROVE \E k \in 1..n : First(k) < p /\ p <= End(l, k)
  <2> DEFINE q == (p - 1) \div GroupSize
             r == (p - 1) % GroupSize
  <2>1. p - 1 \in Nat
    BY <1>4
  <2>2. q \in Int /\ r \in 0..GroupSize - 1 /\ p - 1 = GroupSize * q + r
    BY <1>0, <2>1
  <2> HIDE DEF q, r
  <2>3. q * GroupSize \in Int /\ GroupSize * q = q * GroupSize
        /\ (q + 1) * GroupSize = q * GroupSize + GroupSize
    BY <1>0, <2>2
  <2>4. q >= 0
    <3> SUFFICES ASSUME q <= -1 PROVE FALSE
      BY <2>2
    <3>1. q * GroupSize <= (-1) * GroupSize
      BY <1>0, <2>2, ProductGrows
    <3>2. (-1) * GroupSize = -GroupSize
      BY <1>0
    <3> QED
      BY <1>0, <2>1, <2>2, <2>3, <3>1, <3>2
  <2>5. q + 1 <= n
    <3> SUFFICES ASSUME n <= q PROVE FALSE
      BY <2>2
    <3>1. n * GroupSize <= q * GroupSize
      BY <1>0, <2>2, ProductGrows
    <3> QED
      BY <1>0, <2>2, <2>3, <3>1
  <2>6. q + 1 \in 1..n
    BY <2>2, <2>4, <2>5
  <2>7. First(q + 1) = q * GroupSize
    <3>1. (q + 1) - 1 = q
      BY <2>2
    <3> QED
      BY <3>1 DEF First
  <2>8. p <= End(l, q + 1)
    BY <1>0, <2>2, <2>3 DEF End
  <2> QED
    BY <2>2, <2>3, <2>6, <2>7, <2>8
<1> QED
  BY <1>1, <1>2, <1>3, <1>4

\* Numbers that ascend, pairs of numbers that differ, and pairs of sequences
\* without a common member.
Ascends(s) == \A i, j \in 1..Len(s) : i < j => s[i] < s[j]
Different == {p \in Nat \X Nat : p[1] # p[2]}
Apart == {p \in Seq(Nat) \X Seq(Nat) : ToSet(p[1]) \cap ToSet(p[2]) = {}}

\* What groupByBase cuts the delta chunks of a base into: each is in one group.
LEMMA ChunkGroupsAre ==
  ASSUME NEW d \in Seq(Nat), d # <<>>, Ascends(d),
         NEW n \in Nat \ {0}, (n - 1) * GroupSize < Len(d), Len(d) <= n * GroupSize
  PROVE  /\ \A k \in 1..n :
              /\ ChunkGroup(d, k) \in Seq(Nat) /\ Ascends(ChunkGroup(d, k))
              /\ Len(ChunkGroup(d, k)) \in 1..GroupSize
              /\ ToSet(ChunkGroup(d, k)) \subseteq ToSet(d)
              /\ k < n => Len(ChunkGroup(d, k)) = GroupSize
              /\ k = n /\ Len(d) # n * GroupSize => Len(ChunkGroup(d, k)) < GroupSize
              /\ Len(d) = n * GroupSize => Len(ChunkGroup(d, k)) = GroupSize
         /\ \A j, k \in 1..n : j # k =>
              ToSet(ChunkGroup(d, j)) \cap ToSet(ChunkGroup(d, k)) = {}
         /\ \A x \in ToSet(d) : \E k \in 1..n : x \in ToSet(ChunkGroup(d, k))
<1> DEFINE l == Len(d)
           g(k) == ChunkGroup(d, k)
<1>0. GroupSize \in Nat \ {0}
  BY GroupingAssumption
<1>1. l \in Nat \ {0} /\ DOMAIN d = 1..l /\ \A p \in 1..l : d[p] \in Nat
  OBVIOUS
<1>2. /\ \A k \in 1..n : /\ First(k) \in Nat /\ End(l, k) \in Nat
                         /\ First(k) < End(l, k) /\ End(l, k) <= l
                         /\ End(l, k) - First(k) <= GroupSize
                         /\ k * GroupSize \in Int
                         /\ k < n => End(l, k) - First(k) = GroupSize
                         /\ k = n => End(l, k) = l
      /\ \A j, k \in 1..n : j < k => End(l, j) <= First(k)
      /\ \A p \in 1..l : \E k \in 1..n : First(k) < p /\ p <= End(l, k)
  BY <1>1, GroupsAre
<1>3. ASSUME NEW k \in 1..n
      PROVE  /\ g(k) \in Seq(Nat) /\ Len(g(k)) = End(l, k) - First(k)
             /\ \A i \in 1..Len(g(k)) : First(k) + i \in 1..l /\ g(k)[i] = d[First(k) + i]
  <2> DEFINE f == First(k)
             e == End(l, k)
  <2>1. f \in Nat /\ e \in Nat /\ f < e /\ e <= l /\ k * GroupSize \in Int
    BY <1>2
  <2>2. Min({k * GroupSize, l}) = e
    <3>1. l \in Int
      BY <1>1
    <3>2. \A a, b \in Int : Min({a, b}) = IF a <= b THEN a ELSE b
      BY MinOfTwo
    <3> HIDE DEF l
    <3>3. Min({k * GroupSize, l}) = IF k * GroupSize <= l THEN k * GroupSize ELSE l
      BY <2>1, <3>1, <3>2
    <3> QED
      BY <3>3 DEF End
  <2>3. g(k) = SubSeq(d, f + 1, e)
    BY <2>2 DEF ChunkGroup, First
  <2> HIDE DEF f, e, l
  <2>4. \A i \in f + 1..e : d[i] \in Nat
    BY <1>1, <2>1
  <2> DEFINE s == SubSeq(d, f + 1, e)
  <2>5. /\ s \in Seq(Nat)
        /\ Len(s) = IF f + 1 <= e THEN e - (f + 1) + 1 ELSE 0
        /\ \A i \in 1..e - (f + 1) + 1 : s[i] = d[(f + 1) + i - 1]
    BY <1>1, <2>1, <2>4, SubSeqProperties
  <2> HIDE DEF s
  <2>6. Len(s) = e - f /\ \A i \in 1..e - f : f + i \in 1..l /\ s[i] = d[f + i]
    <3>1. f + 1 <= e /\ e - (f + 1) + 1 = e - f
      BY <2>1
    <3>2. \A i \in 1..e - f : f + i \in 1..l /\ (f + 1) + i - 1 = f + i
      BY <1>1, <2>1
    <3> QED
      BY <2>5, <3>1, <3>2
  <2>7. g(k) = s
    BY <2>3 DEF s
  <2> HIDE DEF g
  <2>8. g(k) \in Seq(Nat) /\ Len(g(k)) = e - f
        /\ \A i \in 1..Len(g(k)) : f + i \in 1..l /\ g(k)[i] = d[f + i]
    BY <2>5, <2>6, <2>7
  <2> QED
    BY <2>8 DEF f, e
<1> HIDE DEF g
<1>4. ASSUME NEW k \in 1..n
      PROVE  ToSet(g(k)) = {d[p] : p \in First(k) + 1..End(l, k)}
  <2> DEFINE f == First(k)
             e == End(l, k)
  <2>1. /\ f \in Nat /\ e \in Nat /\ DOMAIN g(k) = 1..e - f
        /\ \A i \in 1..e - f : g(k)[i] = d[f + i]
    <3>1. f \in Nat /\ e \in Nat
      BY <1>2
    <3>2. g(k) \in Seq(Nat) /\ Len(g(k)) = e - f
          /\ \A i \in 1..Len(g(k)) : g(k)[i] = d[f + i]
      BY <1>3
    <3> HIDE DEF f, e
    <3>3. DOMAIN g(k) = 1..Len(g(k))
      BY <3>2
    <3> QED
      BY <3>1, <3>2, <3>3
  <2> HIDE DEF f, e
  <2>2. \A i \in 1..e - f : f + i \in f + 1..e
    BY <2>1
  <2>3. \A p \in f + 1..e : p - f \in 1..e - f /\ f + (p - f) = p
    BY <2>1
  <2>4. ToSet(g(k)) = {g(k)[i] : i \in 1..e - f}
    BY <2>1 DEF ToSet
  <2>5. ToSet(g(k)) \subseteq {d[p] : p \in f + 1..e}
    BY <2>1, <2>2, <2>4
  <2>6. \A p \in f + 1..e : d[p] = g(k)[p - f]
    BY <2>1, <2>3
  <2>7. {d[p] : p \in f + 1..e} \subseteq ToSet(g(k))
    BY <2>3, <2>4, <2>6
  <2>8. ToSet(g(k)) = {d[p] : p \in f + 1..e}
    BY <2>5, <2>7
  <2> QED
    BY <2>8 DEF f, e
<1>5. ToSet(d) = {d[p] : p \in 1..l}
  BY <1>1 DEF ToSet
<1> HIDE DEF l
<1>6. ASSUME NEW k \in 1..n
      PROVE  /\ g(k) \in Seq(Nat) /\ Ascends(g(k)) /\ Len(g(k)) \in 1..GroupSize
             /\ ToSet(g(k)) \subseteq ToSet(d)
             /\ k < n => Len(g(k)) = GroupSize
             /\ k = n /\ l # n * GroupSize => Len(g(k)) < GroupSize
             /\ l = n * GroupSize => Len(g(k)) = GroupSize
  <2> DEFINE f == First(k)
             e == End(l, k)
  <2>1. /\ f \in Nat /\ e \in Nat /\ f < e /\ e <= l /\ e - f <= GroupSize
        /\ (k < n => e - f = GroupSize) /\ (k = n => e = l)
        /\ g(k) \in Seq(Nat) /\ Len(g(k)) = e - f
        /\ \A i \in 1..Len(g(k)) : f + i \in 1..l /\ g(k)[i] = d[f + i]
    BY <1>2, <1>3
  <2>2. k = n => f = (n - 1) * GroupSize
    BY DEF First
  <2>3. n * GroupSize = (n - 1) * GroupSize + GroupSize /\ (n - 1) * GroupSize \in Int
        /\ n * GroupSize \in Int
    BY <1>0
  <2>4. l <= n * GroupSize
    BY DEF l
  <2>5. Ascends(d)
    OBVIOUS
  <2> HIDE DEF f, e
  <2>6. Ascends(g(k))
    <3> SUFFICES ASSUME NEW i \in 1..Len(g(k)), NEW j \in 1..Len(g(k)), i < j
                 PROVE  g(k)[i] < g(k)[j]
      BY DEF Ascends
    <3>1. f + i < f + j
      <4>1. i \in Int /\ j \in Int /\ f \in Int
        BY <2>1
      <4> QED
        BY <4>1
    <3>3. f + i \in 1..Len(d) /\ f + j \in 1..Len(d)
      BY <2>1 DEF l
    <3>2. d[f + i] < d[f + j]
      BY <2>5, <3>1, <3>3 DEF Ascends
    <3> QED
      BY <2>1, <3>2
  <2>7. Len(g(k)) \in 1..GroupSize
    BY <1>0, <2>1
  <2>8. ToSet(g(k)) \subseteq ToSet(d)
    <3>1. \A p \in f + 1..e : p \in 1..l
      BY <1>1, <2>1
    <3>2. ToSet(g(k)) = {d[p] : p \in f + 1..e}
      BY <1>4 DEF f, e
    <3> QED
      BY <1>5, <3>1, <3>2
  <2>9. k = n /\ l # n * GroupSize => Len(g(k)) < GroupSize
    BY <1>0, <1>1, <2>1, <2>2, <2>3, <2>4
  <2>10. l = n * GroupSize => Len(g(k)) = GroupSize
    <3>1. k < n \/ k = n
      OBVIOUS
    <3> QED
      BY <1>0, <1>1, <2>1, <2>2, <2>3, <3>1
  <2> QED
    BY <2>1, <2>6, <2>7, <2>8, <2>9, <2>10
<1>7. ASSUME NEW j \in 1..n, NEW k \in 1..n, j < k
      PROVE  ToSet(g(j)) \cap ToSet(g(k)) = {}
  <2>1. ASSUME NEW p \in First(j) + 1..End(l, j), NEW q \in First(k) + 1..End(l, k)
        PROVE  d[p] # d[q]
    <3>1. /\ First(j) \in Nat /\ End(l, j) \in Nat /\ First(k) \in Nat /\ End(l, k) \in Nat
          /\ End(l, j) <= l /\ End(l, k) <= l
      BY <1>2
    <3>2. End(l, j) <= First(k)
      BY <1>2, <1>7
    <3>3. p \in 1..l /\ q \in 1..l /\ p < q
      <4> DEFINE f == First(j)
                 e == End(l, j)
                 f_ == First(k)
                 e_ == End(l, k)
      <4>1. /\ f \in Nat /\ e \in Nat /\ f_ \in Nat /\ e_ \in Nat
            /\ e <= l /\ e_ <= l /\ e <= f_ /\ p \in f + 1..e /\ q \in f_ + 1..e_
        BY <3>1, <3>2
      <4>2. l \in Nat
        BY <1>1
      <4> HIDE DEF f, e, f_, e_
      <4> QED
        BY <4>1, <4>2
    <3>4. d[p] < d[q] /\ d[p] \in Nat /\ d[q] \in Nat
      BY <1>1, <3>3 DEF Ascends, l
    <3> QED
      BY <3>4
  <2>2. /\ ToSet(g(j)) = {d[p] : p \in First(j) + 1..End(l, j)}
        /\ ToSet(g(k)) = {d[p] : p \in First(k) + 1..End(l, k)}
    BY <1>4
  <2>3. ASSUME NEW x \in ToSet(g(j)), NEW y \in ToSet(g(k)) PROVE x # y
    <3>1. PICK p \in First(j) + 1..End(l, j) : x = d[p]
      BY <2>2
    <3>2. PICK q \in First(k) + 1..End(l, k) : y = d[q]
      BY <2>2
    <3> QED
      BY <2>1, <3>1, <3>2
  <2> QED
    BY <2>3
<1>8. ASSUME NEW x \in ToSet(d) PROVE \E k \in 1..n : x \in ToSet(g(k))
  <2>1. PICK p \in 1..l : x = d[p]
    BY <1>5
  <2>2. PICK k \in 1..n : First(k) < p /\ p <= End(l, k)
    BY <1>2
  <2>3. p \in First(k) + 1..End(l, k)
    <3>1. First(k) \in Nat /\ End(l, k) \in Nat
      BY <1>2
    <3>2. p \in Nat
      <4>1. l \in Nat
        BY <1>1
      <4> QED
        BY <4>1
    <3> QED
      BY <2>2, <3>1, <3>2
  <2> QED
    BY <1>4, <2>1, <2>3
<1>9. \A j, k \in 1..n : j # k => ToSet(g(j)) \cap ToSet(g(k)) = {}
  <2> SUFFICES ASSUME NEW j \in 1..n, NEW k \in 1..n, j # k
               PROVE  ToSet(g(j)) \cap ToSet(g(k)) = {}
    OBVIOUS
  <2>1. j < k \/ k < j
    OBVIOUS
  <2>2. ToSet(g(j)) \cap ToSet(g(k)) = ToSet(g(k)) \cap ToSet(g(j))
    OBVIOUS
  <2> QED
    BY <1>7, <2>1, <2>2
<1> QED
  BY <1>6, <1>8, <1>9 DEF g, l
-----------------------------------------------------------------------------
\* A frame that the chunks d of base b may be compressed in.
FrameFor(b, d, f) ==
  /\ f \in Seq(Nat) /\ Len(f) \in 1..GroupSize /\ Ascends(f)
  /\ ToSet(f) \subseteq {b} \cup ToSet(d)
  /\ \A i \in 2..Len(f) : f[i] \in ToSet(d)

\* The base alone makes a frame.
LEMMA LoneFrame ==
  ASSUME NEW b \in Nat, NEW d
  PROVE  /\ FrameFor(b, d, <<b>>) /\ ToSet(<<b>>) = {b}
         /\ ToSet(<<<<b>>>>) = {<<b>>} /\ <<<<b>>>> \in Seq(Seq(Nat))
         /\ Distinct(<<<<b>>>>, Apart)
<1>0. GroupSize \in Nat \ {0}
  BY GroupingAssumption
<1>1. <<b>> \in Seq(Nat) /\ Len(<<b>>) = 1 /\ DOMAIN <<b>> = 1..1 /\ <<b>>[1] = b
  OBVIOUS
<1>2. 1..1 = {1} /\ 2..1 = {} /\ 1 \in 1..GroupSize
  BY <1>0
<1>3. ToSet(<<b>>) = {b}
  BY <1>1, <1>2 DEF ToSet
<1>4. Ascends(<<b>>)
  BY <1>1 DEF Ascends
<1>5. FrameFor(b, d, <<b>>)
  BY <1>1, <1>2, <1>3, <1>4 DEF FrameFor
<1> DEFINE f == <<b>>
<1>6. f \in Seq(Nat)
  OBVIOUS
<1> HIDE DEF f
<1>7. <<f>> \in Seq(Seq(Nat)) /\ Len(<<f>>) = 1 /\ DOMAIN <<f>> = 1..1 /\ <<f>>[1] = f
  BY <1>6
<1>8. ToSet(<<f>>) = {f}
  BY <1>2, <1>7 DEF ToSet
<1>9. Distinct(<<f>>, Apart)
  BY <1>7 DEF Distinct
<1> QED
  BY <1>3, <1>5, <1>7, <1>8, <1>9 DEF f

\* The base goes in front of a group that is not full.
LEMMA BaseInFront ==
  ASSUME NEW b \in Nat, NEW d \in Seq(Nat), \A x \in ToSet(d) : b < x,
         NEW g \in Seq(Nat), Ascends(g), Len(g) < GroupSize, ToSet(g) \subseteq ToSet(d)
  PROVE  FrameFor(b, d, <<b>> \o g) /\ ToSet(<<b>> \o g) = {b} \cup ToSet(g)
<1>0. GroupSize \in Nat \ {0}
  BY GroupingAssumption
<1> DEFINE f == <<b>> \o g
           l == Len(g)
<1>1. /\ f \in Seq(Nat) /\ Len(f) = l + 1 /\ l \in Nat /\ f[1] = b
      /\ \A i \in 2..l + 1 : f[i] = g[i - 1]
  <2>1. <<b>> \in Seq(Nat) /\ Len(<<b>>) = 1 /\ <<b>>[1] = b
    OBVIOUS
  <2>2. /\ f \in Seq(Nat) /\ Len(f) = 1 + l
        /\ \A i \in 1..1 + l : f[i] = IF i <= 1 THEN <<b>>[i] ELSE g[i - 1]
    BY <2>1, ConcatProperties
  <2> HIDE DEF f
  <2>3. l \in Nat
    OBVIOUS
  <2> QED
    BY <2>1, <2>2, <2>3
<1>2. DOMAIN f = 1..l + 1 /\ DOMAIN g = 1..l
  BY <1>1
<1>3. \A i \in 1..l : g[i] \in ToSet(g)
  BY <1>2 DEF ToSet
<1> HIDE DEF f
<1>4. \A i \in 2..l + 1 : i - 1 \in 1..l /\ f[i] \in ToSet(g)
  <2>1. \A i \in 2..l + 1 : i - 1 \in 1..l
    BY <1>1
  <2> QED
    BY <1>1, <1>3, <2>1
<1>5. ToSet(f) = {b} \cup ToSet(g)
  <2>1. ToSet(f) = {f[i] : i \in 1..l + 1} /\ ToSet(g) = {g[i] : i \in 1..l}
    BY <1>2 DEF ToSet
  <2>2. \A i \in 1..l + 1 : i = 1 \/ i \in 2..l + 1
    BY <1>1
  <2>3. \A i \in 1..l : i + 1 \in 2..l + 1 /\ i + 1 \in 1..l + 1 /\ (i + 1) - 1 = i
    BY <1>1
  <2>4. \A i \in 1..l : f[i + 1] = g[i]
    BY <1>1, <2>3
  <2>5. 1 \in 1..l + 1
    BY <1>1
  <2>6. ToSet(f) \subseteq {b} \cup ToSet(g)
    <3>1. ASSUME NEW i \in 1..l + 1 PROVE f[i] \in {b} \cup ToSet(g)
      <4>1. i = 1 \/ i \in 2..l + 1
        BY <2>2
      <4> QED
        BY <1>1, <1>4, <4>1
    <3> QED
      BY <2>1, <3>1
  <2>7. b \in ToSet(f)
    BY <1>1, <2>1, <2>5
  <2>8. ToSet(g) \subseteq ToSet(f)
    BY <2>1, <2>3, <2>4
  <2> QED
    BY <2>6, <2>7, <2>8
<1>6. Ascends(f)
  <2> SUFFICES ASSUME NEW i \in 1..Len(f), NEW j \in 1..Len(f), i < j
               PROVE  f[i] < f[j]
    BY DEF Ascends
  <2>1. j \in 2..l + 1
    BY <1>1
  <2>2. CASE i = 1
    BY <1>1, <1>4, <2>1, <2>2
  <2>3. CASE i # 1
    <3>1. i \in 2..l + 1 /\ i - 1 \in 1..l /\ j - 1 \in 1..l /\ i - 1 < j - 1
      BY <1>1, <2>1, <2>3
    <3>2. g[i - 1] < g[j - 1]
      BY <3>1 DEF Ascends
    <3> QED
      BY <1>1, <2>1, <3>1, <3>2
  <2> QED
    BY <2>2, <2>3
<1>7. Len(f) \in 1..GroupSize
  BY <1>0, <1>1
<1> QED
  BY <1>1, <1>4, <1>5, <1>6, <1>7 DEF FrameFor, f

\* What a base and its chunks d are compressed in: each of them is in one frame.
FramesFor(b, d, fs) ==
  /\ fs \in Seq(Seq(Nat)) /\ Distinct(fs, Apart)
  /\ \A f \in ToSet(fs) : FrameFor(b, d, f)
  /\ \A x : x \in {b} \cup ToSet(d) <=> \E f \in ToSet(fs) : x \in ToSet(f)

LEMMA FramesAre ==
  ASSUME NEW b \in Nat, NEW d \in Seq(Nat), Ascends(d), \A x \in ToSet(d) : b < x
  PROVE  FramesFor(b, d, Frames(b, d))
<1> DEFINE lone == <<b>>
           ones == <<<<b>>>>
           l == Len(d)
           n == (Len(d) + GroupSize - 1) \div GroupSize
           g(k) == ChunkGroup(d, k)
           A == [k \in 1..n |-> LET chunk_group == ChunkGroup(d, k) IN
                   IF Len(chunk_group) < GroupSize THEN <<b>> \o chunk_group
                                                   ELSE chunk_group]
<1>0. GroupSize \in Nat \ {0} /\ l \in Nat
  BY GroupingAssumption
<1>1. /\ FrameFor(b, d, lone) /\ ToSet(lone) = {b} /\ ToSet(ones) = {lone}
      /\ ones \in Seq(Seq(Nat)) /\ Distinct(ones, Apart)
  BY LoneFrame
<1>2. CASE d = <<>>
  <2>1. Frames(b, d) = ones
    BY <1>2 DEF Frames
  <2>2. ToSet(d) = {}
    BY <1>2 DEF ToSet
  <2> HIDE DEF lone, ones
  <2> QED
    BY <1>1, <2>1, <2>2 DEF FramesFor
<1>3. CASE d # <<>>
  <2>0. l \in Nat \ {0}
    BY <1>0, <1>3
  <2>1. /\ n \in Nat \ {0} /\ (n - 1) * GroupSize < l /\ l <= n * GroupSize
        /\ l % GroupSize = 0 <=> l = n * GroupSize
    BY <1>0, <2>0, GroupCount
  <2>2. Frames(b, d) = A \o (IF l % GroupSize = 0 THEN ones ELSE <<>>)
    BY <1>3 DEF Frames
  <2> HIDE DEF n
  <2>3. /\ \A k \in 1..n :
             /\ g(k) \in Seq(Nat) /\ Ascends(g(k)) /\ Len(g(k)) \in 1..GroupSize
             /\ ToSet(g(k)) \subseteq ToSet(d)
             /\ k < n => Len(g(k)) = GroupSize
             /\ k = n /\ l # n * GroupSize => Len(g(k)) < GroupSize
             /\ l = n * GroupSize => Len(g(k)) = GroupSize
        /\ \A j, k \in 1..n : j # k => ToSet(g(j)) \cap ToSet(g(k)) = {}
        /\ \A x \in ToSet(d) : \E k \in 1..n : x \in ToSet(g(k))
    BY <1>3, <2>1, ChunkGroupsAre
  <2>4. /\ DOMAIN A = 1..n
        /\ \A k \in 1..n : A[k] = IF Len(g(k)) < GroupSize THEN <<b>> \o g(k) ELSE g(k)
    OBVIOUS
  <2> HIDE DEF g, A, l
  <2>5. n \in 1..n /\ n \in Nat /\ \A k \in 1..n : k < n \/ k = n
    BY <2>1
  <2>6. b \notin ToSet(d)
    OBVIOUS
  \* A group that is full, or that is not.
  <2>7. ASSUME NEW k \in 1..n, Len(g(k)) = GroupSize
        PROVE  A[k] = g(k) /\ FrameFor(b, d, A[k]) /\ ToSet(A[k]) = ToSet(g(k))
    <3>1. A[k] = g(k)
      BY <1>0, <2>4, <2>7
    <3>2. \A i \in 2..Len(g(k)) : g(k)[i] \in ToSet(d)
      <4>1. g(k) \in Seq(Nat) /\ ToSet(g(k)) \subseteq ToSet(d)
        BY <2>3
      <4>2. \A i \in 2..Len(g(k)) : i \in DOMAIN g(k)
        BY <4>1
      <4> QED
        BY <4>1, <4>2 DEF ToSet
    <3>3. FrameFor(b, d, g(k))
      BY <2>3, <3>2 DEF FrameFor
    <3> QED
      BY <3>1, <3>3
  <2>8. ASSUME NEW k \in 1..n, Len(g(k)) < GroupSize
        PROVE  /\ FrameFor(b, d, A[k]) /\ ToSet(A[k]) = {b} \cup ToSet(g(k))
               /\ k = n /\ l # n * GroupSize
    <3>1. A[k] = <<b>> \o g(k)
      BY <2>4, <2>8
    <3>2. g(k) \in Seq(Nat) /\ Ascends(g(k)) /\ ToSet(g(k)) \subseteq ToSet(d)
      BY <2>3
    <3>3. FrameFor(b, d, <<b>> \o g(k)) /\ ToSet(<<b>> \o g(k)) = {b} \cup ToSet(g(k))
      BY <2>8, <3>2, BaseInFront
    <3>4. Len(g(k)) # GroupSize
      BY <1>0, <2>8
    <3> QED
      BY <2>3, <2>5, <3>1, <3>3, <3>4
  <2>9. ASSUME NEW k \in 1..n PROVE Len(g(k)) = GroupSize \/ Len(g(k)) < GroupSize
    <3>1. Len(g(k)) \in 1..GroupSize
      BY <2>3
    <3> QED
      BY <1>0, <3>1
  <2>10. \A k \in 1..n : /\ FrameFor(b, d, A[k]) /\ A[k] \in Seq(Nat)
                         /\ ToSet(A[k]) \subseteq {b} \cup ToSet(g(k))
                         /\ ToSet(g(k)) \subseteq ToSet(A[k])
                         /\ k # n \/ l = n * GroupSize => b \notin ToSet(A[k])
    <3> SUFFICES ASSUME NEW k \in 1..n
                 PROVE  /\ FrameFor(b, d, A[k]) /\ A[k] \in Seq(Nat)
                        /\ ToSet(A[k]) \subseteq {b} \cup ToSet(g(k))
                        /\ ToSet(g(k)) \subseteq ToSet(A[k])
                        /\ k # n \/ l = n * GroupSize => b \notin ToSet(A[k])
      OBVIOUS
    <3>1. CASE Len(g(k)) = GroupSize
      <4>1. ToSet(g(k)) \subseteq ToSet(d)
        BY <2>3
      <4> QED
        BY <2>6, <2>7, <3>1, <4>1 DEF FrameFor
    <3>2. CASE Len(g(k)) < GroupSize
      BY <2>8, <3>2 DEF FrameFor
    <3> QED
      BY <2>9, <3>1, <3>2
  <2>11. A \in Seq(Seq(Nat)) /\ Len(A) = n
    <3>1. A = [k \in 1..n |-> A[k]]
      BY DEF A
    <3> DEFINE S == Seq(Nat)
    <3>2. \A k \in 1..n : A[k] \in S
      BY <2>10
    <3> HIDE DEF S
    <3>3. A \in Seq(S) /\ Len(A) = n
      BY <2>5, <3>1, <3>2
    <3> QED
      BY <3>3 DEF S
  <2>12. Distinct(A, Apart)
    <3> SUFFICES ASSUME NEW i \in 1..n, NEW j \in 1..n, i # j
                 PROVE  <<A[i], A[j]>> \in Apart
      BY <2>11 DEF Distinct
    <3>1. ToSet(g(i)) \cap ToSet(g(j)) = {}
      BY <2>3
    <3>2. i # n \/ j # n
      OBVIOUS
    <3>3. /\ ToSet(g(i)) \subseteq ToSet(d) /\ ToSet(g(j)) \subseteq ToSet(d)
      BY <2>3
    <3>4. ToSet(A[i]) \cap ToSet(A[j]) = {}
      BY <2>6, <2>10, <3>1, <3>2, <3>3
    <3> DEFINE p == <<A[i], A[j]>>
    <3>5. p \in Seq(Nat) \X Seq(Nat) /\ p[1] = A[i] /\ p[2] = A[j]
      BY <2>10
    <3> HIDE DEF p
    <3>6. p \in Apart
      BY <3>4, <3>5 DEF Apart
    <3> QED
      BY <3>6 DEF p
  <2>13. ToSet(A) = {A[k] : k \in 1..n}
    BY <2>4 DEF ToSet
  <2>14. \A x \in ToSet(d) : \E f \in ToSet(A) : x \in ToSet(f)
    BY <2>3, <2>10, <2>13
  <2>15. \A f \in ToSet(A) : FrameFor(b, d, f)
    BY <2>10, <2>13
  <2>16. \A f : FrameFor(b, d, f) => ToSet(f) \subseteq {b} \cup ToSet(d)
    BY DEF FrameFor
  <2> HIDE DEF lone, ones
  <2>17. CASE l = n * GroupSize
    <3>1. Frames(b, d) = A \o ones
      BY <2>1, <2>2, <2>17
    <3>2. \A x \in ToSet(A), y \in ToSet(ones) : <<x, y>> \in Apart /\ <<y, x>> \in Apart
      <4> SUFFICES ASSUME NEW k \in 1..n
                   PROVE  <<A[k], lone>> \in Apart /\ <<lone, A[k]>> \in Apart
        BY <1>1, <2>13
      <4>1. A[k] \in Seq(Nat) /\ b \notin ToSet(A[k])
        BY <2>10, <2>17
      <4>2. lone \in Seq(Nat)
        BY <1>1 DEF FrameFor
      <4>3. ToSet(A[k]) \cap ToSet(lone) = {} /\ ToSet(lone) \cap ToSet(A[k]) = {}
        BY <1>1, <4>1
      <4> DEFINE u == A[k]
      <4> HIDE DEF u
      <4>4. u \in Seq(Nat) /\ ToSet(u) \cap ToSet(lone) = {} /\ ToSet(lone) \cap ToSet(u) = {}
        BY <4>1, <4>3 DEF u
      <4>5. <<u, lone>> \in Apart /\ <<lone, u>> \in Apart
        BY <4>2, <4>4 DEF Apart
      <4> QED
        BY <4>5 DEF u
    <3>3. /\ Frames(b, d) \in Seq(Seq(Nat)) /\ Distinct(Frames(b, d), Apart)
          /\ ToSet(Frames(b, d)) = ToSet(A) \cup {lone}
      BY <1>1, <2>11, <2>12, <3>1, <3>2, ConcatDistinct
    <3>4. \A x : x \in {b} \cup ToSet(d) <=> \E f \in ToSet(Frames(b, d)) : x \in ToSet(f)
      BY <1>1, <2>14, <2>15, <2>16, <3>3
    <3>5. \A f \in ToSet(Frames(b, d)) : FrameFor(b, d, f)
      BY <1>1, <2>15, <3>3
    <3> QED
      BY <3>3, <3>4, <3>5 DEF FramesFor
  <2>18. CASE l # n * GroupSize
    <3> DEFINE none == <<>>
    <3>1. Frames(b, d) = A \o none
      BY <2>1, <2>2, <2>18
    <3>3. /\ Frames(b, d) \in Seq(Seq(Nat)) /\ Distinct(Frames(b, d), Apart)
          /\ ToSet(Frames(b, d)) = ToSet(A)
      <4> DEFINE S == Seq(Nat)
      <4> HIDE DEF S
      <4>1. A \in Seq(S)
        BY <2>11 DEF S
      <4>2. A \o <<>> = A
        BY <4>1
      <4> QED
        BY <2>11, <2>12, <3>1, <4>2 DEF none
    <3>4. A[n] \in ToSet(A) /\ b \in ToSet(A[n])
      <4>1. Len(g(n)) < GroupSize
        BY <2>3, <2>5, <2>18
      <4> QED
        BY <2>5, <2>8, <2>13, <4>1
    <3>5. \A x : x \in {b} \cup ToSet(d) <=> \E f \in ToSet(Frames(b, d)) : x \in ToSet(f)
      BY <2>14, <2>15, <2>16, <3>3, <3>4
    <3> QED
      BY <2>15, <3>3, <3>5 DEF FramesFor
  <2> QED
    BY <2>17, <2>18
<1> QED
  BY <1>2, <1>3
-----------------------------------------------------------------------------
\* The records of a compressor that looks for no duplicates: a base is its own
\* base, and a delta chunk has a base before it.
Linked(meta) ==
  /\ Len(meta) \in Nat
  /\ \A n \in 0..Len(meta) - 1 :
       /\ meta[n + 1].type \in {BaseChunk, DeltaChunk}
       /\ meta[n + 1].type = BaseChunk => meta[n + 1].base = n
       /\ meta[n + 1].type = DeltaChunk =>
            /\ meta[n + 1].base \in 0..n - 1
            /\ meta[meta[n + 1].base + 1].type = BaseChunk

\* The records of one base.
RecordsOf(meta, b) == {n \in 0..Len(meta) - 1 : meta[n + 1].base = b}

\* The groups are keyed by the numbers of the base records.
LEMMA KeysAre ==
  ASSUME NEW meta, Linked(meta)
  PROVE  /\ GroupKeys(meta) = {n \in 0..Len(meta) - 1 : meta[n + 1].type = BaseChunk}
         /\ IsFiniteSet(GroupKeys(meta)) /\ GroupKeys(meta) \in SUBSET Nat
         /\ \A n \in 0..Len(meta) - 1 : meta[n + 1].base \in GroupKeys(meta)
<1> DEFINE N == Len(meta)
           bases_ == {n \in 0..N - 1 : meta[n + 1].type = BaseChunk}
<1>0. N \in Nat
  BY DEF Linked
<1>1. \A n \in 0..N - 1 : meta[n + 1].base \in bases_
  <2> SUFFICES ASSUME NEW n \in 0..N - 1 PROVE meta[n + 1].base \in bases_
    OBVIOUS
  <2>1. CASE meta[n + 1].type = BaseChunk
    BY <2>1 DEF Linked
  <2>2. CASE meta[n + 1].type = DeltaChunk
    <3> DEFINE b == meta[n + 1].base
    <3>1. b \in 0..n - 1 /\ meta[b + 1].type = BaseChunk
      BY <2>2 DEF Linked
    <3> HIDE DEF b
    <3>2. b \in 0..N - 1
      BY <1>0, <3>1
    <3>3. b \in bases_
      BY <3>1, <3>2
    <3> QED
      BY <3>3 DEF b
  <2> QED
    BY <2>1, <2>2 DEF Linked
<1>2. GroupKeys(meta) \subseteq bases_
  <2>1. \A i \in 1..N : i - 1 \in 0..N - 1 /\ (i - 1) + 1 = i
    BY <1>0
  <2>2. \A i \in 1..N : meta[i].base \in bases_
    BY <1>1, <2>1
  <2> HIDE DEF bases_
  <2> QED
    BY <2>2 DEF GroupKeys
<1>3. \A n \in 0..N - 1 : meta[n + 1].base \in GroupKeys(meta)
  <2> SUFFICES ASSUME NEW n \in 0..N - 1 PROVE meta[n + 1].base \in GroupKeys(meta)
    OBVIOUS
  <2>1. n + 1 \in 1..N
    BY <1>0
  <2>2. meta[n + 1].type \in {BaseChunk, DeltaChunk}
    BY DEF Linked
  <2> QED
    BY <2>1, <2>2 DEF GroupKeys
<1>4. bases_ \subseteq GroupKeys(meta)
  BY <1>3 DEF Linked
<1>5. IsFiniteSet(bases_) /\ bases_ \in SUBSET Nat
  <2>1. IsFiniteSet(0..N - 1) /\ bases_ \subseteq 0..N - 1
    BY <1>0, FS_Interval
  <2>2. 0..N - 1 \subseteq Nat
    BY <1>0
  <2> QED
    BY <2>1, <2>2, FS_Subset
<1>6. GroupKeys(meta) = bases_
  BY <1>2, <1>4
<1> HIDE DEF bases_
<1>7. IsFiniteSet(GroupKeys(meta)) /\ GroupKeys(meta) \in SUBSET Nat
  BY <1>5, <1>6
<1> QED
  BY <1>3, <1>6, <1>7 DEF bases_

\* The group of a base has its delta chunks in order, which come after it.
LEMMA DeltasAre ==
  ASSUME NEW meta, Linked(meta), NEW b \in GroupKeys(meta)
  PROVE  LET d == DeltasOf(meta, b)
         IN /\ b \in Nat /\ d \in Seq(Nat) /\ Ascends(d)
            /\ \A x \in ToSet(d) : b < x /\ meta[x + 1].type = DeltaChunk
            /\ RecordsOf(meta, b) = {b} \cup ToSet(d)
<1> DEFINE N == Len(meta)
           S == {n \in 0..N - 1 : meta[n + 1].type = DeltaChunk /\ meta[n + 1].base = b}
           d == DeltasOf(meta, b)
<1>0. N \in Nat
  BY DEF Linked
<1>1. b \in 0..N - 1 /\ meta[b + 1].type = BaseChunk /\ meta[b + 1].base = b
  BY KeysAre DEF Linked
<1>2. S \in SUBSET Nat /\ IsFiniteSet(S)
  <2>1. IsFiniteSet(0..N - 1) /\ S \subseteq 0..N - 1
    BY <1>0, FS_Interval
  <2>2. 0..N - 1 \subseteq Nat
    BY <1>0
  <2> QED
    BY <2>1, <2>2, FS_Subset
<1>3. d = InOrder(S)
  BY DEF DeltasOf
<1> HIDE DEF d
<1>4. d \in Seq(Nat) /\ ToSet(d) = S /\ Ascends(d)
  BY <1>2, <1>3, InOrderIs DEF Ascends
<1>5. \A x \in S : b < x /\ meta[x + 1].type = DeltaChunk
  BY <1>0 DEF Linked
<1>6. RecordsOf(meta, b) = {b} \cup S
  <2>1. \A n \in 0..N - 1 : meta[n + 1].base = b => n = b \/ n \in S
    BY DEF Linked
  <2>2. \A n \in S : n \in 0..N - 1 /\ meta[n + 1].base = b
    OBVIOUS
  <2> QED
    BY <1>1, <2>1, <2>2 DEF RecordsOf
<1> HIDE DEF S
<1>7. b \in Nat
  BY <1>0, <1>1
<1> QED
  BY <1>4, <1>5, <1>6, <1>7 DEF d

\* A frame as groupByBase makes it: of one base, which comes first if it is in it.
FrameOfBase(meta, f) ==
  \E b \in GroupKeys(meta) : FrameFor(b, DeltasOf(meta, b), f)

\* What the frames of one base are.
LEMMA BaseFrames ==
  ASSUME NEW meta, Linked(meta), NEW b \in GroupKeys(meta)
  PROVE  LET fs == Frames(b, DeltasOf(meta, b))
         IN /\ fs \in Seq(Seq(Nat)) /\ Distinct(fs, Apart)
            /\ \A f \in ToSet(fs) : /\ f \in Seq(Nat) /\ FrameOfBase(meta, f)
                                    /\ ToSet(f) \subseteq RecordsOf(meta, b)
            /\ \A x \in RecordsOf(meta, b) : \E f \in ToSet(fs) : x \in ToSet(f)
<1> DEFINE d == DeltasOf(meta, b)
           fs == Frames(b, d)
<1>1. /\ b \in Nat /\ d \in Seq(Nat) /\ Ascends(d)
      /\ \A x \in ToSet(d) : b < x
      /\ RecordsOf(meta, b) = {b} \cup ToSet(d)
  BY DeltasAre
<1> HIDE DEF d
<1>2. FramesFor(b, d, fs)
  BY <1>1, FramesAre
<1> HIDE DEF fs
<1>3. fs \in Seq(Seq(Nat)) /\ Distinct(fs, Apart) /\ \A f \in ToSet(fs) : FrameFor(b, d, f)
  BY <1>2 DEF FramesFor
<1>4. \A x : x \in {b} \cup ToSet(d) <=> \E f \in ToSet(fs) : x \in ToSet(f)
  BY <1>2 DEF FramesFor
<1>5. ASSUME NEW f \in ToSet(fs)
      PROVE  /\ f \in Seq(Nat) /\ FrameOfBase(meta, f)
             /\ ToSet(f) \subseteq RecordsOf(meta, b)
  <2>1. FrameFor(b, d, f)
    BY <1>3
  <2>2. FrameOfBase(meta, f)
    BY <2>1 DEF FrameOfBase, d
  <2> QED
    BY <1>1, <2>1, <2>2 DEF FrameFor
<1>6. \A x \in RecordsOf(meta, b) : \E f \in ToSet(fs) : x \in ToSet(f)
  BY <1>1, <1>4
<1> QED
  BY <1>3, <1>5, <1>6 DEF fs, d

\* One grouping: the frames have no record in common, and have all records.
LEMMA PassIs ==
  ASSUME NEW meta, Linked(meta)
  PROVE  LET pass == groupByBase(meta)
         IN /\ pass \in Seq(Seq(Nat)) /\ Distinct(pass, Apart)
            /\ \A f \in ToSet(pass) : FrameOfBase(meta, f)
            /\ \A x : x \in 0..Len(meta) - 1 <=> \E f \in ToSet(pass) : x \in ToSet(f)
<1> DEFINE K == GroupKeys(meta)
           keys == InOrder(K)
           L == Len(keys)
           fs(b) == Frames(b, DeltasOf(meta, b))
           perBase == [i \in 1..L |-> fs(keys[i])]
           pass == groupByBase(meta)
           N == Len(meta)
<1>1. /\ K \in SUBSET Nat /\ IsFiniteSet(K)
      /\ \A n \in 0..N - 1 : meta[n + 1].base \in K
  BY KeysAre
<1> HIDE DEF K
<1>2. /\ keys \in Seq(Nat) /\ ToSet(keys) = K
      /\ \A i, j \in 1..L : i < j => keys[i] < keys[j]
  BY <1>1, InOrderIs
<1>3. pass = FlattenSeq(perBase)
  <2>1. DOMAIN dividByBase(meta) = K /\ \A b \in K : dividByBase(meta)[b] = DeltasOf(meta, b)
    BY DEF dividByBase, K
  <2>2. \A i \in 1..L : keys[i] \in K
    BY <1>2 DEF ToSet
  <2>3. pass = FlattenSeq([i \in 1..L |-> Frames(keys[i], dividByBase(meta)[keys[i]])])
    BY <2>1 DEF groupByBase
  <2> HIDE DEF pass, keys, L
  <2>4. [i \in 1..L |-> Frames(keys[i], dividByBase(meta)[keys[i]])] = perBase
    BY <2>1, <2>2
  <2> QED
    BY <2>3, <2>4
<1> HIDE DEF keys, pass
<1>4. L \in Nat /\ DOMAIN keys = 1..L /\ K = {keys[i] : i \in 1..L}
  BY <1>2 DEF ToSet
<1> HIDE DEF L
<1>5. \A i, j \in 1..L : i # j => keys[i] # keys[j]
  <2> SUFFICES ASSUME NEW i \in 1..L, NEW j \in 1..L, i # j PROVE keys[i] # keys[j]
    OBVIOUS
  <2>1. keys[i] \in Nat /\ keys[j] \in Nat
    BY <1>1, <1>4
  <2>2. i < j \/ j < i
    BY <1>4
  <2> QED
    BY <1>2, <2>1, <2>2
<1>6. \A b \in K : /\ fs(b) \in Seq(Seq(Nat)) /\ Distinct(fs(b), Apart)
                   /\ \A f \in ToSet(fs(b)) : /\ f \in Seq(Nat) /\ FrameOfBase(meta, f)
                                              /\ ToSet(f) \subseteq RecordsOf(meta, b)
                   /\ \A x \in RecordsOf(meta, b) : \E f \in ToSet(fs(b)) : x \in ToSet(f)
  BY BaseFrames DEF K
<1> HIDE DEF fs
<1>7. \A i \in 1..L : perBase[i] = fs(keys[i]) /\ keys[i] \in K
  BY <1>4
<1>8. perBase \in Seq(Seq(Seq(Nat))) /\ Len(perBase) = L
  <2> DEFINE S == Seq(Seq(Nat))
  <2>1. \A i \in 1..L : fs(keys[i]) \in S
    BY <1>6, <1>7
  <2> HIDE DEF S
  <2>2. perBase \in Seq(S) /\ Len(perBase) = L
    BY <1>4, <2>1
  <2> HIDE DEF perBase
  <2> QED
    BY <2>2 DEF S
<1> HIDE DEF perBase
<1>9. \A i \in 1..Len(perBase) : Distinct(perBase[i], Apart)
  BY <1>6, <1>7, <1>8
<1>10. \A i, j \in 1..Len(perBase) : i # j =>
         \A f \in ToSet(perBase[i]), g \in ToSet(perBase[j]) : <<f, g>> \in Apart
  <2> SUFFICES ASSUME NEW i \in 1..L, NEW j \in 1..L, i # j,
                      NEW f \in ToSet(perBase[i]), NEW g \in ToSet(perBase[j])
               PROVE  <<f, g>> \in Apart
    BY <1>8
  <2>1. /\ f \in Seq(Nat) /\ ToSet(f) \subseteq RecordsOf(meta, keys[i])
        /\ g \in Seq(Nat) /\ ToSet(g) \subseteq RecordsOf(meta, keys[j])
    BY <1>6, <1>7
  <2>2. keys[i] # keys[j]
    BY <1>5
  <2>3. ToSet(f) \cap ToSet(g) = {}
    BY <2>1, <2>2 DEF RecordsOf
  <2> QED
    BY <2>1, <2>3 DEF Apart
<1>11. /\ pass \in Seq(Seq(Nat)) /\ Distinct(pass, Apart)
       /\ \A f : f \in ToSet(pass) <=> \E i \in 1..L : f \in ToSet(perBase[i])
  BY <1>3, <1>8, <1>9, <1>10, FlattenIs
<1>12. \A f \in ToSet(pass) : \E i \in 1..L : FrameOfBase(meta, f)
                                   /\ ToSet(f) \subseteq RecordsOf(meta, keys[i])
  BY <1>6, <1>7, <1>11
<1>13. ASSUME NEW x, NEW f \in ToSet(pass), x \in ToSet(f) PROVE x \in 0..N - 1
  BY <1>12, <1>13 DEF RecordsOf
<1>14. ASSUME NEW x \in 0..N - 1 PROVE \E f \in ToSet(pass) : x \in ToSet(f)
  <2>1. meta[x + 1].base \in K
    BY <1>1
  <2>2. PICK i \in 1..L : keys[i] = meta[x + 1].base
    BY <1>4, <2>1
  <2>3. x \in RecordsOf(meta, keys[i])
    BY <2>2 DEF RecordsOf
  <2>4. \E f \in ToSet(perBase[i]) : x \in ToSet(f)
    BY <1>6, <1>7, <2>3
  <2> QED
    BY <1>11, <2>4
<1> QED
  BY <1>11, <1>12, <1>13, <1>14 DEF pass

\* What is to be shown of a grouping of the records.
GroupedRight(meta, pass) ==
  /\ Len(FlattenSeq(pass)) = Len(meta)
  /\ ToSet(FlattenSeq(pass)) = 0..Len(meta) - 1
  /\ \A k \in 1..Len(pass) :
       /\ Cardinality({meta[n + 1].base : n \in ToSet(pass[k])}) = 1
       /\ Len(pass[k]) \in 1..GroupSize
       /\ \A i \in 2..Len(pass[k]) :
            /\ meta[pass[k][i] + 1].type = DeltaChunk
            /\ pass[k][i - 1] < pass[k][i]

\* A sequence of different members is as long as they are many.
LEMMA LenIsNumber ==
  ASSUME NEW s \in Seq(Nat), Distinct(s, Different), NEW N \in Nat, ToSet(s) = 0..N - 1
  PROVE  Len(s) = N
<1> DEFINE l == Len(s)
<1>1. l \in Nat /\ DOMAIN s = 1..l /\ \A i \in 1..l : s[i] \in 0..N - 1
  <2>1. l \in Nat /\ DOMAIN s = 1..l
    OBVIOUS
  <2> QED
    BY <2>1 DEF ToSet
<1>2. s \in [1..l -> 0..N - 1]
  BY <1>1
<1>3. \A i, j \in 1..l : s[i] = s[j] => i = j
  <2> SUFFICES ASSUME NEW i \in 1..l, NEW j \in 1..l, i # j PROVE s[i] # s[j]
    OBVIOUS
  <2> DEFINE p == <<s[i], s[j]>>
  <2>1. p \in Different /\ p[1] = s[i] /\ p[2] = s[j]
    BY DEF Distinct
  <2> HIDE DEF p
  <2> QED
    BY <2>1 DEF Different
<1>4. \A x \in 0..N - 1 : \E i \in 1..l : s[i] = x
  BY <1>1 DEF ToSet
<1> HIDE DEF l
<1>5. s \in Injection(1..l, 0..N - 1) /\ s \in Surjection(1..l, 0..N - 1)
  BY <1>2, <1>3, <1>4 DEF Injection, Surjection, IsInjective
<1>6. IsFiniteSet(1..l) /\ Cardinality(1..l) = l
  BY <1>1, FS_Interval
<1>7. IsFiniteSet(0..N - 1) /\ Cardinality(0..N - 1) = N
  <2>1. 0 \in Int /\ N - 1 \in Int /\ (0 > N - 1 => N = 0) /\ (N - 1) - 0 + 1 = N
    OBVIOUS
  <2> QED
    BY <2>1, FS_Interval
<1>8. Cardinality(1..l) = Cardinality(0..N - 1)
  BY <1>5, <1>7, FS_Injection
<1> QED
  BY <1>6, <1>7, <1>8 DEF l

\* The records of a frame have one base.
LEMMA FrameIs ==
  ASSUME NEW meta, Linked(meta), NEW f, FrameOfBase(meta, f)
  PROVE  /\ f \in Seq(Nat) /\ Len(f) \in 1..GroupSize /\ Ascends(f)
         /\ Cardinality({meta[n + 1].base : n \in ToSet(f)}) = 1
         /\ \A i \in 2..Len(f) : meta[f[i] + 1].type = DeltaChunk /\ f[i - 1] < f[i]
<1>1. PICK b \in GroupKeys(meta) : FrameFor(b, DeltasOf(meta, b), f)
  BY DEF FrameOfBase
<1> DEFINE d == DeltasOf(meta, b)
<1>2. /\ \A x \in ToSet(d) : meta[x + 1].type = DeltaChunk
      /\ RecordsOf(meta, b) = {b} \cup ToSet(d)
  BY DeltasAre
<1> HIDE DEF d
<1>3. /\ f \in Seq(Nat) /\ Len(f) \in 1..GroupSize /\ Ascends(f)
      /\ ToSet(f) \subseteq RecordsOf(meta, b)
      /\ \A i \in 2..Len(f) : f[i] \in ToSet(d)
  BY <1>1, <1>2 DEF FrameFor, d
<1>4. {meta[n + 1].base : n \in ToSet(f)} = {b}
  <2>1. 1 \in DOMAIN f
    BY <1>3
  <2>2. f[1] \in ToSet(f)
    BY <2>1 DEF ToSet
  <2>3. \A n \in ToSet(f) : meta[n + 1].base = b
    BY <1>3 DEF RecordsOf
  <2> QED
    BY <2>2, <2>3
<1>5. Cardinality({b}) = 1
  BY FS_Singleton
<1>6. \A i \in 2..Len(f) : f[i - 1] < f[i]
  <2> SUFFICES ASSUME NEW i \in 2..Len(f) PROVE f[i - 1] < f[i]
    OBVIOUS
  <2>1. i - 1 \in 1..Len(f) /\ i \in 1..Len(f) /\ i - 1 < i
    BY <1>3
  <2> QED
    BY <1>3, <2>1 DEF Ascends
<1> QED
  BY <1>2, <1>3, <1>4, <1>5, <1>6

\* Grouping puts every record of the store into one frame.
LEMMA GroupingIs ==
  ASSUME NEW meta, Linked(meta)
  PROVE  GroupedRight(meta, groupByBase(meta)) /\ groupByBase(meta) \in Seq(Seq(Nat))
<1> DEFINE pass == groupByBase(meta)
           all == FlattenSeq(pass)
           N == Len(meta)
           L == Len(pass)
<1>1. /\ pass \in Seq(Seq(Nat)) /\ Distinct(pass, Apart)
      /\ \A f \in ToSet(pass) : FrameOfBase(meta, f)
      /\ \A x : x \in 0..N - 1 <=> \E f \in ToSet(pass) : x \in ToSet(f)
  BY PassIs
<1> HIDE DEF pass
<1>2. L \in Nat /\ DOMAIN pass = 1..L
  BY <1>1
<1>3. ToSet(pass) = {pass[k] : k \in 1..L}
  BY <1>2 DEF ToSet
<1>4. \A k \in 1..L : FrameOfBase(meta, pass[k])
  BY <1>1, <1>3
<1>5. \A k \in 1..L :
        /\ pass[k] \in Seq(Nat) /\ Len(pass[k]) \in 1..GroupSize /\ Ascends(pass[k])
        /\ Cardinality({meta[n + 1].base : n \in ToSet(pass[k])}) = 1
        /\ \A i \in 2..Len(pass[k]) :
             meta[pass[k][i] + 1].type = DeltaChunk /\ pass[k][i - 1] < pass[k][i]
  BY <1>4, FrameIs
<1>6. \A k \in 1..L : Distinct(pass[k], Different)
  <2> SUFFICES ASSUME NEW k \in 1..L, NEW i \in 1..Len(pass[k]), NEW j \in 1..Len(pass[k]),
                      i # j
               PROVE  <<pass[k][i], pass[k][j]>> \in Different
    BY DEF Distinct
  <2> DEFINE f == pass[k]
  <2>1. f \in Seq(Nat) /\ Ascends(f)
    BY <1>5
  <2> HIDE DEF f
  <2>2. i \in 1..Len(f) /\ j \in 1..Len(f) /\ i # j
    BY DEF f
  <2>3. f[i] \in Nat /\ f[j] \in Nat
    BY <2>1, <2>2
  <2>4. i < j \/ j < i
    BY <2>1, <2>2
  <2>5. f[i] < f[j] \/ f[j] < f[i]
    BY <2>1, <2>2, <2>4 DEF Ascends
  <2>6. f[i] # f[j]
    BY <2>3, <2>5
  <2>7. <<f[i], f[j]>> \in Different
    BY <2>3, <2>6 DEF Different
  <2> QED
    BY <2>7 DEF f
<1>7. \A i, j \in 1..L : i # j =>
        \A x \in ToSet(pass[i]), y \in ToSet(pass[j]) : <<x, y>> \in Different
  <2> SUFFICES ASSUME NEW i \in 1..L, NEW j \in 1..L, i # j,
                      NEW x \in ToSet(pass[i]), NEW y \in ToSet(pass[j])
               PROVE  <<x, y>> \in Different
    OBVIOUS
  <2> DEFINE p == <<pass[i], pass[j]>>
  <2>1. p \in Apart /\ p[1] = pass[i] /\ p[2] = pass[j]
    BY <1>1 DEF Distinct
  <2> HIDE DEF p
  <2>2. ToSet(pass[i]) \cap ToSet(pass[j]) = {}
    BY <2>1 DEF Apart
  <2>3. x # y
    BY <2>2
  <2>4. x \in 0..N - 1 /\ y \in 0..N - 1
    BY <1>1, <1>3
  <2>5. N \in Nat
    BY DEF Linked
  <2>6. x \in Nat /\ y \in Nat
    BY <2>4, <2>5
  <2> QED
    BY <2>3, <2>6 DEF Different
<1>8. /\ all \in Seq(Nat) /\ Distinct(all, Different)
      /\ \A x : x \in ToSet(all) <=> \E k \in 1..L : x \in ToSet(pass[k])
  BY <1>1, <1>6, <1>7, FlattenIs
<1>9. ToSet(all) = 0..N - 1
  BY <1>1, <1>3, <1>8
<1>10. N \in Nat
  BY DEF Linked
<1>11. Len(all) = N
  BY <1>8, <1>9, <1>10, LenIsNumber
<1>12. GroupedRight(meta, pass)
  BY <1>5, <1>9, <1>11 DEF GroupedRight
<1> QED
  BY <1>1, <1>12 DEF pass
-----------------------------------------------------------------------------
\* The lengths that groupByBase adds are those of chunks that are as long as the
\* delta records say, and of no others.
LEMMA GroupedSizeIs ==
  ASSUME NEW meta, NEW cs \in Seq(Seq(Nat)), Len(cs) = Len(meta),
         \A k \in 1..Len(meta) :
           Len(cs[k]) = IF meta[k].type = DeltaChunk THEN meta[k].size ELSE 0
  PROVE  GroupedDeltaSize(meta) = TotalLen(cs)
<1> DEFINE N == Len(meta)
           Sums(h) == h = [k \in 0..N |->
             IF k = 0 THEN 0
             ELSE h[k - 1] + (IF meta[k].type = DeltaChunk THEN meta[k].size ELSE 0)]
           g == CHOOSE h : Sums(h)
<1>1. N \in Nat
  OBVIOUS
<1>2. ASSUME NEW h PROVE Sums(h) <=> IsSum(h, cs, N)
  <2>1. \A k \in 0..N : k # 0 =>
          Len(cs[k]) = IF meta[k].type = DeltaChunk THEN meta[k].size ELSE 0
    BY <1>1
  <2> HIDE DEF N
  <2>2. [k \in 0..N |-> IF k = 0 THEN 0 ELSE h[k - 1] +
                          (IF meta[k].type = DeltaChunk THEN meta[k].size ELSE 0)]
          = [k \in 0..N |-> IF k = 0 THEN 0 ELSE h[k - 1] + Len(cs[k])]
    BY <2>1
  <2> QED
    BY <2>2 DEF IsSum
<1>3. GroupedDeltaSize(meta) = g[N]
  BY DEF GroupedDeltaSize
<1> HIDE DEF Sums
<1>4. \E h : Sums(h)
  <2>1. N \in 0..Len(cs)
    BY <1>1
  <2> QED
    BY <1>2, <2>1, SumExists
<1>5. IsSum(g, cs, Len(cs))
  BY <1>2, <1>4
<1> HIDE DEF g, N
<1>6. TotalLen(cs) = g[Len(cs)]
  BY <1>5, TotalLenIs
<1> QED
  BY <1>3, <1>6 DEF N

\* No chunk is longer than its record can say: max_chunk_size is 8192 and the
\* record has 16 bits.
SmallChunks == \A c \in Contents : Len(c) < Uint16

\* The chunks that are stored as deltas, in their places.
deltaChunks == [k \in 1..Len(cut) |-> IF RecordType(k) = DeltaChunk THEN cut[k] ELSE <<>>]

\* What grouping has compressed and counted: between two files the frames of the
\* last are those of the store as it is; the base chunks are counted when they
\* are stored and the delta chunks when they are grouped, so that after the first
\* file every chunk is counted once.
GroupingOK ==
  /\ frames \in Seq(Seq(Seq(Nat)))
  /\ frames # <<>> /\ ~running => Last(frames) = groupByBase(storage_.meta)
  /\ "origin" \in DOMAIN stats /\ stats.origin \in Nat
  /\ metas = <<>> => stats.origin + TotalLen(deltaChunks) = TotalLen(cut)
  /\ Len(metas) = 1 /\ ~running => stats.origin = TotalLen(cut)

\* The chunks as sequences of bytes.
LEMMA DeltasType ==
  ASSUME ChunksOK
  PROVE  /\ cut \in Seq(Seq(Nat)) /\ deltaChunks \in Seq(Seq(Nat))
         /\ Len(deltaChunks) = Len(cut) /\ Len(cut) \in Nat
         /\ TotalLen(cut) \in Nat /\ TotalLen(deltaChunks) \in Nat
<1> DEFINE S == Seq(Nat)
<1>1. cut \in Seq(Contents) /\ Len(cut) \in Nat
  BY DEF ChunksOK
<1>2. \A c \in Contents : c \in S
  BY SequentialAssumption
<1>3. \A k \in 1..Len(cut) : cut[k] \in S
  BY <1>1, <1>2
<1>4. <<>> \in S
  OBVIOUS
<1> HIDE DEF S
<1>5. cut \in Seq(S)
  BY <1>1, <1>3
<1>6. \A k \in 1..Len(cut) : (IF RecordType(k) = DeltaChunk THEN cut[k] ELSE <<>>) \in S
  BY <1>3, <1>4
<1>7. deltaChunks \in Seq(S) /\ Len(deltaChunks) = Len(cut)
  BY <1>1, <1>6 DEF deltaChunks
<1> QED
  BY <1>1, <1>5, <1>7, TotalLenType DEF S

\* The records are linked to bases as grouping expects.
LEMMA RecordsLinked ==
  ASSUME ChunksOK, ClassesOK
  PROVE  Linked(storage_.meta)
<1> DEFINE meta == storage_.meta
           N == Len(cut)
<1>1. /\ Len(meta) = N /\ N \in Nat
      /\ \A n \in 0..N - 1 : meta[n + 1].type \in {BaseChunk, DeltaChunk}
  BY IdIs DEF ChunksOK
<1>2. \A n \in 0..N - 1 : kinds[n] = meta[n + 1].type /\ bases[n] = meta[n + 1].base
  BY DEF kinds, bases
<1>3. MatchedTo(Similar, cut, kinds, bases, N)
  BY DEF ClassesOK
<1> HIDE DEF meta, N
<1>4. ASSUME NEW n \in 0..N - 1, meta[n + 1].type = BaseChunk
      PROVE  meta[n + 1].base = n
  BY <1>2, <1>3, <1>4 DEF MatchedTo
<1>5. ASSUME NEW n \in 0..N - 1, meta[n + 1].type = DeltaChunk
      PROVE  /\ meta[n + 1].base \in 0..n - 1
             /\ meta[meta[n + 1].base + 1].type = BaseChunk
  <2> DEFINE b == bases[n]
  <2>1. b \in 0..n - 1 /\ kinds[b] = BaseChunk
    BY <1>2, <1>3, <1>5 DEF MatchedTo
  <2>2. meta[n + 1].base = b
    BY <1>2
  <2> HIDE DEF b
  <2>3. b \in 0..N - 1
    BY <1>1, <2>1
  <2>4. meta[b + 1].type = BaseChunk
    BY <1>2, <2>1, <2>3
  <2> QED
    BY <2>1, <2>2, <2>4
<1>6. Linked(meta)
  BY <1>1, <1>4, <1>5 DEF Linked
<1> QED
  BY <1>6 DEF meta

\* The record of a chunk that is small has its length.
LEMMA SizesAre ==
  ASSUME ChunksOK, SmallChunks
  PROVE  \A k \in 1..Len(cut) : storage_.meta[k].size = Len(cut[k])
<1> SUFFICES ASSUME NEW k \in 1..Len(cut) PROVE storage_.meta[k].size = Len(cut[k])
  OBVIOUS
<1> DEFINE n == k - 1
<1>1. /\ StoreOK(storage_) /\ Faithful(storage_, cut) /\ Len(storage_.meta) = Len(cut)
      /\ Len(cut) \in Nat
      /\ \A m \in 0..Len(cut) - 1 : storage_.meta[m + 1].type \in {BaseChunk, DeltaChunk}
  BY IdIs DEF ChunksOK
<1>2. n \in 0..Len(cut) - 1 /\ n + 1 = k
  BY <1>1
<1> HIDE DEF n
<1>3. n \in Owning(storage_)
  <2>1. storage_.meta[n + 1].type # DuplicateChunk
    BY <1>1, <1>2 DEF BaseChunk, DeltaChunk, DuplicateChunk
  <2> QED
    BY <1>1, <1>2, <2>1 DEF Owning
<1>4. ChunkContent(storage_, n) = Kept(cut[k])
  BY <1>1, <1>2, <1>3 DEF Faithful
<1>5. Len(ChunkContent(storage_, n)) = storage_.meta[k].size
  BY <1>1, <1>2, <1>3, ContentIs
<1>6. cut[k] \in Contents
  BY <1>1 DEF ChunksOK
<1>7. cut[k] \in Seq(Nat) /\ Len(cut[k]) < Uint16
  BY <1>6, SequentialAssumption DEF SmallChunks
<1>8. Len(Kept(cut[k])) = Len(cut[k]) % Uint16
  BY <1>7, KeptIs
<1>9. Len(cut[k]) % Uint16 = Len(cut[k])
  <2>1. Len(cut[k]) \in 0..Uint16 - 1
    BY <1>7, StorageAssumption
  <2> QED
    BY <2>1, StorageAssumption, SmallRemainder
<1> QED
  BY <1>4, <1>5, <1>8, <1>9
-----------------------------------------------------------------------------
\* Before the first file nothing is counted.
LEMMA GroupingInit == Init => GroupingOK
<1> SUFFICES ASSUME Init PROVE GroupingOK
  OBVIOUS
<1>1. /\ frames = <<>> /\ cut = <<>> /\ metas = <<>>
      /\ "origin" \in DOMAIN stats /\ stats.origin = 0
  BY DEF Init
<1>2. deltaChunks = <<>>
  BY <1>1 DEF deltaChunks
<1> HIDE DEF deltaChunks
<1>3. TotalLen(cut) = 0 /\ TotalLen(deltaChunks) = 0
  BY <1>1, <1>2, TotalLenEmpty
<1>4. frames \in Seq(Seq(Seq(Nat))) /\ Len(metas) = 0
  BY <1>1
<1> QED
  BY <1>1, <1>3, <1>4 DEF GroupingOK

\* Storing a chunk counts it if it is a base, and leaves it to be grouped if not.
LEMMA GroupingAdd ==
  ASSUME ChunksOK, ChunksOK', GroupingOK, AddBase \/ AddDelta
  PROVE  GroupingOK'
<1> DEFINE chunk == Head(pending)
           j == Len(cut)
<1>1. PICK type \in {BaseChunk, DeltaChunk}, base \in 0..Len(cut) :
        /\ Appended(storage_, storage_', cut', type, base, chunk)
        /\ type = BaseChunk => BaseChunkIDs(chunk) = {}
        /\ type = DeltaChunk => base \in BaseChunkIDs(chunk)
  BY AddStores
<1>2. /\ chunk \in Seq(Nat) /\ cut' = Append(cut, chunk) /\ Len(cut') = j + 1
      /\ cut'[j + 1] = chunk
  BY NextIs DEF AddBase, AddDelta
<1>3. j \in Nat /\ Len(storage_.meta) = j /\ storage_.meta \in Seq(ChunkMetas)
  BY IdIs DEF ChunksOK, StoreOK, Stores
<1>4. PICK rec \in ChunkMetas : /\ storage_'.meta = Append(storage_.meta, rec)
                                /\ rec.type = type
  BY <1>1 DEF Appended
<1>5. /\ storage_'.meta[j + 1].type = type
      /\ \A k \in 1..j : storage_'.meta[k] = storage_.meta[k]
  BY <1>3, <1>4
<1>6. /\ cut \in Seq(Seq(Nat)) /\ deltaChunks \in Seq(Seq(Nat)) /\ Len(deltaChunks) = j
      /\ TotalLen(cut) \in Nat /\ TotalLen(deltaChunks) \in Nat
      /\ deltaChunks' \in Seq(Seq(Nat)) /\ Len(deltaChunks') = j + 1
  <2>1. (deltaChunks \in Seq(Seq(Nat)) /\ Len(deltaChunks) = Len(cut))'
    BY DeltasType, PTL
  <2> QED
    BY <1>2, <2>1, DeltasType
<1> DEFINE added == IF type = DeltaChunk THEN chunk ELSE <<>>
<1>7. added \in Seq(Nat)
  BY <1>2
<1>8. deltaChunks' = Append(deltaChunks, added)
  <2>1. \A k \in 1..j : k \in 1..j + 1 /\ k \in 1..Len(cut') /\ cut'[k] = cut[k]
    BY <1>2, <1>3, <1>6
  <2>2. ASSUME NEW k \in 1..j PROVE deltaChunks'[k] = deltaChunks[k]
    <3>1. deltaChunks'[k] = IF storage_'.meta[k].type = DeltaChunk THEN cut'[k] ELSE <<>>
      BY <2>1 DEF deltaChunks, RecordType
    <3>2. deltaChunks[k] = IF storage_.meta[k].type = DeltaChunk THEN cut[k] ELSE <<>>
      BY DEF deltaChunks, RecordType
    <3> QED
      BY <1>5, <2>1, <3>1, <3>2
  <2>3. deltaChunks'[j + 1] = added
    <3>1. j + 1 \in 1..Len(cut')
      BY <1>2, <1>3
    <3>2. deltaChunks'[j + 1] = IF storage_'.meta[j + 1].type = DeltaChunk THEN cut'[j + 1] ELSE <<>>
      BY <3>1 DEF deltaChunks, RecordType
    <3> QED
      BY <1>2, <1>5, <3>2
  <2> DEFINE S == Seq(Nat)
  <2>4. deltaChunks \in Seq(S) /\ deltaChunks' \in Seq(S) /\ added \in S
    BY <1>6, <1>7
  <2> HIDE DEF S, deltaChunks, added, j
  <2>5. Append(deltaChunks, added) \in Seq(S) /\ Len(Append(deltaChunks, added)) = j + 1
        /\ \A k \in 1..j : Append(deltaChunks, added)[k] = deltaChunks[k]
        /\ Append(deltaChunks, added)[j + 1] = added
    BY <1>3, <1>6, <2>4
  <2>6. \A k \in 1..j + 1 : k \in 1..j \/ k = j + 1
    BY <1>3
  <2>7. \A k \in 1..j + 1 : deltaChunks'[k] = Append(deltaChunks, added)[k]
    BY <2>2, <2>3, <2>5, <2>6
  <2> QED
    BY <1>6, <2>4, <2>5, <2>7, SeqEqual
<1>9. /\ TotalLen(cut') = TotalLen(cut) + Len(chunk)
      /\ TotalLen(deltaChunks') = TotalLen(deltaChunks) + Len(added)
  BY <1>2, <1>6, <1>7, <1>8, TotalLenAppend
<1>10. Len(chunk) \in Nat /\ Len(added) = IF type = DeltaChunk THEN Len(chunk) ELSE 0
  BY <1>2
<1>11. /\ "origin" \in DOMAIN stats /\ stats.origin \in Nat
       /\ metas = <<>> => stats.origin + TotalLen(deltaChunks) = TotalLen(cut)
       /\ frames \in Seq(Seq(Seq(Nat)))
  BY DEF GroupingOK
<1>12. metas' = metas /\ frames' = frames /\ running' = TRUE
  BY DEF AddBase, AddDelta, NextChunk
<1> HIDE DEF added, deltaChunks
<1>13. /\ "origin" \in DOMAIN stats'
       /\ stats'.origin = stats.origin + (IF type = DeltaChunk THEN 0 ELSE Len(chunk))
  <2>1. CASE AddBase
    <3>1. stats' = [stats EXCEPT !.base = @ + 1, !.origin = @ + Len(chunk)]
      BY <2>1 DEF AddBase
    <3>2. type # DeltaChunk
      BY <1>1, <2>1 DEF AddBase
    <3> QED
      BY <1>11, <3>1, <3>2
  <2>2. CASE AddDelta
    <3>1. stats' = [stats EXCEPT !.delta = @ + 1, !.before = @ + Len(chunk),
                                 !.after = @ + Len(chunk)]
      BY <2>2 DEF AddDelta
    <3>2. type = DeltaChunk
      BY <1>1, <2>2 DEF AddDelta
    <3> QED
      BY <1>11, <3>1, <3>2
  <2> QED
    BY <2>1, <2>2
<1>14. /\ stats'.origin \in Nat
       /\ metas' = <<>> => stats'.origin + TotalLen(deltaChunks') = TotalLen(cut')
  <2> DEFINE c  == TotalLen(cut)
             d  == TotalLen(deltaChunks)
             o  == stats.origin
             c_ == TotalLen(cut')
             d_ == TotalLen(deltaChunks')
             o_ == stats'.origin
             n  == Len(chunk)
  <2>1. CASE type = DeltaChunk
    <3>1. o_ = o + 0 /\ d_ = d + n /\ c_ = c + n
      BY <1>9, <1>10, <1>13, <2>1
    <3>2. /\ n \in Nat /\ o \in Nat /\ c \in Nat /\ d \in Nat
          /\ metas' = <<>> => o + d = c
      BY <1>6, <1>10, <1>11, <1>12
    <3> HIDE DEF c, d, o, c_, d_, o_, n
    <3>3. o_ \in Nat /\ (metas' = <<>> => o_ + d_ = c_)
      BY <3>1, <3>2
    <3> QED
      BY <3>3 DEF c_, d_, o_
  <2>2. CASE type # DeltaChunk
    <3>1. o_ = o + n /\ d_ = d + 0 /\ c_ = c + n
      BY <1>9, <1>10, <1>13, <2>2
    <3>2. /\ n \in Nat /\ o \in Nat /\ c \in Nat /\ d \in Nat
          /\ metas' = <<>> => o + d = c
      BY <1>6, <1>10, <1>11, <1>12
    <3> HIDE DEF c, d, o, c_, d_, o_, n
    <3>3. o_ \in Nat /\ (metas' = <<>> => o_ + d_ = c_)
      BY <3>1, <3>2
    <3> QED
      BY <3>3 DEF c_, d_, o_
  <2> QED
    BY <2>1, <2>2
<1> QED
  BY <1>11, <1>12, <1>13, <1>14 DEF GroupingOK
\* Grouping counts the delta chunks, and compresses the records of the store.
LEMMA GroupingEnd ==
  ASSUME SmallChunks, ChunksOK, ClassesOK, LinesOK, GroupingOK, EndAddFile
  PROVE  GroupingOK'
<1> DEFINE meta == storage_.meta
           pass == groupByBase(meta)
<1>1. /\ metas' = Append(metas, file_meta) /\ running' = FALSE /\ cut' = cut
      /\ frames' = Append(frames, pass) /\ storage_' = storage_
  <2>1. StoreOK(storage_)
    BY DEF ChunksOK
  <2> QED
    BY <2>1, SeekEndKeeps DEF EndAddFile
<1>2. stats' = [stats EXCEPT
        !.origin = @ + GroupedDeltaSize(meta),
        !.grouping_num = @ + Cardinality(LargeGroups(meta)),
        !.grouping_blocks = @ + GroupedBlocks(meta)]
  BY DEF EndAddFile
<1>3. pass \in Seq(Seq(Nat))
  BY RecordsLinked, GroupingIs
<1>4. GroupedDeltaSize(meta) = TotalLen(deltaChunks)
  <2>1. \A k \in 1..Len(cut) : meta[k].size = Len(cut[k])
    BY SizesAre
  <2>2. /\ Len(meta) = Len(cut) /\ deltaChunks \in Seq(Seq(Nat)) /\ Len(deltaChunks) = Len(cut)
    BY DeltasType DEF ChunksOK
  <2>3. \A k \in 1..Len(meta) :
          Len(deltaChunks[k]) = IF meta[k].type = DeltaChunk THEN meta[k].size ELSE 0
    <3> SUFFICES ASSUME NEW k \in 1..Len(meta)
                 PROVE  Len(deltaChunks[k]) = IF meta[k].type = DeltaChunk THEN meta[k].size ELSE 0
      OBVIOUS
    <3>1. k \in 1..Len(cut)
      BY <2>2
    <3>2. deltaChunks[k] = IF meta[k].type = DeltaChunk THEN cut[k] ELSE <<>>
      BY <3>1 DEF deltaChunks, RecordType
    <3> QED
      BY <2>1, <3>1, <3>2
  <2> HIDE DEF meta, deltaChunks
  <2> QED
    BY <2>2, <2>3, GroupedSizeIs
<1>5. /\ "origin" \in DOMAIN stats /\ stats.origin \in Nat
      /\ metas = <<>> => stats.origin + TotalLen(deltaChunks) = TotalLen(cut)
      /\ frames \in Seq(Seq(Seq(Nat)))
  BY DEF GroupingOK
<1>6. TotalLen(deltaChunks) \in Nat
  BY DeltasType
<1>7. metas \in Seq([start : Nat, end : Nat]) /\ file_meta \in [start : Nat, end : Nat]
  BY DEF LinesOK
<1>8. metas' # <<>> /\ (Len(metas') = 1 => metas = <<>>)
  <2> DEFINE Line == [start : Nat, end : Nat]
  <2> HIDE DEF Line
  <2>1. metas \in Seq(Line) /\ file_meta \in Line
    BY <1>7 DEF Line
  <2> QED
    BY <1>1, <2>1
<1> HIDE DEF pass, meta
<1>9. "origin" \in DOMAIN stats' /\ stats'.origin = stats.origin + TotalLen(deltaChunks)
  BY <1>2, <1>4, <1>5
<1>10. frames' \in Seq(Seq(Seq(Nat))) /\ Last(frames') = pass
  <2> DEFINE S == Seq(Seq(Nat))
  <2>1. frames \in Seq(S) /\ pass \in S
    BY <1>3, <1>5
  <2> HIDE DEF S
  <2>2. frames' \in Seq(S) /\ Last(frames') = pass
    BY <1>1, <2>1 DEF Last
  <2> QED
    BY <2>2 DEF S
<1>11. groupByBase(storage_'.meta) = pass
  BY <1>1 DEF pass, meta
<1>12. stats'.origin \in Nat /\ (Len(metas') = 1 => stats'.origin = TotalLen(cut'))
  BY <1>1, <1>5, <1>6, <1>8, <1>9
<1> QED
  BY <1>8, <1>9, <1>10, <1>11, <1>12 DEF GroupingOK

\* Every step keeps what has been compressed and counted right.
LEMMA GroupingNext ==
  ASSUME SmallChunks
  PROVE  ChunksOK /\ ChunksOK' /\ ClassesOK /\ LinesOK /\ GroupingOK /\ [Next]_vars
           => GroupingOK'
<1> SUFFICES ASSUME ChunksOK, ChunksOK', ClassesOK, LinesOK, GroupingOK, [Next]_vars
             PROVE  GroupingOK'
  OBVIOUS
<1>1. CASE AddBase \/ AddDelta
  BY <1>1, GroupingAdd
<1>2. CASE EndAddFile
  BY <1>2, GroupingEnd
<1>3. CASE \E f \in Files : StartAddFile(f)
  <2>1. UNCHANGED <<storage_, cut, frames, stats, metas>> /\ running' = TRUE
    BY <1>3 DEF StartAddFile
  <2>2. deltaChunks' = deltaChunks
    BY <2>1 DEF deltaChunks, RecordType
  <2> HIDE DEF deltaChunks
  <2> QED
    BY <2>1, <2>2 DEF GroupingOK
<1>4. CASE UNCHANGED vars
  <2>1. UNCHANGED <<storage_, cut, frames, stats, metas, running>>
    BY <1>4 DEF vars
  <2>2. deltaChunks' = deltaChunks
    BY <2>1 DEF deltaChunks, RecordType
  <2> HIDE DEF deltaChunks
  <2> QED
    BY <2>1, <2>2 DEF GroupingOK
<1> QED
  BY <1>1, <1>2, <1>3, <1>4 DEF Next

\* For as long as chunk ids do not wrap around, every grouping compresses each
\* chunk of the store once, with chunks of one base only, in frames that are not
\* too large; and if no chunk is too long for its record, the first file adds its
\* length to total_size_origin_.
THEOREM GroupingAlwaysRight ==
  ASSUME SmallChunks
  PROVE  Spec /\ []FewChunks => []GroupingRight
<1>1. ChunksOK /\ ClassesOK /\ GroupingOK => GroupingRight
  <2> SUFFICES ASSUME ChunksOK, ClassesOK, GroupingOK PROVE GroupingRight
    OBVIOUS
  <2>1. OriginOfOneFile
    BY DEF GroupingOK, OriginOfOneFile
  <2>2. GroupedOnce
    <3>1. GroupedRight(storage_.meta, groupByBase(storage_.meta))
      BY RecordsLinked, GroupingIs
    <3>2. Len(storage_.meta) = Len(cut)
      BY DEF ChunksOK
    <3>3. frames # <<>> /\ ~running => GroupedRight(storage_.meta, Last(frames))
      BY <3>1 DEF GroupingOK
    <3> QED
      BY <3>2, <3>3 DEF GroupedOnce, GroupedRight, RecordType
  <2> QED
    BY <2>1, <2>2 DEF GroupingRight
<1>2. /\ ChunksOK /\ ChunksOK' /\ ClassesOK /\ LinesOK /\ GroupingOK /\ [Next]_vars
           => GroupingOK'
  BY GroupingNext
<1>3. Spec /\ []FewChunks => [](ChunksOK /\ ClassesOK /\ LinesOK /\ GroupingOK)
  BY <1>2, ChunksInit, ChunksNext, ClassesInit, ClassesNext, LinesInit, LinesNext,
     GroupingInit, PTL DEF Spec
<1> QED
  BY <1>1, <1>3, PTL
=============================================================================
