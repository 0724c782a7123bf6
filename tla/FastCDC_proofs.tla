--------------------------- MODULE FastCDC_proofs ---------------------------
(***************************************************************************)
(* Proofs about FastCDC, for every file, every chunk size and every mask:  *)
(* it reads mapped memory only, splits a file into chunks without gap,     *)
(* overlap or loss, and decides by content alone where a chunk ends.       *)
(***************************************************************************)
EXTENDS FastCDC, SequenceTheorems, WellFoundedInduction, TLAPS

\* Every set of natural numbers that is not empty has a least element.
LEMMA LeastNat ==
  ASSUME NEW T, T \subseteq Nat, T # {}
  PROVE  \E x \in T : \A y \in T : x <= y
<1>1. PICK x \in T : \A y \in T : ~ (<<y, x>> \in OpToRel(<, Nat))
  BY NatLessThanWellFounded, WFMin
<1>2. \A y \in T : <<y, x>> \in OpToRel(<, Nat) <=> y < x
  BY DEF OpToRel
<1>3. \A y \in T : ~ (y < x)
  BY <1>1, <1>2, Zenon
<1> QED
  BY <1>3

ChunkRefs == [off : Nat, len : Nat, id : Nat]

FastTypeOK ==
  /\ file \in Seq(Byte)
  /\ live \in BOOLEAN /\ looping \in BOOLEAN
  /\ file_read_ptr \in Nat
  /\ remaining_file_len \in Nat
  /\ next_chunk_id_ \in Nat
  /\ chunks \in Seq(ChunkRefs)

\* While bytes are left, the pointer is behind the last chunk, and the next
\* chunk gets the id that follows.
PointerAfterChunks ==
  /\ looping /\ remaining_file_len > 0 => file_read_ptr = Covered(chunks)
  /\ chunks # <<>> => next_chunk_id_ = (chunks[Len(chunks)].id + 1) % IdSpace

\* Nothing is left over when a file is left, so that a file that cannot be
\* mapped has no chunks.
NothingLeft ==
  /\ ~looping => remaining_file_len = 0
  /\ looping /\ ~live => remaining_file_len = 0 /\ chunks = <<>> /\ file = <<>>

\* While bytes are left, no chunk is shorter than the minimum.
LongSoFar ==
  remaining_file_len > 0 /\ looping =>
    \A i \in 1..Len(chunks) : chunks[i].len >= MinChunkSize

\* The inductive invariant.
FastInv ==
  /\ FastTypeOK
  /\ PointerAfterChunks
  /\ NothingLeft
  /\ LongSoFar
  /\ Tiles
  /\ SizesBounded
  /\ ReadsMapped
  /\ WholeFileReturned
  /\ split \in Seq([content : Seq(Byte), chunks : Seq(ChunkRefs)])
-----------------------------------------------------------------------------
\* Chunks cover a number of bytes.
LEMMA CoveredNat ==
  ASSUME NEW cs \in Seq(ChunkRefs) PROVE Covered(cs) \in Nat
<1>1. CASE cs = <<>>
  BY <1>1 DEF Covered
<1>2. CASE cs # <<>>
  <2>1. Len(cs) \in 1..Len(cs)
    BY <1>2
  <2>2. cs[Len(cs)] \in ChunkRefs
    BY <2>1
  <2>3. cs[Len(cs)].off \in Nat /\ cs[Len(cs)].len \in Nat
    BY <2>2 DEF ChunkRefs
  <2> QED
    BY <1>2, <2>3 DEF Covered
<1> QED
  BY <1>1, <1>2

\* A chunk that begins where the others end extends the tiling by its length.
LEMMA AppendTiles ==
  ASSUME NEW cs \in Seq(ChunkRefs), Contiguous(cs),
         NEW c \in ChunkRefs, c.len > 0, c.off = Covered(cs),
         cs # <<>> => c.id = (cs[Len(cs)].id + 1) % IdSpace
  PROVE  /\ Append(cs, c) \in Seq(ChunkRefs)
         /\ Contiguous(Append(cs, c))
         /\ Covered(Append(cs, c)) = Covered(cs) + c.len
<1>1. /\ Append(cs, c) \in Seq(ChunkRefs)
      /\ Len(Append(cs, c)) = Len(cs) + 1
      /\ Append(cs, c)[Len(cs) + 1] = c
      /\ \A i \in 1..Len(cs) : Append(cs, c)[i] = cs[i]
      /\ Len(cs) \in Nat
  OBVIOUS
<1>2. Covered(Append(cs, c)) = Covered(cs) + c.len
  <2> DEFINE all == Append(cs, c)
  <2>1. all \in Seq(ChunkRefs) /\ Len(all) = Len(cs) + 1 /\ all[Len(cs) + 1] = c
    BY <1>1
  <2> HIDE DEF all
  <2>2. all # <<>>
    BY <1>1, <2>1
  <2>3. all[Len(all)] = c
    BY <2>1
  <2>4. Covered(all) = c.off + c.len
    BY <2>2, <2>3 DEF Covered
  <2> QED
    BY <2>4 DEF all
<1>3. ASSUME NEW i \in 1..Len(cs) + 1
      PROVE  /\ Append(cs, c)[i].len > 0
             /\ Append(cs, c)[i].off = IF i = 1 THEN 0
                  ELSE Append(cs, c)[i-1].off + Append(cs, c)[i-1].len
             /\ i > 1 => Append(cs, c)[i].id = (Append(cs, c)[i-1].id + 1) % IdSpace
  <2>1. CASE i \in 1..Len(cs)
    BY <1>1, <2>1 DEF Contiguous
  <2>2. CASE i = Len(cs) + 1 /\ cs = <<>>
    BY <1>1, <2>2 DEF Covered
  <2>3. CASE i = Len(cs) + 1 /\ cs # <<>>
    <3>1. i - 1 = Len(cs) /\ i > 1 /\ i - 1 \in 1..Len(cs)
      BY <1>1, <2>3
    <3> QED
      BY <1>1, <2>3, <3>1 DEF Covered
  <2> QED
    BY <1>3, <2>1, <2>2, <2>3, <1>1
<1> QED
  BY <1>1, <1>2, <1>3 DEF Contiguous

\* The size of a chunk cut by the loops is positive, at most what is left, at
\* least the minimum and at most the maximum.
LEMMA CutSizeBounds ==
  ASSUME FastTypeOK, remaining_file_len > MinChunkSize, NEW size \in CutSizes
  PROVE  /\ size \in 1..remaining_file_len
         /\ size >= MinChunkSize
         /\ size <= MaxChunkSize \/ size <= MinChunkSize
<1>1. remaining_file_len \in Nat
  BY DEF FastTypeOK
<1>2. /\ LastSize \in Nat \ {0} /\ LastSize <= remaining_file_len
      /\ LastSize <= MaxChunkSize
  BY <1>1, ChunkerAssumption DEF LastSize
<1>3. CASE Hits # {}
  <2>1. size \in MinChunkSize + 1..LastSize
    BY <1>3 DEF CutSizes, Hits
  <2> QED
    BY <1>1, <1>2, <2>1, ChunkerAssumption
<1>4. CASE Hits = {}
  <2>1. size = IF LastSize < MinChunkSize THEN MinChunkSize ELSE LastSize
    BY <1>4 DEF CutSizes
  <2> QED
    BY <1>1, <1>2, <2>1, ChunkerAssumption
<1> QED
  BY <1>3, <1>4

\* Returning a chunk at the pointer, of no more than what is left, keeps the
\* chunks in place and reads mapped memory.
LEMMA ReturnStep ==
  ASSUME FastInv, looping, NEW size \in 1..remaining_file_len,
         Read(size), ReturnChunk(size)
  PROVE  /\ chunks' \in Seq(ChunkRefs) /\ Contiguous(chunks')
         /\ Covered(chunks') = Covered(chunks) + size
         /\ Len(chunks') = Len(chunks) + 1
         /\ chunks'[Len(chunks')].len = size
         /\ \A i \in 1..Len(chunks) : chunks'[i] = chunks[i]
         /\ next_chunk_id_' \in Nat
         /\ next_chunk_id_' = (chunks'[Len(chunks')].id + 1) % IdSpace
         /\ live /\ ~faulted'
         /\ file_read_ptr = Covered(chunks) /\ file_read_ptr \in Nat
<1>1. /\ chunks \in Seq(ChunkRefs) /\ remaining_file_len \in Nat
      /\ next_chunk_id_ \in Nat /\ live \in BOOLEAN /\ file_read_ptr \in Nat
      /\ file \in Seq(Byte)
  BY DEF FastInv, FastTypeOK
<1>2. live /\ file_read_ptr = Covered(chunks)
  BY <1>1 DEF FastInv, NothingLeft, PointerAfterChunks
<1>3. Covered(chunks) + remaining_file_len = Len(file) /\ Contiguous(chunks)
  BY <1>2 DEF FastInv, Tiles
<1> DEFINE c == [off |-> file_read_ptr, len |-> size, id |-> next_chunk_id_]
<1>4. c \in ChunkRefs /\ c.len > 0 /\ c.off = Covered(chunks)
  BY <1>1, <1>2 DEF ChunkRefs
<1>5. chunks # <<>> => c.id = (chunks[Len(chunks)].id + 1) % IdSpace
  BY DEF FastInv, PointerAfterChunks
<1>6. chunks' = Append(chunks, c) /\ next_chunk_id_' = (c.id + 1) % IdSpace
  BY DEF ReturnChunk
<1>7. /\ chunks' \in Seq(ChunkRefs) /\ Contiguous(chunks')
      /\ Covered(chunks') = Covered(chunks) + size
  <2> HIDE DEF c
  <2>1. /\ Append(chunks, c) \in Seq(ChunkRefs) /\ Contiguous(Append(chunks, c))
        /\ Covered(Append(chunks, c)) = Covered(chunks) + c.len
    BY <1>1, <1>3, <1>4, <1>5, AppendTiles
  <2>2. c.len = size
    BY DEF c
  <2> QED
    BY <1>6, <2>1, <2>2
<1>8. /\ Len(chunks') = Len(chunks) + 1 /\ chunks'[Len(chunks')] = c
      /\ \A i \in 1..Len(chunks) : chunks'[i] = chunks[i]
  BY <1>1, <1>4, <1>6
<1>9. next_chunk_id_' \in Nat
  BY <1>1, <1>6, ChunkerAssumption
<1>10. ~faulted'
  <2>1. file_read_ptr + size <= Len(file) /\ file_read_ptr + size \in Nat
    BY <1>1, <1>2, <1>3
  <2>2. ~(file_read_ptr + size > Len(file))
    BY <1>1, <2>1
  <2>3. ~faulted
    BY DEF FastInv, ReadsMapped
  <2> QED
    BY <1>2, <2>2, <2>3 DEF Read
<1> QED
  BY <1>1, <1>2, <1>6, <1>7, <1>8, <1>9, <1>10
-----------------------------------------------------------------------------
\* The invariant holds initially ...
LEMMA FastInit == Init => FastInv
<1> SUFFICES ASSUME Init PROVE FastInv
  OBVIOUS
<1>1. /\ file = <<>> /\ live = FALSE /\ looping = FALSE /\ faulted = FALSE
      /\ file_read_ptr = 0 /\ remaining_file_len = 0 /\ next_chunk_id_ = 0
      /\ chunks = <<>> /\ split = <<>>
  BY DEF Init, ChunkerInit
<1>2. FastTypeOK
  <2>1. <<>> \in Seq(Byte) /\ <<>> \in Seq(ChunkRefs)
    OBVIOUS
  <2>2. FALSE \in BOOLEAN /\ 0 \in Nat
    OBVIOUS
  <2> QED
    BY <1>1, <2>1, <2>2 DEF FastTypeOK
<1>3. PointerAfterChunks
  BY <1>1 DEF PointerAfterChunks
<1>4. NothingLeft
  BY <1>1 DEF NothingLeft
<1>5. LongSoFar
  <2>1. ~(remaining_file_len > 0)
    BY <1>1
  <2> QED
    BY <2>1 DEF LongSoFar
<1>6. Tiles /\ SizesBounded
  BY <1>1 DEF Tiles, Contiguous, SizesBounded
<1>7. ReadsMapped /\ WholeFileReturned
  BY <1>1 DEF ReadsMapped, WholeFileReturned
<1> QED
  BY <1>1, <1>2, <1>3, <1>4, <1>5, <1>6, <1>7 DEF FastInv

\* ... and every step keeps it.
LEMMA FastStep == FastInv /\ [Next]_fileVars => FastInv'
<1> SUFFICES ASSUME FastInv, [Next]_fileVars PROVE FastInv'
  OBVIOUS
<1>t. FastTypeOK
  BY DEF FastInv
<1>1. ASSUME NEW f \in Inputs, MapFile(f) PROVE FastInv'
  <2>1. f \in Seq(Byte) /\ Len(f) \in Nat
    BY ChunkerAssumption
  <2>2. /\ looping' = TRUE /\ file' = f /\ live' = (f # <<>>) /\ chunks' = <<>>
        /\ file_read_ptr' = IF f = <<>> THEN file_read_ptr ELSE 0
        /\ remaining_file_len' = IF f = <<>> THEN remaining_file_len ELSE Len(f)
        /\ UNCHANGED <<next_chunk_id_, faulted, split>> /\ ~looping
    BY <1>1 DEF MapFile
  <2>3. remaining_file_len = 0
    BY <2>2 DEF FastInv, NothingLeft
  <2>4. FastTypeOK'
    BY <1>t, <2>1, <2>2 DEF FastTypeOK
  <2>5. PointerAfterChunks' /\ NothingLeft' /\ LongSoFar' /\ Tiles'
    <3>1. Covered(chunks') = 0 /\ Contiguous(chunks')
      BY <2>2 DEF Covered, Contiguous
    <3>2. PointerAfterChunks'
      BY <2>2, <2>3, <3>1 DEF PointerAfterChunks, Covered
    <3>3. NothingLeft'
      BY <2>2, <2>3 DEF NothingLeft
    <3>4. LongSoFar'
      <4>1. Len(chunks') = 0
        BY <2>2
      <4> QED
        BY <4>1 DEF LongSoFar
    <3>5. live' => Covered(chunks') + remaining_file_len' = Len(file')
      <4>1. CASE f = <<>>
        BY <2>2, <4>1
      <4>2. CASE f # <<>>
        <5>1. remaining_file_len' = Len(f) /\ file' = f
          BY <2>2, <4>2
        <5> QED
          BY <2>1, <3>1, <5>1
      <4> QED
        BY <4>1, <4>2
    <3>6. Tiles'
      BY <3>1, <3>5 DEF Tiles, Contiguous, Covered
    <3> QED
      BY <3>2, <3>3, <3>4, <3>6
  <2>6. SizesBounded' /\ ReadsMapped' /\ WholeFileReturned'
    BY <2>2 DEF FastInv, SizesBounded, ReadsMapped, WholeFileReturned, Covered
  <2> QED
    BY <2>2, <2>4, <2>5, <2>6 DEF FastInv
<1>2. CASE EndOfFile
  <2>1. /\ looping /\ remaining_file_len = 0 /\ looping' = FALSE
        /\ split' = Append(split, [content |-> file, chunks |-> chunks])
        /\ UNCHANGED <<file, live, file_read_ptr, remaining_file_len,
                       next_chunk_id_, chunks, faulted>>
    BY <1>2 DEF EndOfFile, ReturnNull
  <2>2. Covered(chunks) = Len(file)
    <3>1. CASE live
      <4>1. Covered(chunks) + 0 = Len(file)
        BY <2>1, <3>1 DEF FastInv, Tiles
      <4>2. Covered(chunks) \in Nat
        BY <1>t, CoveredNat DEF FastTypeOK
      <4> QED
        BY <4>1, <4>2
    <3>2. CASE ~live
      BY <2>1, <3>2 DEF FastInv, NothingLeft, Covered
    <3> QED
      BY <3>1, <3>2
  <2>3. FastTypeOK' /\ Tiles'
    BY <1>t, <2>1 DEF FastInv, FastTypeOK, Tiles, Contiguous
  <2>4. PointerAfterChunks' /\ NothingLeft' /\ LongSoFar'
    BY <2>1 DEF FastInv, PointerAfterChunks, NothingLeft, LongSoFar
  <2>5. SizesBounded' /\ ReadsMapped'
    BY <2>1 DEF FastInv, SizesBounded, ReadsMapped
  <2> DEFINE Split == [content : Seq(Byte), chunks : Seq(ChunkRefs)]
             s     == [content |-> file, chunks |-> chunks]
  <2>6. split \in Seq(Split) /\ s \in Split
    BY <1>t DEF FastInv, FastTypeOK
  <2>7. split' \in Seq(Split)
    BY <2>1, <2>6
  <2>8. WholeFileReturned'
    <3>1. Covered(s.chunks) = Len(s.content)
      BY <2>2
    <3>2. \A k \in 1..Len(split) : Covered(split[k].chunks) = Len(split[k].content)
      BY DEF FastInv, WholeFileReturned
    <3> HIDE DEF s, Split
    <3>3. /\ Len(split') = Len(split) + 1 /\ split'[Len(split) + 1] = s
          /\ \A k \in 1..Len(split) : split'[k] = split[k]
          /\ Len(split) \in Nat
      BY <2>1, <2>6 DEF s
    <3>4. \A k \in 1..Len(split') : Covered(split'[k].chunks) = Len(split'[k].content)
      BY <3>1, <3>2, <3>3
    <3> QED
      BY <3>4 DEF WholeFileReturned, Covered
  <2> QED
    BY <2>3, <2>4, <2>5, <2>7, <2>8 DEF FastInv
<1>3. CASE ShortChunk
  <2>1. /\ looping /\ remaining_file_len \in 1..MinChunkSize
        /\ remaining_file_len' = 0 /\ file_read_ptr' = file_read_ptr
        /\ Read(remaining_file_len) /\ ReturnChunk(remaining_file_len)
    BY <1>3 DEF ShortChunk
  <2>2. remaining_file_len \in 1..remaining_file_len
    BY <2>1, ChunkerAssumption
  <2>3. UNCHANGED <<file, live, looping, split>>
    BY <2>1 DEF ReturnChunk
  <2>4. /\ chunks' \in Seq(ChunkRefs) /\ Contiguous(chunks')
        /\ Covered(chunks') = Covered(chunks) + remaining_file_len
        /\ Len(chunks') = Len(chunks) + 1
        /\ chunks'[Len(chunks')].len = remaining_file_len
        /\ \A i \in 1..Len(chunks) : chunks'[i] = chunks[i]
        /\ next_chunk_id_' \in Nat
        /\ next_chunk_id_' = (chunks'[Len(chunks')].id + 1) % IdSpace
        /\ live /\ ~faulted'
        /\ file_read_ptr \in Nat
    BY <2>1, <2>2, ReturnStep
  <2>5. FastTypeOK'
    BY <1>t, <2>1, <2>3, <2>4 DEF FastTypeOK
  <2>6. PointerAfterChunks' /\ NothingLeft' /\ LongSoFar'
    BY <2>1, <2>3, <2>4 DEF PointerAfterChunks, NothingLeft, LongSoFar
  <2>7. Tiles'
    <3>1. Covered(chunks) + remaining_file_len = Len(file)
      BY <2>1, <2>4 DEF FastInv, Tiles
    <3>2. Covered(chunks') + 0 = Len(file)
      <4>1. Covered(chunks) \in Nat
        BY <1>t, CoveredNat DEF FastTypeOK
      <4> QED
        BY <2>4, <2>1, <3>1, <4>1, ChunkerAssumption
    <3> QED
      BY <2>1, <2>3, <2>4, <3>2 DEF Tiles, Contiguous, Covered
  <2>8. SizesBounded'
    <3>1. \A i \in 1..Len(chunks) : chunks[i].len >= MinChunkSize
      BY <2>1, ChunkerAssumption DEF FastInv, LongSoFar
    <3>2. Len(chunks) \in Nat /\ \A i \in 1..Len(chunks) :
            chunks[i].len <= MaxChunkSize \/ chunks[i].len <= MinChunkSize
      BY <1>t DEF FastInv, FastTypeOK, SizesBounded
    <3>3. chunks'[Len(chunks')].len <= MinChunkSize
      BY <2>1, <2>4, ChunkerAssumption
    <3>4. \A i \in 1..Len(chunks') :
            /\ chunks'[i].len <= MaxChunkSize \/ chunks'[i].len <= MinChunkSize
            /\ chunks'[i].len >= MinChunkSize \/ i = Len(chunks')
      BY <2>4, <3>1, <3>2, <3>3
    <3> QED
      BY <3>4 DEF SizesBounded
  <2>9. ReadsMapped' /\ WholeFileReturned'
    BY <2>3, <2>4 DEF FastInv, ReadsMapped, WholeFileReturned, Covered
  <2> QED
    BY <2>3, <2>5, <2>6, <2>7, <2>8, <2>9 DEF FastInv
<1>4. CASE CutChunk
  <2>1. PICK size \in CutSizes :
          /\ Read(size) /\ ReturnChunk(size)
          /\ file_read_ptr' = file_read_ptr + size
          /\ remaining_file_len' = remaining_file_len - size
    BY <1>4 DEF CutChunk
  <2>2. looping /\ remaining_file_len > MinChunkSize /\ remaining_file_len \in Nat
    BY <1>4, <1>t DEF CutChunk, FastTypeOK
  <2>3. /\ size \in 1..remaining_file_len /\ size >= MinChunkSize
        /\ size <= MaxChunkSize \/ size <= MinChunkSize
    BY <1>t, <2>2, CutSizeBounds
  <2>4. UNCHANGED <<file, live, looping, split>>
    BY <2>1 DEF ReturnChunk
  <2>5. /\ chunks' \in Seq(ChunkRefs) /\ Contiguous(chunks')
        /\ Covered(chunks') = Covered(chunks) + size
        /\ Len(chunks') = Len(chunks) + 1
        /\ chunks'[Len(chunks')].len = size
        /\ \A i \in 1..Len(chunks) : chunks'[i] = chunks[i]
        /\ next_chunk_id_' \in Nat
        /\ next_chunk_id_' = (chunks'[Len(chunks')].id + 1) % IdSpace
        /\ live /\ ~faulted'
        /\ file_read_ptr = Covered(chunks) /\ file_read_ptr \in Nat
    BY <2>1, <2>2, <2>3, ReturnStep
  <2>6. FastTypeOK'
    BY <1>t, <2>1, <2>2, <2>3, <2>4, <2>5 DEF FastTypeOK
  <2>7. PointerAfterChunks' /\ NothingLeft'
    <3>1. file_read_ptr' = Covered(chunks')
      BY <2>1, <2>5
    <3> QED
      BY <2>2, <2>4, <2>5, <3>1 DEF PointerAfterChunks, NothingLeft, Covered
  <2>8. LongSoFar' /\ SizesBounded'
    <3>1. \A i \in 1..Len(chunks) : chunks[i].len >= MinChunkSize
      BY <2>2, ChunkerAssumption DEF FastInv, LongSoFar
    <3>2. Len(chunks) \in Nat /\ \A i \in 1..Len(chunks) :
            chunks[i].len <= MaxChunkSize \/ chunks[i].len <= MinChunkSize
      BY <1>t DEF FastInv, FastTypeOK, SizesBounded
    <3>3. \A i \in 1..Len(chunks') :
            /\ chunks'[i].len >= MinChunkSize
            /\ chunks'[i].len <= MaxChunkSize \/ chunks'[i].len <= MinChunkSize
      BY <2>3, <2>5, <3>1, <3>2
    <3> QED
      BY <3>3 DEF LongSoFar, SizesBounded
  <2>9. Tiles'
    <3>1. Covered(chunks) + remaining_file_len = Len(file)
      BY <2>2, <2>5 DEF FastInv, Tiles
    <3>2. Covered(chunks) \in Nat
      BY <2>5
    <3>3. Covered(chunks') + remaining_file_len' = Len(file)
      BY <2>1, <2>2, <2>3, <2>5, <3>1, <3>2
    <3> QED
      BY <2>4, <2>5, <3>3 DEF Tiles, Contiguous, Covered
  <2>10. ReadsMapped' /\ WholeFileReturned'
    BY <2>4, <2>5 DEF FastInv, ReadsMapped, WholeFileReturned, Covered
  <2> QED
    BY <2>4, <2>6, <2>7, <2>8, <2>9, <2>10 DEF FastInv
<1>5. CASE UNCHANGED fileVars
  BY <1>5 DEF fileVars, FastInv, FastTypeOK, PointerAfterChunks, NothingLeft,
     LongSoFar, Tiles, Contiguous, Covered, SizesBounded, ReadsMapped,
     WholeFileReturned
<1> QED
  BY <1>1, <1>2, <1>3, <1>4, <1>5 DEF Next, GetNextChunk

\* The inductive invariant holds always.
LEMMA FastInvariant == Spec => []FastInv
BY FastInit, FastStep, PTL DEF Spec

\* GetNextChunk splits every file without gap or overlap.
THEOREM FastTiles == Spec => []Tiles
<1>1. FastInv => Tiles
  BY DEF FastInv
<1> QED
  BY <1>1, FastInvariant, PTL

\* GetNextChunk keeps to the sizes of the configuration.
THEOREM FastSizes == Spec => []SizesBounded
<1>1. FastInv => SizesBounded
  BY DEF FastInv
<1> QED
  BY <1>1, FastInvariant, PTL

\* GetNextChunk reads nothing but the mapped file, also when a file cannot be
\* mapped and the return value of ReinitWithFile is ignored.
THEOREM FastReadsMapped == Spec => []ReadsMapped
<1>1. FastInv => ReadsMapped
  BY DEF FastInv
<1> QED
  BY <1>1, FastInvariant, PTL

\* GetNextChunk returns every byte of every file before it returns nullptr.
THEOREM FastLossless == Spec => []WholeFileReturned
<1>1. FastInv => WholeFileReturned
  BY DEF FastInv
<1> QED
  BY <1>1, FastInvariant, PTL
-----------------------------------------------------------------------------
\* What follows the first off bytes of s.
After(s, off) == SubSeq(s, off + 1, Len(s))

\* The hits in r, of which a chunk is to be cut, and how its size follows from r
\* alone.
LastSizeIn(r) == IF Len(r) < MaxChunkSize THEN Len(r) ELSE MaxChunkSize

HitsIn(r) ==
  {size \in MinChunkSize + 1..LastSizeIn(r) : Window(SubSeq(r, 1, size)) \in Stop}

SizeFor(r, size) ==
  IF Len(r) <= MinChunkSize THEN size = Len(r)
  ELSE IF HitsIn(r) # {}
    THEN size \in HitsIn(r) /\ \A other \in HitsIn(r) : size <= other
  ELSE size = IF LastSizeIn(r) < MinChunkSize THEN MinChunkSize ELSE LastSizeIn(r)

\* Every chunk is cut off what follows its first byte.
CutByContent(content, cs) ==
  \A i \in 1..Len(cs) :
    /\ cs[i].off + cs[i].len <= Len(content)
    /\ SizeFor(After(content, cs[i].off), cs[i].len)

\* A file that was split into chunks.
WellSplit(s) ==
  /\ s.content \in Seq(Byte) /\ s.chunks \in Seq(ChunkRefs)
  /\ Contiguous(s.chunks) /\ Covered(s.chunks) = Len(s.content)
  /\ CutByContent(s.content, s.chunks)

\* The invariant: the file in hand and the files before are split by content.
ContentInv ==
  /\ CutByContent(file, chunks)
  /\ \A k \in 1..Len(split) : WellSplit(split[k])
-----------------------------------------------------------------------------
\* What follows some bytes, and what follows more of them.
LEMMA AfterIs ==
  ASSUME NEW s \in Seq(Byte), NEW off \in 0..Len(s)
  PROVE  /\ After(s, off) \in Seq(Byte) /\ Len(After(s, off)) = Len(s) - off
         /\ \A i \in 1..Len(s) - off : After(s, off)[i] = s[off + i]
BY DEF After

LEMMA AfterAfter ==
  ASSUME NEW s \in Seq(Byte), NEW a \in Nat, NEW b \in Nat, a + b <= Len(s)
  PROVE  After(After(s, a), b) = After(s, a + b)
<1>1. a \in 0..Len(s) /\ a + b \in 0..Len(s) /\ Len(s) \in Nat
  OBVIOUS
<1>2. /\ After(s, a) \in Seq(Byte) /\ Len(After(s, a)) = Len(s) - a
      /\ \A i \in 1..Len(s) - a : After(s, a)[i] = s[a + i]
  BY <1>1, AfterIs
<1>3. /\ After(s, a + b) \in Seq(Byte) /\ Len(After(s, a + b)) = Len(s) - (a + b)
      /\ \A i \in 1..Len(s) - (a + b) : After(s, a + b)[i] = s[(a + b) + i]
  BY <1>1, AfterIs
<1> DEFINE r == After(s, a)
<1>4. r \in Seq(Byte) /\ b \in 0..Len(r)
  BY <1>1, <1>2
<1> HIDE DEF r
<1>5. /\ After(r, b) \in Seq(Byte) /\ Len(After(r, b)) = Len(r) - b
      /\ \A i \in 1..Len(r) - b : After(r, b)[i] = r[b + i]
  BY <1>4, AfterIs
<1>6. Len(r) - b = Len(s) - (a + b)
  BY <1>1, <1>2 DEF r
<1>7. ASSUME NEW i \in 1..Len(r) - b
      PROVE  After(r, b)[i] = After(s, a + b)[i]
  <2>1. i \in 1..Len(s) - (a + b) /\ b + i \in 1..Len(s) - a /\ a + (b + i) = (a + b) + i
    BY <1>1, <1>6
  <2>2. r[b + i] = s[a + (b + i)]
    BY <1>2, <2>1 DEF r
  <2>3. After(s, a + b)[i] = s[(a + b) + i]
    BY <1>3, <2>1
  <2> QED
    BY <1>5, <2>1, <2>2, <2>3
<1>8. Len(After(r, b)) = Len(After(s, a + b))
  BY <1>3, <1>5, <1>6
<1>9. \A i \in 1..Len(After(r, b)) : After(r, b)[i] = After(s, a + b)[i]
  BY <1>5, <1>7
<1>10. After(r, b) = After(s, a + b)
  BY <1>3, <1>5, <1>8, <1>9, SeqEqual
<1> QED
  BY <1>10 DEF r

\* The first bytes of what follows are bytes in the middle.
LEMMA MiddleIs ==
  ASSUME NEW s \in Seq(Byte), NEW a \in Nat, NEW size \in Nat, a + size <= Len(s)
  PROVE  SubSeq(After(s, a), 1, size) = SubSeq(s, a + 1, a + size)
<1>1. a \in 0..Len(s) /\ Len(s) \in Nat
  OBVIOUS
<1>2. /\ After(s, a) \in Seq(Byte) /\ Len(After(s, a)) = Len(s) - a
      /\ \A i \in 1..Len(s) - a : After(s, a)[i] = s[a + i]
  BY <1>1, AfterIs
<1> DEFINE r == After(s, a)
           x == SubSeq(r, 1, size)
           y == SubSeq(s, a + 1, a + size)
<1>3. r \in Seq(Byte) /\ size <= Len(r) /\ Len(r) \in Nat
  BY <1>1, <1>2
<1>4. y \in Seq(Byte) /\ Len(y) = size /\ \A i \in 1..size : y[i] = s[a + i]
  BY <1>1
<1> HIDE DEF r
<1>5. x \in Seq(Byte) /\ Len(x) = size /\ \A i \in 1..size : x[i] = r[i]
  BY <1>3
<1>6. \A i \in 1..size : i \in 1..Len(s) - a
  BY <1>1
<1>7. \A i \in 1..size : x[i] = y[i]
  BY <1>2, <1>4, <1>5, <1>6 DEF r
<1> HIDE DEF x, y
<1>8. x = y
  BY <1>4, <1>5, <1>7, SeqEqual
<1> QED
  BY <1>8 DEF x, y, r

\* What follows decides the size.
LEMMA SizeUnique ==
  ASSUME NEW r \in Seq(Byte), NEW a \in Nat, NEW b \in Nat,
         SizeFor(r, a), SizeFor(r, b)
  PROVE  a = b
<1>1. CASE Len(r) <= MinChunkSize \/ HitsIn(r) = {}
  BY <1>1 DEF SizeFor
<1>2. CASE ~(Len(r) <= MinChunkSize) /\ HitsIn(r) # {}
  <2>1. a \in HitsIn(r) /\ b \in HitsIn(r) /\ a <= b /\ b <= a
    BY <1>2 DEF SizeFor
  <2> QED
    BY <2>1
<1> QED
  BY <1>1, <1>2
-----------------------------------------------------------------------------
\* Where the chunks of a file that was split begin.
Off(s, i) == Covered(SubSeq(s.chunks, 1, i))

LEMMA OffIs ==
  ASSUME NEW s, WellSplit(s)
  PROVE  /\ Len(s.chunks) \in Nat /\ Len(s.content) \in Nat
         /\ Off(s, Len(s.chunks)) = Len(s.content)
         /\ \A i \in 0..Len(s.chunks) - 1 :
              /\ s.chunks[i + 1] \in ChunkRefs /\ s.chunks[i + 1].len > 0
              /\ Off(s, i) = s.chunks[i + 1].off
              /\ Off(s, i + 1) = Off(s, i) + s.chunks[i + 1].len
              /\ Off(s, i) \in Nat /\ Off(s, i + 1) <= Len(s.content)
              /\ SizeFor(After(s.content, Off(s, i)), s.chunks[i + 1].len)
<1> DEFINE cs == s.chunks
           n == Len(cs)
<1>1. /\ cs \in Seq(ChunkRefs) /\ Contiguous(cs) /\ Covered(cs) = Len(s.content)
      /\ CutByContent(s.content, cs) /\ s.content \in Seq(Byte)
  BY DEF WellSplit
<1> HIDE DEF cs
<1>2. n \in Nat /\ Len(s.content) \in Nat
  BY <1>1
<1>3. SubSeq(cs, 1, n) = cs
  <2>1. SubSeq(cs, 1, n) \in Seq(ChunkRefs) /\ Len(SubSeq(cs, 1, n)) = n
        /\ \A i \in 1..n : SubSeq(cs, 1, n)[i] = cs[i]
    BY <1>1, <1>2
  <2> QED
    BY <1>1, <2>1, SeqEqual
<1>4. ASSUME NEW i \in 1..n
      PROVE  Covered(SubSeq(cs, 1, i)) = cs[i].off + cs[i].len
  <2> DEFINE p == SubSeq(cs, 1, i)
  <2>1. p \in Seq(ChunkRefs) /\ Len(p) = i /\ p[i] = cs[i]
    BY <1>1, <1>2
  <2> HIDE DEF p
  <2>2. p # <<>>
    BY <1>2, <2>1
  <2>3. Covered(p) = cs[i].off + cs[i].len
    BY <2>1, <2>2 DEF Covered
  <2> QED
    BY <2>3 DEF p
<1>5. Covered(SubSeq(cs, 1, 0)) = 0
  <2>1. SubSeq(cs, 1, 0) = <<>>
    BY <1>1
  <2> QED
    BY <2>1 DEF Covered
<1>6. ASSUME NEW i \in 0..n - 1
      PROVE  /\ cs[i + 1] \in ChunkRefs /\ cs[i + 1].len > 0
             /\ Off(s, i) = cs[i + 1].off
             /\ Off(s, i + 1) = Off(s, i) + cs[i + 1].len
             /\ Off(s, i) \in Nat /\ Off(s, i + 1) <= Len(s.content)
             /\ SizeFor(After(s.content, Off(s, i)), cs[i + 1].len)
  <2>1. i + 1 \in 1..n /\ (i + 1 = 1 <=> i = 0) /\ (i # 0 => i \in 1..n) /\ (i + 1) - 1 = i
    BY <1>2
  <2>2. cs[i + 1] \in ChunkRefs
    BY <1>1, <2>1
  <2>3. cs[i + 1].len > 0 /\ cs[i + 1].off = IF i = 0 THEN 0 ELSE cs[i].off + cs[i].len
    BY <1>1, <2>1 DEF Contiguous
  <2>4. Off(s, i) = cs[i + 1].off
    BY <1>4, <1>5, <2>1, <2>3 DEF Off, cs
  <2>5. Off(s, i + 1) = cs[i + 1].off + cs[i + 1].len
    BY <1>4, <2>1 DEF Off, cs
  <2>6. /\ cs[i + 1].off + cs[i + 1].len <= Len(s.content)
        /\ SizeFor(After(s.content, cs[i + 1].off), cs[i + 1].len)
    BY <1>1, <2>1 DEF CutByContent
  <2> QED
    BY <2>2, <2>3, <2>4, <2>5, <2>6 DEF ChunkRefs
<1>7. Off(s, n) = Len(s.content)
  BY <1>1, <1>3 DEF Off, cs
<1> QED
  BY <1>2, <1>6, <1>7 DEF cs

\* The rest of a file after some of its chunks: empty after the last, and
\* otherwise what decides the next chunk and the rest after that.
LEMMA RestIs ==
  ASSUME NEW s, WellSplit(s), NEW i \in 0..Len(s.chunks)
  PROVE  /\ Rest(s, i) \in Seq(Byte)
         /\ i = Len(s.chunks) => Len(Rest(s, i)) = 0
         /\ i < Len(s.chunks) =>
              /\ Len(Rest(s, i)) > 0
              /\ s.chunks[i + 1].len \in Nat
              /\ SizeFor(Rest(s, i), s.chunks[i + 1].len)
              /\ Rest(s, i + 1) = After(Rest(s, i), s.chunks[i + 1].len)
<1> DEFINE n == Len(s.chunks)
           off == Off(s, i)
           c == s.content
           size == s.chunks[i + 1].len
<1>1. /\ n \in Nat /\ Len(c) \in Nat /\ Off(s, n) = Len(c) /\ c \in Seq(Byte)
      /\ \A m \in 0..n - 1 :
           /\ s.chunks[m + 1] \in ChunkRefs /\ s.chunks[m + 1].len > 0
           /\ Off(s, m) = s.chunks[m + 1].off
           /\ Off(s, m + 1) = Off(s, m) + s.chunks[m + 1].len
           /\ Off(s, m) \in Nat /\ Off(s, m + 1) <= Len(c)
           /\ SizeFor(After(c, Off(s, m)), s.chunks[m + 1].len)
  BY OffIs DEF WellSplit
<1>2. \A m : Rest(s, m) = After(c, Off(s, m))
  BY DEF Rest, After, Off
<1>3. CASE i = n
  <2>1. Len(c) \in 0..Len(c)
    BY <1>1
  <2>2. After(c, Len(c)) \in Seq(Byte) /\ Len(After(c, Len(c))) = Len(c) - Len(c)
    BY <1>1, <2>1, AfterIs
  <2>3. Rest(s, i) = After(c, Len(c))
    BY <1>1, <1>2, <1>3
  <2> QED
    BY <1>1, <1>3, <2>2, <2>3
<1>4. CASE i < n
  <2>1. i \in 0..n - 1
    BY <1>1, <1>4
  <2>2. /\ s.chunks[i + 1] \in ChunkRefs /\ size > 0
        /\ Off(s, i + 1) = off + size
        /\ off \in Nat /\ Off(s, i + 1) <= Len(c)
        /\ SizeFor(After(c, off), size)
    BY <1>1, <2>1
  <2>3. size \in Nat
    BY <2>2 DEF ChunkRefs
  <2> HIDE DEF off, size, n
  <2>4. off \in 0..Len(c) /\ off + size <= Len(c) /\ Len(c) - off > 0
    BY <1>1, <2>2, <2>3
  <2>5. After(c, off) \in Seq(Byte) /\ Len(After(c, off)) = Len(c) - off
    BY <1>1, <2>4, AfterIs
  <2>6. After(After(c, off), size) = After(c, off + size)
    BY <1>1, <2>2, <2>3, <2>4, AfterAfter
  <2>7. Rest(s, i) = After(c, off) /\ Rest(s, i + 1) = After(c, off + size)
    BY <1>2, <2>2 DEF off
  <2> QED
    BY <1>1, <1>4, <2>2, <2>3, <2>4, <2>5, <2>6, <2>7 DEF size, n
<1> QED
  BY <1>1, <1>3, <1>4

\* Files with the same rest are split in the same way from there on.
LEMMA SameRest ==
  ASSUME NEW s, WellSplit(s), NEW t, WellSplit(t),
         NEW i \in 0..Len(s.chunks), NEW j \in 0..Len(t.chunks),
         Rest(s, i) = Rest(t, j)
  PROVE  \A k \in 0..Len(s.chunks) - i :
           j + k <= Len(t.chunks) /\ Rest(s, i + k) = Rest(t, j + k)
<1> DEFINE n == Len(s.chunks)
           m == Len(t.chunks)
           Same(k) == j + k <= m /\ Rest(s, i + k) = Rest(t, j + k)
           Bad == {k \in 0..n - i : ~Same(k)}
<1>1. n \in Nat /\ m \in Nat /\ i \in Nat /\ j \in Nat /\ i <= n /\ j <= m
  BY OffIs
<1>2. Same(0)
  <2>1. i + 0 = i /\ j + 0 = j
    BY <1>1
  <2> QED
    BY <1>1, <2>1
<1> HIDE DEF n, m
<1>3. ASSUME NEW k \in 0..n - i, k + 1 \in 0..n - i, Same(k)
      PROVE  Same(k + 1)
  <2>1. /\ i + k \in 0..n /\ i + k < n /\ i + (k + 1) = (i + k) + 1
        /\ j + k \in 0..m /\ j + (k + 1) = (j + k) + 1
    BY <1>1, <1>3
  <2> DEFINE a == i + k
             b == j + k
  <2>2. Rest(s, a) = Rest(t, b) /\ a \in 0..n /\ a < n /\ b \in 0..m
    BY <1>3, <2>1
  <2> HIDE DEF a, b
  <2>3. /\ Len(Rest(s, a)) > 0 /\ s.chunks[a + 1].len \in Nat
        /\ SizeFor(Rest(s, a), s.chunks[a + 1].len) /\ Rest(s, a) \in Seq(Byte)
        /\ Rest(s, a + 1) = After(Rest(s, a), s.chunks[a + 1].len)
    BY <2>2, RestIs DEF n
  <2>4. b < m
    <3>1. b = m => Len(Rest(t, b)) = 0
      BY <2>2, RestIs DEF m
    <3> QED
      BY <1>1, <2>2, <2>3, <3>1
  <2>5. /\ t.chunks[b + 1].len \in Nat
        /\ SizeFor(Rest(t, b), t.chunks[b + 1].len)
        /\ Rest(t, b + 1) = After(Rest(t, b), t.chunks[b + 1].len)
    BY <2>2, <2>4, RestIs DEF m
  <2>6. s.chunks[a + 1].len = t.chunks[b + 1].len
    BY <2>2, <2>3, <2>5, SizeUnique
  <2>7. Rest(s, a + 1) = Rest(t, b + 1) /\ b + 1 <= m
    BY <1>1, <2>2, <2>3, <2>4, <2>5, <2>6
  <2> QED
    BY <2>1, <2>7 DEF a, b
<1> HIDE DEF Same
<1>4. Bad = {}
  <2> SUFFICES ASSUME Bad # {} PROVE FALSE
    OBVIOUS
  <2>1. Bad \subseteq Nat
    BY <1>1
  <2>2. PICK k \in Bad : \A x \in Bad : k <= x
    BY <2>1, LeastNat
  <2>3. k # 0 /\ k \in 0..n - i /\ ~Same(k)
    BY <1>2, <2>2
  <2>4. k - 1 \in 0..n - i /\ (k - 1) + 1 = k /\ ~(k <= k - 1)
    BY <1>1, <2>3
  <2>5. Same(k - 1)
    BY <2>2, <2>4
  <2> QED
    BY <1>3, <2>3, <2>4, <2>5
<1>5. \A k \in 0..n - i : Same(k)
  BY <1>4
<1> QED
  BY <1>5 DEF Same, n, m

\* ... so that the sizes of their chunks are the same.
LEMMA SameSizes ==
  ASSUME NEW s, WellSplit(s), NEW t, WellSplit(t),
         NEW i \in 0..Len(s.chunks), NEW j \in 0..Len(t.chunks),
         Rest(s, i) = Rest(t, j)
  PROVE  RestSizes(s, i) = RestSizes(t, j)
<1> DEFINE n == Len(s.chunks)
           m == Len(t.chunks)
<1>1. n \in Nat /\ m \in Nat /\ i \in Nat /\ j \in Nat /\ i <= n /\ j <= m
  BY OffIs
<1>2. \A k \in 0..n - i : j + k <= m /\ Rest(s, i + k) = Rest(t, j + k)
  BY SameRest
<1> HIDE DEF n, m
<1>3. n - i = m - j
  <2>1. n - i \in 0..n - i /\ i + (n - i) = n
    BY <1>1
  <2>2. j + (n - i) <= m /\ Rest(s, n) = Rest(t, j + (n - i))
    BY <1>2, <2>1
  <2>3. n \in 0..n /\ j + (n - i) \in 0..m
    BY <1>1, <2>2
  <2>4. Len(Rest(s, n)) = 0
    BY <2>3, RestIs DEF n
  <2> DEFINE b == j + (n - i)
  <2>5. b \in 0..m /\ Len(Rest(t, b)) = 0
    BY <2>2, <2>3, <2>4
  <2> HIDE DEF b
  <2>6. ~(b < m)
    <3>1. b < m => Len(Rest(t, b)) > 0
      BY <2>5, RestIs DEF m
    <3> QED
      BY <2>5, <3>1
  <2> QED
    BY <1>1, <2>5, <2>6 DEF b
<1>4. ASSUME NEW k \in 1..n - i
      PROVE  s.chunks[i + k].len = t.chunks[j + k].len
  <2> DEFINE a == i + (k - 1)
             b == j + (k - 1)
  <2>1. k - 1 \in 0..n - i /\ a \in 0..n /\ a < n /\ b \in 0..m /\ b < m
        /\ a + 1 = i + k /\ b + 1 = j + k
    BY <1>1, <1>3
  <2>2. Rest(s, a) = Rest(t, b)
    BY <1>2, <2>1
  <2> HIDE DEF a, b
  <2>3. /\ s.chunks[a + 1].len \in Nat /\ Rest(s, a) \in Seq(Byte)
        /\ SizeFor(Rest(s, a), s.chunks[a + 1].len)
    BY <2>1, RestIs DEF n
  <2>4. t.chunks[b + 1].len \in Nat /\ SizeFor(Rest(t, b), t.chunks[b + 1].len)
    BY <2>1, RestIs DEF m
  <2>5. s.chunks[a + 1].len = t.chunks[b + 1].len
    BY <2>2, <2>3, <2>4, SizeUnique
  <2> QED
    BY <2>1, <2>5
<1>5. [k \in 1..n - i |-> s.chunks[i + k].len] = [k \in 1..m - j |-> t.chunks[j + k].len]
  BY <1>3, <1>4
<1> QED
  BY <1>5 DEF RestSizes, n, m

\* While bytes are left they are the ones that follow the pointer.
LEMMA LeftIs ==
  ASSUME FastInv, looping, remaining_file_len > 0
  PROVE  /\ file \in Seq(Byte) /\ file_read_ptr \in Nat /\ remaining_file_len \in Nat
         /\ file_read_ptr + remaining_file_len = Len(file)
         /\ After(file, file_read_ptr) \in Seq(Byte)
         /\ Len(After(file, file_read_ptr)) = remaining_file_len
<1>1. /\ file \in Seq(Byte) /\ file_read_ptr \in Nat /\ remaining_file_len \in Nat
      /\ live \in BOOLEAN
  BY DEF FastInv, FastTypeOK
<1>2. live /\ file_read_ptr = Covered(chunks)
  BY <1>1 DEF FastInv, NothingLeft, PointerAfterChunks
<1>3. Covered(chunks) + remaining_file_len = Len(file)
  BY <1>2 DEF FastInv, Tiles
<1>4. file_read_ptr + remaining_file_len = Len(file) /\ file_read_ptr \in 0..Len(file)
  BY <1>1, <1>2, <1>3
<1>5. /\ After(file, file_read_ptr) \in Seq(Byte)
      /\ Len(After(file, file_read_ptr)) = Len(file) - file_read_ptr
  BY <1>1, <1>4, AfterIs
<1> QED
  BY <1>1, <1>4, <1>5

\* The loops of GetNextChunk decide by what is left alone.
LEMMA CutIsFor ==
  ASSUME FastInv, looping, remaining_file_len > MinChunkSize, NEW size \in CutSizes
  PROVE  SizeFor(After(file, file_read_ptr), size)
<1> DEFINE r == After(file, file_read_ptr)
<1>0. remaining_file_len \in Nat /\ MinChunkSize \in Nat /\ MaxChunkSize \in Nat
  BY ChunkerAssumption DEF FastInv, FastTypeOK
<1>1. /\ file \in Seq(Byte) /\ file_read_ptr \in Nat
      /\ file_read_ptr + remaining_file_len = Len(file)
      /\ r \in Seq(Byte) /\ Len(r) = remaining_file_len
  BY <1>0, LeftIs
<1>2. LastSizeIn(r) = LastSize /\ LastSize \in Nat /\ LastSize <= remaining_file_len
  BY <1>0, <1>1 DEF LastSizeIn, LastSize
<1>3. ASSUME NEW x \in MinChunkSize + 1..LastSize
      PROVE  FingerPrint(x) = Window(SubSeq(r, 1, x))
  <2>1. x \in Nat /\ file_read_ptr + x <= Len(file)
    BY <1>0, <1>1, <1>2
  <2>2. SubSeq(After(file, file_read_ptr), 1, x)
          = SubSeq(file, file_read_ptr + 1, file_read_ptr + x)
    BY <1>1, <2>1, MiddleIs
  <2>3. BytesRead(x) = SubSeq(r, 1, x)
    BY <2>1, <2>2 DEF BytesRead
  <2> QED
    BY <2>3 DEF FingerPrint
<1> HIDE DEF r
<1>4. HitsIn(r) = Hits
  BY <1>2, <1>3 DEF HitsIn, Hits
<1>5. SizeFor(r, size)
  <2>1. ~(Len(r) <= MinChunkSize)
    BY <1>0, <1>1
  <2> QED
    BY <1>2, <1>4, <2>1 DEF SizeFor, CutSizes
<1> QED
  BY <1>5 DEF r

\* Returning a chunk of the size that the bytes left decide.
LEMMA ReturnByContent ==
  ASSUME FastInv, CutByContent(file, chunks), looping,
         NEW size \in 1..remaining_file_len,
         SizeFor(After(file, file_read_ptr), size), ReturnChunk(size)
  PROVE  CutByContent(file', chunks')
<1> DEFINE c == [off |-> file_read_ptr, len |-> size, id |-> next_chunk_id_]
<1>1. /\ chunks \in Seq(ChunkRefs) /\ next_chunk_id_ \in Nat /\ remaining_file_len \in Nat
      /\ file_read_ptr \in Nat
  BY DEF FastInv, FastTypeOK
<1>2. file_read_ptr + remaining_file_len = Len(file) /\ file \in Seq(Byte)
  BY <1>1, LeftIs
<1>3. c \in ChunkRefs /\ c.off = file_read_ptr /\ c.len = size
  BY <1>1 DEF ChunkRefs
<1>4. chunks' = Append(chunks, c) /\ file' = file
  BY DEF ReturnChunk
<1>5. file_read_ptr + size <= Len(file)
  BY <1>1, <1>2
<1> HIDE DEF c
<1>6. /\ Len(chunks') = Len(chunks) + 1 /\ chunks'[Len(chunks) + 1] = c
      /\ \A i \in 1..Len(chunks) : chunks'[i] = chunks[i]
  BY <1>1, <1>3, <1>4
<1> SUFFICES ASSUME NEW i \in 1..Len(chunks')
             PROVE  /\ chunks'[i].off + chunks'[i].len <= Len(file)
                    /\ SizeFor(After(file, chunks'[i].off), chunks'[i].len)
  BY <1>4 DEF CutByContent
<1>7. CASE i \in 1..Len(chunks)
  BY <1>6, <1>7 DEF CutByContent
<1>8. CASE i = Len(chunks) + 1
  BY <1>3, <1>5, <1>6, <1>8
<1> QED
  BY <1>1, <1>6, <1>7, <1>8

\* The invariant holds initially.
LEMMA ContentInit == Init => ContentInv
<1> SUFFICES ASSUME Init PROVE ContentInv
  OBVIOUS
<1>1. Len(chunks) = 0 /\ Len(split) = 0
  BY DEF Init, ChunkerInit
<1> QED
  BY <1>1 DEF ContentInv, CutByContent

\* Every step keeps it.
LEMMA ContentStep == FastInv /\ FastInv' /\ ContentInv /\ [Next]_fileVars => ContentInv'
<1> SUFFICES ASSUME FastInv, FastInv', ContentInv, [Next]_fileVars PROVE ContentInv'
  OBVIOUS
<1>0. CutByContent(file, chunks) /\ \A k \in 1..Len(split) : WellSplit(split[k])
  BY DEF ContentInv
<1>1. ASSUME CutByContent(file', chunks'), split' = split PROVE ContentInv'
  <2>1. CutByContent(file, chunks)'
    BY <1>1 DEF CutByContent, After, SizeFor, HitsIn, LastSizeIn, Window
  <2>2. (\A k \in 1..Len(split) : WellSplit(split[k]))'
    BY <1>0, <1>1 DEF WellSplit
  <2> QED
    BY <2>1, <2>2 DEF ContentInv
<1>2. ASSUME NEW f \in Inputs, MapFile(f) PROVE ContentInv'
  <2>1. Len(chunks') = 0 /\ split' = split
    BY <1>2 DEF MapFile
  <2>2. CutByContent(file', chunks')
    BY <2>1 DEF CutByContent
  <2> QED
    BY <1>1, <2>1, <2>2
<1>3. CASE ShortChunk
  <2>1. /\ looping /\ remaining_file_len \in 1..MinChunkSize
        /\ ReturnChunk(remaining_file_len)
    BY <1>3 DEF ShortChunk
  <2>2. remaining_file_len \in 1..remaining_file_len /\ remaining_file_len > 0
        /\ remaining_file_len <= MinChunkSize
    BY <2>1, ChunkerAssumption
  <2>3. SizeFor(After(file, file_read_ptr), remaining_file_len)
    BY <2>1, <2>2, LeftIs DEF SizeFor
  <2>4. CutByContent(file', chunks')
    BY <1>0, <2>1, <2>2, <2>3, ReturnByContent
  <2>5. split' = split
    BY <2>1 DEF ReturnChunk
  <2> QED
    BY <1>1, <2>4, <2>5
<1>4. CASE CutChunk
  <2>1. looping /\ remaining_file_len > MinChunkSize
    BY <1>4 DEF CutChunk
  <2>2. PICK size \in CutSizes : ReturnChunk(size)
    BY <1>4 DEF CutChunk
  <2>3. FastTypeOK
    BY DEF FastInv
  <2>4. size \in 1..remaining_file_len
    BY <2>1, <2>3, CutSizeBounds
  <2>5. SizeFor(After(file, file_read_ptr), size)
    BY <2>1, CutIsFor
  <2>6. CutByContent(file', chunks')
    BY <1>0, <2>1, <2>2, <2>4, <2>5, ReturnByContent
  <2>7. split' = split
    BY <2>2 DEF ReturnChunk
  <2> QED
    BY <1>1, <2>6, <2>7
<1>5. CASE EndOfFile
  <2> DEFINE s == [content |-> file, chunks |-> chunks]
             Splits == [content : Seq(Byte), chunks : Seq(ChunkRefs)]
  <2>1. split' = Append(split, s) /\ file' = file /\ chunks' = chunks
    BY <1>5 DEF EndOfFile, ReturnNull
  <2>2. file \in Seq(Byte) /\ chunks \in Seq(ChunkRefs) /\ Contiguous(chunks)
        /\ split \in Seq(Splits)
    BY DEF FastInv, FastTypeOK, Tiles
  <2>3. s \in Splits /\ s.content = file /\ s.chunks = chunks
    BY <2>2
  <2> HIDE DEF s
  <2>4. /\ Len(split') = Len(split) + 1 /\ split'[Len(split) + 1] = s
        /\ \A k \in 1..Len(split) : split'[k] = split[k]
        /\ Len(split) \in Nat
    BY <2>1, <2>2, <2>3
  <2>5. Covered(s.chunks) = Len(s.content)
    <3>1. \A k \in 1..Len(split') : Covered(split'[k].chunks) = Len(split'[k].content)
      BY DEF FastInv, WholeFileReturned, Covered
    <3>2. Len(split) + 1 \in 1..Len(split')
      BY <2>4
    <3> QED
      BY <2>4, <3>1, <3>2
  <2>6. WellSplit(s)
    BY <1>0, <2>2, <2>3, <2>5 DEF WellSplit
  <2>7. \A k \in 1..Len(split') : WellSplit(split'[k])
    <3>1. \A k \in 1..Len(split') : k \in 1..Len(split) \/ k = Len(split) + 1
      BY <2>4
    <3> QED
      BY <1>0, <2>4, <2>6, <3>1
  <2>8. CutByContent(file, chunks)'
    <3>1. CutByContent(file', chunks')
      BY <1>0, <2>1
    <3> QED
      BY <3>1 DEF CutByContent, After, SizeFor, HitsIn, LastSizeIn, Window
  <2>9. (\A k \in 1..Len(split) : WellSplit(split[k]))'
    BY <2>7 DEF WellSplit
  <2> QED
    BY <2>8, <2>9 DEF ContentInv
<1>6. CASE UNCHANGED fileVars
  BY <1>0, <1>1, <1>6 DEF fileVars
<1> QED
  BY <1>2, <1>3, <1>4, <1>5, <1>6 DEF Next, GetNextChunk

\* Where FastCDC ends a chunk is decided by what follows the chunk before: the
\* same bytes are split in the same way in every file and at every offset, so
\* that equal data becomes equal chunks.
THEOREM FastContentDefined == Spec => []ContentDefined
<1>1. ContentInv => ContentDefined
  <2> SUFFICES ASSUME ContentInv, NEW s \in {split[k] : k \in 1..Len(split)},
                      NEW t \in {split[k] : k \in 1..Len(split)},
                      NEW i \in 0..Len(s.chunks), NEW j \in 0..Len(t.chunks),
                      Rest(s, i) = Rest(t, j)
               PROVE  RestSizes(s, i) = RestSizes(t, j)
    BY DEF ContentDefined
  <2>1. WellSplit(s) /\ WellSplit(t)
    BY DEF ContentInv
  <2> QED
    BY <2>1, SameSizes
<1>2. Spec => []ContentInv
  BY FastInvariant, ContentInit, ContentStep, PTL DEF Spec
<1> QED
  BY <1>1, <1>2, PTL
=============================================================================
