------------------------------ MODULE Storage ------------------------------
(***************************************************************************)
(* The chunk store (storage/storage.h, storage/storage.cpp), as operators  *)
(* on its state, a record                                                  *)
(*                                                                         *)
(*   data, dpos   the data file, a sequence of bytes, and data_'s position *)
(*   meta, mpos   the meta file, a sequence of ChunkMeta records, and      *)
(*                meta_'s position, counted in records                     *)
(*   cache        cache_                                                   *)
(*                                                                         *)
(* The record of chunk n is the n-th of the meta file, counting from 0:    *)
(* nothing but the order of the writes ties a chunk to its record.  Both   *)
(* files are written and read at one position, as stdio streams are.       *)
(* GetDeltaEncodedChunk fetches the base chunk but returns its argument:   *)
(* the call of the encoder is commented out in the code.                   *)
(***************************************************************************)
EXTENDS ChunkCache

CONSTANT Uint16    \* number of values of ChunkMeta::size (2^16 in the code)

ASSUME StorageAssumption == Uint16 \in Nat \ {0}

BaseChunk      == 1
DeltaChunk     == 2
DuplicateChunk == 3

\* A byte of new uint8_t[size] that fread did not fill.
Uninitialized == -1

sizeof_ChunkMeta == 16

\* The constructor in compress mode: both files are truncated.
EmptyStore == [data |-> <<>>, dpos |-> 0, meta |-> <<>>, mpos |-> 0,
               cache |-> EmptyCache]

\* struct ChunkMeta: the length of the chunk is stored in 16 bits.
ChunkMeta(offset, base, len, type) ==
  [offset |-> offset, base |-> base, size |-> len % Uint16, type |-> type]

\* fwrite: s replaces what is at the position, and may extend the file.
FWrite(f, pos, s) ==
  [i \in 1..Max({Len(f), pos + Len(s)}) |->
     IF i \in pos + 1..pos + Len(s) THEN s[i - pos] ELSE f[i]]

WriteData(st, bytes) ==
  [st EXCEPT !.data = FWrite(@, st.dpos, bytes), !.dpos = @ + Len(bytes)]

WriteMeta(st, rec) ==
  [st EXCEPT !.meta = FWrite(@, st.mpos, <<rec>>), !.mpos = @ + 1]

\* Chunk::FromFileStream with data_ at offset.
FromFileStream(st, offset, size) ==
  [i \in 1..size |-> IF offset + i \in 1..Len(st.data)
                       THEN st.data[offset + i] ELSE Uninitialized]

\* fread of the record at a position; past the end the variable stays unset.
ReadMeta(st, n) ==
  IF n < Len(st.meta) THEN st.meta[n + 1]
  ELSE ChunkMeta(Uninitialized, Uninitialized, 0, 0)

\* fseek to SEEK_END in both files.
SeekEnd(st) == [st EXCEPT !.dpos = Len(st.data), !.mpos = Len(st.meta)]
-----------------------------------------------------------------------------
\* Mutant: the record is written before the bytes, with the offset after them.
WriteBaseChunkLate(st, chunk, id) ==
  LET written == WriteData(st, chunk) IN
  WriteMeta(written, ChunkMeta(written.dpos, id, Len(chunk), BaseChunk))

WriteBaseChunk(st, chunk, id) ==
  WriteMeta(WriteData(st, chunk),
            ChunkMeta(st.dpos, id, Len(chunk), BaseChunk))

WriteDeltaChunk(st, delta_chunk, base_chunk_id) ==
  WriteMeta(WriteData(st, delta_chunk),
            ChunkMeta(st.dpos, base_chunk_id, Len(delta_chunk), DeltaChunk))

\* The record of a duplicate takes its offset from a record that is read at
\* byte base_chunk_id & sizeof(ChunkMeta): one bit of the id, so the position
\* is that of record 0 or of record 1.
WriteDuplicateChunk(st, chunk, base_chunk_id) ==
  LET bit       == (base_chunk_id \div sizeof_ChunkMeta) % 2
      base_meta == ReadMeta(st, bit)
  IN WriteMeta([st EXCEPT !.mpos = Len(st.meta)],
               ChunkMeta(base_meta.offset, base_chunk_id, Len(chunk),
                         DuplicateChunk))

\* GetChunkContent: the chunk it returns ...
ChunkContent(st, id) ==
  FromFileStream(st, ReadMeta(st, id).offset, ReadMeta(st, id).size)

\* Mutant: meta_ stays behind the record that was read.
AfterGetChunkContentNoSeek(st, id) ==
  [st EXCEPT !.dpos = Len(st.data), !.mpos = id + 1]

\* ... and where it leaves the files.
AfterGetChunkContent(st, id) == SeekEnd(st)

\* Mutant: the chunk is added under its own position, not under the base's id.
GetDeltaEncodedChunkWrongKey(st, base_chunk_id) ==
  IF Cached(st.cache, base_chunk_id)
    THEN [st EXCEPT !.cache = CacheGet(@, base_chunk_id)]
    ELSE LET fetched == AfterGetChunkContent(st, base_chunk_id) IN
         [fetched EXCEPT !.cache =
            CacheAdd(@, st.mpos, ChunkContent(st, base_chunk_id))]

\* GetDeltaEncodedChunk, which returns the chunk it is given.
GetDeltaEncodedChunk(st, base_chunk_id) ==
  IF Cached(st.cache, base_chunk_id)
    THEN [st EXCEPT !.cache = CacheGet(@, base_chunk_id)]
    ELSE LET fetched == AfterGetChunkContent(st, base_chunk_id) IN
         [fetched EXCEPT !.cache =
            CacheAdd(@, base_chunk_id, ChunkContent(st, base_chunk_id))]
-----------------------------------------------------------------------------
(* For the properties of the compressors that use the store.               *)

\* What the 16 bits of ChunkMeta::size leave of a chunk when it is read back.
Kept(chunk) == SubSeq(chunk, 1, Len(chunk) % Uint16)
=============================================================================
