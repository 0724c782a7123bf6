------------------------------ MODULE Chunker ------------------------------
(***************************************************************************)
(* What the two chunkers have in common (chunk/chunker.h, the beginning of *)
(* GetNextChunk and ReinitWithFile in chunk/fast_cdc.cpp and in            *)
(* chunk/rabin_cdc.cpp, utils/mapped_file.h) and how AddFile drives them:  *)
(* it calls GetNextChunk until that returns nullptr, then goes on with the *)
(* next file, and never looks at what ReinitWithFile returns.              *)
(*                                                                         *)
(* A chunk is a reference into the mapped file: an offset and a length.    *)
(***************************************************************************)
EXTENDS Integers, Sequences

CONSTANTS Byte,           \* values of a byte
          Inputs,         \* files; the empty one stands for all that mmap refuses
          MinChunkSize,   \* min_chunk_size
          MaxChunkSize,   \* max_chunk_size
          IdSpace,        \* number of values of a chunk id (2^32 in the code)
          MaxFiles        \* bound: files

ASSUME ChunkerAssumption ==
  /\ Inputs \subseteq Seq(Byte)
  /\ MinChunkSize \in Nat /\ MaxChunkSize \in Nat \ {0}
  /\ IdSpace \in Nat \ {0} /\ MaxFiles \in Nat

VARIABLES file,           \* the bytes that are mapped; <<>> if none are
          live,           \* file_read_ptr points into the mapped file
          file_read_ptr,  \* its offset
          remaining_file_len,
          next_chunk_id_,
          looping,        \* AddFile is in its loop
          chunks,         \* chunks returned for the current file
          faulted,        \* memory outside the mapped file was read
          split           \* history: the files before, with their chunks

fileVars == <<file, live, file_read_ptr, remaining_file_len, next_chunk_id_,
              looping, chunks, faulted, split>>
-----------------------------------------------------------------------------
ChunkerInit ==
  /\ file = <<>> /\ live = FALSE
  /\ file_read_ptr = 0
  /\ remaining_file_len = 0
  /\ next_chunk_id_ = 0
  /\ looping = FALSE
  /\ chunks = <<>>
  /\ faulted = FALSE
  /\ split = <<>>

\* Mutant: the read pointer stays where the file before ended.
MapFileKeepsPointer(f) ==
  /\ ~looping /\ Len(split) < MaxFiles
  /\ looping' = TRUE
  /\ file' = f
  /\ live' = (f # <<>>)
  /\ remaining_file_len' = IF f = <<>> THEN remaining_file_len ELSE Len(f)
  /\ chunks' = <<>>
  /\ UNCHANGED <<file_read_ptr, next_chunk_id_, faulted, split>>

\* ReinitWithFile: the file before is unmapped.  If the new one cannot be
\* mapped, nothing else changes: the pointer dangles, the length is stale.
MapFile(f) ==
  /\ ~looping /\ Len(split) < MaxFiles
  /\ looping' = TRUE
  /\ file' = f
  /\ live' = (f # <<>>)
  /\ file_read_ptr' = IF f = <<>> THEN file_read_ptr ELSE 0
  /\ remaining_file_len' = IF f = <<>> THEN remaining_file_len ELSE Len(f)
  /\ chunks' = <<>>
  /\ UNCHANGED <<next_chunk_id_, faulted, split>>

\* GetNextChunk returns nullptr, and AddFile leaves its loop.
ReturnNull ==
  /\ looping' = FALSE
  /\ split' = Append(split, [content |-> file, chunks |-> chunks])
  /\ UNCHANGED <<file, live, next_chunk_id_, chunks>>

\* size bytes at the pointer are read: a fault if they are not all mapped.
Read(size) ==
  faulted' = (faulted \/ ~live \/ file_read_ptr + size > Len(file))

\* The size bytes at the pointer, as far as they are mapped: reading others is a
\* fault, whatever value they have.
BytesRead(size) ==
  SubSeq(file, file_read_ptr + 1,
         IF file_read_ptr + size <= Len(file) THEN file_read_ptr + size ELSE Len(file))

\* A chunk of size bytes at the pointer is returned.
ReturnChunk(size) ==
  /\ chunks' = Append(chunks, [off |-> file_read_ptr, len |-> size,
                               id |-> next_chunk_id_])
  /\ next_chunk_id_' = (next_chunk_id_ + 1) % IdSpace
  /\ UNCHANGED <<file, live, looping, split>>

\* GetNextChunk at the end of the file.
EndOfFile ==
  /\ looping /\ remaining_file_len = 0
  /\ ReturnNull
  /\ UNCHANGED <<file_read_ptr, remaining_file_len, faulted>>

\* Mutant: of a short rest only MinChunkSize - 1 bytes are returned.
ShortChunkTrimmed ==
  /\ looping /\ remaining_file_len \in 1..MinChunkSize
  /\ remaining_file_len' = 0
  /\ Read(remaining_file_len)
  /\ ReturnChunk(IF remaining_file_len < MinChunkSize THEN remaining_file_len
                                                      ELSE MinChunkSize - 1)
  /\ UNCHANGED file_read_ptr

\* GetNextChunk with no more than MinChunkSize bytes left: they are the last
\* chunk.  The pointer is not moved.
ShortChunk ==
  /\ looping /\ remaining_file_len \in 1..MinChunkSize
  /\ remaining_file_len' = 0
  /\ Read(remaining_file_len)
  /\ ReturnChunk(remaining_file_len)
  /\ UNCHANGED file_read_ptr
-----------------------------------------------------------------------------
\* Number of bytes in the chunks of a file.
Covered(cs) == IF cs = <<>> THEN 0 ELSE cs[Len(cs)].off + cs[Len(cs)].len

\* Chunks that follow one another from the first byte on, with ids in sequence.
Contiguous(cs) ==
  \A i \in 1..Len(cs) :
    /\ cs[i].len > 0
    /\ cs[i].off = IF i = 1 THEN 0 ELSE cs[i-1].off + cs[i-1].len
    /\ i > 1 => cs[i].id = (cs[i-1].id + 1) % IdSpace

\* The chunks of the current file follow one another without gap or overlap
\* from its first byte on, none is empty, their ids are consecutive, and, as
\* long as AddFile is in its loop, they and the rest make up the file.
Tiles ==
  /\ Contiguous(chunks)
  /\ looping /\ live => Covered(chunks) + remaining_file_len = Len(file)

\* No chunk is longer than MaxChunkSize (MinChunkSize if that is larger), and
\* only the last chunk of a file may be shorter than MinChunkSize.
SizesBounded ==
  \A i \in 1..Len(chunks) :
    /\ chunks[i].len <= MaxChunkSize \/ chunks[i].len <= MinChunkSize
    /\ chunks[i].len >= MinChunkSize \/ i = Len(chunks)

\* Only mapped memory is read: in bounds, and never through the pointer into
\* a file that has been unmapped.
ReadsMapped == ~faulted

\* Every byte of a file is in a chunk when AddFile leaves its loop: the
\* compression is lossless.
WholeFileReturned ==
  \A k \in 1..Len(split) : Covered(split[k].chunks) = Len(split[k].content)

\* The rest of a file after the i-th chunk, and its chunks.
Rest(s, i) == SubSeq(s.content, Covered(SubSeq(s.chunks, 1, i)) + 1, Len(s.content))
RestSizes(s, i) == [j \in 1..Len(s.chunks) - i |-> s.chunks[i + j].len]

\* Where a chunk ends is decided by content alone: what follows the end of a
\* chunk is split in the same way wherever it occurs, in any file, whichever
\* files came before.  Without it, equal data would not become equal chunks.
ContentDefined ==
  \A s, t \in {split[k] : k \in 1..Len(split)} :
    \A i \in 0..Len(s.chunks), j \in 0..Len(t.chunks) :
      Rest(s, i) = Rest(t, j) => RestSizes(s, i) = RestSizes(t, j)
=============================================================================
