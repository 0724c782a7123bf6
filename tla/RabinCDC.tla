------------------------------ MODULE RabinCDC ------------------------------
(***************************************************************************)
(* The chunker RabinCDC (chunk/rabin_cdc.cpp).  A chunk may end where the  *)
(* digest of the window is zero under the mask; the window is reset at the *)
(* start of every file and of every chunk.                                 *)
(***************************************************************************)
EXTENDS Chunker, Rabin

CONSTANT StopMask   \* rabin_stop_mask_, as a set of exponents

ASSUME StopMaskAssumption == Byte = AllBytes /\ StopMask \subseteq Nat

VARIABLE rabin   \* window, wpos and digest

vars == <<fileVars, rabin>>

\* The context after sliding in the next size bytes.
Slid(size) == SlideAll(rabin, BytesRead(size))

\* The constructor leaves the window unset; ReinitWithFile comes first.
Init == ChunkerInit /\ rabin = rabin_reset

\* Mutant: the window is not reset for a new file.
ReinitWithFileNoReset(f) == MapFile(f) /\ UNCHANGED rabin

ReinitWithFile(f) == MapFile(f) /\ rabin' = rabin_reset

\* The sizes at which the loop of GetNextChunk ends the chunk.
Stops == {size \in 1..remaining_file_len :
            \/ size >= MinChunkSize /\ Slid(size).digest \cap StopMask = {}
            \/ size >= MaxChunkSize}

\* GetNextChunk finds the end of a chunk.
CutChunk ==
  /\ looping /\ live /\ remaining_file_len > MinChunkSize
  /\ \E size \in Stops :
       /\ \A other \in Stops : size <= other
       /\ Read(size)
       /\ ReturnChunk(size)
       /\ file_read_ptr' = file_read_ptr + size
       /\ remaining_file_len' = remaining_file_len - size
  /\ rabin' = rabin_reset

\* The loop of GetNextChunk runs to the end of the file: it returns nullptr,
\* and leaves remaining_file_len as it was.
LoseTail ==
  /\ looping /\ live /\ remaining_file_len > MinChunkSize
  /\ Stops = {}
  /\ Read(remaining_file_len)
  /\ ReturnNull
  /\ file_read_ptr' = file_read_ptr + remaining_file_len
  /\ rabin' = Slid(remaining_file_len)
  /\ UNCHANGED remaining_file_len

\* The loop reads through a pointer into a file that has been unmapped.
StaleRead ==
  /\ looping /\ ~live /\ remaining_file_len > MinChunkSize
  /\ Read(1)
  /\ UNCHANGED <<file, live, file_read_ptr, remaining_file_len, next_chunk_id_,
                 looping, chunks, split, rabin>>

Next ==
  /\ ~faulted
  /\ \/ \E f \in Inputs : ReinitWithFile(f)
     \/ EndOfFile /\ UNCHANGED rabin
     \/ ShortChunk /\ UNCHANGED rabin
     \/ CutChunk
     \/ LoseTail
     \/ StaleRead

Spec == Init /\ [][Next]_vars
-----------------------------------------------------------------------------
\* Of a file, RabinCDC loses at most its tail: more than MinChunkSize and less
\* than MaxChunkSize bytes, when no chunk ends before the end of the file.
LosesOnlyTail ==
  \A k \in 1..Len(split) :
    LET lost == Len(split[k].content) - Covered(split[k].chunks) IN
    lost # 0 => lost \in MinChunkSize + 1..MaxChunkSize - 1

\* Memory outside the mapped file is only read when the tail of a file was lost
\* and the next file cannot be mapped: the stale length is then taken for it.
FaultsOnlyAfterLoss ==
  faulted =>
    /\ file = <<>> /\ split # <<>>
    /\ \E k \in 1..Len(split) :
         /\ Covered(split[k].chunks) < Len(split[k].content)
         /\ \A j \in k + 1..Len(split) : split[j].content = <<>>

\* What the early end of the loop in GetNextChunk costs: at most the tail of a
\* file, and a fault only when the file after it cannot be mapped.
LossContained == LosesOnlyTail /\ FaultsOnlyAfterLoss

\* The bytes that a digest is computed from, if it depends on the last WINSIZE
\* ones and on the 1 that a reset slides in.
Reference(size) ==
  LET slid == [i \in 1..WINSIZE |-> Zero] \o <<One>> \o BytesRead(size) IN
  SubSeq(slid, Len(slid) - WINSIZE + 1, Len(slid))

\* The digest that GetNextChunk looks at is the remainder of the last WINSIZE
\* bytes, however many have passed through the window: taking a byte out, with
\* out_table, and reducing, with mod_table, lose nothing and leave nothing
\* behind, and the chunks and files before have no part in it.
DigestOfWindow ==
  looping /\ live =>
    \A size \in 0..remaining_file_len :
      /\ Slid(size).digest = Remainder(Reference(size))
      /\ WindowBytes(Slid(size)) = Reference(size)
=============================================================================
