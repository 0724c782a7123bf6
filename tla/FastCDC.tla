------------------------------ MODULE FastCDC ------------------------------
(***************************************************************************)
(* The chunker FastCDC (chunk/fast_cdc.cpp).  Its fingerprint starts from  *)
(* zero at every chunk and is shifted left by a bit for every byte, so it  *)
(* depends on the last 64 bytes of the chunk, the WindowSize of the code.  *)
(* The table it adds up is external: of a fingerprint only matters whether *)
(* the masked bits are zero, and Stop holds the windows for which they are.*)
(***************************************************************************)
EXTENDS Chunker

CONSTANTS WindowSize,   \* number of bytes a fingerprint depends on
          Stop          \* windows at which a chunk may end

ASSUME WindowAssumption == WindowSize \in Nat \ {0}

\* The bytes of a window: the last WindowSize of s.
Window(s) ==
  IF Len(s) <= WindowSize THEN s ELSE SubSeq(s, Len(s) - WindowSize + 1, Len(s))

\* Mutant: the fingerprint runs on from one chunk to the next.
FingerPrintCarried(size) == Window(SubSeq(file, 1, file_read_ptr) \o BytesRead(size))

\* The window of a chunk of size bytes.
FingerPrint(size) == Window(BytesRead(size))

\* Mutant: the rest of the file does not bound the chunk.
LastSizeUnbounded == MaxChunkSize

\* The bound of the second loop.
LastSize == IF remaining_file_len < MaxChunkSize THEN remaining_file_len
                                                 ELSE MaxChunkSize

\* The sizes at which the second loop finds the masked fingerprint zero: the
\* first MinChunkSize bytes are hashed without looking at it.
Hits == {size \in MinChunkSize + 1..LastSize : FingerPrint(size) \in Stop}

\* Mutant: without a hit, the size is what the loop counter ends with.
CutSizesOffByOne ==
  IF Hits # {} THEN {size \in Hits : \A other \in Hits : size <= other}
  ELSE {IF LastSize < MinChunkSize THEN MinChunkSize + 1 ELSE LastSize + 1}

\* The size of the chunk: the first hit; without one, as far as the loops go.
CutSizes ==
  IF Hits # {} THEN {size \in Hits : \A other \in Hits : size <= other}
  ELSE {IF LastSize < MinChunkSize THEN MinChunkSize ELSE LastSize}

\* Mutant: a chunk that ends without a hit is not taken off the rest.
CutChunkNoProgress ==
  /\ looping /\ remaining_file_len > MinChunkSize
  /\ \E size \in CutSizes :
       /\ Read(size)
       /\ ReturnChunk(size)
       /\ file_read_ptr' = file_read_ptr + size
       /\ remaining_file_len' =
            IF Hits = {} THEN remaining_file_len ELSE remaining_file_len - size

\* GetNextChunk with more than MinChunkSize bytes left.
CutChunk ==
  /\ looping /\ remaining_file_len > MinChunkSize
  /\ \E size \in CutSizes :
       /\ Read(size)
       /\ ReturnChunk(size)
       /\ file_read_ptr' = file_read_ptr + size
       /\ remaining_file_len' = remaining_file_len - size

Init == ChunkerInit

GetNextChunk == EndOfFile \/ ShortChunk \/ CutChunk

Next ==
  /\ ~faulted
  /\ (\E f \in Inputs : MapFile(f)) \/ GetNextChunk

Spec == Init /\ [][Next]_fileVars

\* AddFile calls GetNextChunk in a loop of a single thread, so that as long as
\* it is in the loop, and has not crashed, it takes another step.
FairSpec == Spec /\ WF_fileVars(~faulted /\ GetNextChunk)

\* AddFile leaves its loop over the chunks of a file, whatever the file.
LoopEnds == looping ~> ~looping
=============================================================================
