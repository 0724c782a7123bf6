-------------------------- MODULE DeltaCompression --------------------------
(***************************************************************************)
(* The sequential compressor (delta_compression.cpp), the one that runs    *)
(* unless the configuration asks for the pipeline.  AddFile stores the     *)
(* chunks of a file one by one, writes the line of the file, and then      *)
(* compresses the WHOLE store in groups.  It looks for no duplicates.      *)
(*                                                                         *)
(* The compressed sizes of LZ4 and zstd are not modelled: in their place   *)
(* frames records what was compressed, which is what these sizes add up.   *)
(***************************************************************************)
EXTENDS Grouping, FiniteSets

CONSTANTS Contents,  \* what a chunk can contain
          Files,     \* the files, as the sequences of chunks they are cut into
          Similar,   \* pairs of contents that the index matches
          IdSpace,   \* number of values of a chunk id (2^32 in the code)
          MaxFiles   \* bound: files added

ASSUME SequentialAssumption ==
  /\ Files \subseteq Seq(Contents)
  /\ Contents \subseteq Seq(Nat) \ {<<>>}    \* bytes, at least one
  /\ Similar \subseteq Contents \X Contents
  /\ \A c \in Contents : <<c, c>> \in Similar
  /\ IdSpace \in Nat \ {0} /\ MaxFiles \in Nat

VARIABLES running,    \* inside AddFile
          pending,    \* chunks the chunker has yet to return
          nextId,     \* the chunker's chunk_id_
          file_meta,  \* the local FileMeta of AddFile
          metas,      \* lines written by file_meta_writer_
          index_,     \* the feature index: a set of features with chunk ids
          storage_,   \* the chunk store
          stats,      \* the counters
          frames,     \* what each call of groupByBase compressed
          aborted,    \* the cache dereferenced a null pointer
          cut,        \* history: contents of all chunks
          bounds      \* history: number of chunks cut before each AddFile

vars == <<running, pending, nextId, file_meta, metas, index_, storage_, stats,
          frames, aborted, cut, bounds>>
-----------------------------------------------------------------------------
Init ==
  /\ running = FALSE
  /\ pending = <<>>
  /\ nextId = 0
  /\ file_meta = [start |-> 0, end |-> 0]
  /\ metas = <<>>
  /\ index_ = {}
  /\ storage_ = EmptyStore
  /\ stats = [origin |-> 0, before |-> 0, after |-> 0, base |-> 0, delta |-> 0,
              grouping_num |-> 0, grouping_blocks |-> 0]
  /\ frames = <<>>
  /\ aborted = FALSE
  /\ cut = <<>>
  /\ bounds = <<>>

\* AddFile up to its loop.  end_chunk_id is not initialised: it has whatever
\* value the stack holds.
StartAddFile(f) ==
  /\ ~running /\ Len(metas) < MaxFiles
  /\ running' = TRUE
  /\ pending' = f
  /\ \E garbage \in 0..IdSpace - 1 :
       file_meta' = [start |-> IdSpace - 1, end |-> garbage]
  /\ bounds' = Append(bounds, Len(cut))
  /\ UNCHANGED <<nextId, metas, index_, storage_, stats, frames, aborted, cut>>

\* GetNextChunk: the first id of a file becomes its start_chunk_id.
NextChunk ==
  /\ running /\ pending # <<>>
  /\ pending' = Tail(pending)
  /\ nextId' = (nextId + 1) % IdSpace
  /\ cut' = Append(cut, Head(pending))

FirstId == IF file_meta.start = IdSpace - 1 THEN nextId ELSE file_meta.start

\* The ids that GetBaseChunkID may return.
BaseChunkIDs(feature) == {e.id : e \in {x \in index_ : <<feature, x.feature>> \in Similar}}

\* Mutant: the chunk is stored and not entered in the index.
AddBaseNoIndex ==
  LET chunk == Head(pending) IN
  /\ NextChunk
  /\ BaseChunkIDs(chunk) = {}
  /\ storage_' = WriteBaseChunk(storage_, chunk, nextId)
  /\ stats' = [stats EXCEPT !.base = @ + 1, !.origin = @ + Len(chunk)]
  /\ file_meta' = [file_meta EXCEPT !.start = FirstId]
  /\ UNCHANGED <<running, metas, index_, frames, aborted, bounds>>

\* Mutant: the base path skips the assignment of start_chunk_id too.
AddBaseNoStart ==
  LET chunk == Head(pending) IN
  /\ NextChunk
  /\ BaseChunkIDs(chunk) = {}
  /\ index_' = index_ \cup {[feature |-> chunk, id |-> nextId]}
  /\ storage_' = WriteBaseChunk(storage_, chunk, nextId)
  /\ stats' = [stats EXCEPT !.base = @ + 1, !.origin = @ + Len(chunk)]
  /\ UNCHANGED <<running, metas, file_meta, frames, aborted, bounds>>

\* No base chunk is found: the chunk becomes one.  This path leaves the loop
\* body by continue, before end_chunk_id is set.
AddBase ==
  LET chunk == Head(pending) IN
  /\ NextChunk
  /\ BaseChunkIDs(chunk) = {}
  /\ index_' = index_ \cup {[feature |-> chunk, id |-> nextId]}
  /\ storage_' = WriteBaseChunk(storage_, chunk, nextId)
  /\ stats' = [stats EXCEPT !.base = @ + 1, !.origin = @ + Len(chunk)]
  /\ file_meta' = [file_meta EXCEPT !.start = FirstId]
  /\ UNCHANGED <<running, metas, frames, aborted, bounds>>

\* A base chunk is found: it is fetched, and the chunk is stored as its delta.
AddDelta ==
  LET chunk == Head(pending) IN
  /\ NextChunk
  /\ \E base \in BaseChunkIDs(chunk) :
       storage_' = WriteDeltaChunk(GetDeltaEncodedChunk(storage_, base), chunk, base)
  /\ stats' = [stats EXCEPT !.delta = @ + 1, !.before = @ + Len(chunk),
                            !.after = @ + Len(chunk)]
  /\ file_meta' = [start |-> FirstId, end |-> nextId]
  /\ aborted' = storage_'.cache.crashed
  /\ UNCHANGED <<running, metas, index_, frames, bounds>>

\* The end of AddFile: the line of the file, and the grouping of the store.
EndAddFile ==
  /\ running /\ pending = <<>>
  /\ running' = FALSE
  /\ metas' = Append(metas, file_meta)
  /\ frames' = Append(frames, groupByBase(storage_.meta))
  /\ stats' = [stats EXCEPT
       !.origin = @ + GroupedDeltaSize(storage_.meta),
       !.grouping_num = @ + Cardinality(LargeGroups(storage_.meta)),
       !.grouping_blocks = @ + GroupedBlocks(storage_.meta)]
  /\ storage_' = SeekEnd(storage_)
  /\ UNCHANGED <<pending, nextId, file_meta, index_, aborted, cut, bounds>>

Next ==
  /\ ~aborted
  /\ (\E f \in Files : StartAddFile(f)) \/ AddBase \/ AddDelta \/ EndAddFile

Spec == Init /\ [][Next]_vars
-----------------------------------------------------------------------------
\* The type of the i-th record, counting from 1.
RecordType(i) == storage_.meta[i].type

\* The n-th record is that of the n-th chunk, gives the chunk back as far as its
\* length fits the record, and both files stand at their end for the next write:
\* neither fetching a base (GetChunkContent) nor grouping (dividByBase), which
\* both move the files, disturbs the store.
StoreFaithful ==
  /\ Len(storage_.meta) = Len(cut)
  /\ storage_.mpos = Len(storage_.meta) /\ storage_.dpos = Len(storage_.data)
  /\ \A i \in 1..Len(storage_.meta) : ChunkContent(storage_, i - 1) = Kept(cut[i])

\* The frames that the last grouping compressed hold every chunk of the store
\* once; all chunks of a frame have one base, which comes first if it is in
\* the frame; no frame has more than GroupSize chunks of either kind, and the
\* base is only ever put in front of a group that is not full.
GroupedOnce ==
  frames # <<>> /\ ~running =>
    LET pass == Last(frames)
        all  == FlattenSeq(pass)
    IN /\ Len(all) = Len(cut)
       /\ ToSet(all) = 0..Len(cut) - 1
       /\ \A k \in 1..Len(pass) :
            /\ Cardinality({storage_.meta[n + 1].base : n \in ToSet(pass[k])}) = 1
            /\ Len(pass[k]) \in 1..GroupSize
            /\ \A i \in 2..Len(pass[k]) :
                 /\ RecordType(pass[k][i] + 1) = DeltaChunk
                 /\ pass[k][i - 1] < pass[k][i]

\* The line of a file that has chunks starts with the id of its first chunk and
\* ends with the id of its last delta chunk, which need not be its last chunk:
\* the base path of AddFile does not set end_chunk_id.
LinesEndAtDeltas ==
  \A k \in 1..Len(metas) :
    LET last   == IF k < Len(bounds) THEN bounds[k + 1] ELSE Len(cut)
        ids    == bounds[k]..last - 1
        deltas == {n \in ids : RecordType(n + 1) = DeltaChunk}
    IN /\ ids # {} => metas[k].start = bounds[k]
       /\ deltas # {} => metas[k].end = Max(deltas)

\* total_size_origin_, the "before" of every ratio that is printed, is the
\* length of the input if one file was added; each further grouping adds the
\* delta chunks of all files again.
OriginOfOneFile ==
  Len(metas) = 1 /\ ~running => stats.origin = TotalLen(cut)

\* What grouping the whole store after every file leaves behind.
GroupingRight == GroupedOnce /\ OriginOfOneFile

\* The chunk store, seen abstractly.
Store == INSTANCE ChunkStoreSpec WITH
  Deduplicate <- FALSE,
  input <- cut,
  records <- [i \in 1..Len(storage_.meta) |->
                [type |-> IF RecordType(i) = BaseChunk THEN "base" ELSE "delta",
                 base |-> storage_.meta[i].base]]

\* The compressor implements the specification of the store, without duplicates.
ImplementsStore == Store!Spec
=============================================================================
