---------------------- MODULE PipelineDeltaCompression ----------------------
(***************************************************************************)
(* What the five workers of the pipeline do with a chunk, on top of the    *)
(* thread protocol of PipelineQueues: each action here is an action there  *)
(* together with its effect on the data.                                   *)
(*                                                                         *)
(* Of a feature only equality and similarity matter, so the feature of a   *)
(* chunk is its content and the index is a set of features with ids; which *)
(* of several similar bases GetBaseChunkID returns depends on the index in *)
(* use and is left open.  SHA-1 is taken to be injective.                  *)
(***************************************************************************)
EXTENDS PipelineQueues, Storage, FiniteSets

CONSTANT Similar   \* pairs of contents that an index matches

ASSUME SimilarAssumption ==
  /\ Contents \subseteq Seq(Nat) \ {<<>>}    \* bytes, at least one
  /\ Similar \subseteq Contents \X Contents
  /\ \A c \in Contents : <<c, c>> \in Similar

VARIABLES ctx,      \* the contexts allocated and not deleted, by number
          mp_,      \* Dedup: content to chunk id
          index_,   \* the feature index: a set of features with chunk ids
          storage_, \* the chunk store
          stats,    \* the counters of DeltaCompression
          aborted,  \* LOG(FATAL), or a null pointer dereferenced by the cache
          cut       \* history: contents of the chunks, as they were cut

dataVars == <<ctx, mp_, index_, storage_, stats, aborted, cut>>
vars == <<queueVars, dataVars>>
-----------------------------------------------------------------------------
NoFeature == <<>>

\* f with x mapped to v.
Set(f, x, v) == [y \in DOMAIN f \cup {x} |-> IF y = x THEN v ELSE f[y]]

\* delete context_.
Delete(f, x) == [y \in DOMAIN f \ {x} |-> f[y]]

CompressionInit ==
  /\ Init
  /\ ctx = << >>
  /\ mp_ = << >>
  /\ index_ = {}
  /\ storage_ = EmptyStore
  /\ stats = [origin |-> 0, compressed |-> 0, before |-> 0, after |-> 0,
              base |-> 0, delta |-> 0, duplicate |-> 0]
  /\ aborted = FALSE
  /\ cut = <<>>

\* ChunkingWorker allocates a context, whose base_chunk_id starts as 0.  The
\* chunk takes the next 32-bit id: once the ids have wrapped, an id is that of
\* an earlier chunk too, whose record the id still leads to.
ChunkingWorker ==
  /\ CutChunk
  /\ ctx' = Set(ctx, contexts, [chunk |-> Head(pending), id |-> nextId,
                                type |-> 0, base |-> 0, feature |-> NoFeature])
  /\ cut' = Append(cut, Head(pending))
  /\ UNCHANGED <<mp_, index_, storage_, stats, aborted>>

\* Dedup::ProcessChunk: the map afterwards.
ProcessChunk(m, chunk, id) == IF chunk \in DOMAIN m THEN m ELSE Set(m, chunk, id)

\* ... and the id it returns.
DedupBaseId(m, chunk, id) == IF chunk \in DOMAIN m THEN m[chunk] ELSE id

DedupWorker ==
  /\ Process(dedup_worker)
  /\ LET n             == held[dedup_worker]
         id            == ctx[n].id
         dedup_base_id == DedupBaseId(mp_, ctx[n].chunk, id)
     IN
     /\ mp_' = ProcessChunk(mp_, ctx[n].chunk, id)
     /\ ctx' = IF dedup_base_id = id THEN ctx
               ELSE [ctx EXCEPT ![n].type = DuplicateChunk,
                                ![n].base = dedup_base_id]
  /\ UNCHANGED <<index_, storage_, stats, aborted, cut>>

FeatureCalcWorker ==
  /\ Process(feature_worker)
  /\ LET n == held[feature_worker] IN
     ctx' = IF ctx[n].type = DuplicateChunk THEN ctx
            ELSE [ctx EXCEPT ![n].feature = ctx[n].chunk]
  /\ UNCHANGED <<mp_, index_, storage_, stats, aborted, cut>>

\* The ids that GetBaseChunkID may return for a feature.
BaseChunkIDs(feature) == {e.id : e \in {x \in index_ : <<feature, x.feature>> \in Similar}}

\* ChunkMatchWorker lets duplicates through ...
MatchDuplicate ==
  /\ Process(match_worker)
  /\ ctx[held[match_worker]].type = DuplicateChunk
  /\ UNCHANGED dataVars

\* ... makes a chunk without a match a base chunk and enters it in the index ...
MatchNothing ==
  LET n == held[match_worker] IN
  /\ Process(match_worker)
  /\ ctx[n].type # DuplicateChunk
  /\ BaseChunkIDs(ctx[n].feature) = {}
  /\ ctx' = [ctx EXCEPT ![n].type = BaseChunk]
  /\ index_' = index_ \cup {[feature |-> ctx[n].feature, id |-> ctx[n].id]}
  /\ UNCHANGED <<mp_, storage_, stats, aborted, cut>>

\* Mutant: delta chunks are entered in the index too.
MatchBaseIndexed ==
  LET n == held[match_worker] IN
  /\ Process(match_worker)
  /\ ctx[n].type # DuplicateChunk
  /\ \E base \in BaseChunkIDs(ctx[n].feature) :
       ctx' = [ctx EXCEPT ![n].type = DeltaChunk, ![n].base = base]
  /\ index_' = index_ \cup {[feature |-> ctx[n].feature, id |-> ctx[n].id]}
  /\ UNCHANGED <<mp_, storage_, stats, aborted, cut>>

\* Mutant: the match is recorded without the type.
MatchBaseNoType ==
  LET n == held[match_worker] IN
  /\ Process(match_worker)
  /\ ctx[n].type # DuplicateChunk
  /\ \E base \in BaseChunkIDs(ctx[n].feature) :
       ctx' = [ctx EXCEPT ![n].base = base]
  /\ UNCHANGED <<mp_, index_, storage_, stats, aborted, cut>>

\* ... and makes a chunk with a match a delta chunk of that base.
MatchBase ==
  LET n == held[match_worker] IN
  /\ Process(match_worker)
  /\ ctx[n].type # DuplicateChunk
  /\ \E base \in BaseChunkIDs(ctx[n].feature) :
       ctx' = [ctx EXCEPT ![n].type = DeltaChunk, ![n].base = base]
  /\ UNCHANGED <<mp_, index_, storage_, stats, aborted, cut>>
-----------------------------------------------------------------------------
(* ChunkWriteWorker's switch on chunk_type: what it does to the store, and *)
(* to the counters.                                                        *)

StoreChunk(st, c) ==
  CASE c.type = DuplicateChunk -> WriteDuplicateChunk(st, c.chunk, c.base)
    [] c.type = BaseChunk      -> WriteBaseChunk(st, c.chunk, c.id)
    [] c.type = DeltaChunk     -> WriteDeltaChunk(GetDeltaEncodedChunk(st, c.base),
                                                  c.chunk, c.base)
    [] OTHER                   -> st

CountChunk(s, c) ==
  LET len == Len(c.chunk)
      t   == [s EXCEPT !.origin = @ + len]
  IN CASE c.type = DuplicateChunk -> [t EXCEPT !.duplicate = @ + 1]
       [] c.type = BaseChunk      -> [t EXCEPT !.base = @ + 1,
                                               !.compressed = @ + len]
       [] c.type = DeltaChunk     -> [t EXCEPT !.delta = @ + 1, !.before = @ + len,
                                               !.after = @ + len,
                                               !.compressed = @ + len]
       [] OTHER                   -> t

\* Mutant: the context is not deleted.
ChunkWriteWorkerLeak ==
  LET n == held[write_worker] IN
  /\ WriteOut
  /\ storage_' = StoreChunk(storage_, ctx[n])
  /\ stats' = CountChunk(stats, ctx[n])
  /\ aborted' = \/ ctx[n].type \notin {DuplicateChunk, BaseChunk, DeltaChunk}
                \/ storage_'.cache.crashed
  /\ UNCHANGED <<ctx, mp_, index_, cut>>

\* The body of the loop of ChunkWriteWorker.  The default case of the switch
\* is LOG(FATAL); nothing follows an abort, so that the chunk then counts as
\* passed on and deleted is of no consequence.
ChunkWriteWorker ==
  LET n == held[write_worker] IN
  /\ WriteOut
  /\ storage_' = StoreChunk(storage_, ctx[n])
  /\ stats' = CountChunk(stats, ctx[n])
  /\ aborted' = \/ ctx[n].type \notin {DuplicateChunk, BaseChunk, DeltaChunk}
                \/ storage_'.cache.crashed
  /\ ctx' = Delete(ctx, n)
  /\ UNCHANGED <<mp_, index_, cut>>

\* Steps of the main thread and of the queues, which leave the data alone.
ControlStep ==
  /\ \/ \E f \in Files : StartAddFile(f)
     \/ JoinAddFile
     \/ NoMoreChunks
     \/ WriterReturns
     \/ \E w \in Workers : QueueStep(w) \/ SpuriousWakeup(w)
  /\ UNCHANGED dataVars

CompressionNext ==
  /\ ~aborted
  /\ \/ ControlStep
     \/ ChunkingWorker \/ DedupWorker \/ FeatureCalcWorker
     \/ MatchDuplicate \/ MatchNothing \/ MatchBase
     \/ ChunkWriteWorker

CompressionSpec == CompressionInit /\ [][CompressionNext]_vars
-----------------------------------------------------------------------------
Types == {BaseChunk, DeltaChunk, DuplicateChunk}

\* The contexts in memory are those of the chunks between the chunker and the
\* write worker: none is used after its delete, none is deleted twice, none is
\* left when AddFile returns, although five threads hand raw pointers around.
ContextsLive == DOMAIN ctx = passed[write_worker]..contexts - 1

\* No chunk reaches the write worker unclassified (LOG(FATAL)), and with a cache
\* limit above the largest chunk the cache never runs out of nodes.
NeverAborts == ~aborted

\* The counters printed at the end are those of the chunks written: every byte
\* is counted once, and total_size_compressed_ is the length of the data file.
StatsExact ==
  /\ stats.origin = TotalLen(SubSeq(cut, 1, passed[write_worker]))
  /\ stats.compressed = Len(storage_.data)
  /\ \A t \in Types :
       Cardinality({i \in 1..Len(storage_.meta) : storage_.meta[i].type = t})
         = CASE t = BaseChunk -> stats.base
             [] t = DeltaChunk -> stats.delta
             [] OTHER -> stats.duplicate

\* The store is what its readers take it for: the n-th record is that of the
\* n-th chunk cut, reading a base or delta record gives back the chunk as far as
\* its length fits the record, reading the base of a duplicate gives back the
\* duplicate, a chunk that is cut short shifts none of the others, and both
\* files stand at their end for the next write, although fetching a base moves
\* them; and the counters that are printed are those of its records.
StoreFaithful ==
  /\ Len(storage_.meta) = passed[write_worker]
  /\ storage_.mpos = Len(storage_.meta) /\ storage_.dpos = Len(storage_.data)
  /\ \A i \in 1..Len(storage_.meta) :
       LET m == storage_.meta[i] IN
       ChunkContent(storage_, IF m.type = DuplicateChunk THEN m.base ELSE i - 1)
         = Kept(cut[i])
  /\ StatsExact

\* What the cache holds for an id is what the store holds for it, so a base
\* that is fetched from the cache is the base that was matched.
CacheCoherent ==
  \A id \in storage_.cache.map :
    CachedChunk(storage_.cache, id) = ChunkContent(storage_, id)

TypeName(t) ==
  CASE t = BaseChunk -> "base" [] t = DeltaChunk -> "delta" [] OTHER -> "duplicate"

\* The chunk store that the write worker produces, seen abstractly.
Store == INSTANCE ChunkStoreSpec WITH
  Deduplicate <- TRUE,
  input <- SubSeq(cut, 1, Len(storage_.meta)),
  records <- [i \in 1..Len(storage_.meta) |->
                [type |-> TypeName(storage_.meta[i].type),
                 base |-> storage_.meta[i].base]]

\* The pipeline implements the sequential specification of the store: although
\* the dedup map and the index run ahead of the writer, every chunk is
\* classified as if chunks were processed one at a time, in order.
ImplementsStore == Store!Spec

\* The record of a duplicate points to the bytes of the chunk it duplicates.
DuplicateSharesOffset ==
  \A i \in 1..Len(storage_.meta) :
    LET m == storage_.meta[i] IN
    m.type = DuplicateChunk => m.offset = storage_.meta[m.base + 1].offset
=============================================================================
