# A TLA+ model of the chunk-grouping compressor

This project specifies, model-checks and proves properties of the program in
`src/`: a compressor that cuts files into chunks, finds similar chunks, writes
them to a chunk store, and compresses similar chunks together in groups.
The delta codec that the program carries with it, xdelta3, is modelled as well.
Everything is translated from the C and C++ source; the map in `PROJECT.json` names
the lines that each definition stands for.

## 1. The system

`main.cpp` reads a configuration, builds a `DeltaCompression` or, with
`pipeline = true`, a `PipelineDeltaCompression`, and calls `AddFile` for every
regular file below a directory.

| component | state | operations | hard behaviour |
|---|---|---|---|
| Pipeline (`pipeline_delta_compression.*`) | four bounded queues of context pointers, each with mutex, condition variable and done flag; `processed_chunk_` | `AddFile` starts and joins five workers: chunking, dedup, feature, match, write | five threads, blocking on full and empty queues, termination by a flag set without the mutex |
| Sequential driver (`delta_compression.*`) | chunk counts, size totals, file meta writer | `AddFile`: classify every chunk, then group the whole store | totals accumulated over several files; `end_chunk_id` assigned on one path only |
| Chunkers (`chunk/fast_cdc.*`, `chunk/rabin_cdc.*`, `utils/mapped_file.h`) | the mapping, read pointer, remaining length, next chunk id | `ReinitWithFile`, `GetNextChunk` | boundaries: short tails, min = max, empty files, a file that cannot be mapped |
| Dedup (`dedup/dedup.h`, `utils/sha1.*`) | digest to chunk id | `ProcessChunk` | first occurrence wins |
| Features (`feature/*`, `utils/rabin.*`, `utils/gear.h`, `storage/our_feature.cpp`) | none | `operator()` of each calculator | numeric |
| Indexes (`index/*`) | feature to chunk id, per level | `GetBaseChunkID`, `AddFeature`, dump and recover | first fit over levels, iteration order of hash maps |
| Storage (`storage/storage.*`) | data file, meta file, both with a position; the cache | `WriteBaseChunk`, `WriteDeltaChunk`, `WriteDuplicateChunk`, `GetChunkContent`, `GetDeltaEncodedChunk`, `dividByBase`, `groupByBase` | records are found by position; reads move the position that writes use |
| Cache (`storage/cache.*`) | LRU list, map, memory counter | `get`, `add` | accounting at the limit |
| File meta (`storage/file_meta.h`) | a text file | `Write`, `Next`, `GetFileMetaByName` | names with blanks |
| Encoder (`encoder/xdelta.h`) | one output buffer | `encode`, `decode` | results alias the buffer; not called by the drivers |
| xdelta3 codec (`3party/xdelta3/xdelta3.c`, `-decode.h`, `-hash.h`, `-internal.h`) | an `xd3_stream` per side: input window and leftovers, hash tables, instruction buffer, address cache, output sections; a source in blocks | `xd3_avail_input`, `xd3_encode_input`, `xd3_decode_input`, `xd3_close_stream` | re-entrant: a call ends wherever input, output or a source block is needed, and goes on there; optimisations that two sides must undo alike |
| xdelta3 merging (`-merge.h`, `main_merge_output` of `-main.h`) | the instructions of two deltas | `xd3_whole_append_window`, `xd3_merge_inputs` | copies of copies, split at every boundary |
| xdelta3 secondary compression (`-second.h`, `-djw.h`, `-fgk.h`) | adaptive Huffman trees, one per section and side | encode, decode | the two sides must learn the same |

How the parts interact. The driver pulls chunks from the chunker by calls; in
the pipeline a chunk travels through four queues as a pointer to a `context`
that each worker fills in further. The match worker (or the driver) asks the
index for a base and enters chunks that have none. Only the write worker (or
the driver) touches the storage, which in turn is the only user of the cache.
After each file the sequential driver, and only that one, lets the storage read
itself back and compress similar chunks together. Nothing ties a chunk to its
record but the order of the writes: the record of chunk *n* is the *n*-th one.

What makes each part correct:

* pipeline: no chunk lost, duplicated, reordered; a worker stops only when its
  input is used up; contexts are freed once; `AddFile` returns;
* drivers: every chunk is classified by the chunks before it and by nothing
  else, whether by one thread or by five; the lines of the file meta and the
  counters are those of the input;
* chunkers: the chunks of a file follow one another, cover it, have the
  configured sizes, and depend on content only; only mapped memory is read;
* storage: every record leads to the bytes of its chunk, whatever reads come in
  between the writes; every chunk is in one compressed frame, with its base;
* cache: the bytes of the right chunk, LRU order, memory within the limit;
* features: chunks that agree in the sampled minima agree in the feature;
* indexes: a base is found if there is one, is the best by the rule of the
  index, and stays retrievable;
* codec: what is encoded is decoded to the same bytes, however it is handed
  over; what is incomplete is refused; every call sequence ends.

The hazards behind these, each at its line, are in `PROJECT.json`.

## 2. The modules

| module | models | state, and where it comes from |
|---|---|---|
| `PipelineQueues` | the thread protocol of `PipelineDeltaCompression` | `pc` and `held` of five workers, `queue`, `done` per queue, `passed` (whose last entry is `processed_chunk_`), `pending` and `nextId` of the chunker, `contexts` (how many were allocated), `fileMeta`, `metaFile` |
| `PipelineDeltaCompression` | what the workers do with a chunk; extends `PipelineQueues` and `Storage` | `ctx` (contexts by number), `mp_` (dedup), `index_`, `storage_`, `stats`, `aborted` |
| `ChunkStoreSpec` | the abstract specification of both compressors | chunks stored so far, with class and base |
| `Storage` | the store, as operators on a record | data and meta file with their positions, cache |
| `Grouping` | `dividByBase`, `groupByBase`, as operators on the meta file | |
| `DeltaCompression` | the sequential driver; extends `Grouping` | `pending`, `nextId`, `file_meta`, `metas`, `index_`, `storage_`, `stats`, `frames` |
| `ChunkCache`, `ChunkCacheClient` | the cache as operators; its use by `GetDeltaEncodedChunk` | LRU list, ids in the map, `current_memory` |
| `Chunker` | what the two chunkers share, and the loop of `AddFile` around them | mapped file, `file_read_ptr`, `remaining_file_len`, `next_chunk_id_`, chunks returned |
| `FastCDC` | the default chunker | |
| `Rabin`, `RabinCDC` | the Rabin fingerprint over sets of exponents; the chunker | `window`, `wpos` and `digest` |
| `FeatureCalculator` | `OdessSubfeatures`, `PalantirFeature`, the share of zeros | none: operators on the bytes of a chunk |
| `SuperFeatureIndex`, `PalantirIndex` | the default index | per level: super feature to id, float to id |
| `BestFitIndex` | the `bestfit` index | per position: feature to list of ids |
| `FeatureIndex` | the index the configuration selects, over computed features | `feature_type` |
| `Xd3AddressCache` | near and same cache, modes, coding of addresses | operators on a cache |
| `Xd3AddressSync` | an encoder and a decoder that share nothing but the delta | two caches with positions, the entries sent |
| `Xd3Format` | integers, code table, choice of codes, header fields, checksum | |
| `Xd3Hash`, `Xd3Match` | checksums and hash tables; source and target search | operators on a stream |
| `Xd3Iopt` | the buffer of instructions, their encoding, the source window | operators on a stream |
| `Xd3Encoder` | the states of `xd3_encode_input` and its client | `e` (the `xd3_stream`), `ipos`, `out`, `client` |
| `Xd3Decoder` | what `xd3_decode_input` does with a byte, a section, a window | operators on a stream |
| `Xd3Merge` | whole states and their composition | operators |
| `Xd3Codec` | encoder, decoder, merging and their clients together | `d`, `mem`, `at`, `avail`, `dout`, `whole`, `reader` |
| `Xd3Djw`, `Xd3Fgk` | the two secondary compressors | tables; trees |
| `Xd3Secondary` | sections compressed, sent and read back in sequence | both trees, what was sent and read |

`Xd3Codec` extends `Xd3Merge`, that `Xd3Encoder` and `Xd3Decoder`, and so on down
to `Xd3AddressCache`; the address cache that is proved about is the one that the
codec runs with.

A module `X_proofs` holds the theorems about `X` and their proofs (section 4):
`PipelineDeltaCompression_proofs` (whose first part is about `PipelineQueues`),
`ChunkCacheClient_proofs`, `DeltaCompression_proofs`, `FastCDC_proofs`,
`RabinCDC_proofs`, `FeatureIndex_proofs` and `Xd3AddressSync_proofs`.
`Storage_proofs` has lemmas only: what the operators of cache, store and
classification preserve, for the three modules that build state machines from
them.

The modules `MC...` give the constants of the model-checking runs (those of `cache`
are in its configuration file). An operator whose comment begins with "Mutant" is
a wrong variant of the definition after it: put in its place, it makes a property fail, which shows that the property
looks at that definition. `PROJECT.json` pairs them.

Choices that need a word:

* **Steps of a thread.** A critical section of a queue is one step, except that
  a thread that evaluates the predicate of a wait to false holds the mutex until
  it sleeps (`getBlock`, `putBlock`): `task_done` takes no mutex and can come
  between. The flag and the notification of `task_done` are two steps. The body
  of a worker's loop is one step: its data is its own, or used by it alone (the
  dedup map by one worker, the index by one, the store by one).
* **The done flags** are plain `bool`s written without the mutex. The model lets
  a write become visible in one step, at any time between two steps of the
  others; it does not consider a compiler that keeps the flag in a register,
  which the mutex operations between two evaluations of the predicate rule out.
* **Contexts**, the pointers in the queues, are numbered as they are allocated.
  The id of the chunk is a field of the context: it is a `uint32_t`
  (`chunk/chunker.h:14`) and comes back after 2^32 chunks, which a pointer in use
  does not.
* **Contents.** A chunk is a short sequence of bytes; different lengths keep
  offsets from coinciding by chance. Its feature is the content itself, and
  `Similar` says which contents an index matches; that the indexes behave like
  that is `PalantirLookup` and `SimilarIsFound`. SHA-1 is taken
  to be injective.
* **Fingerprints.** Of the gear hash of FastCDC only matters on which bytes it
  depends and whether the masked value is zero: `Stop` is the set of windows for
  which it is. The Rabin digest is computed, with its two tables, over a small
  polynomial: that it depends on the window only is a property
  (`DigestOfWindow`), not an assumption. Feature calculation is computed too,
  with small tables; whether the values are spread well is not a question here.
* **Streams of xdelta3** are records with the fields of `xd3_stream` and
  `xd3_source` that control depends on. A step is a state of `enc_state` or
  `dec_state`, or a turn of the search loop, so that every place where a call can
  return to the client lies between two steps. Deltas are real bytes: the
  decoder gets nothing from the encoder but these. The build's configuration is
  that of `CMakeLists.txt` and the headers; sizes (window, block, look-ahead,
  chain lengths, tables) are constants, as the code makes them, and much smaller.
* **Assertions** of xdelta3 are compiled out (`XD3_DEBUG=0`). The model goes on
  as the build does and collects those that fail (`failed`). It looks at those
  that depend on what the search found and on how instructions are ordered, and
  leaves out those that follow from the lines before them (that `srclen` is not
  zero, the sizes that overlapping instructions are cut to, the upper bound of
  `srcwin_cksum_pos`) and those about lists, allocation and code tables.
* **Uninitialised values.** `end_chunk_id` of the sequential driver starts with
  any value. Bytes that `fread` does not fill have a value of their own.
* **Integer widths** that matter are constants: `IdSpace` (2^32), `Uint16`
  (2^16), `SizeT` (2^64), and `USize` (2^32, or 2^64) for positions, sizes and
  addresses of a delta. The address `base_chunk_id & sizeof(ChunkMeta)` is
  computed as the code does, with 16 for the size.
* **Compressed sizes** of LZ4 and zstd are not modelled; `frames` records which
  chunks went into each compressed frame, which is what the code decides.

## 3. The runs

| run | states | what it shows |
|---|---|---|
| `queues` | 101,917 | the thread protocol, safety and liveness, over two files |
| `queues_returns` | violation | `AddFile` may hang |
| `pipeline` | 442,492 | all five workers with their data, over three files; the refinement of `ChunkStoreSpec` |
| `pipeline_duplicates` | violation | the record of a duplicate points elsewhere |
| `cache` | 40,688 | the cache, for all assignments of four lengths to four chunks |
| `sequential` | 57,161 | the sequential driver, with grouping after each of three files |
| `fastcdc` | 253,953 | every pair of files of up to seven bytes |
| `rabincdc` | 59,137 | every pair of files of up to six bytes, with the digest computed |
| `rabincdc_lossless` | violation | the tail of a file is lost |
| `index` | 5,357 | both indexes, all sequences of three of 120 chunks, features computed |
| `codec` | 267,815 | several hundred jobs of the delta codec: in memory, streaming, in place, cut short, merged |
| `secondary` | 16,500 | both secondary compressors, sections in sequence |

The bounds, and why they are enough:

* `queues`: `MaxQueueLen = 2` with files of 0 and 3 chunks: queues are empty,
  partly filled and full, and a queue of two can be read from the wrong end. Two
  files let flags, contexts or ids of the first reach into the second.
  `IdSpace = 4` makes ids wrap. One spurious wake-up.
* `pipeline`: `MaxQueueLen = 1`, three files of up to three chunks from five
  contents: bases, deltas with one and with two candidate bases, duplicates
  within a file and across files. `MaxMemoryUsage = 4` evicts bases, which are
  fetched again. `Uint16 = 3` makes one content too long for its record.
  `IdSpace = 64`, more than there are chunks, so that no id comes back: what
  happens to the threads when one does is in `queues`, and what it means for the
  store is said with the theorems (section 4). With `IdSpace = 4` this instance
  keeps `ContextsLive`, `NeverAborts` and `CacheCoherent`, and violates
  `StoreFaithful`.
* `cache`: lengths 1, 2, 4 and 5 under a limit of 5, down to the chunk that
  never fits.
* `sequential`: `GroupSize = 2`, so that a base gets no delta, one, two (a full
  group), and more; deltas of a base come from several files; files end with a
  base or are empty.
* `fastcdc`, `rabincdc`: sizes 2 to 4, files of up to 7 and of up to 6 bytes over
  two byte values, so that every file of up to three chunks with every pattern of
  boundaries occurs; windows longer than the shortest chunk, so that the reset of
  the fingerprint at a chunk and at a file matters; two files in sequence, the
  second of which may be one that cannot be mapped.
* `rabincdc` has bytes of two bits, a polynomial of degree 3 and a window of
  three bytes: a chunk of four bytes pushes the 1 of the reset and its own first
  bytes out of the window, and the six bits of the window are reduced.
* `index`: chunks of up to four bytes of three values; four sub features of
  three bits in one group of four and in two of two; shares of zeros of which
  neighbours are near. Chunks without a sample, samples whose transform is zero,
  bases that match on every level, by the float alone and not at all all occur.
  For `bestfit` three of four sub features must match.
* `codec`: four byte values, windows of 12 bytes, source blocks of 4, sources of
  8 and 12 bytes, targets of up to 24: matches are found in the source, in the
  target and across windows, go back over block boundaries, overlap, tie and
  collide in the hash tables; the instruction buffer has 4 slots or none to
  spare; the size of the source is known or not. The delta is cut short by one
  byte or by six. Deltas to be merged with hold every kind of instruction, among
  them copies that overlap their own output.
* `secondary`: an alphabet of six, sections of up to 16 symbols in sectors of
  five for two and three groups, with a longest code that some frequencies
  exceed; for the adaptive tree three sections in sequence, so that what one
  section left behind meets the next.

### The disagreements

* `queues_returns`: `task_done` sets the flag and notifies without the mutex. A
  worker that has evaluated its predicate and not yet gone to sleep misses both,
  and nobody wakes it again. `HangsOnlyByLostWakeup` shows that there is no
  other way to hang, and `EveryChunkWritten` that all chunks are stored even
  then: what is lost is the return of `AddFile`.
* `pipeline_duplicates`: `WriteDuplicateChunk` uses `&` where `GetChunkContent`
  uses `*`, and reads record 0 or 1 instead of that of the base. The field
  `base_chunk_id` of the record is right (`ImplementsStore`), so that the
  chunk can be found through it (`StoreFaithful` reads a duplicate that way).
* `rabincdc_lossless`: RabinCDC drops the tail of a file if no boundary comes
  before its end. `LossContained` bounds the loss and says what follows from it:
  the length that is left behind is taken for that of the next file if that one
  cannot be mapped.

Further weaknesses are recorded as the weaker property that does hold:

* `LimitKept`: the cache takes the length of the chunk that comes in off its
  counter, so it exceeds its limit with lengths that differ, and a chunk that
  does not fit crashes it; equal lengths are counted exactly;
* `LinesEndAtDeltas`: `end_chunk_id` is assigned on the delta path only;
* `GroupingRight`: `groupByBase` adds the lengths of all delta chunks in the
  store to `total_size_origin_` after every file, so that the total is that of
  the input for one file and counts chunks of earlier files again from the
  second on;
* `StoreFaithful` of the pipeline: a chunk of 2^16 bytes or more is read back cut
  short;
* `SimilarIsFound`: for Palantir's index a chunk is similar if all sub features
  of a group but the first agree: `group` starts at byte 4 of 8, and bytes 4 to
  7 are zero because the transform is computed in 32 bits. In the groups of two
  a single sub feature decides. All chunks without a sample have the same
  features;
* `ReadBackUnlessLost`: a section that the adaptive compressor encodes and then
  leaves as it was, because it did not get shorter, changes the encoder's tree
  and not the decoder's: the sections after it are read wrongly. And a code
  length that overflows in one group of the other compressor gives codes to
  symbols that do not occur there, which other groups do not have;
* `TreesSound`: weights are in order only while some symbol has not been seen.

In the codec two configurations that no client uses were left out of the jobs
because an assertion fails or a copy is refused in them: `XD3_BEGREEDY`
(`xdelta3.c:3755`), and a small instruction buffer for the stream that merging
encodes to, which would decide its source window before the copies are known.

### Fairness

`queues` and `queues_returns` assume weak fairness of the main thread's join and
of each worker: a thread that can run is eventually scheduled by the operating
system, which is all `std::thread` needs. Weak fairness also means that a thread
gets a mutex that stays free; it does not assume that a thread wins against
others that keep taking it, and none of the loops depends on that, as each side
of a queue blocks sooner or later. Nothing is assumed of spurious wake-ups or of
further files. `codec` assumes that the client goes on calling the library until
the job is finished, as the loops of `xd3_process_stream` and of any streaming
client do (`KeepsCalling`: infinitely many steps, or the end); nothing is assumed
of which pieces it hands over. `fastcdc` assumes that the single thread in the
loop of `AddFile` takes its next step.

Deadlock is not checked by TLC in any run, as the program really ends after its
last file; that nobody waits for ever is `HangsOnlyByLostWakeup` and `LoopEnds`.

## 4. The proofs

All are checked by TLAPS without unproved steps, and hold for every value of the
constants that satisfies the named assumptions of the modules, which say that
constants are numbers of the right sign, files sequences of chunks, and chunks
sequences of bytes. What a theorem assumes beyond these is named with it.

| module | theorem | of | argument |
|---|---|---|---|
| `PipelineDeltaCompression_proofs`, part 1 | `TypeCorrect`, `InOrder`, `Drained`, `Complete` | `TypeOK`, `InFlightInOrder`, `DoneMeansDrained`, `NothingLost` | `IInv` |
| | `LinesTile` | `FileMetaTiles` | `IInv` and `LinesMeetIds` |
| `PipelineDeltaCompression_proofs`, part 2 | `RunsTheQueues` | the specification of `PipelineQueues` | each step is one of the queues |
| | `ContextsAreLive` | `ContextsLive` | `IInv` |
| | `NothingAborts`, `CacheIsCoherent`, `StoreIsFaithful` | `NeverAborts`, `CacheCoherent`, `StoreFaithful` | `DInv` |
| | `PipelineImplementsStore` | `ImplementsStore` | `DInv`, a step of the store for each `WriteOut` |
| `ChunkCacheClient_proofs` | `MapIsList`, `LeastRecentlyUsed`, `LimitAlwaysKept` | `MapMatchesList`, `KeepsMostRecent`, `LimitKept` | `CInv` |
| `DeltaCompression_proofs` | `SequentialStoreFaithful` | `StoreFaithful` | `ChunksOK` |
| | `SequentialImplementsStore` | `ImplementsStore` | `ChunksOK` and `ClassesOK` |
| | `LinesAreRight` | `LinesEndAtDeltas` | `ChunksOK` and `LinesOK` |
| | `GroupingAlwaysRight` | `GroupingRight` | `FramesAre` for each base, and `GroupingOK` |
| `FastCDC_proofs` | `FastTiles`, `FastSizes`, `FastReadsMapped`, `FastLossless` | `Tiles`, `SizesBounded`, `ReadsMapped`, `WholeFileReturned` | `FastInv` |
| | `FastContentDefined` | `ContentDefined` | `CutByContent` |
| `RabinCDC_proofs` | `RabinDigest` | `DigestOfWindow` | `Sound`, kept by every slide; `FreshWindow` |
| | `RabinLossContained` | `LossContained` | `RabinInv` |
| | `RabinContentDefined` | `ContentDefined` | `RabinInv` and `ContentInv` |
| `FeatureIndex_proofs` | `PalantirEntriesStay`, `PalantirFindsBases` | `EntriesStay`, `PalantirLookup` | `ChoiceInv` |
| | `SimilarAlwaysFound` | `SimilarIsFound` | `SubIsLeast` for each chunk, and `ChoiceInv` |
| `Xd3AddressSync_proofs` | `DecoderFollows`, `AddressesAgreeAlways`, `CachesMeetAlways` | the same, within the codec, is part of `RoundTrip` | `SyncInv` |

**The threads** (`PipelineDeltaCompression_proofs`, part 1). The inductive invariant `IInv` consists of

* `TypeOK`;
* `IdsWrap`: `nextId` is the number of contexts modulo `IdSpace`, which the data
  needs;
* `HeldWhereWorking`: a worker has a context exactly between taking it and
  giving it on; ties `held` to `pc`, so that the counting below is exact;
* `IdleMeansEnded`: outside `AddFile` there is no thread, so that starting the
  threads overwrites nobody;
* `ClosedIsDone`: who is past the assignment of `task_done` has closed its queue;
  needed since `DoneMeansDrained` reads from a stopped worker that the queue
  before it is closed, and that has to stay so until `AddFile` returns;
* `InFlightInOrder`: a queue holds the consecutive ids between what its consumer
  and its producer have dealt with;
* `DoneMeansDrained`: a closed queue has a producer that will not push, so that
  the queue of a stopped worker stays empty.

`NothingLost` follows from these without induction: when the writer has ended,
`DoneMeansDrained` gives, queue by queue backwards, that each worker has ended
and each queue is empty, and `InFlightInOrder` then makes all counters equal.
`FileMetaTiles` needs in addition where the line of the file being read will
end (`LinesMeetIds`), which is known while chunks of it are still on their way,
and arithmetic modulo `IdSpace`.

**The data in the pipeline** (`PipelineDeltaCompression_proofs`, part 2). `Pipelined`
turns `IInv` into what the data needs of the threads: five counts, `Written <=
Matched <= Featured <= Deduped <= contexts`, such that a worker at work has in hand
the chunk with the number of its count. Everything else is said of these counts
and not of the queues. `DInv` consists of `IInv` and

* `ContextsOK`: the contexts are those of the chunks from `Written` on, each with
  its content, its id, and what the workers so far have filled in;
* `ClassesOK`: dedup map and index are those of the chunks up to `Deduped` and
  `Matched`, and each chunk is classified as they then were: a later worker never
  sees what belongs to a chunk behind it;
* `RecordsOK`: the store is in order (`StoreOK`), has `Written` records, and each
  with bytes of its own gives back its chunk (`Faithful`);
* `CountsOK`: the totals are those of the records;
* `CacheAlive`: the cache has not crashed, provided `Fits`.

`Fits`, the hypothesis of `NothingAborts`, says that what is kept of a chunk, its
length modulo 2^16, is below the cache limit. It holds for every `cache_size`
but 0 (`config.toml` has 500): the limit is that many times 2^20
(`storage/cache.h:11`). The model-checked instance satisfies it as well.

`DInv` speaks of the records by the number of their chunk, and the code reaches
them by its id. The two are the same until `next_chunk_id_` wraps. The theorems that rest
on `DInv` therefore have the hypothesis `[]FewChunks`: at most `IdSpace` (2^32)
chunks are cut. Beyond that, the base of a duplicate or of a delta chunk is the
id of two chunks, and leads to the record of the first. The theorems about the
threads, and `ContextsAreLive`, hold for any number of chunks.

**The refinement of `ChunkStoreSpec`.** One `WriteOut` of the pipeline is one
step of the abstract store, which classifies the next chunk by all that came
before it; all other steps leave it alone. That the class found by the match
worker, some steps earlier and with up to four other chunks on their way, is the
one the abstract store may choose is what `ClassesOK` says. In the sequential
driver each `AddBase` and `AddDelta` is such a step. There too the theorem, and
`LinesAreRight`, have a hypothesis `[]FewChunks`, with the chunks counted as they
are added: fewer than `IdSpace` (2^32) of them. After that two chunks share an
id, and a base can no longer be told from the other chunk that has its id.

**The store** (`Storage_proofs`). `StoreOK` says that both files stand at their
ends, that records lead into the data file, and that the cache has what the store
has for its ids. It is preserved by each write and each read, since each ends
with a seek to the end; growth of the files keeps every record faithful. The
classification lemmas say the same of dedup map and index.

**Grouping** (`DeltaCompression_proofs`, from `InOrderIs` on), for all records in
which a base is its own base and a delta chunk has a base before it (`Linked`,
which `ClassesOK` provides, hence `[]FewChunks` here too), and every group size.
The groups of a base follow each other in the list of its delta chunks, and only
the last may be short (`GroupsAre`, by arithmetic on the number of groups); the
base is in front of that one, or alone if none is short or there are no deltas
(`FramesAre`). No frame has a record in common with another, of the same base
because the list ascends, of another because each record has one base
(`PassIs`). That every record is compressed once then follows by counting:
flattened, the frames are a bijection of positions and records (`LenIsNumber`).
What the flattening of sequences keeps is `FlattenIs`, by induction on the number
of sequences.

Over the steps of the driver, `GroupingOK` says that between two files the last
frames are those of the store as it is, and that until the first grouping the
total and the lengths of the delta chunks add up to the length of the input. For
that the records have to say the lengths of the chunks, which is the hypothesis
`SmallChunks`: every chunk is shorter than 2^16 bytes (`max_chunk_size` is 8192 in
`config.toml`). The model-checked instance satisfies it as well.

**The cache** (`ChunkCacheClient_proofs`). `CInv` has, beside the types
(`CacheOK`: list without repetition, map with its ids, counter below the width),
that the nodes hold what is stored, that the list is a prefix of the ids in the
order of their last use (`RecencyKept`), and that with equal lengths the counter
is the number of nodes times the length (`CounterExact`). `AtMostOneVictim`
carries the proof: because `add` takes the length of the new chunk off its
counter for each victim, it evicts one node at most. Assumed is
`LimitAssumption`: limit plus chunk length do not reach the end of a `size_t`.

**FastCDC** (`FastCDC_proofs`), for every minimum, maximum (also below the
minimum), window and mask. `FastInv` adds to the four properties

* `PointerAfterChunks`: while bytes are left, the read pointer is where the
  chunks end (the short last chunk does not move it, but then nothing is left);
* `NothingLeft`: the length is zero whenever a file is left, so that a file that
  cannot be mapped, for which pointer and length stay as they were, gives no
  chunk; this is what RabinCDC lacks;
* `LongSoFar`: a chunk shorter than the minimum is the last.

For `ContentDefined` the invariant is that each chunk ends where `SizeFor` puts the
end on what follows its first byte (`CutByContent`); two rests that are equal are
then cut alike, chunk by chunk, by induction on the number of chunks after the common
boundary, in the form of a least number at which they differ.

**RabinCDC** (`RabinCDC_proofs`), for every polynomial of a degree not below the
width of a byte, every byte width, window size, mask and pair of sizes. The
digest comes first, without the state machine. A remainder is the only
polynomial of low degree that differs from what was reduced by a multiple of
`Polynomial`, a sum of shifts of it (`ModIs`): hence `mod` is linear
(`ModLinear`), so is `Remainder` (`RemainderXor`), and the code's two shortcuts
are what they stand for: `rabin_append`, through `mod_table`, is `append_byte`
(`RabinAppendIs`), and xoring with `out_table` takes the oldest byte out
(`RemainderSlides`). A context is `Sound` if its digest is the remainder of its
window; every slide keeps that and passes the ring on by one byte (`SlideIs`), so
that after any bytes the window holds the last `WINSIZE` of them
(`SlideAllWindow`). `RabinInv` then says of the state machine

* `FreshWindow`: `GetNextChunk` starts with the context of a reset;
* `PointerAfterChunks` and `Tiles`, as for FastCDC;
* `Unmapped` and `StaleLength`: a length left over is that of the tail just lost,
  longer than the minimum, so that for a file that cannot be mapped
  `GetNextChunk` goes straight into its loop, where the first read faults
  (`FaultsWhenStale`);
* `LosesOnlyTail`, half of the property; the other half follows.

For `ContentDefined`, `ContentInv` says that each chunk ends at the least stop of
what follows its first byte, computed from the context of a reset, and that
after the last chunk of a file there is nothing, or no stop.

**The indexes** (`FeatureIndex_proofs`), for all tables, chunks and shares
of zeros. For Palantir's index `ChoiceInv` says that the tables hold the entries of the base chunks
and no others, and that two bases have no entry in common. Neither is inductive
alone: an entry would be overwritten by a base that shares it, and whether there
is such a base is only visible in the tables if these are complete.

For the best-fit index (`BestInv`) it says that the list of a feature holds the
ids of the bases with that feature, each once, that the ids of the bases differ,
and that no two bases have `MinMatch` features in common. Hence the places that
`MatchCount` counts for an id are in bijection with the features the base shares
(`MatchCountIs`); the last part, which follows from a lookup that failed, gives
that a chunk with the content of a base finds no other. It is assumed that
`MinMatch` is between 1 and the number of features (4 of 12 in the code): with
0 every id would be a match.

What the features are is the content of `SubIsLeast`: after each byte, the sub
feature is the least of the transforms sampled since the last that came out as
zero (`LeastStep`), by induction on the bytes read. So two chunks that agree on
the least transforms of a group have equal sub features there, and `GroupsAgree`
shows that the bytes hashed for a super feature are read from these alone.

**The address cache of xdelta3** (`Xd3AddressSync_proofs`), for all sizes of the
near and the same cache, every width of `usize_t` (`CacheAssumption`), and all
lengths of source windows that are a `usize_t`, with instructions of any size
(`Sized`): positions, and the sums and differences that the decoder makes of
what it reads, are computed modulo that width. The encoder may be any number of
instructions ahead, so that `SyncInv` cannot compare the two caches as they are:
every entry of the delta carries, as history, the encoder's state at the time,
and the decoder has the one recorded at the entry it reads next. `Leads` says
that each entry takes the recorded state to that of the next. The heart is that
decoding inverts encoding for one address (`xd3_decode_address` against
`xd3_encode_address`): the mode sent has the least value among the usable ones,
which exists, and for every mode the value sent leads back to the address, so
that nothing wraps for what an encoder has sent.

There is one lemma per part of an invariant, or per operation of the store, and
one step per action in each. Induction on numbers is done with `LeastNat`, that
a set of numbers has a least element; it stands in each module that needs it.

### Only model-checked

* The liveness properties and the deadlock argument (`HangsOnlyByLostWakeup`,
  `EveryChunkWritten`, `LoopEnds`): the prover has no fairness and no `ENABLED`.
* The codec of xdelta3 and its secondary compressors (`RoundTrip`, `CutRefused`, `AssertionsHold`, `NeverAsksForBlock`,
  `MergeComposes`, `ReadBackUnlessLost`, `TablesBest`, `TreesSound`): their
  modules use recursive operators over bits, bytes and trees.

## 5. What is not modelled, and why

* Finesse, n-transform and `OdessFeature`: their features are of a type that
  `SuperFeatureIndex` throws on at the first chunk; the statistics of
  `our_feature.cpp` other than the share of zeros, and `utils/rabin.cpp`, serve
  only these or nobody. SHA-1 is taken to be injective.
* `main.cpp`, the configuration and its parser `cpptoml.h`, logging, the clock,
  hit counters and ratios.
* The readers of the file meta; `DumpToFile` and `RecoverFromFile` of the super
  feature index: no driver calls them.
* Failing `fwrite`, `fread` and `malloc`: the code does not look at them, or
  aborts.
* `dividByBase` also compresses each chunk alone and in the order of the file
  for comparison; only the resulting totals depend on it.
* Of xdelta3: the `getblk` callback and `XD3_TOOFARBACK`, the application header,
  code tables other than the default, the secondary compressors of other
  libraries, secondary compression within the codec run (its sections are
  checked on their own), weights that overflow, the command line in
  `xdelta3-main.h` apart from merging one delta with another, the test drivers
  in `xdelta3-test.h`, `testing/` and `rcs_junk.cc`.

## 6. Plan

Done, in this order: the thread protocol with its proofs; store, cache and data
path of the pipeline; the sequential driver with grouping; the chunkers with
the proofs about FastCDC; the indexes; xdelta3 from the address cache, with its
proofs, up to merging and secondary compression; the Rabin digest; the features;
the proofs about the data in the pipeline and about the store, the refinements,
the cache, the lines of the file meta, content-defined chunking, RabinCDC with
its digest, the indexes with the features they are given, and grouping.

To extend the model: the file meta as a text file with its readers; dump and
recovery of the super feature index.

To prove more: the codec of xdelta3 and its secondary compressors, whose modules
would first have to do without recursive operators.
