--------------------------- MODULE PipelineQueues ---------------------------
(***************************************************************************)
(* The thread protocol of PipelineDeltaCompression: AddFile starts five    *)
(* worker threads connected by four bounded queues of context pointers,    *)
(* each queue with a mutex, a condition variable and a "done" flag.        *)
(*                                                                         *)
(*   chunking --1--> dedup --2--> feature --3--> match --4--> write        *)
(*                                                                         *)
(* Worker w takes from queue w-1 and gives to queue w.  A context is       *)
(* allocated for one chunk and never shared, so its pointer is modelled by *)
(* its number: contexts are counted from 0 as they are allocated.  (The id *)
(* of the chunk would not do: ids are 32 bits and come back.)  What the    *)
(* workers do with the chunk is the business of                            *)
(* PipelineDeltaCompression.tla, which extends this module.                *)
(*                                                                         *)
(* A critical section of a queue is one step, with one exception.  The     *)
(* wait of a condition variable evaluates its predicate with the mutex     *)
(* held, and only afterwards releases the mutex and goes to sleep; since   *)
(* task_done writes the flag and notifies WITHOUT the mutex, it can fall   *)
(* between the two.  A thread there is at "getBlock" or "putBlock": it is  *)
(* awake and holds the mutex.  At "getWait" and "putWait" it sleeps.       *)
(***************************************************************************)
EXTENDS Integers, Sequences

CONSTANTS Contents,     \* what a chunk can contain
          Files,        \* the files of the data set, each a sequence of chunks
          MaxQueueLen,  \* max_queue_len_ (128 in the code)
          IdSpace,      \* number of values of a chunk id (2^32 in the code)
          MaxFiles,     \* bound: calls of AddFile
          MaxSpurious   \* bound: spurious wake-ups of a condition variable

ASSUME PipelineAssumption ==
  /\ Files \subseteq Seq(Contents)
  /\ MaxQueueLen \in Nat \ {0}
  /\ IdSpace \in Nat \ {0}
  /\ MaxFiles \in Nat
  /\ MaxSpurious \in Nat

VARIABLES pc,        \* where each worker thread is
          held,      \* context_ of each worker, or Null
          queue,     \* chunk_queue_, dedup_queue_, feature_queue_, match_queue_
          done,      \* chunk_done_, dedup_done_, feature_done_, match_done_
          passed,    \* chunks each worker has passed on; the write worker's
                     \* entry is processed_chunk_, the others are history
          pending,   \* chunks of the current file the chunker has not cut yet
          nextId,    \* next_chunk_id_ of the chunker, a uint32_t
          contexts,  \* history: contexts allocated so far
          addFile,   \* the main thread: "idle" or "joining" inside AddFile
          fileMeta,  \* file_meta of the call in progress, once started
          metaFile,  \* lines written by file_meta_writer_
          spurious   \* spurious wake-ups so far

queueVars == <<pc, held, queue, done, passed, pending, nextId, contexts,
               addFile, fileMeta, metaFile, spurious>>
-----------------------------------------------------------------------------
chunk_worker   == 1
dedup_worker   == 2
feature_worker == 3
match_worker   == 4
write_worker   == 5

Workers == 1..5
Queues  == 1..4

Null == -1    \* context_ == nullptr

\* struct FileMeta, with the file itself for its name; ids are uint32_t.
FileMetas == [file : Files \cup {<<>>}, start : 0..IdSpace - 1,
              end : 0..IdSpace - 1]

Locations == {"work", "put", "putBlock", "putWait",
              "get", "getBlock", "getWait", "exit", "notify", "ended"}

\* The mutex of queue q is held across a step only on the way to sleep.
Locked(q) == pc[q] = "putBlock" \/ pc[q + 1] = "getBlock"

\* notify_all on the condition variable of queue q, from program counters p.
NotifyAll(q, p) ==
  [w \in Workers |->
     IF w = q + 1 /\ p[w] = "getWait" THEN "get"
     ELSE IF w = q /\ p[w] = "putWait" THEN "put"
     ELSE p[w]]

Goto(w, l) == pc' = [pc EXCEPT ![w] = l]

\* Where a worker's loop starts again.
LoopStart(w) == IF w = chunk_worker THEN "work" ELSE "get"
-----------------------------------------------------------------------------
Init ==
  /\ pc = [w \in Workers |-> "ended"]
  /\ held = [w \in Workers |-> Null]
  /\ queue = [q \in Queues |-> <<>>]
  /\ done = [q \in Queues |-> FALSE]
  /\ passed = [w \in Workers |-> 0]
  /\ pending = <<>>
  /\ nextId = 0
  /\ contexts = 0
  /\ addFile = "idle"
  /\ fileMeta = [file |-> <<>>, start |-> 0, end |-> 0]
  /\ metaFile = <<>>
  /\ spurious = 0

\* Mutant: the done flags are left set by the previous file.
StartAddFileKeepsDone(f) ==
  /\ addFile = "idle"
  /\ Len(metaFile) < MaxFiles
  /\ addFile' = "joining"
  /\ fileMeta' = [file |-> f, start |-> passed[write_worker] % IdSpace, end |-> 0]
  /\ pending' = IF f = <<>> THEN pending ELSE f
  /\ pc' = [w \in Workers |-> LoopStart(w)]
  /\ UNCHANGED <<held, queue, done, passed, nextId, contexts, metaFile,
                 spurious>>

\* AddFile up to the joins.  ReinitWithFile fails on an empty file, which
\* cannot be mapped; its result is ignored and the chunker keeps its state.
StartAddFile(f) ==
  /\ addFile = "idle"
  /\ Len(metaFile) < MaxFiles
  /\ addFile' = "joining"
  /\ fileMeta' = [file |-> f, start |-> passed[write_worker] % IdSpace, end |-> 0]
  /\ pending' = IF f = <<>> THEN pending ELSE f
  /\ done' = [q \in Queues |-> FALSE]
  /\ pc' = [w \in Workers |-> LoopStart(w)]
  /\ UNCHANGED <<held, queue, passed, nextId, contexts, metaFile, spurious>>

\* Mutant: end_chunk_id is one past the last chunk.
JoinAddFileEndExclusive ==
  /\ addFile = "joining"
  /\ \A w \in Workers : pc[w] = "ended"
  /\ addFile' = "idle"
  /\ metaFile' = Append(metaFile, [fileMeta EXCEPT !.end =
                                     passed[write_worker] % IdSpace])
  /\ UNCHANGED <<pc, held, queue, done, passed, pending, nextId, contexts,
                 fileMeta, spurious>>

\* All five threads joined: AddFile writes the file's line and returns.
JoinAddFile ==
  /\ addFile = "joining"
  /\ \A w \in Workers : pc[w] = "ended"
  /\ addFile' = "idle"
  /\ metaFile' = Append(metaFile, [fileMeta EXCEPT !.end =
                                     (passed[write_worker] - 1) % IdSpace])
  /\ UNCHANGED <<pc, held, queue, done, passed, pending, nextId, contexts,
                 fileMeta, spurious>>

\* ChunkingWorker takes the next chunk, which gets next_chunk_id_ for its id,
\* and allocates its context.
CutChunk ==
  /\ pc[chunk_worker] = "work"
  /\ pending # <<>>
  /\ pending' = Tail(pending)
  /\ nextId' = (nextId + 1) % IdSpace
  /\ held' = [held EXCEPT ![chunk_worker] = contexts]
  /\ contexts' = contexts + 1
  /\ Goto(chunk_worker, "put")
  /\ UNCHANGED <<queue, done, passed, addFile, fileMeta, metaFile, spurious>>

\* ChunkingWorker is told that the file has no more chunks, and breaks.
NoMoreChunks ==
  /\ pc[chunk_worker] = "work"
  /\ pending = <<>>
  /\ Goto(chunk_worker, "exit")
  /\ UNCHANGED <<held, queue, done, passed, pending, nextId, contexts, addFile,
                 fileMeta, metaFile, spurious>>

\* The body of the loop of the dedup, feature and match workers.
Process(w) ==
  /\ w \in {dedup_worker, feature_worker, match_worker}
  /\ pc[w] = "work"
  /\ Goto(w, "put")
  /\ UNCHANGED <<held, queue, done, passed, pending, nextId, contexts, addFile,
                 fileMeta, metaFile, spurious>>

\* The body of the loop of ChunkWriteWorker, which deletes the context.
WriteOut ==
  /\ pc[write_worker] = "work"
  /\ passed' = [passed EXCEPT ![write_worker] = @ + 1]
  /\ held' = [held EXCEPT ![write_worker] = Null]
  /\ Goto(write_worker, "get")
  /\ UNCHANGED <<queue, done, pending, nextId, contexts, addFile, fileMeta,
                 metaFile, spurious>>
-----------------------------------------------------------------------------
(* write_to_queue(TASK_NAME, CTX_NAME) by worker w on queue w.             *)

\* Mutant: the wait for room is missing.
PutUnbounded(w) ==
  /\ w \in Queues
  /\ pc[w] = "put"
  /\ ~Locked(w)
  /\ queue' = [queue EXCEPT ![w] = Append(@, held[w])]
  /\ held' = [held EXCEPT ![w] = Null]
  /\ passed' = [passed EXCEPT ![w] = @ + 1]
  /\ pc' = NotifyAll(w, [pc EXCEPT ![w] = LoopStart(w)])
  /\ UNCHANGED <<done, pending, nextId, contexts, addFile, fileMeta, metaFile,
                 spurious>>

\* Mutant: the notification after the push is missing.
PutSilent(w) ==
  /\ w \in Queues
  /\ pc[w] = "put"
  /\ ~Locked(w)
  /\ Len(queue[w]) < MaxQueueLen
  /\ queue' = [queue EXCEPT ![w] = Append(@, held[w])]
  /\ held' = [held EXCEPT ![w] = Null]
  /\ passed' = [passed EXCEPT ![w] = @ + 1]
  /\ Goto(w, LoopStart(w))
  /\ UNCHANGED <<done, pending, nextId, contexts, addFile, fileMeta, metaFile,
                 spurious>>

\* The predicate of the wait holds: push, notify, unlock.
Put(w) ==
  /\ w \in Queues
  /\ pc[w] = "put"
  /\ ~Locked(w)
  /\ Len(queue[w]) < MaxQueueLen
  /\ queue' = [queue EXCEPT ![w] = Append(@, held[w])]
  /\ held' = [held EXCEPT ![w] = Null]
  /\ passed' = [passed EXCEPT ![w] = @ + 1]
  /\ pc' = NotifyAll(w, [pc EXCEPT ![w] = LoopStart(w)])
  /\ UNCHANGED <<done, pending, nextId, contexts, addFile, fileMeta, metaFile,
                 spurious>>

\* The predicate fails: the thread is about to sleep, with the mutex.
PutBlock(w) ==
  /\ w \in Queues
  /\ pc[w] = "put"
  /\ ~Locked(w)
  /\ Len(queue[w]) >= MaxQueueLen
  /\ Goto(w, "putBlock")
  /\ UNCHANGED <<held, queue, done, passed, pending, nextId, contexts, addFile,
                 fileMeta, metaFile, spurious>>

(* get_context_from_queue(TASK_NAME, CTX_NAME) by worker w on queue w-1.   *)

\* Mutant: back() where the queue has front().
GetNewest(w) ==
  /\ w \in Workers \ {chunk_worker}
  /\ pc[w] = "get"
  /\ ~Locked(w - 1)
  /\ queue[w - 1] # <<>>
  /\ held' = [held EXCEPT ![w] = queue[w - 1][Len(queue[w - 1])]]
  /\ queue' = [queue EXCEPT ![w - 1] = SubSeq(@, 1, Len(@) - 1)]
  /\ pc' = NotifyAll(w - 1, [pc EXCEPT ![w] = "work"])
  /\ UNCHANGED <<done, passed, pending, nextId, contexts, addFile, fileMeta,
                 metaFile, spurious>>

\* Mutant: the notification after the pop is missing.
GetSilent(w) ==
  /\ w \in Workers \ {chunk_worker}
  /\ pc[w] = "get"
  /\ ~Locked(w - 1)
  /\ queue[w - 1] # <<>>
  /\ held' = [held EXCEPT ![w] = Head(queue[w - 1])]
  /\ queue' = [queue EXCEPT ![w - 1] = Tail(@)]
  /\ Goto(w, "work")
  /\ UNCHANGED <<done, passed, pending, nextId, contexts, addFile, fileMeta,
                 metaFile, spurious>>

\* The queue has a context: pop it, notify, unlock.
Get(w) ==
  /\ w \in Workers \ {chunk_worker}
  /\ pc[w] = "get"
  /\ ~Locked(w - 1)
  /\ queue[w - 1] # <<>>
  /\ held' = [held EXCEPT ![w] = Head(queue[w - 1])]
  /\ queue' = [queue EXCEPT ![w - 1] = Tail(@)]
  /\ pc' = NotifyAll(w - 1, [pc EXCEPT ![w] = "work"])
  /\ UNCHANGED <<done, passed, pending, nextId, contexts, addFile, fileMeta,
                 metaFile, spurious>>

\* Mutant: the loop ends when the flag is set, whatever the queue holds.
GetNothingWhenDone(w) ==
  /\ w \in Workers \ {chunk_worker}
  /\ pc[w] = "get"
  /\ ~Locked(w - 1)
  /\ done[w - 1]
  /\ pc' = NotifyAll(w - 1, [pc EXCEPT ![w] = "exit"])
  /\ UNCHANGED <<held, queue, done, passed, pending, nextId, contexts, addFile,
                 fileMeta, metaFile, spurious>>

\* Empty and done: context_ stays nullptr and the worker breaks its loop.
GetNothing(w) ==
  /\ w \in Workers \ {chunk_worker}
  /\ pc[w] = "get"
  /\ ~Locked(w - 1)
  /\ queue[w - 1] = <<>>
  /\ done[w - 1]
  /\ pc' = NotifyAll(w - 1, [pc EXCEPT ![w] = "exit"])
  /\ UNCHANGED <<held, queue, done, passed, pending, nextId, contexts, addFile,
                 fileMeta, metaFile, spurious>>

\* Empty and not done: the thread is about to sleep, with the mutex.
GetBlock(w) ==
  /\ w \in Workers \ {chunk_worker}
  /\ pc[w] = "get"
  /\ ~Locked(w - 1)
  /\ queue[w - 1] = <<>>
  /\ ~done[w - 1]
  /\ Goto(w, "getBlock")
  /\ UNCHANGED <<held, queue, done, passed, pending, nextId, contexts, addFile,
                 fileMeta, metaFile, spurious>>

\* The wait releases the mutex and puts the thread to sleep, atomically.
Sleep(w) ==
  /\ \/ pc[w] = "getBlock" /\ Goto(w, "getWait")
     \/ pc[w] = "putBlock" /\ Goto(w, "putWait")
  /\ UNCHANGED <<held, queue, done, passed, pending, nextId, contexts, addFile,
                 fileMeta, metaFile, spurious>>

\* A condition variable may wake without a notification.
SpuriousWakeup(w) ==
  /\ spurious < MaxSpurious
  /\ \/ pc[w] = "getWait" /\ Goto(w, "get")
     \/ pc[w] = "putWait" /\ Goto(w, "put")
  /\ spurious' = spurious + 1
  /\ UNCHANGED <<held, queue, done, passed, pending, nextId, contexts, addFile,
                 fileMeta, metaFile>>

(* task_done(TASK_NAME) by worker w on queue w, without the mutex.         *)
TaskDone(w) ==
  /\ w \in Queues
  /\ pc[w] = "exit"
  /\ done' = [done EXCEPT ![w] = TRUE]
  /\ Goto(w, "notify")
  /\ UNCHANGED <<held, queue, passed, pending, nextId, contexts, addFile,
                 fileMeta, metaFile, spurious>>

NotifyDone(w) ==
  /\ w \in Queues
  /\ pc[w] = "notify"
  /\ pc' = NotifyAll(w, [pc EXCEPT ![w] = "ended"])
  /\ UNCHANGED <<held, queue, done, passed, pending, nextId, contexts, addFile,
                 fileMeta, metaFile, spurious>>

\* ChunkWriteWorker has no queue to close.
WriterReturns ==
  /\ pc[write_worker] = "exit"
  /\ Goto(write_worker, "ended")
  /\ UNCHANGED <<held, queue, done, passed, pending, nextId, contexts, addFile,
                 fileMeta, metaFile, spurious>>
-----------------------------------------------------------------------------
\* The steps of the queue macros, which touch no data of the chunks.
QueueStep(w) ==
  \/ Put(w) \/ PutBlock(w)
  \/ Get(w) \/ GetNothing(w) \/ GetBlock(w)
  \/ Sleep(w)
  \/ TaskDone(w) \/ NotifyDone(w)

\* The steps of the workers' loop bodies.
WorkStep(w) ==
  \/ w = chunk_worker /\ (CutChunk \/ NoMoreChunks)
  \/ Process(w)
  \/ w = write_worker /\ (WriteOut \/ WriterReturns)

Next ==
  \/ \E f \in Files : StartAddFile(f)
  \/ JoinAddFile
  \/ \E w \in Workers : QueueStep(w) \/ WorkStep(w) \/ SpuriousWakeup(w)

Spec == Init /\ [][Next]_queueVars

\* Every thread that can run is eventually scheduled, the main thread too.
\* Nothing is promised about spurious wake-ups or about further files.
Fairness ==
  /\ WF_queueVars(JoinAddFile)
  /\ \A w \in Workers : WF_queueVars(QueueStep(w) \/ WorkStep(w))

FairSpec == Spec /\ Fairness
-----------------------------------------------------------------------------
\* TypeOK: every variable has its type, and no queue is longer than
\* max_queue_len_, the limit that write_to_queue waits on.
TypeOK ==
  /\ pc \in [Workers -> Locations]
  /\ held \in [Workers -> Nat \cup {Null}]
  /\ queue \in [Queues -> Seq(Nat)]
  /\ \A q \in Queues : Len(queue[q]) <= MaxQueueLen
  /\ done \in [Queues -> BOOLEAN]
  /\ passed \in [Workers -> Nat]
  /\ pending \in Seq(Contents)
  /\ nextId \in 0..IdSpace - 1
  /\ contexts \in Nat
  /\ addFile \in {"idle", "joining"}
  /\ fileMeta \in FileMetas
  /\ metaFile \in Seq(FileMetas)
  /\ spurious \in 0..MaxSpurious

\* 1 while worker w has a context in hand, 0 otherwise.
Busy(w) == IF held[w] = Null THEN 0 ELSE 1

\* Through all four queues the chunks keep the order in which the chunker cut
\* them, none is lost, none is in two places: what worker w has in hand is the
\* chunk after the last one it passed on, and a queue holds the consecutive
\* chunks between what its consumer and its producer have dealt with.  (The
\* write worker relies on it: a meta record is found by its position.)
InFlightInOrder ==
  /\ contexts = passed[chunk_worker] + Busy(chunk_worker)
  /\ \A w \in Workers : held[w] # Null => held[w] = passed[w]
  /\ \A q \in Queues :
       LET first == passed[q + 1] + Busy(q + 1) IN
       /\ Len(queue[q]) = passed[q] - first
       /\ \A i \in 1..Len(queue[q]) : queue[q][i] = first + i - 1

Leaving == {"exit", "notify", "ended"}

\* A worker leaves its loop only when its input is used up: the chunker at the
\* end of the file, another worker when its queue is empty and the worker
\* before it has closed that queue for good.  A closed queue has a producer
\* that will not push again before AddFile returns.
DoneMeansDrained ==
  /\ \A q \in Queues : done[q] => pc[q] \in {"notify", "ended"}
  /\ pc[chunk_worker] \in Leaving => pending = <<>>
  /\ \A w \in Workers \ {chunk_worker} :
       pc[w] \in Leaving =>
         /\ queue[w - 1] = <<>>
         /\ addFile = "joining" => done[w - 1]

\* When the write worker has returned, every chunk that was ever cut has been
\* written, the file is cut to its end, and no context is left in a queue or
\* with a worker, so none leaks and none survives into the next AddFile.
NothingLost ==
  pc[write_worker] = "ended" =>
    /\ passed[write_worker] = contexts
    /\ pending = <<>>
    /\ \A q \in Queues : queue[q] = <<>>
    /\ \A w \in Workers : held[w] = Null

\* The lines of file_meta tile the ids: a line covers as many ids as the file
\* has chunks, and starts where the line before it ended, although start is
\* read before the threads start and end after they are joined.  (For an empty
\* file end is start - 1, as a 32-bit number.)
FileMetaTiles ==
  \A i \in 1..Len(metaFile) :
    LET m == metaFile[i] IN
    /\ m.start = IF i = 1 THEN 0 ELSE (metaFile[i - 1].end + 1) % IdSpace
    /\ m.end = (m.start + Len(m.file) - 1) % IdSpace

\* The consumer of queue q sleeps on a closed and empty queue, and nobody is
\* left to wake it: task_done set the flag and notified while the consumer was
\* between evaluating the wait's predicate and going to sleep.
LostWakeup(q) ==
  /\ pc[q + 1] = "getWait"
  /\ queue[q] = <<>>
  /\ done[q]
  /\ pc[q] = "ended"

\* AddFile returns, unless a worker missed the notification of task_done: no
\* other interleaving of the queues makes the threads wait on each other.
HangsOnlyByLostWakeup ==
  addFile = "joining" ~> (addFile = "idle" \/ \E q \in Queues : LostWakeup(q))

\* Even a call of AddFile that hangs has written all chunks of its file: the
\* notification can only be missed when the queue is already empty.
EveryChunkWritten ==
  addFile = "joining" ~> (pending = <<>> /\ passed[write_worker] = contexts)

\* AddFile returns.
AddFileReturns == addFile = "joining" ~> addFile = "idle"
=============================================================================
