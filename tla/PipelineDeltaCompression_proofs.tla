------------------- MODULE PipelineDeltaCompression_proofs -------------------
(***************************************************************************)
(* Proofs about the pipeline, in two parts.                                *)
(*                                                                         *)
(* The threads (PipelineQueues): for every queue length, every data set    *)
(* and any number of files and spurious wake-ups, no interleaving of the   *)
(* five worker threads loses, duplicates or reorders a chunk.              *)
(*                                                                         *)
(* What the workers do with the chunks (PipelineDeltaCompression), for     *)
(* every data set, similarity, queue length and cache limit.  A chunk is   *)
(* at a stage when the worker of that stage has done its work on it; by    *)
(* the order of the queues the chunks at a stage are those below a count,  *)
(* and each worker has the next chunk in hand.  The facts about threads    *)
(* and contexts hold for any number of chunks, those about the store as    *)
(* long as next_chunk_id_ gives no id a second time (FewChunks).           *)
(***************************************************************************)
EXTENDS PipelineDeltaCompression, Storage_proofs
-----------------------------------------------------------------------------
(* Part 1: the threads.                                                    *)

\* Two representations with remainders in range have the same remainder.
LEMMA RemainderUnique ==
  ASSUME NEW n \in Nat \ {0}, NEW p \in Int, NEW q \in Int,
         NEW r \in 0..n - 1, NEW s \in 0..n - 1, p * n + r = q * n + s
  PROVE  r = s
<1>1. (p - q) * n = s - r
  OBVIOUS
<1>2. CASE p - q >= 1
  <2>1. (p - q) * n >= n
    BY <1>2
  <2> QED
    BY <1>1, <2>1
<1>3. CASE p - q <= -1
  <2>1. (q - p) * n >= n
    BY <1>3
  <2>2. (q - p) * n = r - s
    BY <1>1
  <2> QED
    BY <2>1, <2>2
<1>4. CASE p - q = 0
  BY <1>1, <1>4
<1> QED
  BY <1>2, <1>3, <1>4

\* The remainder of a sum does not change when an addend is reduced first.
LEMMA ModPlus ==
  ASSUME NEW n \in Nat \ {0}, NEW a \in Int, NEW b \in Int
  PROVE  ((a % n) + b) % n = (a + b) % n
<1> DEFINE x == a % n
           y == (x + b) % n
           z == (a + b) % n
           p == a \div n
           q == (x + b) \div n
           r == (a + b) \div n
<1>0. \A i \in Int : i % n \in 0..n - 1 /\ i \div n \in Int /\ i = (i \div n) * n + (i % n)
  OBVIOUS
<1>1. x \in 0..n - 1 /\ p \in Int /\ a = p * n + x
  BY <1>0
<1>2. x + b \in Int /\ a + b \in Int
  BY <1>1
<1>3. y \in 0..n - 1 /\ q \in Int /\ x + b = q * n + y
  BY <1>0, <1>2
<1>4. z \in 0..n - 1 /\ r \in Int /\ a + b = r * n + z
  BY <1>0, <1>2
<1> HIDE DEF x, y, z, p, q, r
<1>5. p * n + (q * n + y) = r * n + z
  BY <1>1, <1>3, <1>4
<1>6. p * n + q * n = (p + q) * n
  BY <1>1, <1>3
<1>7. (p + q) * n + y = r * n + z
  <2>1. p * n \in Int /\ q * n \in Int
    BY <1>1, <1>3
  <2> QED
    BY <1>1, <1>3, <1>4, <1>5, <1>6, <2>1
<1>8. y = z
  <2>1. p + q \in Int
    BY <1>1, <1>3
  <2> QED
    BY <1>3, <1>4, <1>7, <2>1, RemainderUnique
<1> QED
  BY <1>8 DEF x, y, z

\* A worker has a context in hand exactly between taking it and giving it on.
HeldWhereWorking ==
  \A w \in Workers :
    held[w] # Null <=> \/ pc[w] \in {"put", "putBlock", "putWait"}
                       \/ w # chunk_worker /\ pc[w] = "work"

\* Outside AddFile there are no threads.
IdleMeansEnded == addFile = "idle" => \A w \in Workers : pc[w] = "ended"

\* A worker that is past the assignment of task_done has closed its queue.
ClosedIsDone ==
  \A q \in Queues : addFile = "joining" /\ pc[q] \in {"notify", "ended"} => done[q]

\* The next chunk id is the number of chunks cut, in 32 bits.
IdsWrap == nextId = contexts % IdSpace

\* The inductive invariant.
IInv ==
  /\ TypeOK
  /\ IdsWrap
  /\ HeldWhereWorking
  /\ IdleMeansEnded
  /\ ClosedIsDone
  /\ InFlightInOrder
  /\ DoneMeansDrained
-----------------------------------------------------------------------------
(* Lemmas about the operators of the specification.                        *)

\* A chunk id wraps into the range of uint32_t.
LEMMA ModType == \A i \in Int : i % IdSpace \in 0..IdSpace - 1
BY PipelineAssumption

\* Filling in end_chunk_id gives a FileMeta.
LEMMA FileMetaType ==
  ASSUME NEW m \in FileMetas, NEW e \in 0..IdSpace - 1
  PROVE  [m EXCEPT !.end = e] \in FileMetas
BY DEF FileMetas

\* notify_all gives every thread a location.
LEMMA NotifyAllType ==
  ASSUME NEW q \in Queues, NEW p \in [Workers -> Locations]
  PROVE  NotifyAll(q, p) \in [Workers -> Locations]
BY DEF NotifyAll, Locations

\* notify_all only moves sleeping threads, back to where they evaluate the
\* predicate of their wait.
LEMMA NotifyAllMoves ==
  ASSUME NEW q \in Queues, NEW p \in [Workers -> Locations], NEW w \in Workers
  PROVE  \/ NotifyAll(q, p)[w] = p[w]
         \/ p[w] = "getWait" /\ NotifyAll(q, p)[w] = "get"
         \/ p[w] = "putWait" /\ NotifyAll(q, p)[w] = "put"
BY DEF NotifyAll
-----------------------------------------------------------------------------
\* Every step keeps the types and the bound of the queues.
LEMMA TypeStep ==
  ASSUME TypeOK, HeldWhereWorking, [Next]_queueVars
  PROVE  TypeOK'
<1>a. pc \in [Workers -> Locations]
  BY DEF TypeOK
<1>b. held \in [Workers -> Nat \cup {Null}]
  BY DEF TypeOK
<1>c. /\ queue \in [Queues -> Seq(Nat)]
      /\ \A q \in Queues : Len(queue[q]) <= MaxQueueLen
  BY DEF TypeOK
<1>d. passed \in [Workers -> Nat]
  BY DEF TypeOK
<1> USE DEF Workers, Queues, chunk_worker, dedup_worker, feature_worker,
            match_worker, write_worker
<1>1. ASSUME NEW f \in Files, StartAddFile(f) PROVE TypeOK'
  <2>1. passed[5] % IdSpace \in 0..IdSpace - 1
    BY <1>d, ModType
  <2>2. fileMeta' \in FileMetas
    BY <1>1, <2>1, PipelineAssumption DEF StartAddFile, FileMetas
  <2>3. pending' \in Seq(Contents)
    BY <1>1, PipelineAssumption DEF StartAddFile, TypeOK
  <2>4. pc' \in [Workers -> Locations]
    BY <1>1 DEF StartAddFile, LoopStart, Locations
  <2>5. done' \in [Queues -> BOOLEAN]
    BY <1>1 DEF StartAddFile
  <2> QED
    BY <1>1, <2>2, <2>3, <2>4, <2>5 DEF StartAddFile, TypeOK
<1>2. CASE JoinAddFile
  <2>1. (passed[5] - 1) % IdSpace \in 0..IdSpace - 1
    BY <1>d, ModType
  <2>2. fileMeta \in FileMetas /\ metaFile \in Seq(FileMetas)
    BY DEF TypeOK
  <2>3. [fileMeta EXCEPT !.end = (passed[5] - 1) % IdSpace] \in FileMetas
    BY <2>1, <2>2, FileMetaType
  <2>4. metaFile' \in Seq(FileMetas)
    BY <1>2, <2>2, <2>3 DEF JoinAddFile
  <2> QED
    BY <1>2, <2>4 DEF JoinAddFile, TypeOK
<1>3. CASE CutChunk
  <2>1. pending' \in Seq(Contents)
    BY <1>3 DEF CutChunk, TypeOK
  <2>2. held' \in [Workers -> Nat \cup {Null}]
    BY <1>3, <1>b DEF CutChunk, TypeOK
  <2>3. pc' \in [Workers -> Locations]
    BY <1>3, <1>a DEF CutChunk, Goto, Locations
  <2>4. nextId' \in 0..IdSpace - 1
    <3>1. nextId + 1 \in Int
      BY PipelineAssumption DEF TypeOK
    <3> QED
      BY <1>3, <3>1, ModType DEF CutChunk
  <2> QED
    BY <1>3, <2>1, <2>2, <2>3, <2>4 DEF CutChunk, TypeOK
<1>4. CASE NoMoreChunks
  BY <1>4 DEF NoMoreChunks, Goto, TypeOK, Locations
<1>5. ASSUME NEW w \in Workers, Process(w) PROVE TypeOK'
  BY <1>5 DEF Process, Goto, TypeOK, Locations
<1>6. CASE WriteOut
  <2>1. held' \in [Workers -> Nat \cup {Null}]
    BY <1>6, <1>b DEF WriteOut
  <2>2. passed' \in [Workers -> Nat]
    BY <1>6, <1>d DEF WriteOut
  <2>3. pc' \in [Workers -> Locations]
    BY <1>6, <1>a DEF WriteOut, Goto, Locations
  <2> QED
    BY <1>6, <2>1, <2>2, <2>3 DEF WriteOut, TypeOK
<1>7. ASSUME NEW w \in Workers, Put(w) PROVE TypeOK'
  <2>1. w \in Queues
    BY <1>7 DEF Put
  <2>2. held[w] # Null
    BY <1>7 DEF Put, HeldWhereWorking
  <2>3. held[w] \in Nat /\ queue[w] \in Seq(Nat)
    BY <1>b, <1>c, <2>1, <2>2
  <2>4. held' \in [Workers -> Nat \cup {Null}]
    BY <1>7, <1>b DEF Put
  <2>5. passed' \in [Workers -> Nat]
    BY <1>7, <1>d DEF Put
  <2>6. queue' \in [Queues -> Seq(Nat)]
    BY <1>7, <1>c, <2>1, <2>3 DEF Put
  <2>7. \A q \in Queues : Len(queue'[q]) <= MaxQueueLen
    BY <1>7, <1>c, <2>1, <2>3, PipelineAssumption DEF Put
  <2>8. pc' \in [Workers -> Locations]
    BY <1>7, <1>a, <2>1, NotifyAllType DEF Put, LoopStart, Locations
  <2> QED
    BY <1>7, <2>4, <2>5, <2>6, <2>7, <2>8 DEF Put, TypeOK
<1>8. ASSUME NEW w \in Workers, PutBlock(w) PROVE TypeOK'
  BY <1>8 DEF PutBlock, Goto, TypeOK, Locations
<1>9. ASSUME NEW w \in Workers, Get(w) PROVE TypeOK'
  <2>1. w - 1 \in Queues
    BY <1>9 DEF Get
  <2>2. /\ Head(queue[w - 1]) \in Nat
        /\ Tail(queue[w - 1]) \in Seq(Nat)
        /\ Len(Tail(queue[w - 1])) <= MaxQueueLen
    BY SMTT(30), <1>9, <2>1, <1>c, PipelineAssumption DEF Get
  <2>3. held' \in [Workers -> Nat \cup {Null}]
    BY <1>9, <2>2, <1>b DEF Get
  <2>4. queue' \in [Queues -> Seq(Nat)]
    BY <1>9, <2>1, <2>2, <1>c DEF Get
  <2>5. \A q \in Queues : Len(queue'[q]) <= MaxQueueLen
    BY <1>9, <2>1, <2>2, <1>c DEF Get
  <2>6. pc' \in [Workers -> Locations]
    BY <1>9, <1>a, <2>1, NotifyAllType DEF Get, Locations
  <2> QED
    BY <1>9, <2>3, <2>4, <2>5, <2>6 DEF Get, TypeOK
<1>10. ASSUME NEW w \in Workers, GetNothing(w) PROVE TypeOK'
  <2>1. w - 1 \in Queues
    BY <1>10 DEF GetNothing
  <2>2. pc' \in [Workers -> Locations]
    BY <1>10, <1>a, <2>1, NotifyAllType DEF GetNothing, Locations
  <2> QED
    BY <1>10, <2>2 DEF GetNothing, TypeOK
<1>11. ASSUME NEW w \in Workers, GetBlock(w) PROVE TypeOK'
  BY <1>11 DEF GetBlock, Goto, TypeOK, Locations
<1>12. ASSUME NEW w \in Workers, Sleep(w) PROVE TypeOK'
  <2>1. pc' \in [Workers -> Locations]
    BY <1>12, <1>a DEF Sleep, Goto, Locations
  <2> QED
    BY <1>12, <2>1 DEF Sleep, TypeOK
<1>13. ASSUME NEW w \in Workers, SpuriousWakeup(w) PROVE TypeOK'
  <2>1. pc' \in [Workers -> Locations]
    BY <1>13, <1>a DEF SpuriousWakeup, Goto, Locations
  <2>2. spurious' \in 0..MaxSpurious
    BY <1>13, PipelineAssumption DEF SpuriousWakeup, TypeOK
  <2> QED
    BY <1>13, <2>1, <2>2 DEF SpuriousWakeup, TypeOK
<1>14. ASSUME NEW w \in Workers, TaskDone(w) PROVE TypeOK'
  <2>1. done' \in [Queues -> BOOLEAN]
    BY <1>14 DEF TaskDone, TypeOK
  <2>2. pc' \in [Workers -> Locations]
    BY <1>14, <1>a DEF TaskDone, Goto, Locations
  <2> QED
    BY <1>14, <2>1, <2>2 DEF TaskDone, TypeOK
<1>15. ASSUME NEW w \in Workers, NotifyDone(w) PROVE TypeOK'
  <2>1. pc' \in [Workers -> Locations]
    BY <1>15, <1>a, NotifyAllType DEF NotifyDone, Locations
  <2> QED
    BY <1>15, <2>1 DEF NotifyDone, TypeOK
<1>16. CASE WriterReturns
  BY <1>16 DEF WriterReturns, Goto, TypeOK, Locations
<1>17. CASE UNCHANGED queueVars
  BY <1>17 DEF queueVars, TypeOK
<1> QED
  BY <1>1, <1>2, <1>3, <1>4, <1>5, <1>6, <1>7, <1>8, <1>9, <1>10, <1>11,
     <1>12, <1>13, <1>14, <1>15, <1>16, <1>17
  DEF Next, QueueStep, WorkStep

\* Only the chunker takes an id, for a chunk that it counts.
LEMMA WrapStep ==
  ASSUME TypeOK, IdsWrap, [Next]_queueVars
  PROVE  IdsWrap'
<1>1. CASE CutChunk
  <2>1. IdSpace \in Nat \ {0} /\ contexts \in Int /\ 1 \in Int
    BY PipelineAssumption DEF TypeOK
  <2>2. ((contexts % IdSpace) + 1) % IdSpace = (contexts + 1) % IdSpace
    BY <2>1, ModPlus
  <2> QED
    BY <1>1, <2>2 DEF CutChunk, IdsWrap
<1>2. ASSUME UNCHANGED <<nextId, contexts>> PROVE IdsWrap'
  BY <1>2 DEF IdsWrap
<1>3. ASSUME NEW w \in Workers,
             QueueStep(w) \/ (WorkStep(w) /\ ~CutChunk) \/ SpuriousWakeup(w)
      PROVE  IdsWrap'
  BY <1>2, <1>3 DEF QueueStep, WorkStep, SpuriousWakeup, NoMoreChunks,
     Process, WriteOut, Put, PutBlock, Get, GetNothing, GetBlock, Sleep,
     TaskDone, NotifyDone, WriterReturns
<1>4. CASE (\E f \in Files : StartAddFile(f)) \/ JoinAddFile \/ UNCHANGED queueVars
  BY <1>2, <1>4 DEF StartAddFile, JoinAddFile, queueVars
<1> QED
  BY <1>1, <1>3, <1>4 DEF Next, WorkStep

\* Every step keeps contexts with the workers that work on them.
LEMMA HeldStep ==
  ASSUME TypeOK, HeldWhereWorking, IdleMeansEnded, [Next]_queueVars
  PROVE  HeldWhereWorking'
<1> DEFINE Working(l, w) == \/ l \in {"put", "putBlock", "putWait"}
                            \/ w # chunk_worker /\ l = "work"
<1> SUFFICES ASSUME NEW v \in Workers
             PROVE  held'[v] # Null <=> Working(pc'[v], v)
  BY DEF HeldWhereWorking
<1>a. pc \in [Workers -> Locations] /\ held \in [Workers -> Nat \cup {Null}]
  BY DEF TypeOK
<1>b. held[v] # Null <=> Working(pc[v], v)
  BY DEF HeldWhereWorking
<1>c. ASSUME NEW q \in Queues, NEW p \in [Workers -> Locations],
             pc' = NotifyAll(q, p)
      PROVE  Working(pc'[v], v) <=> Working(p[v], v)
  BY <1>c, NotifyAllMoves
<1> USE DEF Workers, Queues, chunk_worker, dedup_worker, feature_worker,
            match_worker, write_worker
<1>1. ASSUME NEW f \in Files, StartAddFile(f)
      PROVE  held'[v] # Null <=> Working(pc'[v], v)
  BY <1>1, <1>b DEF StartAddFile, LoopStart, IdleMeansEnded
<1>2. CASE JoinAddFile
  BY <1>2, <1>b DEF JoinAddFile
<1>3. CASE CutChunk
  <2>1. contexts # Null
    BY DEF TypeOK, Null
  <2> QED
    BY <1>3, <1>a, <1>b, <2>1 DEF CutChunk, Goto
<1>4. CASE NoMoreChunks
  BY <1>4, <1>a, <1>b DEF NoMoreChunks, Goto
<1>5. ASSUME NEW w \in Workers, Process(w)
      PROVE  held'[v] # Null <=> Working(pc'[v], v)
  BY <1>5, <1>a, <1>b DEF Process, Goto
<1>6. CASE WriteOut
  BY <1>6, <1>a, <1>b DEF WriteOut, Goto
<1>7. ASSUME NEW w \in Workers, Put(w)
      PROVE  held'[v] # Null <=> Working(pc'[v], v)
  <2>1. /\ w \in Queues
        /\ [pc EXCEPT ![w] = LoopStart(w)] \in [Workers -> Locations]
    BY <1>7, <1>a DEF Put, LoopStart, Locations
  <2>2. Working(pc'[v], v) <=> Working([pc EXCEPT ![w] = LoopStart(w)][v], v)
    BY <1>7, <1>c, <2>1 DEF Put
  <2> QED
    BY <1>7, <1>a, <1>b, <2>2 DEF Put, LoopStart
<1>8. ASSUME NEW w \in Workers, PutBlock(w)
      PROVE  held'[v] # Null <=> Working(pc'[v], v)
  BY <1>8, <1>a, <1>b DEF PutBlock, Goto
<1>9. ASSUME NEW w \in Workers, Get(w)
      PROVE  held'[v] # Null <=> Working(pc'[v], v)
  <2>1. /\ w - 1 \in Queues
        /\ [pc EXCEPT ![w] = "work"] \in [Workers -> Locations]
    BY <1>9, <1>a DEF Get, Locations
  <2>2. Working(pc'[v], v) <=> Working([pc EXCEPT ![w] = "work"][v], v)
    BY <1>9, <1>c, <2>1 DEF Get
  <2>3. queue[w - 1] \in Seq(Nat)
    BY <2>1 DEF TypeOK
  <2>4. Head(queue[w - 1]) # Null
    BY <1>9, <2>3 DEF Get, Null
  <2> QED
    BY <1>9, <1>a, <1>b, <2>2, <2>4 DEF Get
<1>10. ASSUME NEW w \in Workers, GetNothing(w)
       PROVE  held'[v] # Null <=> Working(pc'[v], v)
  <2>1. /\ w - 1 \in Queues
        /\ [pc EXCEPT ![w] = "exit"] \in [Workers -> Locations]
    BY <1>10, <1>a DEF GetNothing, Locations
  <2>2. Working(pc'[v], v) <=> Working([pc EXCEPT ![w] = "exit"][v], v)
    BY <1>10, <1>c, <2>1 DEF GetNothing
  <2> QED
    BY <1>10, <1>a, <1>b, <2>2 DEF GetNothing
<1>11. ASSUME NEW w \in Workers, GetBlock(w)
       PROVE  held'[v] # Null <=> Working(pc'[v], v)
  BY <1>11, <1>a, <1>b DEF GetBlock, Goto
<1>12. ASSUME NEW w \in Workers, Sleep(w)
       PROVE  held'[v] # Null <=> Working(pc'[v], v)
  BY <1>12, <1>a, <1>b DEF Sleep, Goto
<1>13. ASSUME NEW w \in Workers, SpuriousWakeup(w)
       PROVE  held'[v] # Null <=> Working(pc'[v], v)
  BY <1>13, <1>a, <1>b DEF SpuriousWakeup, Goto
<1>14. ASSUME NEW w \in Workers, TaskDone(w)
       PROVE  held'[v] # Null <=> Working(pc'[v], v)
  BY <1>14, <1>a, <1>b DEF TaskDone, Goto
<1>15. ASSUME NEW w \in Workers, NotifyDone(w)
       PROVE  held'[v] # Null <=> Working(pc'[v], v)
  <2>1. /\ w \in Queues
        /\ [pc EXCEPT ![w] = "ended"] \in [Workers -> Locations]
    BY <1>15, <1>a DEF NotifyDone, Locations
  <2>2. Working(pc'[v], v) <=> Working([pc EXCEPT ![w] = "ended"][v], v)
    BY <1>15, <1>c, <2>1 DEF NotifyDone
  <2> QED
    BY <1>15, <1>a, <1>b, <2>2 DEF NotifyDone
<1>16. CASE WriterReturns
  BY <1>16, <1>a, <1>b DEF WriterReturns, Goto
<1>17. CASE UNCHANGED queueVars
  BY <1>17, <1>b DEF queueVars
<1> QED
  BY <1>1, <1>2, <1>3, <1>4, <1>5, <1>6, <1>7, <1>8, <1>9, <1>10, <1>11,
     <1>12, <1>13, <1>14, <1>15, <1>16, <1>17
  DEF Next, QueueStep, WorkStep

\* Every step keeps "no threads outside AddFile".
LEMMA IdleStep ==
  ASSUME TypeOK, IdleMeansEnded, [Next]_queueVars
  PROVE  IdleMeansEnded'
<1> USE DEF Workers, Queues, chunk_worker, dedup_worker, feature_worker,
            match_worker, write_worker
<1>1. ASSUME NEW f \in Files, StartAddFile(f) PROVE IdleMeansEnded'
  BY <1>1 DEF StartAddFile, IdleMeansEnded
<1>2. CASE JoinAddFile
  BY <1>2 DEF JoinAddFile, IdleMeansEnded
<1>3. ASSUME NEW w \in Workers,
             QueueStep(w) \/ WorkStep(w) \/ SpuriousWakeup(w)
      PROVE  IdleMeansEnded'
  <2>1. pc[w] # "ended" /\ addFile' = addFile
    BY <1>3 DEF QueueStep, WorkStep, SpuriousWakeup, CutChunk, NoMoreChunks,
       Process, WriteOut, Put, PutBlock, Get, GetNothing, GetBlock, Sleep,
       TaskDone, NotifyDone, WriterReturns
  <2> QED
    BY <2>1 DEF IdleMeansEnded
<1>4. CASE UNCHANGED queueVars
  BY <1>4 DEF queueVars, IdleMeansEnded
<1> QED
  BY <1>1, <1>2, <1>3, <1>4 DEF Next

\* Every step keeps the meaning of the done flags.
LEMMA DrainedStep ==
  ASSUME TypeOK, IdleMeansEnded, ClosedIsDone, DoneMeansDrained,
         [Next]_queueVars
  PROVE  ClosedIsDone' /\ DoneMeansDrained'
<1> DEFINE
      Closed(q)  == /\ done[q] => pc[q] \in {"notify", "ended"}
                    /\ addFile = "joining" /\ pc[q] \in {"notify", "ended"}
                         => done[q]
      Drained(w) == pc[w] \in Leaving =>
                      /\ w = chunk_worker => pending = <<>>
                      /\ w # chunk_worker => queue[w - 1] = <<>>
                      /\ w # chunk_worker /\ addFile = "joining" => done[w - 1]
      Inv(w)     == Drained(w) /\ (w \in Queues => Closed(w))
<1> USE DEF Workers, Queues, chunk_worker, dedup_worker, feature_worker,
            match_worker, write_worker
<1>a. \A w \in Workers : Inv(w)
  BY DEF ClosedIsDone, DoneMeansDrained
<1>b. pc \in [Workers -> Locations] /\ done \in [Queues -> BOOLEAN]
      /\ queue \in [Queues -> Seq(Nat)]
  BY DEF TypeOK
<1> SUFFICES ASSUME NEW v \in Workers PROVE Inv(v)'
  BY DEF ClosedIsDone, DoneMeansDrained
<1>c. ASSUME NEW q \in Queues, NEW p \in [Workers -> Locations],
             pc' = NotifyAll(q, p)
      PROVE  \/ pc'[v] = p[v]
             \/ /\ pc'[v] \notin Leaving /\ p[v] \notin Leaving
  BY <1>c, NotifyAllMoves DEF Leaving
<1>1. ASSUME NEW f \in Files, StartAddFile(f) PROVE Inv(v)'
  BY <1>1 DEF StartAddFile, LoopStart, Leaving
<1>2. CASE JoinAddFile
  BY <1>2, <1>a DEF JoinAddFile
<1>3. CASE CutChunk
  BY <1>3, <1>a, <1>b DEF CutChunk, Goto, Leaving
<1>4. CASE NoMoreChunks
  BY <1>4, <1>a, <1>b DEF NoMoreChunks, Goto, Leaving
<1>5. ASSUME NEW w \in Workers, Process(w) PROVE Inv(v)'
  BY <1>5, <1>a, <1>b DEF Process, Goto, Leaving
<1>6. CASE WriteOut
  BY <1>6, <1>a, <1>b DEF WriteOut, Goto, Leaving
<1>7. ASSUME NEW w \in Workers, Put(w) PROVE Inv(v)'
  <2> DEFINE p == [pc EXCEPT ![w] = LoopStart(w)]
  <2>1. w \in Queues /\ p \in [Workers -> Locations] /\ pc' = NotifyAll(w, p)
    BY <1>7, <1>b DEF Put, Locations, LoopStart
  <2>2. \/ pc'[v] = p[v]
        \/ pc'[v] \notin Leaving /\ p[v] \notin Leaving
    BY <1>c, <2>1
  <2>3. pc[w + 1] \notin Leaving
    <3>1. addFile = "joining" /\ ~done[w]
      BY <1>7, <1>a, <2>1 DEF Put, IdleMeansEnded, TypeOK
    <3> QED
      BY <1>7, <1>a, <2>1, <3>1 DEF Put
  <2>4. Drained(v)'
    <3>1. CASE v = w
      BY <1>7, <1>b, <2>2, <3>1 DEF Put, Leaving, LoopStart
    <3>2. CASE v = w + 1
      BY <1>7, <1>b, <2>2, <2>3, <3>2 DEF Put
    <3>3. CASE v # w /\ v # w + 1
      <4>1. v # chunk_worker => queue'[v - 1] = queue[v - 1]
        BY <1>7, <1>b, <3>3 DEF Put
      <4> QED
        BY <1>7, <1>a, <1>b, <2>2, <3>3, <4>1 DEF Put
    <3> QED
      BY <3>1, <3>2, <3>3
  <2>5. v \in Queues => Closed(v)'
    BY <1>7, <1>a, <1>b, <2>1, <2>2 DEF Put, Leaving, LoopStart
  <2> QED
    BY <2>4, <2>5
<1>8. ASSUME NEW w \in Workers, PutBlock(w) PROVE Inv(v)'
  BY <1>8, <1>a, <1>b DEF PutBlock, Goto, Leaving
<1>9. ASSUME NEW w \in Workers, Get(w) PROVE Inv(v)'
  <2> DEFINE p == [pc EXCEPT ![w] = "work"]
  <2>1. w - 1 \in Queues /\ p \in [Workers -> Locations] /\ pc' = NotifyAll(w - 1, p)
    BY <1>9, <1>b DEF Get, Locations
  <2>2. \/ pc'[v] = p[v]
        \/ pc'[v] \notin Leaving /\ p[v] \notin Leaving
    BY <1>c, <2>1
  <2>3. CASE v = w
    BY <1>9, <1>a, <1>b, <2>2, <2>3 DEF Get, Leaving
  <2>4. CASE v # w
    <3>1. v # chunk_worker => queue'[v - 1] = queue[v - 1]
      BY <1>9, <1>b, <2>1, <2>4 DEF Get
    <3> QED
      BY <1>9, <1>a, <1>b, <2>2, <2>4, <3>1 DEF Get, Leaving
  <2> QED
    BY <2>3, <2>4
<1>10. ASSUME NEW w \in Workers, GetNothing(w) PROVE Inv(v)'
  <2> DEFINE p == [pc EXCEPT ![w] = "exit"]
  <2>a. p \in [Workers -> Locations]
    BY <1>b DEF Locations
  <2>1. w - 1 \in Queues /\ p \in [Workers -> Locations] /\ pc' = NotifyAll(w - 1, p)
    BY <1>10, <2>a DEF GetNothing
  <2>2. \/ pc'[v] = p[v]
        \/ pc'[v] \notin Leaving /\ p[v] \notin Leaving
    BY <1>c, <2>1
  <2> QED
    BY <1>10, <1>a, <1>b, <2>1, <2>2 DEF GetNothing, Leaving
<1>11. ASSUME NEW w \in Workers, GetBlock(w) PROVE Inv(v)'
  BY <1>11, <1>a, <1>b DEF GetBlock, Goto, Leaving
<1>12. ASSUME NEW w \in Workers, Sleep(w) PROVE Inv(v)'
  BY <1>12, <1>a, <1>b DEF Sleep, Goto, Leaving
<1>13. ASSUME NEW w \in Workers, SpuriousWakeup(w) PROVE Inv(v)'
  BY <1>13, <1>a, <1>b DEF SpuriousWakeup, Goto, Leaving
<1>14. ASSUME NEW w \in Workers, TaskDone(w) PROVE Inv(v)'
  <2>1. w \in Queues /\ Inv(v) /\ Inv(w)
    BY <1>14, <1>a DEF TaskDone
  <2>2. CASE v = w
    BY <1>14, <1>b, <2>1, <2>2 DEF TaskDone, Goto, Leaving
  <2>3. CASE v # w
    <3>1. pc'[v] = pc[v] /\ (v \in Queues => done'[v] = done[v])
      BY <1>14, <1>b, <2>1, <2>3 DEF TaskDone, Goto
    <3>2. v # chunk_worker => (done[v - 1] => done'[v - 1])
      BY <1>14, <1>b, <2>1 DEF TaskDone
    <3> QED
      BY <1>14, <2>1, <3>1, <3>2 DEF TaskDone
  <2> QED
    BY <2>2, <2>3
<1>15. ASSUME NEW w \in Workers, NotifyDone(w) PROVE Inv(v)'
  <2> DEFINE p == [pc EXCEPT ![w] = "ended"]
  <2>1. w \in Queues /\ p \in [Workers -> Locations] /\ pc' = NotifyAll(w, p)
    BY <1>15, <1>b DEF NotifyDone, Locations
  <2>2. \/ pc'[v] = p[v]
        \/ pc'[v] \notin Leaving /\ p[v] \notin Leaving
    BY <1>c, <2>1
  <2> QED
    BY <1>15, <1>a, <1>b, <2>1, <2>2 DEF NotifyDone, Leaving
<1>16. CASE WriterReturns
  <2>1. CASE v = write_worker
    BY <1>16, <1>a, <1>b, <2>1 DEF WriterReturns, Goto, Leaving
  <2>2. CASE v # write_worker
    BY <1>16, <1>a, <1>b, <2>2 DEF WriterReturns, Goto
  <2> QED
    BY <2>1, <2>2
<1>17. CASE UNCHANGED queueVars
  BY <1>17, <1>a DEF queueVars
<1> QED
  BY <1>1, <1>2, <1>3, <1>4, <1>5, <1>6, <1>7, <1>8, <1>9, <1>10, <1>11,
     <1>12, <1>13, <1>14, <1>15, <1>16, <1>17
  DEF Next, QueueStep, WorkStep

\* Every step keeps the chunks in order.
LEMMA FlowStep ==
  ASSUME TypeOK, TypeOK', HeldWhereWorking, InFlightInOrder, [Next]_queueVars
  PROVE  InFlightInOrder'
<1> DEFINE First(q) == passed[q + 1] + Busy(q + 1)
           Flow(q)  == /\ Len(queue[q]) = passed[q] - First(q)
                       /\ \A i \in 1..Len(queue[q]) : queue[q][i] = First(q) + i - 1
<1>a. /\ contexts = passed[chunk_worker] + Busy(chunk_worker)
      /\ \A w \in Workers : held[w] # Null => held[w] = passed[w]
      /\ \A q \in Queues : Flow(q)
  BY DEF InFlightInOrder
<1>b. /\ held \in [Workers -> Nat \cup {Null}]
      /\ queue \in [Queues -> Seq(Nat)]
      /\ passed \in [Workers -> Nat]
      /\ contexts \in Nat
  BY DEF TypeOK
<1>c. \A n \in Nat : n # Null
  BY DEF Null
<1> USE DEF Workers, Queues, chunk_worker, dedup_worker, feature_worker,
            match_worker, write_worker
<1>d. ASSUME UNCHANGED <<held, queue, passed, contexts>> PROVE InFlightInOrder'
  BY <1>d DEF InFlightInOrder, Busy
<1>1. CASE CutChunk
  <2>1. held[1] = Null
    BY <1>1 DEF CutChunk, HeldWhereWorking
  <2>2. contexts' = passed'[1] + Busy(1)'
    BY <1>1, <1>a, <1>b, <1>c, <2>1 DEF CutChunk, Busy
  <2>3. \A w \in Workers : held'[w] # Null => held'[w] = passed'[w]
    <3>1. contexts = passed[1]
      BY <1>a, <1>b, <2>1 DEF Busy
    <3>2. held'[1] = contexts /\ passed' = passed
      BY <1>1, <1>b DEF CutChunk
    <3>3. \A w \in Workers : w # 1 => held'[w] = held[w]
      BY <1>1, <1>b DEF CutChunk
    <3> QED
      BY <1>a, <3>1, <3>2, <3>3
  <2>4. \A q \in Queues : Flow(q)'
    <3>1. \A q \in Queues : Busy(q + 1)' = Busy(q + 1)
      BY SMTT(30), <1>1, <1>b DEF CutChunk, Busy
    <3> QED
      BY <1>1, <1>a, <3>1 DEF CutChunk
  <2> QED
    BY <2>2, <2>3, <2>4 DEF InFlightInOrder
<1>2. CASE WriteOut
  <2>1. held[5] # Null
    BY <1>2 DEF WriteOut, HeldWhereWorking
  <2>2. passed'[5] + Busy(5)' = passed[5] + Busy(5)
    BY <1>2, <1>b, <2>1 DEF WriteOut, Busy
  <2>3. \A w \in 1..4 : passed'[w] = passed[w] /\ held'[w] = held[w]
                        /\ Busy(w)' = Busy(w)
    BY SMTT(30), <1>2, <1>b DEF WriteOut, Busy
  <2>4. \A w \in Workers : held'[w] # Null => held'[w] = passed'[w]
    BY <1>2, <1>a, <1>b, <2>3 DEF WriteOut
  <2>5. \A q \in Queues : First(q)' = First(q)
    BY <2>2, <2>3
  <2>6. \A q \in Queues : Flow(q)'
    BY <1>2, <1>a, <2>3, <2>5 DEF WriteOut
  <2>7. contexts' = passed'[1] + Busy(1)'
    BY <1>2, <1>a, <2>3 DEF WriteOut
  <2> QED
    BY <2>4, <2>6, <2>7 DEF InFlightInOrder
<1>3. ASSUME NEW w \in Workers, Put(w) PROVE InFlightInOrder'
  <2>1. w \in Queues /\ held[w] # Null
    BY <1>3 DEF Put, HeldWhereWorking
  <2>2. held[w] = passed[w] /\ Busy(w) = 1
    BY <1>a, <2>1 DEF Busy
  <2>3. passed'[w] = passed[w] + 1 /\ held'[w] = Null /\ Busy(w)' = 0
    BY <1>3, <1>b DEF Put, Busy
  <2>4. \A v \in Workers : v # w => /\ passed'[v] = passed[v]
                                    /\ held'[v] = held[v]
                                    /\ Busy(v)' = Busy(v)
    BY <1>3, <1>b DEF Put, Busy
  <2>5. \A v \in Workers : passed'[v] + Busy(v)' = passed[v] + Busy(v)
    <3>1. passed'[w] + Busy(w)' = passed[w] + Busy(w)
      BY <1>b, <2>2, <2>3
    <3> QED
      BY <2>4, <3>1
  <2>6. \A v \in Workers : held'[v] # Null => held'[v] = passed'[v]
    BY <1>a, <2>3, <2>4
  <2>7. ASSUME NEW q \in Queues PROVE Flow(q)'
    <3>1. First(q)' = First(q)
      BY <2>5
    <3>2. CASE q = w
      <4>1. /\ queue[w] \in Seq(Nat)
            /\ queue'[w] = Append(queue[w], passed[w])
            /\ Len(queue[w]) = passed[w] - First(w)
            /\ passed[w] \in Nat /\ First(w) \in Nat
        <5>1. queue[w] \in Seq(Nat) /\ queue'[w] = Append(queue[w], passed[w])
          BY <1>3, <1>b, <2>1, <2>2 DEF Put
        <5>2. passed[w] \in Nat /\ First(w) \in Nat
          <6>1. w + 1 \in Workers /\ Busy(w + 1) \in 0..1
            BY <2>1 DEF Busy
          <6>2. passed[w] \in Nat /\ passed[w + 1] \in Nat
            BY <1>b, <6>1
          <6> QED
            BY <6>1, <6>2
        <5>3. Flow(w)
          BY <1>a, <2>1
        <5> QED
          BY <5>1, <5>2, <5>3
      <4>2. Len(queue'[w]) = Len(queue[w]) + 1
        BY <4>1
      <4>3. ASSUME NEW i \in 1..Len(queue'[w])
            PROVE  queue'[w][i] = First(w) + i - 1
        <5>1. CASE i = Len(queue[w]) + 1
          BY SMTT(30), <4>1, <4>2, <5>1
        <5>2. CASE i \in 1..Len(queue[w])
          <6>1. queue'[w][i] = queue[w][i]
            BY <4>1, <5>2
          <6> QED
            BY <1>a, <2>1, <5>2, <6>1
        <5> QED
          BY <4>1, <4>2, <5>1, <5>2
      <4> QED
        BY SMTT(30), <2>3, <3>1, <3>2, <4>1, <4>2, <4>3
    <3>3. CASE q # w
      <4>1. queue'[q] = queue[q] /\ passed'[q] = passed[q]
        BY <1>3, <1>b, <2>4, <3>3 DEF Put
      <4> QED
        BY <1>a, <3>1, <4>1
    <3> QED
      BY <3>2, <3>3
  <2>8. contexts' = passed'[1] + Busy(1)'
    BY <1>3, <1>a, <2>5 DEF Put
  <2> QED
    BY <2>6, <2>7, <2>8 DEF InFlightInOrder
<1>4. ASSUME NEW w \in Workers, Get(w) PROVE InFlightInOrder'
  <2>1. w - 1 \in Queues /\ w # 1 /\ held[w] = Null
    BY <1>4 DEF Get, HeldWhereWorking
  <2>2. /\ queue[w - 1] \in Seq(Nat) /\ queue[w - 1] # <<>>
        /\ Len(queue[w - 1]) = passed[w - 1] - First(w - 1)
        /\ \A i \in 1..Len(queue[w - 1]) : queue[w - 1][i] = First(w - 1) + i - 1
    BY <1>4, <1>a, <1>b, <2>1 DEF Get
  <2>3. Busy(w) = 0 /\ First(w - 1) = passed[w]
    BY <1>b, <2>1 DEF Busy
  <2>4. Head(queue[w - 1]) = passed[w]
    <3>1. Head(queue[w - 1]) = queue[w - 1][1] /\ 1 \in 1..Len(queue[w - 1])
      BY <2>2
    <3> QED
      BY <1>b, <2>2, <2>3, <3>1
  <2>5. held'[w] = passed[w] /\ Busy(w)' = 1
    BY <1>4, <1>b, <1>c, <2>4 DEF Get, Busy
  <2>6. \A v \in Workers : v # w => held'[v] = held[v] /\ Busy(v)' = Busy(v)
    BY <1>4, <1>b DEF Get, Busy
  <2>7. passed' = passed /\ contexts' = contexts
    BY <1>4 DEF Get
  <2>8. \A v \in Workers : held'[v] # Null => held'[v] = passed'[v]
    BY <1>a, <2>5, <2>6, <2>7
  <2>9. ASSUME NEW q \in Queues PROVE Flow(q)'
    <3>1. CASE q = w - 1
      <4>1. queue'[q] = Tail(queue[q]) /\ queue[q] \in Seq(Nat) /\ queue[q] # <<>>
        BY <1>4, <1>b, <2>1, <2>2, <3>1 DEF Get
      <4>2. First(q)' = First(q) + 1
        BY <1>b, <2>3, <2>5, <2>7, <3>1
      <4>3. /\ Len(queue'[q]) = Len(queue[q]) - 1
            /\ \A i \in 1..Len(queue'[q]) : queue'[q][i] = queue[q][i + 1]
        BY <4>1
      <4>4. Len(queue'[q]) = passed'[q] - First(q)'
        <5>1. /\ Len(queue[q]) = passed[q] - First(q)
              /\ First(q) \in Nat /\ passed[q] \in Nat
          <6>1. passed[w] \in Nat /\ passed[q] \in Nat
            BY SMTT(30), <1>b
          <6>2. Len(queue[q]) = passed[q] - First(q)
            BY <2>2, <3>1
          <6>3. First(q) = passed[w]
            BY <2>3, <3>1
          <6> QED
            BY <6>1, <6>2, <6>3
        <5> QED
          BY <2>7, <4>2, <4>3, <5>1
      <4>5. \A i \in 1..Len(queue'[q]) : queue'[q][i] = First(q)' + i - 1
        <5>1. First(q) \in Nat /\ Len(queue[q]) \in Nat
          <6>1. passed[w] \in Nat
            BY <1>b
          <6>2. First(q) = passed[w]
            BY <2>3, <3>1
          <6>3. Len(queue[q]) \in Nat
            BY <4>1
          <6> QED
            BY <6>1, <6>2, <6>3
        <5>2. \A i \in 1..Len(queue[q]) : queue[q][i] = First(q) + i - 1
          BY <2>2, <3>1
        <5>3. \A i \in 1..Len(queue'[q]) : i + 1 \in 1..Len(queue[q])
          BY <4>3, <5>1
        <5>4. ASSUME NEW i \in 1..Len(queue'[q])
              PROVE  queue'[q][i] = First(q)' + i - 1
          <6>1. queue'[q][i] = First(q) + (i + 1) - 1
            BY <4>3, <5>2, <5>3
          <6> QED
            BY <4>2, <5>1, <6>1
        <5> QED
          BY <5>4
      <4> QED
        BY <4>4, <4>5
    <3>2. CASE q # w - 1
      <4>1. queue'[q] = queue[q] /\ First(q)' = First(q)
        <5>1. queue'[q] = queue[q]
          BY <1>4, <1>b, <2>1, <3>2 DEF Get
        <5>2. q + 1 \in Workers /\ q + 1 # w
          BY <3>2
        <5> QED
          BY <2>6, <2>7, <5>1, <5>2
      <4> QED
        BY <1>a, <2>7, <4>1
    <3> QED
      BY <3>1, <3>2
  <2>10. contexts' = passed'[1] + Busy(1)'
    BY <1>a, <2>1, <2>6, <2>7
  <2> QED
    BY <2>8, <2>9, <2>10 DEF InFlightInOrder
<1>5. CASE \/ \E f \in Files : StartAddFile(f)
           \/ JoinAddFile \/ NoMoreChunks \/ WriterReturns
  BY <1>5, <1>d DEF StartAddFile, JoinAddFile, NoMoreChunks, WriterReturns
<1>6. ASSUME NEW w \in Workers,
             \/ Process(w) \/ PutBlock(w) \/ GetNothing(w) \/ GetBlock(w)
             \/ Sleep(w) \/ SpuriousWakeup(w) \/ TaskDone(w) \/ NotifyDone(w)
      PROVE  InFlightInOrder'
  BY <1>6, <1>d DEF Process, PutBlock, GetNothing, GetBlock, Sleep,
     SpuriousWakeup, TaskDone, NotifyDone
<1>7. CASE UNCHANGED queueVars
  BY <1>7, <1>d DEF queueVars
<1> QED
  BY <1>1, <1>2, <1>3, <1>4, <1>5, <1>6, <1>7 DEF Next, QueueStep, WorkStep
-----------------------------------------------------------------------------
\* The inductive invariant holds initially.
LEMMA InvInit == Init => IInv
<1> SUFFICES ASSUME Init PROVE IInv
  OBVIOUS
<1> USE DEF Init, Workers, Queues, chunk_worker, write_worker
<1>1. TypeOK
  <2>1. 0 \in 0..IdSpace - 1
    BY PipelineAssumption
  <2>2. fileMeta \in FileMetas
    BY <2>1 DEF FileMetas
  <2>3. \A q \in Queues : Len(queue[q]) <= MaxQueueLen
    BY PipelineAssumption
  <2> QED
    BY <2>2, <2>3, PipelineAssumption DEF TypeOK, Locations
<1>2. HeldWhereWorking /\ IdleMeansEnded /\ ClosedIsDone /\ IdsWrap
  <2>1. 0 % IdSpace = 0
    BY PipelineAssumption
  <2> QED
    BY <2>1 DEF HeldWhereWorking, IdleMeansEnded, ClosedIsDone, IdsWrap
<1>3. InFlightInOrder
  BY DEF InFlightInOrder, Busy, Null
<1>4. DoneMeansDrained
  BY DEF DoneMeansDrained, Leaving
<1> QED
  BY <1>1, <1>2, <1>3, <1>4 DEF IInv

\* The inductive invariant is kept by every step.
LEMMA InvNext == IInv /\ [Next]_queueVars => IInv'
<1> SUFFICES ASSUME IInv, [Next]_queueVars PROVE IInv'
  OBVIOUS
<1> USE DEF IInv
<1>1. TypeOK' /\ IdsWrap' /\ HeldWhereWorking' /\ IdleMeansEnded'
  BY TypeStep, WrapStep, HeldStep, IdleStep
<1>2. ClosedIsDone' /\ DoneMeansDrained'
  BY DrainedStep
<1>3. InFlightInOrder'
  BY <1>1, FlowStep
<1> QED
  BY <1>1, <1>2, <1>3

\* The inductive invariant implies that nothing is lost: the write worker ended
\* because the match worker closed the last queue, which it did because the
\* feature worker closed the one before, and so on up to the chunker.
LEMMA InvNothingLost == IInv => NothingLost
<1> SUFFICES ASSUME IInv, pc[write_worker] = "ended" PROVE NothingLost
  BY DEF NothingLost
<1> USE DEF IInv, Workers, Queues, chunk_worker, write_worker
<1>1. \A w \in Workers : pc[w] \in Leaving
  <2>1. CASE addFile = "idle"
    BY <2>1 DEF IdleMeansEnded, Leaving
  <2>2. CASE addFile = "joining"
    <3>1. \A w \in 2..5 : pc[w] \in Leaving => pc[w - 1] \in Leaving
      BY <2>2 DEF DoneMeansDrained, Leaving
    <3>2. pc[5] \in Leaving /\ pc[4] \in Leaving /\ pc[3] \in Leaving
      BY <3>1 DEF Leaving
    <3>3. pc[2] \in Leaving /\ pc[1] \in Leaving
      BY <3>1, <3>2
    <3> QED
      BY <3>2, <3>3
  <2> QED
    BY <2>1, <2>2 DEF TypeOK
<1>2. pending = <<>> /\ \A q \in Queues : queue[q] = <<>>
  <2>1. \A w \in 2..5 : queue[w - 1] = <<>>
    BY <1>1 DEF DoneMeansDrained
  <2>2. \A q \in Queues : q + 1 \in 2..5 /\ (q + 1) - 1 = q
    OBVIOUS
  <2> QED
    BY <1>1, <2>1, <2>2 DEF DoneMeansDrained
<1>3. \A w \in Workers : held[w] = Null
  BY <1>1 DEF HeldWhereWorking, Leaving
<1>4. passed[write_worker] = contexts
  <2>1. passed \in [Workers -> Nat] /\ contexts \in Nat
    BY DEF TypeOK
  <2>2. \A w \in Workers : Busy(w) = 0
    BY <1>3 DEF Busy
  <2>3. \A q \in Queues : Len(queue[q]) = passed[q] - (passed[q + 1] + Busy(q + 1))
    BY DEF InFlightInOrder
  <2>4. \A q \in Queues : passed[q] = passed[q + 1]
    <3>1. \A q \in Queues : Len(queue[q]) = 0
      BY <1>2
    <3>2. \A q \in Queues : q \in Workers /\ q + 1 \in Workers
      OBVIOUS
    <3>3. ASSUME NEW q \in Queues PROVE passed[q] = passed[q + 1]
      <4>1. 0 = passed[q] - (passed[q + 1] + Busy(q + 1)) /\ Busy(q + 1) = 0
        BY <2>2, <2>3, <3>1, <3>2
      <4>2. passed[q] \in Nat /\ passed[q + 1] \in Nat
        BY <2>1, <3>2
      <4> QED
        BY <4>1, <4>2
    <3> QED
      BY <3>3
  <2>5. contexts = passed[1]
    BY <2>1, <2>2 DEF InFlightInOrder
  <2> QED
    BY <2>4, <2>5
<1> QED
  BY <1>2, <1>3, <1>4 DEF NothingLost
-----------------------------------------------------------------------------
\* The id, modulo IdSpace, that the next line of file_meta has to start with.
LineEnd == IF metaFile = <<>> THEN 0
           ELSE (metaFile[Len(metaFile)].end + 1) % IdSpace

\* What ties the lines to the ids: outside AddFile the last line ends with the
\* last chunk written; inside, the chunks that are cut or pending are those from
\* the first one of the line, whose id is its start, as many as the file has.
LinesMeetIds ==
  /\ addFile = "idle" => LineEnd = passed[write_worker] % IdSpace
  /\ addFile = "joining" =>
       /\ fileMeta.start = LineEnd
       /\ \E first \in Nat : /\ fileMeta.start = first % IdSpace
                             /\ contexts + Len(pending) = first + Len(fileMeta.file)

\* Every step keeps the lines contiguous and meeting the ids.
LEMMA LinesStep ==
  ASSUME IInv, FileMetaTiles, LinesMeetIds, [Next]_queueVars
  PROVE  FileMetaTiles' /\ LinesMeetIds'
<1> USE DEF Workers, write_worker
<1>a. /\ passed[5] \in Nat /\ contexts \in Nat /\ IdSpace \in Nat \ {0}
      /\ pending \in Seq(Contents) /\ metaFile \in Seq(FileMetas)
      /\ fileMeta \in FileMetas /\ addFile \in {"idle", "joining"}
  BY PipelineAssumption DEF IInv, TypeOK
<1>b. ASSUME NEW k \in Nat
      PROVE  (((k - 1) % IdSpace) + 1) % IdSpace = k % IdSpace
  <2>1. k - 1 \in Int /\ 1 \in Int /\ (k - 1) + 1 = k
    OBVIOUS
  <2>2. (((k - 1) % IdSpace) + 1) % IdSpace = ((k - 1) + 1) % IdSpace
    BY <1>a, <2>1, ModPlus
  <2> QED
    BY <2>1, <2>2
<1>c. ASSUME UNCHANGED <<addFile, metaFile, fileMeta, contexts, pending>>,
             passed'[5] = passed[5] \/ addFile = "joining"
      PROVE  FileMetaTiles' /\ LinesMeetIds'
  BY <1>c DEF FileMetaTiles, LinesMeetIds, LineEnd
<1>1. ASSUME NEW f \in Files, StartAddFile(f)
      PROVE  FileMetaTiles' /\ LinesMeetIds'
  <2>1. addFile = "idle" /\ \A w \in Workers : pc[w] = "ended"
    BY <1>1 DEF StartAddFile, IInv, IdleMeansEnded
  <2>2. passed[5] = contexts /\ pending = <<>>
    BY <2>1, InvNothingLost DEF NothingLost
  <2>3. f \in Seq(Contents)
    BY PipelineAssumption
  <2>4. /\ addFile' = "joining" /\ metaFile' = metaFile /\ contexts' = contexts
        /\ fileMeta'.start = passed[5] % IdSpace /\ fileMeta'.file = f
        /\ Len(pending') = Len(f)
    BY <1>1, <2>2 DEF StartAddFile
  <2>5. contexts' + Len(pending') = passed[5] + Len(fileMeta'.file)
    BY <2>2, <2>4
  <2>6. LineEnd' = LineEnd
    BY <2>4 DEF LineEnd
  <2> QED
    BY <1>a, <2>1, <2>4, <2>5, <2>6 DEF FileMetaTiles, LinesMeetIds
<1>2. CASE JoinAddFile
  <2>1. addFile = "joining" /\ passed[5] = contexts /\ pending = <<>>
    BY <1>2, InvNothingLost DEF JoinAddFile, NothingLost
  <2>2. PICK first \in Nat : /\ fileMeta.start = first % IdSpace
                             /\ contexts + Len(pending) = first + Len(fileMeta.file)
    BY <2>1 DEF LinesMeetIds
  <2> DEFINE e == (passed[5] - 1) % IdSpace
             m == [fileMeta EXCEPT !.end = e]
  <2>3. fileMeta.file \in Seq(Contents)
    <3>1. fileMeta.file \in Files \cup {<<>>}
      BY <1>a DEF FileMetas
    <3>2. Files \subseteq Seq(Contents) /\ <<>> \in Seq(Contents)
      BY PipelineAssumption
    <3> QED
      BY <3>1, <3>2
  <2>4. e = (fileMeta.start + Len(fileMeta.file) - 1) % IdSpace
    <3>1. passed[5] - 1 = first + (Len(fileMeta.file) - 1)
      BY <2>1, <2>2, <2>3, <1>a
    <3>2. ((first % IdSpace) + (Len(fileMeta.file) - 1)) % IdSpace = e
      <4>1. first \in Int /\ Len(fileMeta.file) - 1 \in Int
        BY <2>3
      <4>2. ((first % IdSpace) + (Len(fileMeta.file) - 1)) % IdSpace
              = (first + (Len(fileMeta.file) - 1)) % IdSpace
        BY <1>a, <4>1, ModPlus
      <4> QED
        BY <3>1, <4>2
    <3> QED
      BY <2>2, <3>2
  <2>5. m \in FileMetas /\ m.start = fileMeta.start /\ m.end = e /\ m.file = fileMeta.file
    <3>1. e \in 0..IdSpace - 1
      <4>1. passed[5] - 1 \in Int
        BY <1>a
      <4> QED
        BY <4>1, ModType
    <3> QED
      BY <1>a, <3>1, FileMetaType DEF FileMetas
  <2>6. metaFile' = Append(metaFile, m)
    BY <1>2 DEF JoinAddFile
  <2> HIDE DEF e, m
  <2>7. /\ Len(metaFile') = Len(metaFile) + 1
        /\ \A i \in 1..Len(metaFile) : metaFile'[i] = metaFile[i]
        /\ metaFile'[Len(metaFile) + 1] = m
    BY <1>a, <2>5, <2>6
  <2>8. FileMetaTiles'
    <3> SUFFICES ASSUME NEW i \in 1..Len(metaFile) + 1
                 PROVE  /\ metaFile'[i].start =
                             IF i = 1 THEN 0 ELSE (metaFile'[i - 1].end + 1) % IdSpace
                        /\ metaFile'[i].end = (metaFile'[i].start
                                                + Len(metaFile'[i].file) - 1) % IdSpace
      BY <2>7 DEF FileMetaTiles
    <3>1. CASE i \in 1..Len(metaFile)
      <4>1. metaFile'[i] = metaFile[i] /\ (i # 1 => metaFile'[i - 1] = metaFile[i - 1])
        BY <2>7, <3>1, <1>a
      <4>2. LET m0 == metaFile[i] IN
            /\ m0.start = IF i = 1 THEN 0 ELSE (metaFile[i - 1].end + 1) % IdSpace
            /\ m0.end = (m0.start + Len(m0.file) - 1) % IdSpace
        BY <3>1 DEF FileMetaTiles
      <4> QED
        BY <4>1, <4>2
    <3>2. CASE i = Len(metaFile) + 1
      <4>1. metaFile'[i] = m
        BY <2>7, <3>2
      <4>2. m.start = IF i = 1 THEN 0 ELSE (metaFile'[i - 1].end + 1) % IdSpace
        <5>1. m.start = LineEnd
          BY <2>1, <2>5 DEF LinesMeetIds
        <5>2. i # 1 => i - 1 = Len(metaFile) /\ metaFile'[i - 1] = metaFile[Len(metaFile)]
          BY <1>a, <2>7, <3>2
        <5>3. metaFile = <<>> <=> i = 1
          BY <1>a, <3>2
        <5> QED
          BY <5>1, <5>2, <5>3 DEF LineEnd
      <4> QED
        BY <2>4, <2>5, <4>1, <4>2
    <3>3. i \in 1..Len(metaFile) \/ i = Len(metaFile) + 1
      <4>1. Len(metaFile) \in Nat
        BY <1>a
      <4> QED
        BY <4>1
    <3> QED
      BY <3>1, <3>2, <3>3
  <2>9. LinesMeetIds'
    <3>1. LineEnd' = (e + 1) % IdSpace
      <4>1. metaFile' # <<>>
        BY <1>a, <2>5, <2>6
      <4> QED
        BY <2>5, <2>7, <4>1 DEF LineEnd
    <3>2. LineEnd' = passed[5] % IdSpace
      BY <1>a, <1>b, <3>1 DEF e
    <3> QED
      BY <1>2, <3>2 DEF LinesMeetIds, JoinAddFile
  <2> QED
    BY <2>8, <2>9
<1>3. CASE CutChunk
  <2>1. /\ contexts' = contexts + 1 /\ pending # <<>> /\ pending' = Tail(pending)
        /\ UNCHANGED <<addFile, metaFile, fileMeta, passed>>
    BY <1>3 DEF CutChunk
  <2>2. contexts' + Len(pending') = contexts + Len(pending)
    BY <1>a, <2>1
  <2> QED
    BY <2>1, <2>2 DEF FileMetaTiles, LinesMeetIds, LineEnd
<1>4. ASSUME NEW w \in Workers,
             QueueStep(w) \/ (WorkStep(w) /\ ~CutChunk) \/ SpuriousWakeup(w)
      PROVE  FileMetaTiles' /\ LinesMeetIds'
  <2>1. pc[w] # "ended" /\ UNCHANGED <<addFile, metaFile, fileMeta, contexts, pending>>
    BY <1>4 DEF QueueStep, WorkStep, SpuriousWakeup, NoMoreChunks,
       Process, WriteOut, Put, PutBlock, Get, GetNothing, GetBlock, Sleep,
       TaskDone, NotifyDone, WriterReturns
  <2>2. addFile = "joining"
    BY <1>a, <2>1 DEF IInv, IdleMeansEnded
  <2> QED
    BY <1>c, <2>1, <2>2
<1>5. CASE UNCHANGED queueVars
  BY <1>5, <1>c DEF queueVars
<1> QED
  BY <1>1, <1>2, <1>3, <1>4, <1>5 DEF Next, WorkStep
-----------------------------------------------------------------------------
\* The types and the queue bound hold in every behaviour.
THEOREM TypeCorrect == Spec => []TypeOK
<1>1. IInv => TypeOK
  BY DEF IInv
<1> QED
  BY InvInit, InvNext, <1>1, PTL DEF Spec

\* Chunks stay in order on their way through the four queues.
THEOREM InOrder == Spec => []InFlightInOrder
<1>1. IInv => InFlightInOrder
  BY DEF IInv
<1> QED
  BY InvInit, InvNext, <1>1, PTL DEF Spec

\* Workers leave their loops only when there is nothing left to do.
THEOREM Drained == Spec => []DoneMeansDrained
<1>1. IInv => DoneMeansDrained
  BY DEF IInv
<1> QED
  BY InvInit, InvNext, <1>1, PTL DEF Spec

\* When AddFile has joined the write worker, every chunk has been written.
THEOREM Complete == Spec => []NothingLost
BY InvInit, InvNext, InvNothingLost, PTL DEF Spec

\* The lines of file_meta tile the ids, whatever the threads did in between.
THEOREM LinesTile == Spec => []FileMetaTiles
<1>1. Init => FileMetaTiles /\ LinesMeetIds
  <2>1. 0 % IdSpace = 0
    BY PipelineAssumption
  <2> QED
    BY <2>1 DEF Init, FileMetaTiles, LinesMeetIds, LineEnd, Workers, write_worker
<1>2. IInv /\ FileMetaTiles /\ LinesMeetIds /\ [Next]_queueVars
        => (FileMetaTiles /\ LinesMeetIds)'
  BY LinesStep
<1> QED
  BY InvInit, InvNext, <1>1, <1>2, PTL DEF Spec
-----------------------------------------------------------------------------
(* Part 2: the chunks.                                                     *)

\* The chunks that worker w has done its work on, passed on or still in hand.
Finished(w) ==
  passed[w] + (IF pc[w] \in {"put", "putBlock", "putWait"} THEN 1 ELSE 0)

Deduped  == Finished(dedup_worker)
Featured == Finished(feature_worker)
Matched  == Finished(match_worker)
Written  == passed[write_worker]

\* The class of a chunk is in its record once it is written, before that in
\* its context; WriteBaseChunk records a base chunk as its own base.
kinds ==
  [n \in 0..contexts - 1 |->
     IF n < Written THEN storage_.meta[n + 1].type ELSE ctx[n].type]

bases ==
  [n \in 0..contexts - 1 |->
     IF n < Written THEN storage_.meta[n + 1].base
     ELSE IF ctx[n].type = BaseChunk THEN n ELSE ctx[n].base]

Contexts == [chunk : Contents, id : Nat, type : 0..3, base : Nat,
             feature : Contents \cup {NoFeature}]

\* No id has come back yet.  Beyond, an id is that of two chunks, whereas a
\* record is reached by the id of its chunk.
FewChunks == contexts <= IdSpace

\* The chunks between the chunker and the write worker have a context, with
\* their content and their number for an id, and no other chunk has one.
ContextsOK ==
  /\ cut \in Seq(Contents) /\ Len(cut) = contexts
  /\ ctx \in [Written..contexts - 1 -> Contexts]
  /\ \A n \in Written..contexts - 1 :
       /\ ctx[n].chunk = cut[n + 1] /\ ctx[n].id = n
       /\ n >= Deduped => ctx[n].type # DuplicateChunk
       /\ n < Featured /\ ctx[n].type # DuplicateChunk =>
            ctx[n].feature = ctx[n].chunk

\* The dedup map and the index are those of the chunks they have seen, and the
\* chunks are classified as the map and the index then were.
ClassesOK ==
  /\ DedupedTo(cut, kinds, bases, Deduped)
  /\ MapFor(cut, mp_, Deduped)
  /\ MatchedTo(Similar, cut, kinds, bases, Matched)
  /\ IndexFor(cut, kinds, index_, Matched)

\* The store is in order, has a record for each chunk written, and a record
\* with bytes of its own gives the chunk back.
RecordsOK ==
  /\ StoreOK(storage_)
  /\ Len(storage_.meta) = Written
  /\ Faithful(storage_, cut)

Counters == [origin : Nat, compressed : Nat, before : Nat, after : Nat,
             base : Nat, delta : Nat, duplicate : Nat]

\* The counters are numbers, and count what they are for.
CountsOK == stats \in Counters /\ StatsExact

\* What is kept of any chunk is below the limit of the cache; a limit of at
\* least Uint16 bytes is enough.
Fits == \A c \in Contents : Len(c) % Uint16 < MaxMemoryUsage

\* The cache has not run out of nodes.
CacheAlive == Fits => ~aborted /\ ~storage_.cache.crashed

\* The inductive invariant.
DInv == IInv /\ ContextsOK /\ ClassesOK /\ RecordsOK /\ CountsOK /\ CacheAlive
-----------------------------------------------------------------------------
\* The counts are ordered as the stages are, and a worker that works has the
\* next chunk in hand, one that the stage before has finished.
LEMMA Pipelined ==
  ASSUME IInv
  PROVE  /\ Written \in Nat /\ Matched \in Nat /\ Featured \in Nat
         /\ Deduped \in Nat /\ contexts \in Nat
         /\ Written <= Matched /\ Matched <= Featured
         /\ Featured <= Deduped /\ Deduped <= contexts
         /\ pc[dedup_worker] = "work" =>
              held[dedup_worker] = Deduped /\ Deduped < contexts
         /\ pc[feature_worker] = "work" =>
              held[feature_worker] = Featured /\ Featured < Deduped
         /\ pc[match_worker] = "work" =>
              held[match_worker] = Matched /\ Matched < Featured
         /\ pc[write_worker] = "work" =>
              held[write_worker] = Written /\ Written < Matched
<1> USE DEF Workers, Queues, chunk_worker, dedup_worker, feature_worker,
            match_worker, write_worker
<1>1. /\ passed \in [Workers -> Nat] /\ contexts \in Nat
      /\ queue \in [Queues -> Seq(Nat)]
      /\ pc \in [Workers -> Locations] /\ held \in [Workers -> Nat \cup {Null}]
  BY DEF IInv, TypeOK
<1>2. /\ contexts = passed[1] + Busy(1)
      /\ \A w \in Workers : held[w] # Null => held[w] = passed[w]
      /\ \A q \in Queues : Len(queue[q]) = passed[q] - (passed[q + 1] + Busy(q + 1))
  BY DEF IInv, InFlightInOrder
<1>3. \A w \in 2..5 : Busy(w) = IF pc[w] \in {"put", "putBlock", "putWait", "work"}
                                  THEN 1 ELSE 0
  BY DEF IInv, HeldWhereWorking, Busy
<1>4. \A w \in 1..5 : Busy(w) \in {0, 1}
  BY DEF Busy
<1>5. ASSUME NEW q \in 1..4 PROVE passed[q + 1] + Busy(q + 1) <= passed[q]
  <2>1. Len(queue[q]) \in Nat
    BY <1>1
  <2>2. Len(queue[q]) = passed[q] - (passed[q + 1] + Busy(q + 1))
    BY <1>2
  <2>3. q + 1 \in 1..5 /\ passed[q + 1] \in Nat /\ passed[q] \in Nat
    BY <1>1
  <2>4. Busy(q + 1) \in {0, 1}
    BY <1>4, <2>3
  <2> QED
    BY <2>1, <2>2, <2>3, <2>4
<1>6. \A w \in 2..5 : pc[w] = "work" => held[w] = passed[w] /\ Busy(w) = 1
  BY <1>2, <1>3 DEF IInv, HeldWhereWorking
<1>7. \A w \in 2..5 : /\ passed[w] \in Nat /\ Finished(w) \in Nat
                      /\ passed[w] <= Finished(w)
                      /\ Finished(w) <= passed[w] + Busy(w)
  <2> TAKE w \in 2..5
  <2>1. passed[w] \in Nat
    BY SMTT(30), <1>1
  <2>2. Busy(w) = IF pc[w] \in {"put", "putBlock", "putWait", "work"} THEN 1 ELSE 0
    BY <1>3
  <2> QED
    BY <2>1, <2>2 DEF Finished
<1>8. \A w \in 2..5 : pc[w] = "work" => Finished(w) = passed[w]
  BY <1>1 DEF Finished
<1>9. /\ passed[2] + Busy(2) <= passed[1] /\ passed[3] + Busy(3) <= passed[2]
      /\ passed[4] + Busy(4) <= passed[3] /\ passed[5] + Busy(5) <= passed[4]
  <2>1. /\ passed[1 + 1] + Busy(1 + 1) <= passed[1]
        /\ passed[2 + 1] + Busy(2 + 1) <= passed[2]
        /\ passed[3 + 1] + Busy(3 + 1) <= passed[3]
        /\ passed[4 + 1] + Busy(4 + 1) <= passed[4]
    BY <1>5
  <2>2. 1 + 1 = 2 /\ 2 + 1 = 3 /\ 3 + 1 = 4 /\ 4 + 1 = 5
    OBVIOUS
  <2> QED
    BY <2>1, <2>2
<1>10. /\ Busy(2) \in {0, 1} /\ Busy(3) \in {0, 1}
       /\ Busy(4) \in {0, 1} /\ Busy(5) \in {0, 1}
  BY <1>4
<1>11. passed[1] \in Nat /\ passed[1] <= contexts
  <2>1. 1 \in Workers /\ 1 \in 1..5
    OBVIOUS
  <2>2. Busy(1) \in {0, 1} /\ passed[1] \in Nat
    BY <1>1, <1>4, <2>1
  <2> QED
    BY <1>2, <2>2
<1>12. /\ passed[2] \in Nat /\ Finished(2) \in Nat
       /\ passed[3] \in Nat /\ Finished(3) \in Nat
       /\ passed[4] \in Nat /\ Finished(4) \in Nat
       /\ passed[5] \in Nat /\ contexts \in Nat
  BY <1>1, <1>7
<1>13. /\ passed[2] <= Finished(2) /\ Finished(2) <= passed[2] + Busy(2)
       /\ passed[3] <= Finished(3) /\ Finished(3) <= passed[3] + Busy(3)
       /\ passed[4] <= Finished(4) /\ Finished(4) <= passed[4] + Busy(4)
  BY <1>7
<1>14. /\ passed[5] <= Finished(4) /\ Finished(4) <= Finished(3)
       /\ Finished(3) <= Finished(2) /\ Finished(2) <= contexts
  BY <1>9, <1>10, <1>11, <1>12, <1>13
<1>15. /\ pc[2] = "work" => /\ held[2] = Finished(2) /\ Busy(2) = 1 /\ Finished(2) = passed[2]
       /\ pc[3] = "work" => /\ held[3] = Finished(3) /\ Busy(3) = 1 /\ Finished(3) = passed[3]
       /\ pc[4] = "work" => /\ held[4] = Finished(4) /\ Busy(4) = 1 /\ Finished(4) = passed[4]
       /\ pc[5] = "work" => /\ held[5] = passed[5] /\ Busy(5) = 1
  <2>1. \A w \in 2..5 : pc[w] = "work" =>
          held[w] = Finished(w) /\ Busy(w) = 1 /\ Finished(w) = passed[w]
    BY <1>6, <1>8
  <2> QED
    BY <2>1, <1>6
<1>16. /\ pc[2] = "work" => Finished(2) < contexts
       /\ pc[3] = "work" => Finished(3) < Finished(2)
       /\ pc[4] = "work" => Finished(4) < Finished(3)
       /\ pc[5] = "work" => passed[5] < Finished(4)
  BY <1>9, <1>11, <1>12, <1>13, <1>15
<1> QED
  BY <1>12, <1>14, <1>15, <1>16 DEF Deduped, Featured, Matched, Written

\* The steps of the queues and of the main thread finish nothing.
LEMMA ControlFinishes ==
  ASSUME IInv, ControlStep, NEW v \in 2..4
  PROVE  Finished(v)' = Finished(v)
<1> DEFINE InHand(l) == l \in {"put", "putBlock", "putWait"}
           Count(l)  == IF InHand(l) THEN 1 ELSE 0
<1> SUFFICES passed'[v] + Count(pc'[v]) = passed[v] + Count(pc[v])
  BY DEF Finished
<1>a. /\ pc \in [Workers -> Locations] /\ passed \in [Workers -> Nat]
      /\ v \in Workers
  BY DEF IInv, TypeOK, Workers
<1>b. ASSUME NEW q \in Queues, NEW p \in [Workers -> Locations],
             pc' = NotifyAll(q, p)
      PROVE  InHand(pc'[v]) <=> InHand(p[v])
  BY <1>a, <1>b, NotifyAllMoves
<1> USE DEF Workers, Queues, chunk_worker, dedup_worker, feature_worker,
            match_worker, write_worker
<1>1. ASSUME NEW f \in Files, StartAddFile(f)
      PROVE  passed'[v] + Count(pc'[v]) = passed[v] + Count(pc[v])
  BY <1>1, <1>a DEF StartAddFile, LoopStart, IInv, IdleMeansEnded
<1>2. CASE JoinAddFile
  BY <1>2 DEF JoinAddFile
<1>3. CASE NoMoreChunks
  BY <1>3, <1>a DEF NoMoreChunks, Goto
<1>4. CASE WriterReturns
  BY <1>4, <1>a DEF WriterReturns, Goto
<1>5. ASSUME NEW w \in Workers, Put(w)
      PROVE  passed'[v] + Count(pc'[v]) = passed[v] + Count(pc[v])
  <2>1. /\ w \in Queues
        /\ [pc EXCEPT ![w] = LoopStart(w)] \in [Workers -> Locations]
    BY <1>5, <1>a DEF Put, LoopStart, Locations
  <2>2. InHand(pc'[v]) <=> InHand([pc EXCEPT ![w] = LoopStart(w)][v])
    BY <1>5, <1>b, <2>1 DEF Put
  <2>3. pc[w] = "put" /\ passed' = [passed EXCEPT ![w] = @ + 1]
    BY <1>5 DEF Put
  <2>4. CASE v = w
    <3>1. /\ passed'[v] = passed[v] + 1 /\ InHand(pc[v])
          /\ ~InHand([pc EXCEPT ![w] = LoopStart(w)][v])
      BY <1>a, <2>1, <2>3, <2>4 DEF LoopStart
    <3> QED
      BY <1>a, <2>2, <3>1
  <2>5. CASE v # w
    <3>1. /\ passed'[v] = passed[v]
          /\ [pc EXCEPT ![w] = LoopStart(w)][v] = pc[v]
      BY <1>a, <2>1, <2>3, <2>5
    <3> QED
      BY <2>2, <3>1
  <2> QED
    BY <2>4, <2>5
<1>6. ASSUME NEW w \in Workers, PutBlock(w) \/ GetBlock(w) \/ Sleep(w)
                                   \/ SpuriousWakeup(w) \/ TaskDone(w)
      PROVE  passed'[v] + Count(pc'[v]) = passed[v] + Count(pc[v])
  <2>1. passed' = passed
    BY <1>6 DEF PutBlock, GetBlock, Sleep, SpuriousWakeup, TaskDone
  <2>2. InHand(pc'[v]) <=> InHand(pc[v])
    BY <1>6, <1>a DEF PutBlock, GetBlock, Sleep, SpuriousWakeup, TaskDone, Goto
  <2> QED
    BY <2>1, <2>2
<1>7. ASSUME NEW w \in Workers, Get(w)
      PROVE  passed'[v] + Count(pc'[v]) = passed[v] + Count(pc[v])
  <2>1. /\ w - 1 \in Queues
        /\ [pc EXCEPT ![w] = "work"] \in [Workers -> Locations]
    BY <1>7, <1>a DEF Get, Locations
  <2>2. InHand(pc'[v]) <=> InHand([pc EXCEPT ![w] = "work"][v])
    BY <1>7, <1>b, <2>1 DEF Get
  <2> QED
    BY <1>7, <1>a, <2>2 DEF Get
<1>8. ASSUME NEW w \in Workers, GetNothing(w)
      PROVE  passed'[v] + Count(pc'[v]) = passed[v] + Count(pc[v])
  <2>1. /\ w - 1 \in Queues
        /\ [pc EXCEPT ![w] = "exit"] \in [Workers -> Locations]
    BY <1>8, <1>a DEF GetNothing, Locations
  <2>2. InHand(pc'[v]) <=> InHand([pc EXCEPT ![w] = "exit"][v])
    BY <1>8, <1>b, <2>1 DEF GetNothing
  <2> QED
    BY <1>8, <1>a, <2>2 DEF GetNothing
<1>9. ASSUME NEW w \in Workers, NotifyDone(w)
      PROVE  passed'[v] + Count(pc'[v]) = passed[v] + Count(pc[v])
  <2>1. /\ w \in Queues
        /\ [pc EXCEPT ![w] = "ended"] \in [Workers -> Locations]
    BY <1>9, <1>a DEF NotifyDone, Locations
  <2>2. InHand(pc'[v]) <=> InHand([pc EXCEPT ![w] = "ended"][v])
    BY <1>9, <1>b, <2>1 DEF NotifyDone
  <2> QED
    BY <1>9, <1>a, <2>2 DEF NotifyDone
<1> QED
  BY <1>1, <1>2, <1>3, <1>4, <1>5, <1>6, <1>7, <1>8, <1>9
  DEF ControlStep, QueueStep

\* ... and change none of the counts.
LEMMA ControlCounts ==
  ASSUME IInv, ControlStep
  PROVE  /\ Deduped' = Deduped /\ Featured' = Featured /\ Matched' = Matched
         /\ Written' = Written /\ contexts' = contexts
<1>1. contexts' = contexts
  BY DEF ControlStep, QueueStep, StartAddFile, JoinAddFile, NoMoreChunks,
     WriterReturns, Put, PutBlock, Get, GetNothing, GetBlock, Sleep, TaskDone,
     NotifyDone, SpuriousWakeup
<1>2. passed'[5] = passed[5]
  <2>1. passed \in [Workers -> Nat]
    BY DEF IInv, TypeOK
  <2>2. ASSUME NEW w \in Workers, Put(w) PROVE passed'[5] = passed[5]
    BY <2>1, <2>2 DEF Put, Queues, Workers
  <2> QED
    BY <2>2 DEF ControlStep, QueueStep, StartAddFile, JoinAddFile, NoMoreChunks,
       WriterReturns, PutBlock, Get, GetNothing, GetBlock, Sleep, TaskDone,
       NotifyDone, SpuriousWakeup
<1> QED
  BY <1>1, <1>2, ControlFinishes
  DEF Deduped, Featured, Matched, Written, dedup_worker, feature_worker,
      match_worker, write_worker

\* Cutting a chunk adds one to the chunks cut.
LEMMA CutCounts ==
  ASSUME IInv, CutChunk
  PROVE  /\ Deduped' = Deduped /\ Featured' = Featured /\ Matched' = Matched
         /\ Written' = Written /\ contexts' = contexts + 1
BY DEF IInv, TypeOK, CutChunk, Goto, Deduped, Featured, Matched, Written, Finished,
   Workers, chunk_worker, dedup_worker, feature_worker, match_worker, write_worker

\* The body of the loop of a worker adds one to the count of its stage.
LEMMA ProcessCounts ==
  ASSUME IInv, NEW w \in {dedup_worker, feature_worker, match_worker}, Process(w)
  PROVE  /\ Deduped' = Deduped + (IF w = dedup_worker THEN 1 ELSE 0)
         /\ Featured' = Featured + (IF w = feature_worker THEN 1 ELSE 0)
         /\ Matched' = Matched + (IF w = match_worker THEN 1 ELSE 0)
         /\ Written' = Written /\ contexts' = contexts
<1> USE DEF Workers, chunk_worker, dedup_worker, feature_worker, match_worker,
            write_worker
<1>1. /\ pc \in [Workers -> Locations] /\ passed \in [Workers -> Nat]
      /\ pc[w] = "work" /\ pc' = [pc EXCEPT ![w] = "put"]
      /\ passed' = passed /\ contexts' = contexts
  BY DEF IInv, TypeOK, Process, Goto
<1>2. ASSUME NEW v \in 2..4
      PROVE  Finished(v)' = Finished(v) + (IF v = w THEN 1 ELSE 0)
  <2>1. passed[v] \in Nat /\ v \in Workers /\ w \in Workers
    BY <1>1
  <2>2. CASE v = w
    BY <1>1, <2>1, <2>2 DEF Finished
  <2>3. CASE v # w
    <3>1. pc'[v] = pc[v]
      BY <1>1, <2>3
    <3> QED
      BY <1>1, <2>1, <2>3, <3>1 DEF Finished
  <2> QED
    BY <2>2, <2>3
<1>3. /\ Finished(2)' = Finished(2) + (IF 2 = w THEN 1 ELSE 0)
      /\ Finished(3)' = Finished(3) + (IF 3 = w THEN 1 ELSE 0)
      /\ Finished(4)' = Finished(4) + (IF 4 = w THEN 1 ELSE 0)
  BY <1>2
<1> QED
  BY <1>1, <1>3 DEF Deduped, Featured, Matched, Written

\* The write worker adds one to the chunks written.
LEMMA WriteCounts ==
  ASSUME IInv, WriteOut
  PROVE  /\ Deduped' = Deduped /\ Featured' = Featured /\ Matched' = Matched
         /\ Written' = Written + 1 /\ contexts' = contexts
BY DEF IInv, TypeOK, WriteOut, Goto, Deduped, Featured, Matched, Written, Finished,
   Workers, dedup_worker, feature_worker, match_worker, write_worker
-----------------------------------------------------------------------------
\* A prefix of the chunks cut is not changed by cutting one more.
LEMMA PrefixKept ==
  ASSUME NEW S, NEW s \in Seq(S), NEW x \in S, NEW m \in 0..Len(s)
  PROVE  /\ SubSeq(Append(s, x), 1, m) = SubSeq(s, 1, m)
         /\ SubSeq(Append(s, x), 1, m) \in Seq(S)
<1>1. Append(s, x) \in Seq(S) /\ Len(Append(s, x)) = Len(s) + 1
      /\ \A i \in 1..Len(s) : Append(s, x)[i] = s[i]
  OBVIOUS
<1>2. SubSeq(s, 1, m) \in Seq(S) /\ Len(SubSeq(s, 1, m)) = m
      /\ \A i \in 1..m : SubSeq(s, 1, m)[i] = s[i]
  OBVIOUS
<1>3. SubSeq(Append(s, x), 1, m) \in Seq(S) /\ Len(SubSeq(Append(s, x), 1, m)) = m
      /\ \A i \in 1..m : SubSeq(Append(s, x), 1, m)[i] = Append(s, x)[i]
  <2> DEFINE t == Append(s, x)
  <2>1. t \in Seq(S) /\ m \in 0..Len(t)
    BY <1>1
  <2> HIDE DEF t
  <2>2. SubSeq(t, 1, m) \in Seq(S) /\ Len(SubSeq(t, 1, m)) = m
      /\ \A i \in 1..m : SubSeq(t, 1, m)[i] = t[i]
    BY <2>1
  <2> QED
    BY <2>2 DEF t
<1> DEFINE u == SubSeq(Append(s, x), 1, m)
           v == SubSeq(s, 1, m)
<1>4. u \in Seq(S) /\ v \in Seq(S) /\ Len(u) = Len(v)
      /\ \A i \in 1..Len(u) : u[i] = v[i]
  BY <1>1, <1>2, <1>3
<1> HIDE DEF u, v
<1>5. u = v
  BY <1>4, SeqEqual
<1> QED
  BY <1>3, <1>5 DEF u, v

\* Taking one element more of a sequence appends it.
LEMMA PrefixGrows ==
  ASSUME NEW S, NEW s \in Seq(S), NEW m \in 0..Len(s) - 1
  PROVE  SubSeq(s, 1, m + 1) = Append(SubSeq(s, 1, m), s[m + 1])
<1>1. SubSeq(s, 1, m) \in Seq(S) /\ Len(SubSeq(s, 1, m)) = m
      /\ \A i \in 1..m : SubSeq(s, 1, m)[i] = s[i]
  OBVIOUS
<1>2. SubSeq(s, 1, m + 1) \in Seq(S) /\ Len(SubSeq(s, 1, m + 1)) = m + 1
      /\ \A i \in 1..m + 1 : SubSeq(s, 1, m + 1)[i] = s[i]
  OBVIOUS
<1>3. s[m + 1] \in S
  OBVIOUS
<1> DEFINE u == SubSeq(s, 1, m)
           v == SubSeq(s, 1, m + 1)
           t == Append(u, s[m + 1])
<1> HIDE DEF u, v
<1>4. t \in Seq(S) /\ Len(t) = m + 1 /\ t[m + 1] = s[m + 1]
      /\ \A i \in 1..m : t[i] = u[i]
  <2>1. u \in Seq(S) /\ Len(u) = m
    BY <1>1 DEF u
  <2> QED
    BY <1>3, <2>1
<1> HIDE DEF t
<1>5. v \in Seq(S) /\ Len(v) = Len(t) /\ \A i \in 1..Len(v) : v[i] = t[i]
  <2>1. v \in Seq(S) /\ Len(v) = m + 1 /\ \A i \in 1..m + 1 : v[i] = s[i]
    BY <1>2 DEF v
  <2>2. \A i \in 1..m : u[i] = s[i]
    BY <1>1 DEF u
  <2> QED
    BY <1>4, <2>1, <2>2
<1>6. v = t
  BY <1>4, <1>5, SeqEqual
<1> QED
  BY <1>6 DEF v, t, u
-----------------------------------------------------------------------------
\* What the invariant says of types, positions and counts.
LEMMA Known ==
  ASSUME DInv
  PROVE  /\ Written \in Nat /\ Matched \in Nat /\ Featured \in Nat
         /\ Deduped \in Nat /\ contexts \in Nat
         /\ Written <= Matched /\ Matched <= Featured
         /\ Featured <= Deduped /\ Deduped <= contexts
         /\ cut \in Seq(Contents) /\ Len(cut) = contexts
         /\ \A n \in 0..contexts - 1 : cut[n + 1] \in Contents
         /\ ctx \in [Written..contexts - 1 -> Contexts]
         /\ StoreOK(storage_) /\ Len(storage_.meta) = Written
<1>1. IInv /\ ContextsOK /\ RecordsOK
  BY DEF DInv
<1>2. cut \in Seq(Contents) /\ Len(cut) = contexts
  BY <1>1 DEF ContextsOK
<1>3. \A n \in 0..contexts - 1 : cut[n + 1] \in Contents
  BY <1>2
<1> QED
  BY <1>1, <1>2, <1>3, Pipelined DEF ContextsOK, RecordsOK

\* What the write worker does not touch stays as it is.
LEMMA RecordsKept ==
  ASSUME DInv, UNCHANGED <<storage_, stats, aborted>>, Written' = Written,
         cut' = cut \/ \E c \in Contents : cut' = Append(cut, c)
  PROVE  RecordsOK' /\ CountsOK' /\ CacheAlive'
<1>1. /\ Written \in Nat /\ contexts \in Nat /\ Written <= contexts
      /\ cut \in Seq(Contents) /\ Len(cut) = contexts
      /\ Len(storage_.meta) = Written
  BY Known
<1>2. \A n \in 0..Written - 1 : cut'[n + 1] = cut[n + 1]
  <2>1. CASE cut' = cut
    BY <2>1
  <2>2. ASSUME NEW c \in Contents, cut' = Append(cut, c)
        PROVE  \A n \in 0..Written - 1 : cut'[n + 1] = cut[n + 1]
    BY <1>1, <2>2
  <2> QED
    BY <2>1, <2>2
<1>3. SubSeq(cut', 1, Written') = SubSeq(cut, 1, Written)
  <2>1. Written \in 0..Len(cut)
    BY <1>1
  <2>2. ASSUME NEW c \in Contents, cut' = Append(cut, c)
        PROVE  SubSeq(cut', 1, Written') = SubSeq(cut, 1, Written)
    BY <1>1, <2>1, <2>2, PrefixKept
  <2> QED
    BY <2>2
<1>4. RecordsOK'
  <2>1. RecordsOK
    BY DEF DInv
  <2>2. \A n \in Owning(storage_) : n \in 0..Written - 1
    BY <1>1 DEF Owning
  <2> QED
    BY <1>2, <2>1, <2>2 DEF RecordsOK, Faithful
<1>5. CountsOK'
  BY <1>3 DEF DInv, CountsOK, StatsExact, Written
<1>6. CacheAlive'
  BY DEF DInv, CacheAlive, Fits
<1> QED
  BY <1>4, <1>5, <1>6

\* A step that leaves the data alone and finishes no dedup, feature or write.
LEMMA DataKept ==
  ASSUME DInv, UNCHANGED dataVars, Deduped' = Deduped, Featured' = Featured,
         Written' = Written, contexts' = contexts
  PROVE  /\ ContextsOK' /\ RecordsOK' /\ CountsOK' /\ CacheAlive'
         /\ kinds' = kinds /\ bases' = bases
<1>1. RecordsOK' /\ CountsOK' /\ CacheAlive'
  BY RecordsKept DEF dataVars
<1>2. ContextsOK'
  BY DEF DInv, ContextsOK, dataVars
<1>3. kinds' = kinds /\ bases' = bases
  BY DEF kinds, bases, dataVars
<1> QED
  BY <1>1, <1>2, <1>3

\* The queues and the main thread.
LEMMA ControlData ==
  ASSUME DInv, IInv', ControlStep
  PROVE  DInv'
<1>1. /\ Deduped' = Deduped /\ Featured' = Featured /\ Matched' = Matched
      /\ Written' = Written /\ contexts' = contexts
  BY ControlCounts DEF DInv
<1>2. UNCHANGED dataVars
  BY DEF ControlStep
<1>3. /\ ContextsOK' /\ RecordsOK' /\ CountsOK' /\ CacheAlive'
      /\ kinds' = kinds /\ bases' = bases
  BY <1>1, <1>2, DataKept
<1>4. ClassesOK'
  BY <1>1, <1>2, <1>3 DEF DInv, ClassesOK, dataVars
<1> QED
  BY <1>3, <1>4 DEF DInv

\* A duplicate goes past the matching.
LEMMA MatchDuplicateData ==
  ASSUME DInv, IInv', MatchDuplicate
  PROVE  DInv'
<1> DEFINE id == held[match_worker]
<1>1. Process(match_worker) /\ UNCHANGED dataVars /\ ctx[id].type = DuplicateChunk
      /\ pc[match_worker] = "work"
  BY DEF MatchDuplicate, Process
<1>2. /\ Deduped' = Deduped /\ Featured' = Featured /\ Matched' = Matched + 1
      /\ Written' = Written /\ contexts' = contexts
  <2>1. match_worker \in {dedup_worker, feature_worker, match_worker}
        /\ match_worker # dedup_worker /\ match_worker # feature_worker
    BY DEF dedup_worker, feature_worker, match_worker
  <2>2. /\ Deduped \in Nat /\ Featured \in Nat
    BY Known
  <2>3. /\ Deduped' = Deduped + (IF match_worker = dedup_worker THEN 1 ELSE 0)
        /\ Featured' = Featured + (IF match_worker = feature_worker THEN 1 ELSE 0)
        /\ Matched' = Matched + (IF match_worker = match_worker THEN 1 ELSE 0)
        /\ Written' = Written /\ contexts' = contexts
    BY <1>1, <2>1, ProcessCounts DEF DInv
  <2> QED
    BY <2>1, <2>2, <2>3
<1>3. /\ ContextsOK' /\ RecordsOK' /\ CountsOK' /\ CacheAlive'
      /\ kinds' = kinds /\ bases' = bases
  BY <1>1, <1>2, DataKept
<1>4. id = Matched /\ Matched < Featured
  BY <1>1, Pipelined DEF DInv
<1>5. kinds[Matched] = DuplicateChunk
  <2>1. /\ Matched \in 0..contexts - 1 /\ ~(Matched < Written)
    BY <1>4, Known
  <2> QED
    BY <1>1, <1>4, <2>1 DEF kinds
<1>6. MatchedTo(Similar, cut, kinds, bases, Matched + 1)
  <2>1. MatchedTo(Similar, cut, kinds, bases, Matched) /\ Matched \in Nat
    BY Known DEF DInv, ClassesOK
  <2>2. /\ kinds[Matched] \in {BaseChunk, DeltaChunk, DuplicateChunk}
        /\ kinds[Matched] # DeltaChunk /\ kinds[Matched] # BaseChunk
    BY <1>5 DEF BaseChunk, DeltaChunk, DuplicateChunk
  <2> QED
    BY <2>1, <2>2, MatchedNext
<1>7. IndexFor(cut, kinds, index_, Matched + 1)
  <2>1. IndexFor(cut, kinds, index_, Matched) /\ Matched \in Nat
    BY Known DEF DInv, ClassesOK
  <2>2. kinds[Matched] # BaseChunk
    BY <1>5 DEF BaseChunk, DuplicateChunk
  <2> QED
    BY <2>1, <2>2, IndexNext
<1>8. ClassesOK'
  BY <1>1, <1>2, <1>3, <1>6, <1>7 DEF DInv, ClassesOK, dataVars
<1> QED
  BY <1>3, <1>8 DEF DInv
-----------------------------------------------------------------------------
\* A step that classifies nothing keeps the classification.
LEMMA ClassesKept ==
  ASSUME DInv, Deduped' = Deduped, Matched' = Matched, UNCHANGED <<mp_, index_>>,
         \A n \in 0..contexts - 1 :
           cut'[n + 1] = cut[n + 1] /\ kinds'[n] = kinds[n] /\ bases'[n] = bases[n]
  PROVE  ClassesOK'
<1>1. /\ Matched \in Nat /\ Deduped \in Nat
      /\ \A n \in 0..Matched - 1 : n \in 0..contexts - 1
      /\ \A n \in 0..Deduped - 1 : n \in 0..contexts - 1
  BY Known
<1>2. /\ DedupedTo(cut, kinds, bases, Deduped) /\ MapFor(cut, mp_, Deduped)
      /\ MatchedTo(Similar, cut, kinds, bases, Matched)
      /\ IndexFor(cut, kinds, index_, Matched)
  BY DEF DInv, ClassesOK
<1>3. \A n \in 0..Deduped - 1 :
        /\ cut'[n + 1] = cut[n + 1] /\ bases'[n] = bases[n]
        /\ kinds'[n] = DuplicateChunk <=> kinds[n] = DuplicateChunk
  BY <1>1
<1>4. \A n \in 0..Matched - 1 :
        /\ cut'[n + 1] = cut[n + 1] /\ kinds'[n] = kinds[n] /\ bases'[n] = bases[n]
  BY <1>1
<1>5. DedupedTo(cut', kinds', bases', Deduped)
  BY <1>1, <1>2, <1>3, DedupedKept
<1>6. MapFor(cut', mp_, Deduped)
  BY <1>1, <1>2, <1>3, MapKept
<1>7. MatchedTo(Similar, cut', kinds', bases', Matched)
  BY <1>1, <1>2, <1>4, MatchedKept
<1>8. IndexFor(cut', kinds', index_, Matched)
  BY <1>1, <1>2, <1>4, IndexKept
<1> QED
  BY <1>5, <1>6, <1>7, <1>8 DEF ClassesOK

\* The chunker.
LEMMA CutData ==
  ASSUME DInv, IInv', FewChunks', ChunkingWorker
  PROVE  DInv'
<1> DEFINE x == Head(pending)
           r == [chunk |-> x, id |-> nextId, type |-> 0, base |-> 0,
                 feature |-> NoFeature]
<1>1. /\ CutChunk /\ ctx' = Set(ctx, contexts, r) /\ cut' = Append(cut, x)
      /\ UNCHANGED <<mp_, index_, storage_, stats, aborted>>
  BY DEF ChunkingWorker
<1>2. x \in Contents
  BY <1>1 DEF CutChunk, DInv, IInv, TypeOK
<1>0. nextId = contexts /\ contexts \in Nat
  <2>1. contexts \in Nat /\ IdSpace \in Nat \ {0} /\ nextId = contexts % IdSpace
    BY PipelineAssumption DEF DInv, IInv, TypeOK, IdsWrap
  <2>2. contexts + 1 <= IdSpace
    BY <1>1 DEF CutChunk, FewChunks
  <2>3. contexts \in 0..IdSpace - 1
    BY <2>1, <2>2
  <2> QED
    BY <2>1, <2>3, SmallRemainder
<1>3. r \in Contexts /\ r.chunk = x /\ r.id = contexts /\ r.type # DuplicateChunk
  BY <1>0, <1>2 DEF Contexts, DuplicateChunk
<1> HIDE DEF x, r
<1>4. /\ Deduped' = Deduped /\ Featured' = Featured /\ Matched' = Matched
      /\ Written' = Written /\ contexts' = contexts + 1
  BY <1>1, CutCounts DEF DInv
<1>5. /\ Written \in Nat /\ Featured \in Nat /\ Deduped \in Nat /\ contexts \in Nat
      /\ Written <= contexts /\ Featured <= contexts /\ Deduped <= contexts
      /\ cut \in Seq(Contents) /\ Len(cut) = contexts
      /\ ctx \in [Written..contexts - 1 -> Contexts]
  BY Known
<1>6. /\ cut' \in Seq(Contents) /\ Len(cut') = contexts + 1 /\ cut'[contexts + 1] = x
      /\ \A n \in 0..contexts - 1 : cut'[n + 1] = cut[n + 1]
  BY <1>1, <1>2, <1>5
<1>7. /\ ctx' \in [Written..contexts -> Contexts] /\ ctx'[contexts] = r
      /\ \A n \in Written..contexts - 1 : ctx'[n] = ctx[n]
  <2>1. /\ Written..contexts = (Written..contexts - 1) \cup {contexts}
        /\ contexts \notin Written..contexts - 1
    BY <1>5
  <2> QED
    BY <1>1, <1>3, <1>5, <2>1 DEF Set
<1>8. ContextsOK'
  <2>1. \A n \in Written..contexts :
          /\ ctx'[n].chunk = cut'[n + 1] /\ ctx'[n].id = n
          /\ n >= Deduped => ctx'[n].type # DuplicateChunk
          /\ n < Featured /\ ctx'[n].type # DuplicateChunk =>
               ctx'[n].feature = ctx'[n].chunk
    <3> TAKE n \in Written..contexts
    <3>1. CASE n = contexts
      BY <1>3, <1>5, <1>6, <1>7, <3>1
    <3>2. CASE n # contexts
      <4>1. n \in Written..contexts - 1 /\ n \in 0..contexts - 1
        BY <1>5, <3>2
      <4>2. /\ ctx[n].chunk = cut[n + 1] /\ ctx[n].id = n
            /\ n >= Deduped => ctx[n].type # DuplicateChunk
            /\ n < Featured /\ ctx[n].type # DuplicateChunk =>
                 ctx[n].feature = ctx[n].chunk
        BY <4>1 DEF DInv, ContextsOK
      <4> QED
        BY <1>6, <1>7, <4>1, <4>2
    <3> QED
      BY <3>1, <3>2
  <2>2. (contexts + 1) - 1 = contexts
    BY <1>5
  <2> QED
    BY <1>4, <1>6, <1>7, <2>1, <2>2 DEF ContextsOK
<1>9. \A n \in 0..contexts - 1 : kinds'[n] = kinds[n] /\ bases'[n] = bases[n]
  <2> TAKE n \in 0..contexts - 1
  <2>1. n \in 0..contexts' - 1 /\ (~(n < Written) => n \in Written..contexts - 1)
    BY <1>4, <1>5
  <2>2. ~(n < Written) => ctx'[n] = ctx[n]
    BY <1>7, <2>1
  <2> QED
    BY <1>1, <1>4, <2>1, <2>2 DEF kinds, bases
<1>10. ClassesOK'
  BY <1>1, <1>4, <1>6, <1>9, ClassesKept
<1>11. RecordsOK' /\ CountsOK' /\ CacheAlive'
  BY <1>1, <1>2, <1>4, RecordsKept
<1> QED
  BY <1>8, <1>10, <1>11 DEF DInv

\* The feature worker.
LEMMA FeatureData ==
  ASSUME DInv, IInv', FeatureCalcWorker
  PROVE  DInv'
<1> DEFINE id == held[feature_worker]
<1>1. /\ Process(feature_worker) /\ pc[feature_worker] = "work"
      /\ ctx' = IF ctx[id].type = DuplicateChunk THEN ctx
                ELSE [ctx EXCEPT ![id].feature = ctx[id].chunk]
      /\ UNCHANGED <<mp_, index_, storage_, stats, aborted, cut>>
  BY DEF FeatureCalcWorker, Process
<1>2. /\ Deduped' = Deduped /\ Featured' = Featured + 1 /\ Matched' = Matched
      /\ Written' = Written /\ contexts' = contexts
  <2>1. feature_worker \in {dedup_worker, feature_worker, match_worker}
        /\ feature_worker # dedup_worker /\ feature_worker # match_worker
    BY DEF dedup_worker, feature_worker, match_worker
  <2>2. /\ Deduped \in Nat /\ Featured \in Nat /\ Matched \in Nat
    BY Known
  <2>3. /\ Deduped' = Deduped + (IF feature_worker = dedup_worker THEN 1 ELSE 0)
        /\ Featured' = Featured + (IF feature_worker = feature_worker THEN 1 ELSE 0)
        /\ Matched' = Matched + (IF feature_worker = match_worker THEN 1 ELSE 0)
        /\ Written' = Written /\ contexts' = contexts
    BY <1>1, <2>1, ProcessCounts DEF DInv
  <2> QED
    BY <2>1, <2>2, <2>3
<1>3. /\ Written \in Nat /\ Featured \in Nat /\ Deduped \in Nat /\ contexts \in Nat
      /\ Written <= Featured /\ Featured <= Deduped /\ Deduped <= contexts
      /\ ctx \in [Written..contexts - 1 -> Contexts]
  BY Known
<1>4. id = Featured /\ Featured < Deduped
  BY <1>1, Pipelined DEF DInv
<1> HIDE DEF id
<1>5. id \in Written..contexts - 1
  BY <1>3, <1>4
<1>6. /\ ctx' \in [Written..contexts - 1 -> Contexts]
      /\ \A n \in Written..contexts - 1 :
           /\ n # id => ctx'[n] = ctx[n]
           /\ ctx'[n].chunk = ctx[n].chunk /\ ctx'[n].id = ctx[n].id
           /\ ctx'[n].type = ctx[n].type /\ ctx'[n].base = ctx[n].base
      /\ ctx[id].type # DuplicateChunk => ctx'[id].feature = ctx[id].chunk
  <2>1. CASE ctx[id].type = DuplicateChunk
    BY <1>1, <1>3, <2>1
  <2>2. CASE ctx[id].type # DuplicateChunk
    <3>1. ctx' = [ctx EXCEPT ![id].feature = ctx[id].chunk]
      BY <1>1, <2>2
    <3>2. ctx[id] \in Contexts /\ ctx[id].chunk \in Contents
      BY <1>3, <1>5 DEF Contexts
    <3>3. [ctx[id] EXCEPT !.feature = ctx[id].chunk] \in Contexts
      BY <3>2 DEF Contexts
    <3>4. ctx' = [ctx EXCEPT ![id] = [ctx[id] EXCEPT !.feature = ctx[id].chunk]]
      BY <3>1
    <3>5. ctx' \in [Written..contexts - 1 -> Contexts]
      BY <1>3, <3>3, <3>4
    <3>6. /\ ctx'[id] = [ctx[id] EXCEPT !.feature = ctx[id].chunk]
          /\ \A n \in Written..contexts - 1 : n # id => ctx'[n] = ctx[n]
      BY <1>3, <1>5, <3>4
    <3>7. /\ ctx'[id].chunk = ctx[id].chunk /\ ctx'[id].id = ctx[id].id
          /\ ctx'[id].type = ctx[id].type
          /\ ctx'[id].base = ctx[id].base /\ ctx'[id].feature = ctx[id].chunk
      BY <3>2, <3>6 DEF Contexts
    <3> QED
      BY <3>5, <3>6, <3>7
  <2> QED
    BY <2>1, <2>2
<1>7. ContextsOK'
  <2>1. \A n \in Written..contexts - 1 :
          /\ ctx'[n].chunk = cut[n + 1] /\ ctx'[n].id = n
          /\ n >= Deduped => ctx'[n].type # DuplicateChunk
          /\ n < Featured + 1 /\ ctx'[n].type # DuplicateChunk =>
               ctx'[n].feature = ctx'[n].chunk
    <3> TAKE n \in Written..contexts - 1
    <3>1. /\ ctx[n].chunk = cut[n + 1] /\ ctx[n].id = n
          /\ n >= Deduped => ctx[n].type # DuplicateChunk
          /\ n < Featured /\ ctx[n].type # DuplicateChunk =>
               ctx[n].feature = ctx[n].chunk
      BY DEF DInv, ContextsOK
    <3>2. n < Featured + 1 => n < Featured \/ n = id
      BY <1>3, <1>4
    <3> QED
      BY <1>4, <1>6, <3>1, <3>2
  <2>2. cut \in Seq(Contents) /\ Len(cut) = contexts
    BY Known
  <2> QED
    BY <1>1, <1>2, <1>6, <2>1, <2>2 DEF ContextsOK
<1>8. \A n \in 0..contexts - 1 : kinds'[n] = kinds[n] /\ bases'[n] = bases[n]
  <2> TAKE n \in 0..contexts - 1
  <2>1. ~(n < Written) => n \in Written..contexts - 1
    BY <1>3
  <2>2. ~(n < Written) => ctx'[n].type = ctx[n].type /\ ctx'[n].base = ctx[n].base
    BY <1>6, <2>1
  <2> QED
    BY <1>1, <1>2, <2>1, <2>2 DEF kinds, bases
<1>9. ClassesOK'
  BY <1>1, <1>2, <1>8, ClassesKept
<1>10. RecordsOK' /\ CountsOK' /\ CacheAlive'
  BY <1>1, <1>2, RecordsKept
<1> QED
  BY <1>7, <1>9, <1>10 DEF DInv

\* One more chunk is looked up in the dedup map.
LEMMA DedupedNext ==
  ASSUME NEW s, NEW k, NEW b, NEW m, NEW d \in Nat,
         DedupedTo(s, k, b, d), MapFor(s, m, d),
         s[d + 1] \in DOMAIN m => k[d] = DuplicateChunk /\ b[d] = m[s[d + 1]],
         s[d + 1] \notin DOMAIN m => k[d] # DuplicateChunk
  PROVE  /\ DedupedTo(s, k, b, d + 1)
         /\ MapFor(s, ProcessChunk(m, s[d + 1], d), d + 1)
<1> DEFINE x  == s[d + 1]
           m2 == ProcessChunk(m, x, d)
<1>1. \A n \in 0..(d + 1) - 1 : n \in 0..d - 1 \/ n = d
  OBVIOUS
<1>2. /\ \A n \in 0..d - 1 : s[n + 1] \in DOMAIN m
      /\ \A c \in DOMAIN m : m[c] \in 0..d - 1 /\ s[m[c] + 1] = c /\ FirstOfIts(s, m[c])
  BY DEF MapFor
<1>3. x \in DOMAIN m => ~FirstOfIts(s, d)
  BY <1>2 DEF FirstOfIts
<1>4. x \notin DOMAIN m => FirstOfIts(s, d)
  BY <1>2 DEF FirstOfIts
<1>5. DedupedTo(s, k, b, d + 1)
  <2>1. /\ k[d] = DuplicateChunk <=> ~FirstOfIts(s, d)
        /\ k[d] = DuplicateChunk =>
             b[d] \in 0..d - 1 /\ s[b[d] + 1] = s[d + 1] /\ FirstOfIts(s, b[d])
    BY <1>2, <1>3, <1>4
  <2> QED
    BY <1>1, <2>1 DEF DedupedTo
<1>6. MapFor(s, m2, d + 1)
  <2>1. CASE x \in DOMAIN m
    <3>1. m2 = m
      BY <2>1 DEF ProcessChunk
    <3>2. /\ \A n \in 0..(d + 1) - 1 : s[n + 1] \in DOMAIN m
          /\ \A c \in DOMAIN m : m[c] \in 0..(d + 1) - 1
      BY <1>1, <1>2, <2>1
    <3> QED
      BY <1>2, <3>1, <3>2 DEF MapFor
  <2>2. CASE x \notin DOMAIN m
    <3>1. /\ DOMAIN m2 = DOMAIN m \cup {x} /\ m2[x] = d
          /\ \A c \in DOMAIN m : m2[c] = m[c]
      BY <2>2 DEF ProcessChunk, Set
    <3> HIDE DEF m2
    <3>2. \A n \in 0..(d + 1) - 1 : s[n + 1] \in DOMAIN m2
      BY <1>1, <1>2, <3>1
    <3>3. \A c \in DOMAIN m2 : /\ m2[c] \in 0..(d + 1) - 1
                               /\ s[m2[c] + 1] = c /\ FirstOfIts(s, m2[c])
      BY <1>2, <1>4, <2>2, <3>1
    <3> QED
      BY <3>2, <3>3 DEF MapFor
  <2> QED
    BY <2>1, <2>2
<1> QED
  BY <1>5, <1>6

\* The dedup worker.
LEMMA DedupData ==
  ASSUME DInv, IInv', DedupWorker
  PROVE  DInv'
<1> DEFINE id == held[dedup_worker]
           x  == ctx[id].chunk
           base == DedupBaseId(mp_, x, id)
<1>0. Process(dedup_worker) /\ pc[dedup_worker] = "work" /\ ctx[id].id = id
  <2>1. Process(dedup_worker) /\ pc[dedup_worker] = "work"
    BY DEF DedupWorker, Process
  <2>2. /\ id = Deduped /\ Deduped < contexts /\ Written <= Deduped
        /\ Written \in Nat /\ Deduped \in Nat /\ contexts \in Nat
    BY <2>1, Pipelined DEF DInv
  <2>3. id \in Written..contexts - 1
    BY <2>2
  <2>4. ctx[id].id = id
    BY <2>3 DEF DInv, ContextsOK
  <2> QED
    BY <2>1, <2>4
<1>1. /\ Process(dedup_worker) /\ pc[dedup_worker] = "work"
      /\ mp_' = ProcessChunk(mp_, x, id)
      /\ ctx' = IF base = id THEN ctx
                ELSE [ctx EXCEPT ![id].type = DuplicateChunk, ![id].base = base]
      /\ UNCHANGED <<index_, storage_, stats, aborted, cut>>
  BY <1>0 DEF DedupWorker
<1>2. /\ Deduped' = Deduped + 1 /\ Featured' = Featured /\ Matched' = Matched
      /\ Written' = Written /\ contexts' = contexts
  <2>1. dedup_worker \in {dedup_worker, feature_worker, match_worker}
        /\ dedup_worker # feature_worker /\ dedup_worker # match_worker
    BY DEF dedup_worker, feature_worker, match_worker
  <2>2. /\ Deduped \in Nat /\ Featured \in Nat /\ Matched \in Nat
    BY Known
  <2>3. /\ Deduped' = Deduped + (IF dedup_worker = dedup_worker THEN 1 ELSE 0)
        /\ Featured' = Featured + (IF dedup_worker = feature_worker THEN 1 ELSE 0)
        /\ Matched' = Matched + (IF dedup_worker = match_worker THEN 1 ELSE 0)
        /\ Written' = Written /\ contexts' = contexts
    BY <1>1, <2>1, ProcessCounts DEF DInv
  <2> QED
    BY <2>1, <2>2, <2>3
<1>3. /\ Written \in Nat /\ Featured \in Nat /\ Deduped \in Nat /\ contexts \in Nat
      /\ Matched \in Nat /\ Written <= Matched /\ Matched <= Featured
      /\ Featured <= Deduped /\ Deduped <= contexts
      /\ ctx \in [Written..contexts - 1 -> Contexts]
      /\ \A n \in 0..contexts - 1 : cut[n + 1] \in Contents
  BY Known
<1>4. id = Deduped /\ Deduped < contexts
  BY <1>1, Pipelined DEF DInv
<1>5. /\ DedupedTo(cut, kinds, bases, Deduped) /\ MapFor(cut, mp_, Deduped)
      /\ MatchedTo(Similar, cut, kinds, bases, Matched)
      /\ IndexFor(cut, kinds, index_, Matched)
  BY DEF DInv, ClassesOK
<1> HIDE DEF id
<1>6. /\ id \in Written..contexts - 1 /\ ctx[id].type # DuplicateChunk
      /\ x = cut[id + 1]
  <2>1. id \in Written..contexts - 1
    BY <1>3, <1>4
  <2>2. id >= Deduped
    BY <1>3, <1>4
  <2> QED
    BY <2>1, <2>2 DEF DInv, ContextsOK
<1>7. /\ x \in DOMAIN mp_ => base = mp_[x] /\ base \in Nat /\ base # id
      /\ x \notin DOMAIN mp_ => base = id
  <2>1. x \in DOMAIN mp_ => mp_[x] \in 0..Deduped - 1
    BY <1>5 DEF MapFor
  <2> QED
    BY <1>3, <1>4, <2>1 DEF DedupBaseId
<1> HIDE DEF x, base
<1>8. /\ ctx' \in [Written..contexts - 1 -> Contexts]
      /\ \A n \in Written..contexts - 1 :
           n # id => ctx'[n] = ctx[n]
      /\ ctx'[id].chunk = ctx[id].chunk /\ ctx'[id].id = ctx[id].id
      /\ x \in DOMAIN mp_ => ctx'[id].type = DuplicateChunk /\ ctx'[id].base = mp_[x]
      /\ x \notin DOMAIN mp_ => ctx'[id].type = ctx[id].type
  <2>1. CASE x \notin DOMAIN mp_
    BY <1>1, <1>3, <1>7, <2>1
  <2>2. CASE x \in DOMAIN mp_
    <3> DEFINE c == [ctx[id] EXCEPT !.type = DuplicateChunk, !.base = base]
    <3>1. ctx' = [ctx EXCEPT ![id] = c]
      BY <1>1, <1>7, <2>2
    <3>2. ctx[id] \in Contexts /\ base \in Nat
      BY <1>3, <1>6, <1>7, <2>2
    <3>3. c \in Contexts /\ c.chunk = ctx[id].chunk /\ c.id = ctx[id].id
          /\ c.type = DuplicateChunk /\ c.base = base
      <4>1. DuplicateChunk \in 0..3
        BY DEF DuplicateChunk
      <4> QED
        BY <3>2, <4>1 DEF Contexts
    <3> HIDE DEF c
    <3>4. /\ ctx' \in [Written..contexts - 1 -> Contexts] /\ ctx'[id] = c
          /\ \A n \in Written..contexts - 1 : n # id => ctx'[n] = ctx[n]
      BY <1>3, <1>6, <3>1, <3>3
    <3> QED
      BY <1>7, <2>2, <3>3, <3>4
  <2> QED
    BY <2>1, <2>2
<1>9. ContextsOK'
  <2>1. \A n \in Written..contexts - 1 :
          /\ ctx'[n].chunk = cut[n + 1] /\ ctx'[n].id = n
          /\ n >= Deduped + 1 => ctx'[n].type # DuplicateChunk
          /\ n < Featured /\ ctx'[n].type # DuplicateChunk =>
               ctx'[n].feature = ctx'[n].chunk
    <3> TAKE n \in Written..contexts - 1
    <3>1. /\ ctx[n].chunk = cut[n + 1] /\ ctx[n].id = n
          /\ n >= Deduped => ctx[n].type # DuplicateChunk
          /\ n < Featured /\ ctx[n].type # DuplicateChunk =>
               ctx[n].feature = ctx[n].chunk
      BY DEF DInv, ContextsOK
    <3>2. (n >= Deduped + 1 => n >= Deduped /\ n # id) /\ (n < Featured => n # id)
      BY <1>3, <1>4
    <3> QED
      BY <1>8, <3>1, <3>2
  <2>2. cut \in Seq(Contents) /\ Len(cut) = contexts
    BY Known
  <2>3. cut' = cut
    BY <1>1
  <2>4. ctx' \in [Written..contexts - 1 -> Contexts]
    BY <1>8
  <2> QED
    BY <1>2, <2>1, <2>2, <2>3, <2>4 DEF ContextsOK
<1>10. \A n \in 0..contexts - 1 :
         n # id => kinds'[n] = kinds[n] /\ bases'[n] = bases[n]
  <2> TAKE n \in 0..contexts - 1
  <2>1. ~(n < Written) => n \in Written..contexts - 1
    BY <1>3
  <2>2. ~(n < Written) /\ n # id => ctx'[n] = ctx[n]
    BY <1>8, <2>1
  <2> QED
    BY <1>1, <1>2, <2>1, <2>2 DEF kinds, bases
<1>11. /\ x \in DOMAIN mp_ => kinds'[id] = DuplicateChunk /\ bases'[id] = mp_[x]
       /\ x \notin DOMAIN mp_ => kinds'[id] # DuplicateChunk
  <2>1. id \in 0..contexts' - 1 /\ ~(id < Written')
    BY <1>2, <1>3, <1>6
  <2>2. /\ kinds'[id] = ctx'[id].type
        /\ bases'[id] = IF ctx'[id].type = BaseChunk THEN id ELSE ctx'[id].base
    BY <2>1 DEF kinds, bases
  <2> QED
    BY <1>6, <1>8, <2>2 DEF BaseChunk, DuplicateChunk
<1>12. /\ \A n \in 0..Deduped - 1 : n \in 0..contexts - 1 /\ n # id
       /\ \A n \in 0..Matched - 1 : n \in 0..contexts - 1 /\ n # id
  BY <1>3, <1>4
<1>13. MatchedTo(Similar, cut, kinds', bases', Matched)
  <2>1. \A n \in 0..Matched - 1 :
          cut[n + 1] = cut[n + 1] /\ kinds'[n] = kinds[n] /\ bases'[n] = bases[n]
    BY <1>10, <1>12
  <2> QED
    BY <1>3, <1>5, <2>1, MatchedKept
<1>14. IndexFor(cut, kinds', index_, Matched)
  <2>1. \A n \in 0..Matched - 1 : cut[n + 1] = cut[n + 1] /\ kinds'[n] = kinds[n]
    BY <1>10, <1>12
  <2> QED
    BY <1>3, <1>5, <2>1, IndexKept
<1>15. DedupedTo(cut, kinds', bases', Deduped)
  <2>1. \A n \in 0..Deduped - 1 :
          /\ cut[n + 1] = cut[n + 1]
          /\ kinds'[n] = DuplicateChunk <=> kinds[n] = DuplicateChunk
          /\ kinds[n] = DuplicateChunk => bases'[n] = bases[n]
    BY <1>10, <1>12
  <2> QED
    BY <1>3, <1>5, <2>1, DedupedKept
<1>16. /\ DedupedTo(cut, kinds', bases', Deduped + 1)
       /\ MapFor(cut, ProcessChunk(mp_, cut[Deduped + 1], Deduped), Deduped + 1)
  <2>1. /\ cut[Deduped + 1] \in DOMAIN mp_ =>
             /\ kinds'[Deduped] = DuplicateChunk
             /\ bases'[Deduped] = mp_[cut[Deduped + 1]]
        /\ cut[Deduped + 1] \notin DOMAIN mp_ => kinds'[Deduped] # DuplicateChunk
    BY <1>4, <1>6, <1>11
  <2> QED
    BY <1>3, <1>5, <1>15, <2>1, DedupedNext
<1>17. mp_' = ProcessChunk(mp_, cut[Deduped + 1], Deduped)
  BY <1>1, <1>4, <1>6
<1>18. ClassesOK'
  BY <1>1, <1>2, <1>13, <1>14, <1>16, <1>17 DEF ClassesOK
<1>19. RecordsOK' /\ CountsOK' /\ CacheAlive'
  BY <1>1, <1>2, RecordsKept
<1> QED
  BY <1>9, <1>18, <1>19 DEF DInv

\* GetBaseChunkID finds the similar base chunks among the chunks matched.
LEMMA Found ==
  ASSUME NEW s, NEW k, NEW j \in Nat, IndexFor(s, k, index_, j), NEW feature
  PROVE  BaseChunkIDs(feature)
           = {n \in 0..j - 1 : k[n] = BaseChunk /\ <<feature, s[n + 1]>> \in Similar}
<1>1. /\ \A x \in index_ : /\ x.id \in 0..j - 1 /\ k[x.id] = BaseChunk
                            /\ x.feature = s[x.id + 1]
      /\ \A n \in 0..j - 1 :
           k[n] = BaseChunk => \E x \in index_ : x.id = n /\ x.feature = s[n + 1]
  BY IndexEntries
<1>2. \A n : n \in BaseChunkIDs(feature) <=>
             \E x \in index_ : x.id = n /\ <<feature, x.feature>> \in Similar
  BY DEF BaseChunkIDs
<1>3. \A n : n \in BaseChunkIDs(feature) <=>
             n \in 0..j - 1 /\ k[n] = BaseChunk /\ <<feature, s[n + 1]>> \in Similar
  <2> TAKE n
  <2>1. ASSUME n \in BaseChunkIDs(feature)
        PROVE  n \in 0..j - 1 /\ k[n] = BaseChunk /\ <<feature, s[n + 1]>> \in Similar
    <3>1. PICK x \in index_ : x.id = n /\ <<feature, x.feature>> \in Similar
      BY <1>2, <2>1
    <3>2. x.id \in 0..j - 1 /\ k[x.id] = BaseChunk /\ x.feature = s[x.id + 1]
      BY <1>1
    <3> QED
      BY <3>1, <3>2
  <2>2. ASSUME n \in 0..j - 1, k[n] = BaseChunk, <<feature, s[n + 1]>> \in Similar
        PROVE  n \in BaseChunkIDs(feature)
    <3>1. PICK x \in index_ : x.id = n /\ x.feature = s[n + 1]
      BY <1>1, <2>2
    <3> QED
      BY <1>2, <2>2, <3>1
  <2> QED
    BY <2>1, <2>2
<1> QED
  BY <1>3

\* The match worker classifies the chunk it holds, which has number id, and c is
\* its context afterwards: a base chunk is entered in the index, a delta chunk
\* has a base from there.
Classifies(id, c) ==
  /\ id = held[match_worker] /\ ctx[id].type # DuplicateChunk
  /\ c \in Contexts /\ ctx' = [ctx EXCEPT ![id] = c]
  /\ c.chunk = ctx[id].chunk /\ c.id = ctx[id].id /\ c.feature = ctx[id].feature
  /\ \/ /\ c.type = BaseChunk
        /\ BaseChunkIDs(ctx[id].feature) = {}
        /\ index_' = index_ \cup {[feature |-> ctx[id].feature, id |-> id]}
     \/ /\ c.type = DeltaChunk
        /\ c.base \in BaseChunkIDs(ctx[id].feature)
        /\ index_' = index_
  /\ UNCHANGED <<mp_, storage_, stats, aborted, cut>>

\* The next chunk to match is no duplicate: it is classified by what the index
\* has for it, and entered in the index if it becomes a base chunk.
LEMMA ClassifyData ==
  ASSUME DInv, IInv', Process(match_worker), NEW id, NEW c, Classifies(id, c)
  PROVE  DInv'
<1> /\ id = held[match_worker] /\ ctx[id].type # DuplicateChunk
    /\ c \in Contexts /\ ctx' = [ctx EXCEPT ![id] = c]
  BY DEF Classifies
<1> c.chunk = ctx[id].chunk /\ c.id = ctx[id].id /\ c.feature = ctx[id].feature
  BY DEF Classifies
<1> \/ /\ c.type = BaseChunk
       /\ BaseChunkIDs(ctx[id].feature) = {}
       /\ index_' = index_ \cup {[feature |-> ctx[id].feature, id |-> id]}
    \/ /\ c.type = DeltaChunk
       /\ c.base \in BaseChunkIDs(ctx[id].feature)
       /\ index_' = index_
  BY DEF Classifies
<1> UNCHANGED <<mp_, storage_, stats, aborted, cut>>
  BY DEF Classifies
<1> USE DEF BaseChunk, DeltaChunk, DuplicateChunk
<1>1. pc[match_worker] = "work"
  BY DEF Process
<1>2. /\ Deduped' = Deduped /\ Featured' = Featured /\ Matched' = Matched + 1
      /\ Written' = Written /\ contexts' = contexts
  <2>1. match_worker \in {dedup_worker, feature_worker, match_worker}
        /\ match_worker # dedup_worker /\ match_worker # feature_worker
    BY DEF dedup_worker, feature_worker, match_worker
  <2>2. /\ Deduped \in Nat /\ Featured \in Nat /\ Matched \in Nat
    BY Known
  <2>3. /\ Deduped' = Deduped + (IF match_worker = dedup_worker THEN 1 ELSE 0)
        /\ Featured' = Featured + (IF match_worker = feature_worker THEN 1 ELSE 0)
        /\ Matched' = Matched + (IF match_worker = match_worker THEN 1 ELSE 0)
        /\ Written' = Written /\ contexts' = contexts
    BY <2>1, ProcessCounts DEF DInv
  <2> QED
    BY <2>1, <2>2, <2>3
<1>3. /\ Written \in Nat /\ Featured \in Nat /\ Deduped \in Nat /\ contexts \in Nat
      /\ Matched \in Nat /\ Written <= Matched /\ Matched <= Featured
      /\ Featured <= Deduped /\ Deduped <= contexts
      /\ ctx \in [Written..contexts - 1 -> Contexts]
      /\ cut \in Seq(Contents) /\ Len(cut) = contexts
  BY Known
<1>4. id = Matched /\ Matched < Featured
  BY <1>1, Pipelined DEF DInv
<1>5. /\ DedupedTo(cut, kinds, bases, Deduped) /\ MapFor(cut, mp_, Deduped)
      /\ MatchedTo(Similar, cut, kinds, bases, Matched)
      /\ IndexFor(cut, kinds, index_, Matched)
  BY DEF DInv, ClassesOK
<1>6. /\ id \in Written..contexts - 1 /\ ctx[id].chunk = cut[id + 1]
      /\ ctx[id].id = id
      /\ ctx[id].feature = cut[id + 1]
  <2>1. id \in Written..contexts - 1 /\ id < Featured
    BY <1>3, <1>4
  <2> QED
    BY <2>1 DEF DInv, ContextsOK
<1>7. /\ ctx' \in [Written..contexts - 1 -> Contexts] /\ ctx'[id] = c
      /\ \A n \in Written..contexts - 1 : n # id => ctx'[n] = ctx[n]
  BY <1>3, <1>6
<1>8. ContextsOK'
  <2>1. \A n \in Written..contexts - 1 :
          /\ ctx'[n].chunk = cut[n + 1] /\ ctx'[n].id = n
          /\ n >= Deduped => ctx'[n].type # DuplicateChunk
          /\ n < Featured /\ ctx'[n].type # DuplicateChunk =>
               ctx'[n].feature = ctx'[n].chunk
    <3> TAKE n \in Written..contexts - 1
    <3>1. /\ ctx[n].chunk = cut[n + 1] /\ ctx[n].id = n
          /\ n >= Deduped => ctx[n].type # DuplicateChunk
          /\ n < Featured /\ ctx[n].type # DuplicateChunk =>
               ctx[n].feature = ctx[n].chunk
      BY DEF DInv, ContextsOK
    <3>2. CASE n # id
      BY <1>7, <3>1, <3>2
    <3>3. CASE n = id
      <4>1. /\ ctx'[n].chunk = cut[n + 1] /\ ctx'[n].id = n
            /\ ctx'[n].feature = ctx'[n].chunk
        BY <1>6, <1>7, <3>3
      <4>2. ctx'[n].type # DuplicateChunk
        BY <1>7, <3>3
      <4> QED
        BY <4>1, <4>2
    <3> QED
      BY <3>2, <3>3
  <2>2. cut' = cut
    OBVIOUS
  <2>3. ctx' \in [Written..contexts - 1 -> Contexts]
    BY <1>7
  <2> QED
    BY <1>2, <1>3, <2>1, <2>2, <2>3 DEF ContextsOK
<1>9. \A n \in 0..contexts - 1 :
        n # id => kinds'[n] = kinds[n] /\ bases'[n] = bases[n]
  <2> TAKE n \in 0..contexts - 1
  <2>1. ~(n < Written) => n \in Written..contexts - 1
    BY <1>3
  <2>2. ~(n < Written) /\ n # id => ctx'[n] = ctx[n]
    BY <1>7, <2>1
  <2> QED
    BY <1>2, <2>1, <2>2 DEF kinds, bases
<1>10. /\ kinds'[id] = c.type /\ kinds[id] # DuplicateChunk
       /\ bases'[id] = IF c.type = BaseChunk THEN id ELSE c.base
  <2>1. id \in 0..contexts - 1 /\ ~(id < Written)
    BY <1>3, <1>6
  <2>2. storage_' = storage_
    OBVIOUS
  <2> QED
    BY <1>2, <1>7, <2>1, <2>2 DEF kinds, bases
<1>11. /\ \A n \in 0..Deduped - 1 : n \in 0..contexts - 1
       /\ \A n \in 0..Matched - 1 : n \in 0..contexts - 1 /\ n # id
  BY <1>3, <1>4
<1>12. DedupedTo(cut, kinds', bases', Deduped)
  <2>1. \A n \in 0..Deduped - 1 :
          /\ cut[n + 1] = cut[n + 1]
          /\ kinds'[n] = DuplicateChunk <=> kinds[n] = DuplicateChunk
          /\ kinds[n] = DuplicateChunk => bases'[n] = bases[n]
    BY <1>9, <1>10, <1>11
  <2> QED
    BY <1>3, <1>5, <2>1, DedupedKept
<1>13. MatchedTo(Similar, cut, kinds', bases', Matched)
  <2>1. \A n \in 0..Matched - 1 :
          cut[n + 1] = cut[n + 1] /\ kinds'[n] = kinds[n] /\ bases'[n] = bases[n]
    BY <1>9, <1>11
  <2> QED
    BY <1>3, <1>5, <2>1, MatchedKept
<1>14. IndexFor(cut, kinds', index_, Matched)
  <2>1. \A n \in 0..Matched - 1 : cut[n + 1] = cut[n + 1] /\ kinds'[n] = kinds[n]
    BY <1>9, <1>11
  <2> QED
    BY <1>3, <1>5, <2>1, IndexKept
<1>15. BaseChunkIDs(cut[Matched + 1]) =
         {n \in 0..Matched - 1 : kinds'[n] = BaseChunk
                                 /\ <<cut[Matched + 1], cut[n + 1]>> \in Similar}
  BY <1>3, <1>14, Found
<1>16. MatchedTo(Similar, cut, kinds', bases', Matched + 1)
  <2>1. kinds'[Matched] \in {BaseChunk, DeltaChunk, DuplicateChunk}
    BY <1>4, <1>10
  <2>2. kinds'[Matched] = DeltaChunk =>
          /\ bases'[Matched] \in 0..Matched - 1
          /\ kinds'[bases'[Matched]] = BaseChunk
          /\ <<cut[Matched + 1], cut[bases'[Matched] + 1]>> \in Similar
    <3>1. kinds'[Matched] = DeltaChunk =>
            bases'[Matched] \in BaseChunkIDs(cut[Matched + 1])
      BY <1>4, <1>6, <1>10
    <3> QED
      BY <1>15, <3>1
  <2>3. kinds'[Matched] = BaseChunk =>
          /\ bases'[Matched] = Matched
          /\ \A m \in 0..Matched - 1 :
               kinds'[m] = BaseChunk => <<cut[Matched + 1], cut[m + 1]>> \notin Similar
    <3>1. kinds'[Matched] = BaseChunk =>
            bases'[Matched] = Matched /\ BaseChunkIDs(cut[Matched + 1]) = {}
      BY <1>4, <1>6, <1>10
    <3> QED
      BY <1>15, <3>1
  <2> QED
    BY <1>3, <1>13, <2>1, <2>2, <2>3, MatchedNext
<1>17. IndexFor(cut, kinds', index_', Matched + 1)
  <2>1. index_' = IF kinds'[Matched] = BaseChunk
                    THEN index_ \cup {[feature |-> cut[Matched + 1], id |-> Matched]}
                    ELSE index_
    BY <1>4, <1>6, <1>10
  <2> QED
    BY <1>3, <1>14, <2>1, IndexNext
<1>18. ClassesOK'
  BY <1>2, <1>5, <1>12, <1>16, <1>17 DEF ClassesOK
<1>19. RecordsOK' /\ CountsOK' /\ CacheAlive'
  BY <1>2, RecordsKept
<1> QED
  BY <1>8, <1>18, <1>19 DEF DInv

\* The match worker makes a base chunk.
LEMMA MatchNothingData ==
  ASSUME DInv, IInv', MatchNothing
  PROVE  DInv'
<1> DEFINE id == held[match_worker]
           c  == [ctx[id] EXCEPT !.type = BaseChunk]
<1>1. /\ Process(match_worker) /\ ctx[id].type # DuplicateChunk
      /\ BaseChunkIDs(ctx[id].feature) = {}
      /\ ctx' = [ctx EXCEPT ![id].type = BaseChunk]
      /\ index_' = index_ \cup {[feature |-> ctx[id].feature, id |-> ctx[id].id]}
      /\ UNCHANGED <<mp_, storage_, stats, aborted, cut>>
  BY DEF MatchNothing
<1>2. ctx[id] \in Contexts /\ ctx[id].id = id
  <2>1. id = Matched /\ Matched < Featured
    BY <1>1, Pipelined DEF DInv, Process
  <2>2. id \in Written..contexts - 1 /\ ctx \in [Written..contexts - 1 -> Contexts]
    BY <2>1, Known
  <2>3. ctx[id].id = id
    BY <2>2 DEF DInv, ContextsOK
  <2> QED
    BY <2>2, <2>3
<1>3. BaseChunk \in 0..3
  BY DEF BaseChunk
<1>4. c \in Contexts /\ c.chunk = ctx[id].chunk /\ c.id = ctx[id].id
      /\ c.feature = ctx[id].feature /\ c.type = BaseChunk
  BY <1>2, <1>3 DEF Contexts
<1>5. ctx' = [ctx EXCEPT ![id] = c]
  BY <1>1
<1> HIDE DEF c, id
<1>6. id = held[match_worker]
  BY DEF id
<1>7. index_' = index_ \cup {[feature |-> ctx[id].feature, id |-> id]}
  BY <1>1, <1>2
<1>8. Classifies(id, c)
  BY <1>1, <1>4, <1>5, <1>6, <1>7 DEF Classifies
<1> QED
  BY <1>1, <1>8, ClassifyData

\* The match worker makes a delta chunk.
LEMMA MatchBaseData ==
  ASSUME DInv, IInv', MatchBase
  PROVE  DInv'
<1> DEFINE id == held[match_worker]
<1>1. /\ Process(match_worker) /\ ctx[id].type # DuplicateChunk
      /\ UNCHANGED <<mp_, index_, storage_, stats, aborted, cut>>
  BY DEF MatchBase
<1>2. PICK base \in BaseChunkIDs(ctx[id].feature) :
        ctx' = [ctx EXCEPT ![id].type = DeltaChunk, ![id].base = base]
  BY DEF MatchBase
<1> DEFINE c == [ctx[id] EXCEPT !.type = DeltaChunk, !.base = base]
<1>3. ctx[id] \in Contexts /\ ctx[id].id = id
  <2>1. id = Matched /\ Matched < Featured
    BY <1>1, Pipelined DEF DInv, Process
  <2>2. id \in Written..contexts - 1 /\ ctx \in [Written..contexts - 1 -> Contexts]
    BY <2>1, Known
  <2>3. ctx[id].id = id
    BY <2>2 DEF DInv, ContextsOK
  <2> QED
    BY <2>2, <2>3
<1>4. base \in Nat
  <2>1. Matched \in Nat /\ IndexFor(cut, kinds, index_, Matched)
    BY Known DEF DInv, ClassesOK
  <2>2. BaseChunkIDs(ctx[id].feature) =
          {n \in 0..Matched - 1 :
             kinds[n] = BaseChunk /\ <<ctx[id].feature, cut[n + 1]>> \in Similar}
    BY <2>1, Found
  <2> HIDE DEF id
  <2> QED
    BY <1>2, <2>1, <2>2
<1>5. DeltaChunk \in 0..3
  BY DEF DeltaChunk
<1>6. c \in Contexts /\ c.chunk = ctx[id].chunk /\ c.id = ctx[id].id
      /\ c.feature = ctx[id].feature /\ c.type = DeltaChunk /\ c.base = base
  BY <1>3, <1>4, <1>5 DEF Contexts
<1>7. ctx' = [ctx EXCEPT ![id] = c]
  BY <1>2
<1> HIDE DEF c, id
<1>8. id = held[match_worker]
  BY DEF id
<1>9. Classifies(id, c)
  BY <1>1, <1>2, <1>6, <1>7, <1>8 DEF Classifies
<1> QED
  BY <1>1, <1>9, ClassifyData

\* What is known of the chunk that the write worker has in hand.
LEMMA InHand ==
  ASSUME DInv, pc[write_worker] = "work"
  PROVE  /\ held[write_worker] = Written /\ Written < Matched
         /\ Written \in 0..contexts - 1
         /\ ctx[Written] \in Contexts
         /\ ctx[Written].chunk = cut[Written + 1] /\ ctx[Written].id = Written
         /\ cut[Written + 1] \in Contents /\ cut[Written + 1] \in Seq(Nat)
         /\ kinds[Written] = ctx[Written].type
         /\ kinds[Written] \in {BaseChunk, DeltaChunk, DuplicateChunk}
         /\ bases[Written] = IF ctx[Written].type = BaseChunk THEN Written
                             ELSE ctx[Written].base
<1>1. held[write_worker] = Written /\ Written < Matched
  BY Pipelined DEF DInv
<1>2. /\ Written \in 0..contexts - 1 /\ Written \in Written..contexts - 1
      /\ Written \in 0..Matched - 1 /\ ~(Written < Written)
      /\ ctx \in [Written..contexts - 1 -> Contexts]
      /\ \A n \in 0..contexts - 1 : cut[n + 1] \in Contents
  BY <1>1, Known
<1>3. ctx[Written] \in Contexts
  BY <1>2
<1>4. ctx[Written].chunk = cut[Written + 1] /\ ctx[Written].id = Written
  BY <1>2 DEF DInv, ContextsOK
<1>5. cut[Written + 1] \in Contents /\ cut[Written + 1] \in Seq(Nat)
  BY <1>2, SimilarAssumption
<1>6. /\ kinds[Written] = ctx[Written].type
      /\ bases[Written] = IF ctx[Written].type = BaseChunk THEN Written
                          ELSE ctx[Written].base
  BY <1>2 DEF kinds, bases
<1>7. kinds[Written] \in {BaseChunk, DeltaChunk, DuplicateChunk}
  BY <1>2 DEF DInv, ClassesOK, MatchedTo
<1> QED
  BY <1>1, <1>2, <1>3, <1>4, <1>5, <1>6, <1>7

\* The base chunk that a delta chunk in hand has been matched with is stored.
LEMMA BaseStored ==
  ASSUME DInv, pc[write_worker] = "work", ctx[Written].type = DeltaChunk
  PROVE  /\ ctx[Written].base \in Owning(storage_)
         /\ \/ ~Fits
            \/ Len(ChunkContent(storage_, ctx[Written].base)) < MaxMemoryUsage
<1> DEFINE base == ctx[Written].base
<1>1. /\ kinds[Written] = DeltaChunk /\ bases[Written] = base /\ Written < Matched
  BY InHand DEF DeltaChunk, BaseChunk
<1>2. Written \in Nat /\ contexts \in Nat /\ Matched \in Nat /\ Written <= contexts
      /\ Len(storage_.meta) = Written
      /\ \A n \in 0..contexts - 1 : cut[n + 1] \in Contents
  BY Known
<1>3. base \in 0..Written - 1 /\ kinds[base] = BaseChunk
  <2>1. Written \in 0..Matched - 1
    BY <1>1, <1>2
  <2> QED
    BY <1>1, <2>1 DEF DInv, ClassesOK, MatchedTo
<1> HIDE DEF base
<1>4. base \in 0..contexts - 1 /\ base < Written
  BY <1>2, <1>3
<1>5. storage_.meta[base + 1].type = BaseChunk
  BY <1>3, <1>4 DEF kinds
<1>6. base \in Owning(storage_)
  BY <1>2, <1>3, <1>5 DEF Owning, BaseChunk, DuplicateChunk
<1>7. ChunkContent(storage_, base) = Kept(cut[base + 1])
  BY <1>6 DEF DInv, RecordsOK, Faithful
<1>8. cut[base + 1] \in Contents /\ cut[base + 1] \in Seq(Nat)
  BY <1>2, <1>4, SimilarAssumption
<1>9. Len(Kept(cut[base + 1])) = Len(cut[base + 1]) % Uint16
  BY <1>8, KeptIs
<1> QED
  BY <1>6, <1>7, <1>8, <1>9 DEF Fits, base

\* What the write worker does to the store: it appends the chunk in hand, with
\* the class that was decided for it.
LEMMA StoreStep ==
  ASSUME DInv, pc[write_worker] = "work",
         NEW after, after = StoreChunk(storage_, ctx[Written])
  PROVE  /\ Appended(storage_, after, cut, kinds[Written], bases[Written],
                     IF kinds[Written] = DuplicateChunk THEN <<>> ELSE cut[Written + 1])
         /\ after.cache.crashed = storage_.cache.crashed \/ ~Fits
<1> DEFINE c == ctx[Written]
           chunk == cut[Written + 1]
           st == storage_
<1>1. /\ c \in Contexts /\ c.chunk = chunk /\ c.id = Written
      /\ kinds[Written] = c.type /\ c.type \in {BaseChunk, DeltaChunk, DuplicateChunk}
      /\ bases[Written] = IF c.type = BaseChunk THEN Written ELSE c.base
  BY InHand
<1>2. chunk \in Seq(Nat)
  BY InHand
<1>3. StoreOK(st) /\ Faithful(st, cut)
  BY DEF DInv, RecordsOK
<1>4. Len(st.meta) = Written /\ Written \in Nat
  BY Known
<1>5. BaseChunk # DuplicateChunk /\ DeltaChunk # DuplicateChunk /\ BaseChunk # DeltaChunk
  BY DEF BaseChunk, DeltaChunk, DuplicateChunk
<1>6. c.base \in Nat
  BY <1>1 DEF Contexts
<1>7. cut[Len(st.meta) + 1] = chunk
  BY <1>4
<1>8. after = StoreChunk(st, c)
  OBVIOUS
<1>9. c.type = DeltaChunk =>
        /\ c.base \in Owning(st)
        /\ ~Fits \/ Len(ChunkContent(st, c.base)) < MaxMemoryUsage
  BY BaseStored
<1> HIDE DEF c, chunk, st
<1>10. CASE c.type = BaseChunk
  <2>1. after = WritePlainChunk(st, chunk, Written, BaseChunk)
    BY <1>1, <1>5, <1>8, <1>10 DEF StoreChunk, WriteBaseChunk, WritePlainChunk
  <2>2. BaseChunk \in {BaseChunk, DeltaChunk}
    OBVIOUS
  <2>3. Appended(st, after, cut, BaseChunk, Written, chunk) /\ after.cache = st.cache
    BY SMTT(30), <1>2, <1>3, <1>4, <1>7, <2>1, <2>2, PlainAppended
  <2> QED
    BY <1>1, <1>5, <1>10, <2>3 DEF st, chunk
<1>11. CASE c.type = DeltaChunk
  <2>1. after = WriteDeltaChunk(GetDeltaEncodedChunk(st, c.base), chunk, c.base)
    BY <1>1, <1>5, <1>8, <1>11 DEF StoreChunk
  <2>2. c.base \in Owning(st)
    BY <1>9, <1>11
  <2>3. /\ Appended(st, after, cut, DeltaChunk, c.base, chunk)
        /\ \/ after.cache.crashed = st.cache.crashed
           \/ Len(ChunkContent(st, c.base)) >= MaxMemoryUsage
    BY <1>2, <1>3, <1>7, <2>1, <2>2, DeltaAppended
  <2>4. after.cache.crashed = st.cache.crashed \/ ~Fits
    <3>1. Len(ChunkContent(st, c.base)) \in Nat /\ MaxMemoryUsage \in Nat
      BY <1>3, <2>2, ContentIs, CacheAssumption
    <3> QED
      BY <1>9, <1>11, <2>3, <3>1
  <2> QED
    BY <1>1, <1>5, <1>11, <2>3, <2>4 DEF st, chunk
<1>12. CASE c.type = DuplicateChunk
  <2>1. after = WriteDuplicateChunk(st, chunk, c.base)
    BY <1>1, <1>5, <1>8, <1>12 DEF StoreChunk
  <2>2. /\ Appended(st, after, cut, DuplicateChunk, c.base, <<>>)
        /\ after.cache = st.cache
    BY <1>2, <1>3, <1>6, <2>1, DuplicateAppended
  <2> QED
    BY <1>1, <1>5, <1>12, <2>2 DEF st, chunk
<1> QED
  BY <1>1, <1>10, <1>11, <1>12
-----------------------------------------------------------------------------
\* The step of the write worker, in the terms of the invariant.
LEMMA WriteStep ==
  ASSUME DInv, ChunkWriteWorker
  PROVE  /\ Written' = Written + 1 /\ contexts' = contexts
         /\ Deduped' = Deduped /\ Featured' = Featured /\ Matched' = Matched
         /\ pc[write_worker] = "work" /\ held[write_worker] = Written
         /\ storage_' = StoreChunk(storage_, ctx[Written])
         /\ stats' = CountChunk(stats, ctx[Written])
         /\ aborted' = \/ ctx[Written].type \notin {DuplicateChunk, BaseChunk, DeltaChunk}
                       \/ storage_'.cache.crashed
         /\ ctx' = Delete(ctx, Written)
         /\ UNCHANGED <<mp_, index_, cut>>
         /\ Appended(storage_, storage_', cut, kinds[Written], bases[Written],
                     IF kinds[Written] = DuplicateChunk THEN <<>> ELSE cut[Written + 1])
         /\ storage_'.cache.crashed = storage_.cache.crashed \/ ~Fits
<1>1. WriteOut /\ pc[write_worker] = "work"
  BY DEF ChunkWriteWorker, WriteOut
<1>2. held[write_worker] = Written
  BY <1>1, InHand
<1>3. /\ Written' = Written + 1 /\ contexts' = contexts
      /\ Deduped' = Deduped /\ Featured' = Featured /\ Matched' = Matched
  BY <1>1, WriteCounts DEF DInv
<1>4. /\ storage_' = StoreChunk(storage_, ctx[Written])
      /\ stats' = CountChunk(stats, ctx[Written])
      /\ aborted' = \/ ctx[Written].type \notin {DuplicateChunk, BaseChunk, DeltaChunk}
                    \/ storage_'.cache.crashed
      /\ ctx' = Delete(ctx, Written)
      /\ UNCHANGED <<mp_, index_, cut>>
  BY <1>2 DEF ChunkWriteWorker
<1>5. /\ Appended(storage_, storage_', cut, kinds[Written], bases[Written],
                     IF kinds[Written] = DuplicateChunk THEN <<>> ELSE cut[Written + 1])
      /\ storage_'.cache.crashed = storage_.cache.crashed \/ ~Fits
  BY <1>1, <1>4, StoreStep
<1> QED
  BY <1>1, <1>2, <1>3, <1>4, <1>5

\* y is x with these amounts added to the counters that the invariant is about.
Adds(y, x, origin, compressed, base, delta, duplicate) ==
  /\ y \in Counters
  /\ y.origin = x.origin + origin
  /\ y.compressed = x.compressed + compressed
  /\ y.base = x.base + base
  /\ y.delta = x.delta + delta
  /\ y.duplicate = x.duplicate + duplicate

\* Raising one counter leaves the others.
LEMMA Raised ==
  ASSUME NEW x \in Counters, NEW n \in Nat
  PROVE  /\ Adds([x EXCEPT !.origin = @ + n], x, n, 0, 0, 0, 0)
         /\ Adds([x EXCEPT !.compressed = @ + n], x, 0, n, 0, 0, 0)
         /\ Adds([x EXCEPT !.before = @ + n], x, 0, 0, 0, 0, 0)
         /\ Adds([x EXCEPT !.after = @ + n], x, 0, 0, 0, 0, 0)
         /\ Adds([x EXCEPT !.base = @ + n], x, 0, 0, n, 0, 0)
         /\ Adds([x EXCEPT !.delta = @ + n], x, 0, 0, 0, n, 0)
         /\ Adds([x EXCEPT !.duplicate = @ + n], x, 0, 0, 0, 0, n)
<1> USE DEF Counters, Adds
<1>1. Adds([x EXCEPT !.origin = @ + n], x, n, 0, 0, 0, 0)
  OBVIOUS
<1>2. Adds([x EXCEPT !.compressed = @ + n], x, 0, n, 0, 0, 0)
  OBVIOUS
<1>3. Adds([x EXCEPT !.before = @ + n], x, 0, 0, 0, 0, 0)
  OBVIOUS
<1>4. Adds([x EXCEPT !.after = @ + n], x, 0, 0, 0, 0, 0)
  OBVIOUS
<1>5. Adds([x EXCEPT !.base = @ + n], x, 0, 0, n, 0, 0)
  OBVIOUS
<1>6. Adds([x EXCEPT !.delta = @ + n], x, 0, 0, 0, n, 0)
  OBVIOUS
<1>7. Adds([x EXCEPT !.duplicate = @ + n], x, 0, 0, 0, 0, n)
  OBVIOUS
<1> HIDE DEF Counters, Adds
<1> QED
  BY <1>1, <1>2, <1>3, <1>4, <1>5, <1>6, <1>7, Zenon

\* What the write worker adds to the counters.
LEMMA CountChunkIs ==
  ASSUME NEW s \in Counters, NEW c, NEW len \in Nat, len = Len(c.chunk)
  PROVE  /\ c.type = DuplicateChunk => Adds(CountChunk(s, c), s, len, 0, 0, 0, 1)
         /\ c.type = BaseChunk      => Adds(CountChunk(s, c), s, len, len, 1, 0, 0)
         /\ c.type = DeltaChunk     => Adds(CountChunk(s, c), s, len, len, 0, 1, 0)
<1> DEFINE t  == CountChunk(s, c)
           s1 == [s EXCEPT !.origin = @ + len]
           b1 == [s1 EXCEPT !.base = @ + 1]
           d1 == [s1 EXCEPT !.delta = @ + 1]
           d2 == [d1 EXCEPT !.before = @ + len]
           d3 == [d2 EXCEPT !.after = @ + len]
<1>1. /\ c.type = DuplicateChunk => t = [s1 EXCEPT !.duplicate = @ + 1]
      /\ c.type = BaseChunk => t = [b1 EXCEPT !.compressed = @ + len]
      /\ c.type = DeltaChunk => t = [d3 EXCEPT !.compressed = @ + len]
  BY DEF CountChunk, BaseChunk, DeltaChunk, DuplicateChunk
<1>2. Adds(s1, s, len, 0, 0, 0, 0) /\ s1 \in Counters
  BY Raised DEF Adds
<1> HIDE DEF s1
<1>3. Adds(b1, s1, 0, 0, 1, 0, 0) /\ b1 \in Counters
  <2>1. 1 \in Nat
    OBVIOUS
  <2>2. Adds([s1 EXCEPT !.base = @ + 1], s1, 0, 0, 1, 0, 0)
    BY <1>2, <2>1, Raised, Zenon
  <2> QED
    BY <2>2 DEF Adds
<1>4. Adds(d1, s1, 0, 0, 0, 1, 0) /\ d1 \in Counters
  <2>1. 1 \in Nat
    OBVIOUS
  <2>2. Adds([s1 EXCEPT !.delta = @ + 1], s1, 0, 0, 0, 1, 0)
    BY <1>2, <2>1, Raised, Zenon
  <2> QED
    BY <2>2 DEF Adds
<1> HIDE DEF b1, d1
<1>5. Adds(d2, d1, 0, 0, 0, 0, 0) /\ d2 \in Counters
  BY <1>4, Raised DEF Adds
<1> HIDE DEF d2
<1>6. Adds(d3, d2, 0, 0, 0, 0, 0) /\ d3 \in Counters
  BY <1>5, Raised DEF Adds
<1> HIDE DEF d3, t
<1> DEFINE Numbers(x) == /\ x.origin \in Nat /\ x.compressed \in Nat /\ x.base \in Nat
                         /\ x.delta \in Nat /\ x.duplicate \in Nat
<1>n. \A x \in Counters : Numbers(x)
  BY DEF Counters
<1>m. Numbers(s) /\ Numbers(s1) /\ Numbers(b1) /\ Numbers(d1) /\ Numbers(d2) /\ Numbers(d3)
  BY <1>n, <1>2, <1>3, <1>4, <1>5, <1>6
<1>7. ASSUME c.type = DuplicateChunk PROVE Adds(t, s, len, 0, 0, 0, 1)
  <2>1. Adds(t, s1, 0, 0, 0, 0, 1)
    BY <1>1, <1>2, <1>7, Raised
  <2> QED
    BY <1>m, <1>2, <2>1 DEF Adds
<1>8. ASSUME c.type = BaseChunk PROVE Adds(t, s, len, len, 1, 0, 0)
  <2>1. Adds(t, b1, 0, len, 0, 0, 0)
    BY ZenonT(60), <1>1, <1>3, <1>8, Raised
  <2> QED
    BY <1>m, <1>2, <1>3, <2>1 DEF Adds
<1>9. ASSUME c.type = DeltaChunk PROVE Adds(t, s, len, len, 0, 1, 0)
  <2>1. Adds(t, d3, 0, len, 0, 0, 0)
    BY ZenonT(60), <1>1, <1>6, <1>9, Raised
  <2>2. Adds(d3, s, len, 0, 0, 1, 0)
    BY <1>m, <1>2, <1>4, <1>5, <1>6 DEF Adds
  <2> QED
    BY <1>m, <2>1, <2>2 DEF Adds
<1> QED
  BY <1>7, <1>8, <1>9 DEF t

\* The counters after the write worker.
LEMMA WriteCountsOK ==
  ASSUME DInv, ChunkWriteWorker
  PROVE  CountsOK'
<1> DEFINE c     == ctx[Written]
           chunk == cut[Written + 1]
           len   == Len(chunk)
<1>1. /\ c.chunk = chunk /\ chunk \in Seq(Nat) /\ chunk \in Contents
      /\ kinds[Written] = c.type /\ kinds[Written] \in {BaseChunk, DeltaChunk, DuplicateChunk}
  BY WriteStep, InHand
<1>2. /\ Written' = Written + 1 /\ cut' = cut
      /\ stats' = CountChunk(stats, c)
      /\ Appended(storage_, storage_', cut, kinds[Written], bases[Written],
                  IF kinds[Written] = DuplicateChunk THEN <<>> ELSE cut[Written + 1])
  BY WriteStep
<1>3. len \in Nat
  BY <1>1
<1>4. stats \in Counters /\ StatsExact
  BY DEF DInv, CountsOK
<1>5. BaseChunk # DuplicateChunk /\ DeltaChunk # DuplicateChunk /\ BaseChunk # DeltaChunk
  BY DEF BaseChunk, DeltaChunk, DuplicateChunk
<1>6. /\ Written \in Nat /\ Written <= contexts /\ Written < contexts
      /\ cut \in Seq(Contents) /\ Len(cut) = contexts /\ contexts \in Nat
      /\ StoreOK(storage_)
  <2>1. Written \in 0..contexts - 1
    BY WriteStep, InHand
  <2> QED
    BY <2>1, Known
<1>7. /\ stats' \in Counters
      /\ stats'.origin = stats.origin + len
      /\ stats'.compressed = stats.compressed + (IF c.type = DuplicateChunk THEN 0 ELSE len)
      /\ stats'.base = stats.base + (IF c.type = BaseChunk THEN 1 ELSE 0)
      /\ stats'.delta = stats.delta + (IF c.type = DeltaChunk THEN 1 ELSE 0)
      /\ stats'.duplicate = stats.duplicate + (IF c.type = DuplicateChunk THEN 1 ELSE 0)
  <2>1. c.type \in {BaseChunk, DeltaChunk, DuplicateChunk} /\ len = Len(c.chunk)
    BY <1>1
  <2> HIDE DEF len, c
  <2>2. /\ c.type = DuplicateChunk => Adds(stats', stats, len, 0, 0, 0, 1)
        /\ c.type = BaseChunk      => Adds(stats', stats, len, len, 1, 0, 0)
        /\ c.type = DeltaChunk     => Adds(stats', stats, len, len, 0, 1, 0)
    BY <1>2, <1>3, <1>4, <2>1, CountChunkIs
  <2>3. /\ stats.compressed \in Nat /\ stats.base \in Nat
        /\ stats.delta \in Nat /\ stats.duplicate \in Nat
    BY <1>4 DEF Counters
  <2> QED
    BY <1>3, <1>5, <2>1, <2>2, <2>3 DEF Adds
<1> HIDE DEF len, c
<1>8. stats'.origin = TotalLen(SubSeq(cut', 1, Written'))
  <2>1. Contents \subseteq Seq(Nat)
    BY SimilarAssumption
  <2>2. /\ SubSeq(cut, 1, Written) \in Seq(Contents)
        /\ SubSeq(cut, 1, Written + 1) = Append(SubSeq(cut, 1, Written), chunk)
    <3>1. Written \in 0..Len(cut) - 1
      BY <1>6
    <3>2. SubSeq(cut, 1, Written) \in Seq(Contents)
      BY <1>6
    <3> QED
      BY <1>6, <3>1, <3>2, PrefixGrows
  <2>3. SubSeq(cut, 1, Written) \in Seq(Seq(Nat))
    BY <2>1, <2>2
  <2>4. TotalLen(SubSeq(cut, 1, Written + 1)) = TotalLen(SubSeq(cut, 1, Written)) + len
    BY <1>1, <2>2, <2>3, TotalLenAppend DEF len
  <2>5. stats.origin = TotalLen(SubSeq(cut, 1, Written))
    BY <1>4 DEF StatsExact, Written
  <2> QED
    BY <1>2, <1>7, <2>4, <2>5
<1>9. stats'.compressed = Len(storage_'.data)
  <2> DEFINE bytes == IF kinds[Written] = DuplicateChunk THEN <<>> ELSE chunk
  <2>1. storage_'.data = storage_.data \o bytes
    BY <1>2 DEF Appended
  <2>2. bytes \in Seq(Nat) /\ Len(bytes) = IF kinds[Written] = DuplicateChunk THEN 0 ELSE len
    BY <1>1 DEF len
  <2> HIDE DEF bytes
  <2>3. storage_.data \in Seq(Nat)
    BY <1>6 DEF StoreOK, Stores
  <2>4. Len(storage_'.data) = Len(storage_.data) + Len(bytes)
    <3>1. Len(storage_.data \o bytes) = Len(storage_.data) + Len(bytes)
      BY SMTT(30), <2>2, <2>3
    <3> QED
      BY <2>1, <3>1
  <2>5. stats.compressed = Len(storage_.data)
    BY <1>4 DEF StatsExact
  <2> QED
    BY <1>1, <1>7, <2>2, <2>4, <2>5
<1>10. ASSUME NEW t \in Types
       PROVE  Cardinality({i \in 1..Len(storage_'.meta) : storage_'.meta[i].type = t})
                = CASE t = BaseChunk -> stats'.base
                    [] t = DeltaChunk -> stats'.delta
                    [] OTHER -> stats'.duplicate
  <2> DEFINE Of(m) == {i \in 1..Len(m) : m[i].type = t}
  <2>1. PICK rec \in ChunkMetas : /\ storage_'.meta = Append(storage_.meta, rec)
                                  /\ rec.type = kinds[Written]
    BY <1>2 DEF Appended
  <2>2. storage_.meta \in Seq(ChunkMetas)
    BY <1>6 DEF StoreOK, Stores
  <2>3. /\ Cardinality(Of(storage_.meta)) \in Nat
        /\ Cardinality(Of(Append(storage_.meta, rec))) =
             Cardinality(Of(storage_.meta)) + (IF rec.type = t THEN 1 ELSE 0)
    BY <2>2, CountAppend
  <2>4. Cardinality(Of(storage_.meta))
          = CASE t = BaseChunk -> stats.base
              [] t = DeltaChunk -> stats.delta
              [] OTHER -> stats.duplicate
    BY <1>4 DEF StatsExact
  <2>5. Of(storage_'.meta) = Of(Append(storage_.meta, rec))
    BY <2>1
  <2>6. SUFFICES Cardinality(Of(storage_'.meta))
                = CASE t = BaseChunk -> stats'.base
                    [] t = DeltaChunk -> stats'.delta
                    [] OTHER -> stats'.duplicate
    OBVIOUS
  <2>7. t = BaseChunk \/ t = DeltaChunk \/ t = DuplicateChunk
    BY DEF Types
  <2> HIDE DEF Of
  <2>8. Cardinality(Of(storage_'.meta)) =
          Cardinality(Of(storage_.meta)) + (IF c.type = t THEN 1 ELSE 0)
    BY <1>1, <2>1, <2>3, <2>5
  <2> QED
    BY <1>5, <1>7, <2>4, <2>7, <2>8
<1> QED
  BY <1>7, <1>8, <1>9, <1>10 DEF CountsOK, StatsExact, Written

\* The class of a chunk is not changed by writing it.
LEMMA WriteKeepsClasses ==
  ASSUME DInv, ChunkWriteWorker
  PROVE  /\ \A n \in 0..contexts - 1 : kinds'[n] = kinds[n] /\ bases'[n] = bases[n]
         /\ Len(storage_'.meta) = Written + 1
<1>1. /\ Written' = Written + 1 /\ contexts' = contexts
      /\ ctx' = Delete(ctx, Written)
      /\ Appended(storage_, storage_', cut, kinds[Written], bases[Written],
                  IF kinds[Written] = DuplicateChunk THEN <<>> ELSE cut[Written + 1])
  BY WriteStep
<1>2. PICK rec \in ChunkMetas : /\ storage_'.meta = Append(storage_.meta, rec)
                                /\ rec.type = kinds[Written]
                                /\ rec.base = bases[Written]
  BY <1>1 DEF Appended
<1>3. /\ Written \in Nat /\ contexts \in Nat
      /\ ctx \in [Written..contexts - 1 -> Contexts]
      /\ Len(storage_.meta) = Written
      /\ storage_.meta \in Seq(ChunkMetas)
  BY Known DEF StoreOK, Stores
<1>4. /\ Len(storage_'.meta) = Written + 1
      /\ storage_'.meta[Written + 1] = rec
      /\ \A n \in 0..Written - 1 : storage_'.meta[n + 1] = storage_.meta[n + 1]
  BY <1>2, <1>3
<1>5. ASSUME NEW n \in 0..contexts - 1
      PROVE  kinds'[n] = kinds[n] /\ bases'[n] = bases[n]
  <2>0. n \in 0..contexts' - 1
    BY <1>1
  <2>1. CASE n < Written
    <3>1. n < Written' /\ n \in 0..Written - 1
      BY <1>1, <1>3, <2>1
    <3> QED
      BY <1>4, <2>0, <2>1, <3>1 DEF kinds, bases
  <2>2. CASE n = Written
    <3>1. n < Written'
      BY <1>1, <1>3, <2>2
    <3>2. kinds'[n] = storage_'.meta[n + 1].type /\ bases'[n] = storage_'.meta[n + 1].base
      BY <2>0, <3>1 DEF kinds, bases
    <3> QED
      BY <1>2, <1>4, <2>2, <3>2
  <2>3. CASE n > Written
    <3>1. ~(n < Written') /\ ~(n < Written) /\ n \in DOMAIN ctx \ {Written}
      BY <1>1, <1>3, <2>3
    <3>2. ctx'[n] = ctx[n]
      BY <1>1, <3>1 DEF Delete
    <3> QED
      BY <2>0, <3>1, <3>2 DEF kinds, bases
  <2> QED
    BY <1>3, <2>1, <2>2, <2>3
<1> QED
  BY <1>4, <1>5

\* The write worker.
LEMMA WriterData ==
  ASSUME DInv, IInv', ChunkWriteWorker
  PROVE  DInv'
<1>1. /\ Written' = Written + 1 /\ contexts' = contexts
      /\ Deduped' = Deduped /\ Featured' = Featured /\ Matched' = Matched
      /\ pc[write_worker] = "work"
      /\ ctx' = Delete(ctx, Written)
      /\ UNCHANGED <<mp_, index_, cut>>
      /\ Appended(storage_, storage_', cut, kinds[Written], bases[Written],
                  IF kinds[Written] = DuplicateChunk THEN <<>> ELSE cut[Written + 1])
  BY WriteStep
<1>2. /\ Written \in Nat /\ contexts \in Nat /\ Deduped \in Nat /\ Featured \in Nat
      /\ cut \in Seq(Contents) /\ Len(cut) = contexts
      /\ ctx \in [Written..contexts - 1 -> Contexts]
  BY Known
<1>3. Written < contexts
  BY <1>1, <1>2, InHand
<1>4. ContextsOK'
  <2>1. (Written..contexts - 1) \ {Written} = Written + 1..contexts - 1
    BY <1>2
  <2>2. DOMAIN ctx = Written..contexts - 1
    BY <1>2
  <2>3. ctx' = [n \in Written + 1..contexts - 1 |-> ctx[n]]
    BY <1>1, <2>1, <2>2 DEF Delete
  <2>4. \A n \in Written + 1..contexts - 1 : n \in Written..contexts - 1
    BY <1>2
  <2>5. ctx' \in [Written + 1..contexts - 1 -> Contexts]
    BY <1>2, <2>3, <2>4
  <2>6. \A n \in Written + 1..contexts - 1 :
          /\ ctx'[n].chunk = cut[n + 1] /\ ctx'[n].id = n
          /\ n >= Deduped => ctx'[n].type # DuplicateChunk
          /\ n < Featured /\ ctx'[n].type # DuplicateChunk =>
               ctx'[n].feature = ctx'[n].chunk
    BY <2>3, <2>4 DEF DInv, ContextsOK
  <2> QED
    BY <1>1, <1>2, <2>5, <2>6 DEF ContextsOK
<1>5. ClassesOK'
  <2>1. \A n \in 0..contexts - 1 :
          cut'[n + 1] = cut[n + 1] /\ kinds'[n] = kinds[n] /\ bases'[n] = bases[n]
    BY <1>1, WriteKeepsClasses
  <2> QED
    BY <1>1, <2>1, ClassesKept
<1>6. RecordsOK'
  <2>1. Len(storage_'.meta) = Written'
    BY <1>1, WriteKeepsClasses
  <2>2. StoreOK(storage_') /\ Faithful(storage_', cut')
    BY <1>1 DEF Appended
  <2>3. StoreOK(storage_)'
    BY <2>2 DEF StoreOK, Stores, CacheOK, Owning, ChunkContent, FromFileStream, ReadMeta
  <2>4. Faithful(storage_, cut)'
    BY <2>2 DEF Faithful, Owning, ChunkContent, FromFileStream, ReadMeta
  <2> QED
    BY <2>1, <2>3, <2>4 DEF RecordsOK
<1>7. CountsOK'
  BY WriteCountsOK
<1>8. CacheAlive'
  <2>1. ctx[Written].type \in {DuplicateChunk, BaseChunk, DeltaChunk}
    BY <1>1, InHand
  <2>2. /\ storage_'.cache.crashed = storage_.cache.crashed \/ ~Fits
        /\ aborted' = \/ ctx[Written].type \notin {DuplicateChunk, BaseChunk, DeltaChunk}
                      \/ storage_'.cache.crashed
    BY WriteStep
  <2> QED
    BY <2>1, <2>2 DEF CacheAlive, DInv, Fits
<1> QED
  BY <1>4, <1>5, <1>6, <1>7, <1>8 DEF DInv
-----------------------------------------------------------------------------
\* Everything the invariant says is true of an empty store and no chunks.
LEMMA DInvInit == CompressionInit => DInv
<1> SUFFICES ASSUME CompressionInit PROVE DInv
  OBVIOUS
<1>1. IInv
  BY InvInit DEF CompressionInit
<1>2. /\ ctx = << >> /\ mp_ = << >> /\ index_ = {} /\ storage_ = EmptyStore
      /\ stats = [origin |-> 0, compressed |-> 0, before |-> 0, after |-> 0,
                  base |-> 0, delta |-> 0, duplicate |-> 0]
      /\ aborted = FALSE /\ cut = <<>> /\ contexts = 0
  BY DEF CompressionInit, Init
<1>3. /\ Written = 0 /\ Matched = 0 /\ Featured = 0 /\ Deduped = 0
  BY <1>1, <1>2, Pipelined
<1>4. ContextsOK
  <2>1. Written..contexts - 1 = {}
    BY <1>2, <1>3
  <2> QED
    BY <1>2, <2>1 DEF ContextsOK
<1>5. ClassesOK
  <2>1. 0..0 - 1 = {}
    OBVIOUS
  <2>2. DOMAIN mp_ = {}
    BY <1>2
  <2> QED
    BY <1>2, <1>3, <2>1, <2>2 DEF ClassesOK, DedupedTo, MapFor, MatchedTo, IndexFor
<1>6. RecordsOK
  <2>1. StoreOK(storage_) /\ Len(storage_.meta) = 0
    BY <1>2, EmptyStoreOK DEF EmptyStore
  <2>2. Owning(storage_) = {}
    BY <2>1 DEF Owning
  <2> QED
    BY <1>3, <2>1, <2>2 DEF RecordsOK, Faithful
<1>7. CountsOK
  <2>1. stats \in Counters
    BY <1>2 DEF Counters
  <2>2. stats.origin = TotalLen(SubSeq(cut, 1, Written))
    <3>1. SubSeq(cut, 1, Written) = <<>>
      BY <1>2, <1>3
    <3> QED
      BY <1>2, <3>1, TotalLenEmpty
  <2>3. stats.compressed = Len(storage_.data)
    BY <1>2 DEF EmptyStore
  <2>4. ASSUME NEW t \in Types
        PROVE  Cardinality({i \in 1..Len(storage_.meta) : storage_.meta[i].type = t})
                 = CASE t = BaseChunk -> stats.base
                     [] t = DeltaChunk -> stats.delta
                     [] OTHER -> stats.duplicate
    <3>1. {i \in 1..Len(storage_.meta) : storage_.meta[i].type = t} = {}
      BY <1>2 DEF EmptyStore
    <3>2. Cardinality({}) = 0
      BY FS_EmptySet
    <3> QED
      BY <1>2, <3>1, <3>2
  <2> QED
    BY <2>1, <2>2, <2>3, <2>4 DEF CountsOK, StatsExact, Written
<1>8. CacheAlive
  BY <1>2 DEF CacheAlive, EmptyStore, EmptyCache
<1> QED
  BY <1>1, <1>4, <1>5, <1>6, <1>7, <1>8 DEF DInv

\* A step of the workers is a step of the thread protocol below them.
LEMMA StepOfQueues ==
  ASSUME [CompressionNext]_vars
  PROVE  [Next]_queueVars
<1>1. ASSUME NEW w \in {dedup_worker, feature_worker, match_worker}, Process(w)
      PROVE  WorkStep(w) /\ w \in Workers
  BY <1>1 DEF WorkStep, Workers, chunk_worker, dedup_worker, feature_worker,
     match_worker, write_worker
<1>2. ASSUME CutChunk \/ NoMoreChunks PROVE WorkStep(chunk_worker) /\ chunk_worker \in Workers
  BY <1>2 DEF WorkStep, Workers, chunk_worker
<1>3. ASSUME WriteOut \/ WriterReturns PROVE WorkStep(write_worker) /\ write_worker \in Workers
  BY <1>3 DEF WorkStep, Workers, write_worker
<1>4. CASE ControlStep
  BY <1>2, <1>3, <1>4 DEF ControlStep, Next
<1>5. CASE ChunkingWorker \/ ChunkWriteWorker
  BY <1>2, <1>3, <1>5 DEF ChunkingWorker, ChunkWriteWorker, Next
<1>6. CASE DedupWorker \/ FeatureCalcWorker \/ MatchDuplicate \/ MatchNothing \/ MatchBase
  BY <1>1, <1>6 DEF DedupWorker, FeatureCalcWorker, MatchDuplicate, MatchNothing,
     MatchBase, Next
<1> QED
  BY <1>4, <1>5, <1>6 DEF CompressionNext, vars

\* Every step keeps the invariant, up to the chunk that takes the last id.
LEMMA DInvNext == DInv /\ FewChunks' /\ [CompressionNext]_vars => DInv'
<1> SUFFICES ASSUME DInv, FewChunks', [CompressionNext]_vars PROVE DInv'
  OBVIOUS
<1>1. IInv'
  BY StepOfQueues, InvNext DEF DInv
<1>2. CASE UNCHANGED vars
  <2>1. UNCHANGED dataVars /\ UNCHANGED queueVars
    BY <1>2 DEF vars
  <2>2. /\ Deduped' = Deduped /\ Featured' = Featured /\ Matched' = Matched
        /\ Written' = Written /\ contexts' = contexts
    BY <2>1 DEF queueVars, Deduped, Featured, Matched, Written, Finished
  <2>3. /\ ContextsOK' /\ RecordsOK' /\ CountsOK' /\ CacheAlive'
        /\ kinds' = kinds /\ bases' = bases
    BY <2>1, <2>2, DataKept
  <2>4. ClassesOK'
    BY <2>1, <2>2, <2>3 DEF DInv, ClassesOK, dataVars
  <2> QED
    BY <1>1, <2>3, <2>4 DEF DInv
<1>3. CASE CompressionNext
  BY <1>1, <1>3, ControlData, CutData, DedupData, FeatureData, MatchDuplicateData,
     MatchNothingData, MatchBaseData, WriterData DEF CompressionNext
<1> QED
  BY <1>2, <1>3

\* The invariant holds as long as no id comes back.
LEMMA DInvAlways == CompressionSpec /\ []FewChunks => []DInv
<1> QED
  BY DInvInit, DInvNext, PTL DEF CompressionSpec

\* Whatever the ids, a context is deleted by the worker that has it last.
LEMMA LiveStep ==
  ASSUME IInv, IInv', ContextsLive, [CompressionNext]_vars
  PROVE  ContextsLive'
<1>1. /\ DOMAIN ctx = Written..contexts - 1
      /\ Written \in Nat /\ contexts \in Nat /\ Written <= contexts
      /\ pc[write_worker] = "work" => held[write_worker] = Written /\ Written < contexts
  <2>1. DOMAIN ctx = Written..contexts - 1
    BY DEF ContextsLive, Written
  <2> QED
    BY <2>1, Pipelined
<1> SUFFICES DOMAIN ctx' = Written'..contexts' - 1
  BY DEF ContextsLive, Written
<1>2. CASE ControlStep
  <2>1. ctx' = ctx /\ Written' = Written /\ contexts' = contexts
    BY <1>2, ControlCounts DEF ControlStep, dataVars
  <2> QED
    BY <1>1, <2>1
<1>3. CASE ChunkingWorker
  <2>1. /\ Written' = Written /\ contexts' = contexts + 1
        /\ DOMAIN ctx' = DOMAIN ctx \cup {contexts}
    BY <1>3, CutCounts DEF ChunkingWorker, Set
  <2>2. Written..(contexts + 1) - 1 = (Written..contexts - 1) \cup {contexts}
    BY <1>1
  <2> QED
    BY <1>1, <2>1, <2>2
<1>4. CASE DedupWorker \/ FeatureCalcWorker \/ MatchDuplicate \/ MatchNothing \/ MatchBase
  <2>1. DOMAIN ctx' = DOMAIN ctx
    BY <1>4 DEF DedupWorker, FeatureCalcWorker, MatchDuplicate, MatchNothing, MatchBase,
       dataVars
  <2>2. \E w \in {dedup_worker, feature_worker, match_worker} : Process(w)
    BY <1>4 DEF DedupWorker, FeatureCalcWorker, MatchDuplicate, MatchNothing, MatchBase
  <2>3. Written' = Written /\ contexts' = contexts
    BY <2>2, ProcessCounts
  <2> QED
    BY <1>1, <2>1, <2>3
<1>5. CASE ChunkWriteWorker
  <2>1. WriteOut /\ pc[write_worker] = "work" /\ ctx' = Delete(ctx, held[write_worker])
    BY <1>5 DEF ChunkWriteWorker, WriteOut
  <2>2. Written' = Written + 1 /\ contexts' = contexts
    BY <2>1, WriteCounts
  <2>3. DOMAIN ctx' = (Written..contexts - 1) \ {Written}
    BY <1>1, <2>1 DEF Delete
  <2>4. (Written..contexts - 1) \ {Written} = Written + 1..contexts - 1
    BY <1>1
  <2> QED
    BY <2>2, <2>3, <2>4
<1>6. CASE UNCHANGED vars
  BY <1>1, <1>6 DEF vars, queueVars, dataVars, Written
<1> QED
  BY <1>2, <1>3, <1>4, <1>5, <1>6 DEF CompressionNext

\* The contexts in memory are those of the chunks between the chunker and the
\* write worker, in every state of the pipeline, for any number of chunks.
THEOREM ContextsAreLive == CompressionSpec => []ContextsLive
<1>1. CompressionInit => IInv /\ ContextsLive
  <2> SUFFICES ASSUME CompressionInit PROVE ContextsLive
    BY InvInit DEF CompressionInit
  <2>1. DOMAIN ctx = {} /\ passed[5] = 0 /\ contexts = 0
    BY DEF CompressionInit, Init, Workers
  <2> QED
    BY <2>1 DEF ContextsLive, write_worker
<1>2. IInv /\ ContextsLive /\ [CompressionNext]_vars => (IInv /\ ContextsLive)'
  BY StepOfQueues, InvNext, LiveStep
<1> QED
  BY <1>1, <1>2, PTL DEF CompressionSpec

\* When what is kept of a chunk is always below the cache limit, the pipeline
\* runs into neither of its aborts, as long as no id comes back: every chunk
\* that reaches the write worker is classified, and the cache always finds a
\* node to evict.
THEOREM NothingAborts ==
  ASSUME Fits
  PROVE  CompressionSpec /\ []FewChunks => []NeverAborts
<1>1. DInv => NeverAborts
  BY DEF DInv, CacheAlive, NeverAborts
<1> QED
  BY <1>1, DInvAlways, PTL

\* What the cache holds for an id is what the store holds for it, as long as
\* no id comes back.
THEOREM CacheIsCoherent == CompressionSpec /\ []FewChunks => []CacheCoherent
<1>1. DInv => CacheCoherent
  BY CachedIsStored DEF DInv, RecordsOK, CacheCoherent
<1> QED
  BY <1>1, DInvAlways, PTL

\* The store is what its readers take it for, in every state of the pipeline,
\* as long as no id comes back: next_chunk_id_ is a uint32_t, and the base of a
\* duplicate that has an id for the second time leads to another chunk's record.
THEOREM StoreIsFaithful == CompressionSpec /\ []FewChunks => []StoreFaithful
<1>1. ASSUME DInv PROVE StoreFaithful
  <2>1. /\ StoreOK(storage_) /\ Len(storage_.meta) = Written
        /\ Faithful(storage_, cut) /\ StatsExact
    BY <1>1 DEF DInv, RecordsOK, CountsOK
  <2>2. storage_.mpos = Len(storage_.meta) /\ storage_.dpos = Len(storage_.data)
    BY <2>1 DEF StoreOK
  <2>3. /\ Written \in Nat /\ Matched \in Nat /\ Deduped \in Nat /\ contexts \in Nat
        /\ Written <= Matched /\ Matched <= Featured /\ Featured <= Deduped
        /\ Deduped <= contexts /\ Featured \in Nat
    BY <1>1, Known
  <2>4. ASSUME NEW i \in 1..Len(storage_.meta)
        PROVE  LET m == storage_.meta[i] IN
               ChunkContent(storage_, IF m.type = DuplicateChunk THEN m.base ELSE i - 1)
                 = Kept(cut[i])
    <3> DEFINE n == i - 1
               m == storage_.meta[i]
    <3>1. n < Written /\ n \in 0..Written - 1 /\ n + 1 = i 
          /\ n \in 0..contexts - 1 /\ n \in 0..Deduped - 1
      BY <2>1, <2>3
    <3>2. m.type = kinds[n] /\ m.base = bases[n]
      BY <3>1 DEF kinds, bases
    <3>3. CASE m.type # DuplicateChunk
      <4>1. n \in Owning(storage_)
        BY <2>1, <3>1, <3>3 DEF Owning
      <4> QED
        BY <2>1, <3>1, <3>3, <4>1 DEF Faithful
    <3>4. CASE m.type = DuplicateChunk
      <4>1. DedupedTo(cut, kinds, bases, Deduped)
        BY <1>1 DEF DInv, ClassesOK
      <4>2. /\ m.base \in 0..n - 1 /\ cut[m.base + 1] = cut[n + 1]
            /\ FirstOfIts(cut, m.base)
        BY <3>1, <3>2, <3>4, <4>1 DEF DedupedTo
      <4>3. m.base < Written /\ m.base \in 0..Written - 1
            /\ m.base \in 0..contexts - 1 /\ m.base \in 0..Deduped - 1
        BY <2>3, <3>1, <4>2
      <4>4. kinds[m.base] # DuplicateChunk
        BY <4>1, <4>2, <4>3 DEF DedupedTo
      <4>5. storage_.meta[m.base + 1].type # DuplicateChunk
        BY <4>3, <4>4 DEF kinds
      <4>6. m.base \in Owning(storage_)
        BY <2>1, <4>3, <4>5 DEF Owning
      <4>7. ChunkContent(storage_, m.base) = Kept(cut[m.base + 1])
        BY <2>1, <4>6 DEF Faithful
      <4> QED
        BY <3>1, <3>4, <4>2, <4>7
    <3> QED
      BY <3>3, <3>4
  <2> QED
    BY <2>1, <2>2, <2>4 DEF StoreFaithful, Written
<1> QED
  BY <1>1, DInvAlways, PTL
-----------------------------------------------------------------------------
\* The pipeline runs the thread protocol: whatever is proved of the queues and
\* threads alone holds of the pipeline that processes data.
THEOREM RunsTheQueues == CompressionSpec => Spec
<1>1. CompressionInit => Init
  BY DEF CompressionInit
<1>2. [CompressionNext]_vars => [Next]_queueVars
  BY StepOfQueues
<1> QED
  BY <1>1, <1>2, PTL DEF CompressionSpec, Spec

\* What the store holds, as the abstract specification sees it.
StoredInput == SubSeq(cut, 1, Len(storage_.meta))

StoredRecords ==
  [i \in 1..Len(storage_.meta) |-> [type |-> TypeName(storage_.meta[i].type),
                                    base |-> storage_.meta[i].base]]

\* The stored chunks and the classes of their records.
LEMMA StoredIs ==
  ASSUME DInv
  PROVE  /\ StoredInput = SubSeq(cut, 1, Written) /\ StoredInput \in Seq(Contents)
         /\ Len(StoredInput) = Written /\ Len(storage_.meta) = Written
         /\ \A i \in 1..Written : StoredInput[i] = cut[i]
         /\ DOMAIN StoredRecords = 1..Written
         /\ \A i \in 1..Written :
              StoredRecords[i] = [type |-> TypeName(kinds[i - 1]), base |-> bases[i - 1]]
<1>1. /\ Written \in Nat /\ contexts \in Nat /\ Written <= contexts
      /\ cut \in Seq(Contents) /\ Len(cut) = contexts
      /\ Len(storage_.meta) = Written
  <2>1. Written \in Nat /\ Matched \in Nat /\ Featured \in Nat /\ Deduped \in Nat
        /\ contexts \in Nat /\ Written <= Matched /\ Matched <= Featured
        /\ Featured <= Deduped /\ Deduped <= contexts
        /\ cut \in Seq(Contents) /\ Len(cut) = contexts
        /\ Len(storage_.meta) = Written
    BY Known
  <2> QED
    BY <2>1
<1>2. ASSUME NEW i \in 1..Written
      PROVE  storage_.meta[i].type = kinds[i - 1] /\ storage_.meta[i].base = bases[i - 1]
  <2>1. i - 1 \in 0..contexts - 1 /\ i - 1 < Written /\ (i - 1) + 1 = i
    BY <1>1
  <2> QED
    BY <2>1 DEF kinds, bases
<1>3. \A i \in 1..Written :
        StoredRecords[i] = [type |-> TypeName(kinds[i - 1]), base |-> bases[i - 1]]
  BY <1>1, <1>2 DEF StoredRecords
<1>4. DOMAIN StoredRecords = 1..Written
  BY <1>1 DEF StoredRecords
<1>5. /\ StoredInput = SubSeq(cut, 1, Written) /\ StoredInput \in Seq(Contents)
      /\ Len(StoredInput) = Written
      /\ \A i \in 1..Written : StoredInput[i] = cut[i]
  BY <1>1 DEF StoredInput
<1> QED
  BY <1>1, <1>3, <1>4, <1>5

\* The class decided for the chunk in hand is one that the abstract
\* specification allows after the chunks stored before it.
LEMMA ClassAllowed ==
  ASSUME DInv, pc[write_worker] = "work"
  PROVE  [type |-> TypeName(kinds[Written]), base |-> bases[Written]]
           \in Store!Records(cut[Written + 1])
<1> USE DEF BaseChunk, DeltaChunk, DuplicateChunk
<1> DEFINE c == cut[Written + 1]
           r == [type |-> TypeName(kinds[Written]), base |-> bases[Written]]
<1>1. /\ Written \in Nat /\ Matched \in Nat /\ Deduped \in Nat /\ contexts \in Nat
      /\ Written < Matched /\ Matched <= Deduped /\ Deduped <= contexts
  BY InHand, Known
<1>2. /\ Written \in 0..Matched - 1 /\ Written \in 0..Deduped - 1
  BY <1>1
<1>3. /\ DedupedTo(cut, kinds, bases, Deduped)
      /\ MatchedTo(Similar, cut, kinds, bases, Matched)
  BY DEF DInv, ClassesOK
<1>4. /\ kinds[Written] = DuplicateChunk <=> ~FirstOfIts(cut, Written)
      /\ kinds[Written] = DuplicateChunk =>
           /\ bases[Written] \in 0..Written - 1
           /\ cut[bases[Written] + 1] = c
           /\ FirstOfIts(cut, bases[Written])
  BY <1>2, <1>3 DEF DedupedTo
<1>5. /\ kinds[Written] \in {BaseChunk, DeltaChunk, DuplicateChunk}
      /\ kinds[Written] = DeltaChunk =>
           /\ bases[Written] \in 0..Written - 1
           /\ kinds[bases[Written]] = BaseChunk
           /\ <<c, cut[bases[Written] + 1]>> \in Similar
      /\ kinds[Written] = BaseChunk =>
           /\ bases[Written] = Written
           /\ \A m \in 0..Written - 1 : kinds[m] = BaseChunk => <<c, cut[m + 1]>> \notin Similar
  BY <1>2, <1>3 DEF MatchedTo
<1>6. Store!Before(c) = {i \in 1..Written : cut[i] = c}
  <2>1. Store!Before(c) = {i \in 1..Len(StoredInput) : StoredInput[i] = c}
    BY DEF Store!Before, StoredInput
  <2> HIDE DEF c
  <2> QED
    BY <2>1, StoredIs
<1>7. Store!SimilarBases(c) =
        {i \in 1..Written : kinds[i - 1] = BaseChunk /\ <<c, cut[i]>> \in Similar}
  <2>1. Store!SimilarBases(c) =
          {i \in 1..Len(StoredInput) :
             StoredRecords[i].type = "base" /\ <<c, StoredInput[i]>> \in Similar}
    BY DEF Store!SimilarBases, StoredInput, StoredRecords
  <2> HIDE DEF c
  <2>2. \A i \in 1..Written : StoredRecords[i].type = "base" <=> kinds[i - 1] = BaseChunk
    BY StoredIs DEF TypeName
  <2> QED
    BY <2>1, <2>2, StoredIs
<1>8. Len(StoredInput) = Written
  BY StoredIs
<1>9. Store!Records(c) =
        IF Store!Before(c) # {}
          THEN {[type |-> "duplicate", base |-> Store!Min(Store!Before(c)) - 1]}
        ELSE IF Store!SimilarBases(c) # {}
          THEN {[type |-> "delta", base |-> i - 1] : i \in Store!SimilarBases(c)}
        ELSE {[type |-> "base", base |-> Len(StoredInput)]}
  BY DEF Store!Records, StoredInput
<1> HIDE DEF c, r
<1>10. ASSUME kinds[Written] = DuplicateChunk PROVE r \in Store!Records(c)
  <2>1. r = [type |-> "duplicate", base |-> bases[Written]]
    BY <1>10 DEF r, TypeName
  <2>2. bases[Written] \in 0..Written - 1 /\ cut[bases[Written] + 1] = c
        /\ FirstOfIts(cut, bases[Written])
    BY <1>4, <1>10
  <2>3. bases[Written] + 1 \in Store!Before(c)
    BY <1>1, <1>6, <2>2
  <2>4. \A i \in Store!Before(c) : bases[Written] + 1 <= i
    <3> SUFFICES ASSUME NEW i \in 1..Written, cut[i] = c, i < bases[Written] + 1
                 PROVE  FALSE
      BY <1>1, <1>6, <2>2
    <3>1. i - 1 \in 0..bases[Written] - 1 /\ (i - 1) + 1 = i
      BY <1>1, <2>2
    <3> QED
      BY <2>2, <3>1 DEF FirstOfIts
  <2>5. Store!Min(Store!Before(c)) = bases[Written] + 1
    <3>1. Store!Before(c) \subseteq Int
      BY <1>6
    <3>2. bases[Written] + 1 \in Int
      BY <2>2
    <3> QED
      BY <2>3, <2>4, <3>1, <3>2 DEF Store!Min
  <2> QED
    BY <1>9, <2>1, <2>2, <2>3, <2>5 DEF r
<1>11. ASSUME kinds[Written] # DuplicateChunk PROVE r \in Store!Records(c)
  <2>1. Store!Before(c) = {}
    <3> SUFFICES ASSUME NEW i \in 1..Written, cut[i] = c PROVE FALSE
      BY <1>6
    <3>1. i - 1 \in 0..Written - 1 /\ (i - 1) + 1 = i
      BY <1>1
    <3>2. FirstOfIts(cut, Written)
      BY <1>4, <1>11
    <3> QED
      BY <3>1, <3>2 DEF FirstOfIts, c
  <2>2. CASE kinds[Written] = DeltaChunk
    <3>1. r = [type |-> "delta", base |-> bases[Written]]
      BY <2>2 DEF r, TypeName
    <3>2. /\ bases[Written] \in 0..Written - 1 /\ kinds[bases[Written]] = BaseChunk
          /\ <<c, cut[bases[Written] + 1]>> \in Similar
      BY <1>5, <2>2
    <3>3. /\ bases[Written] + 1 \in 1..Written
          /\ (bases[Written] + 1) - 1 = bases[Written]
      BY <1>1, <3>2
    <3>4. bases[Written] + 1 \in Store!SimilarBases(c)
      BY <1>7, <3>2, <3>3
    <3> QED
      BY <1>9, <2>1, <3>1, <3>3, <3>4 DEF r
  <2>3. CASE kinds[Written] = BaseChunk
    <3>1. r = [type |-> "base", base |-> Written]
      BY <1>5, <2>3 DEF r, TypeName
    <3>2. Store!SimilarBases(c) = {}
      <4> SUFFICES ASSUME NEW i \in 1..Written, kinds[i - 1] = BaseChunk,
                          <<c, cut[i]>> \in Similar
                   PROVE  FALSE
        BY <1>7
      <4>1. i - 1 \in 0..Written - 1 /\ (i - 1) + 1 = i
        BY <1>1
      <4> QED
        BY <1>5, <2>3, <4>1
    <3> QED
      BY <1>8, <1>9, <2>1, <3>1, <3>2 DEF r
  <2> QED
    BY <1>5, <1>11, <2>2, <2>3
<1> QED
  BY <1>10, <1>11 DEF r, c

\* The write worker stores a chunk in the abstract store.
LEMMA WriteStores ==
  ASSUME DInv, DInv', ChunkWriteWorker
  PROVE  Store!Next
<1> DEFINE c == cut[Written + 1]
           r == [type |-> TypeName(kinds[Written]), base |-> bases[Written]]
<1>1. /\ Written' = Written + 1 /\ cut' = cut /\ pc[write_worker] = "work"
  BY WriteStep
<1>2. /\ Written \in 0..contexts - 1 /\ c \in Contents
  BY <1>1, InHand
<1>3. /\ contexts \in Nat /\ cut \in Seq(Contents) /\ Len(cut) = contexts
  BY Known
<1>4. /\ StoredInput = SubSeq(cut, 1, Written)
      /\ DOMAIN StoredRecords = 1..Written
      /\ \A i \in 1..Written :
           StoredRecords[i] = [type |-> TypeName(kinds[i - 1]), base |-> bases[i - 1]]
  BY StoredIs
<1>5. /\ StoredInput' = SubSeq(cut', 1, Written')
      /\ DOMAIN StoredRecords' = 1..Written'
      /\ \A i \in 1..Written' :
           StoredRecords'[i] = [type |-> TypeName(kinds'[i - 1]), base |-> bases'[i - 1]]
  <2>1. Len(storage_'.meta) = Written'
    BY DEF DInv, RecordsOK
  <2>2. cut' \in Seq(Contents) /\ Len(cut') = contexts'
    BY DEF DInv, ContextsOK
  <2>3. contexts' = contexts
    BY WriteStep
  <2>4. StoredInput' = SubSeq(cut', 1, Written')
    BY <2>1 DEF StoredInput
  <2>5. DOMAIN StoredRecords' = 1..Written'
    BY <2>1 DEF StoredRecords
  <2>6. ASSUME NEW i \in 1..Written'
        PROVE  StoredRecords'[i] = [type |-> TypeName(kinds'[i - 1]), base |-> bases'[i - 1]]
    <3>1. i - 1 \in 0..contexts' - 1 /\ i - 1 < Written' /\ (i - 1) + 1 = i
      BY <1>1, <1>2, <1>3, <2>3
    <3>2. storage_'.meta[i].type = kinds'[i - 1] /\ storage_'.meta[i].base = bases'[i - 1]
      BY <3>1 DEF kinds, bases
    <3> QED
      BY <2>1, <3>2 DEF StoredRecords
  <2> QED
    BY <2>4, <2>5, <2>6
<1>6. StoredInput' = Append(StoredInput, c)
  <2>1. Written \in 0..Len(cut) - 1
    BY <1>2, <1>3
  <2>2. SubSeq(cut, 1, Written + 1) = Append(SubSeq(cut, 1, Written), cut[Written + 1])
    BY <1>3, <2>1, PrefixGrows
  <2> QED
    BY <1>1, <1>4, <1>5, <2>2
<1> HIDE DEF c
<1>7. StoredRecords' = Append(StoredRecords, r)
  <2>1. \A n \in 0..contexts - 1 : kinds'[n] = kinds[n] /\ bases'[n] = bases[n]
    BY WriteKeepsClasses
  <2>2. \A i \in 1..Written + 1 : i - 1 \in 0..contexts - 1
    BY <1>2, <1>3
  <2>3. \A i \in 1..Written + 1 :
          StoredRecords'[i] = [type |-> TypeName(kinds[i - 1]), base |-> bases[i - 1]]
    BY <1>1, <1>5, <2>1, <2>2
  <2> DEFINE old == StoredRecords
             new == StoredRecords'
             R == {[type |-> TypeName(kinds[n]), base |-> bases[n]] : n \in 0..contexts - 1}
  <2>4. \A i \in 1..Written + 1 : StoredRecords'[i] \in R
    BY <2>2, <2>3
  <2>5. \A i \in 1..Written : StoredRecords[i] \in R
    <3>1. \A i \in 1..Written : i \in 1..Written + 1
      BY <1>2
    <3> QED
      BY <1>4, <2>2, <3>1
  <2>6. r \in R
    BY <1>2
  <2>7. \A i \in 1..Written : new[i] = old[i]
    <3>1. \A i \in 1..Written : i \in 1..Written + 1
      BY <1>2
    <3> QED
      BY <1>4, <2>3, <3>1
  <2>8. new[Written + 1] = r
    <3>1. Written + 1 \in 1..Written + 1 /\ (Written + 1) - 1 = Written
      BY <1>2
    <3> QED
      BY <2>3, <3>1
  <2>9. DOMAIN new = 1..Written + 1 /\ DOMAIN old = 1..Written
    BY <1>1, <1>4, <1>5
  <2>10. new = [i \in 1..Written + 1 |-> new[i]] /\ old = [i \in 1..Written |-> old[i]]
    BY <2>9 DEF StoredRecords
  <2> HIDE DEF old, new, R, r
  <2>11. new \in Seq(R) /\ Len(new) = Written + 1 /\ old \in Seq(R) /\ Len(old) = Written
    BY <1>2, <2>4, <2>5, <2>9, <2>10 DEF old, new
  <2>12. Append(old, r) \in Seq(R) /\ Len(Append(old, r)) = Written + 1
         /\ \A i \in 1..Written + 1 : new[i] = Append(old, r)[i]
    BY <1>2, <2>6, <2>7, <2>8, <2>11
  <2>13. new = Append(old, r)
    BY <2>11, <2>12, SeqEqual
  <2> QED
    BY <2>13 DEF old, new, r
<1>8. r \in Store!Records(c)
  BY <1>1, ClassAllowed DEF c
<1>9. PICK x \in Contents : x = c
  BY <1>2
<1>10. Store!Store(x)
  <2>1. StoredInput' = Append(StoredInput, x) /\ r \in Store!Records(x)
    BY <1>6, <1>8, <1>9
  <2> QED
    BY <1>7, <2>1 DEF Store!Store, StoredInput, StoredRecords
<1> QED
  BY <1>10 DEF Store!Next

\* No other step is seen in the abstract store.
LEMMA OthersStutter ==
  ASSUME DInv, UNCHANGED storage_,
         cut' = cut \/ \E x \in Contents : cut' = Append(cut, x)
  PROVE  UNCHANGED <<StoredInput, StoredRecords>>
<1>1. cut \in Seq(Contents) /\ Len(storage_.meta) \in 0..Len(cut)
  <2>1. Written \in Nat /\ Written <= Len(cut) /\ Len(storage_.meta) = Written
        /\ cut \in Seq(Contents)
    BY Known
  <2> QED
    BY <2>1
<1>2. ASSUME NEW x \in Contents, cut' = Append(cut, x)
      PROVE  StoredInput' = StoredInput
  BY <1>1, <1>2, PrefixKept DEF StoredInput
<1> QED
  BY <1>2 DEF StoredInput, StoredRecords

\* The pipeline implements the sequential specification of the chunk store, in
\* which ids do not come back, as long as they do not.
THEOREM PipelineImplementsStore ==
  CompressionSpec /\ []FewChunks => ImplementsStore
<1>1. CompressionInit => Store!Init
  <2> SUFFICES ASSUME CompressionInit PROVE Store!Init
    OBVIOUS
  <2>1. cut = <<>> /\ storage_.meta = <<>>
    BY DEF CompressionInit, EmptyStore
  <2> QED
    BY <2>1 DEF Store!Init
<1>2. DInv /\ DInv' /\ [CompressionNext]_vars =>
        [Store!Next]_<<StoredInput, StoredRecords>>
  <2> SUFFICES ASSUME DInv, DInv', [CompressionNext]_vars,
                      ~UNCHANGED <<StoredInput, StoredRecords>>
               PROVE  Store!Next
    OBVIOUS
  <2>1. CASE UNCHANGED vars \/ (CompressionNext /\ ~ChunkWriteWorker)
    <3>1. UNCHANGED storage_ /\ (cut' = cut \/ \E x \in Contents : cut' = Append(cut, x))
      <4>1. ASSUME ChunkingWorker PROVE \E x \in Contents : cut' = Append(cut, x)
        <5>1. Head(pending) \in Contents
          BY <4>1 DEF ChunkingWorker, CutChunk, DInv, IInv, TypeOK
        <5> QED
          BY <4>1, <5>1 DEF ChunkingWorker
      <4> QED
        BY <2>1, <4>1 DEF CompressionNext, ControlStep, ChunkingWorker, DedupWorker,
           FeatureCalcWorker, MatchDuplicate, MatchNothing, MatchBase, vars, dataVars
    <3> QED
      BY <3>1, OthersStutter
  <2>2. CASE ChunkWriteWorker
    BY <2>2, WriteStores
  <2> QED
    BY <2>1, <2>2
<1>3. [Store!Next]_<<StoredInput, StoredRecords>> =>
        [Store!Next]_<<SubSeq(cut, 1, Len(storage_.meta)),
                       [i \in 1..Len(storage_.meta) |->
                         [type |-> TypeName(storage_.meta[i].type),
                          base |-> storage_.meta[i].base]]>>
  BY DEF StoredInput, StoredRecords
<1> QED
  BY <1>1, <1>2, <1>3, DInvAlways, PTL DEF CompressionSpec, ImplementsStore, Store!Spec
=============================================================================
