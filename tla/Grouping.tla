------------------------------ MODULE Grouping ------------------------------
(***************************************************************************)
(* Grouping (Storage::dividByBase and Storage::groupByBase): the chunks of *)
(* the store are read back and compressed together with the other chunks   *)
(* of the same base.  Which chunks go into one compressed frame, and in    *)
(* which order, is what the algorithm decides; LZ4 and zstd are external.  *)
(* A frame is the sequence of the numbers of the records it is made from.  *)
(***************************************************************************)
EXTENDS Storage

CONSTANT GroupSize   \* group_size, and the 16 written out in groupByBase

ASSUME GroupingAssumption == GroupSize \in Nat \ {0}

\* The numbers of a set in ascending order, which is that of the records in the
\* meta file and of the keys in a std::map.
InOrder(S) ==
  [k \in 1..Cardinality(S) |-> CHOOSE x \in S : Cardinality({y \in S : y <= x}) = k]

\* dividByBase: the groups are keyed by base id, and a group lists the delta
\* chunks in the order of the meta file.  Duplicates are in no group.
GroupKeys(meta) ==
  {meta[i].base : i \in {j \in 1..Len(meta) : meta[j].type \in {BaseChunk, DeltaChunk}}}

DeltasOf(meta, base) ==
  InOrder({n \in 0..Len(meta) - 1 : /\ meta[n + 1].type = DeltaChunk
                                    /\ meta[n + 1].base = base})

dividByBase(meta) == [base \in GroupKeys(meta) |-> DeltasOf(meta, base)]

\* The k-th group of at most GroupSize delta chunks.
ChunkGroup(deltas, k) ==
  SubSeq(deltas, (k - 1) * GroupSize + 1, Min({k * GroupSize, Len(deltas)}))

\* Mutant: the base of full groups is forgotten.
FramesNoLoneBase(base, deltas) ==
  IF deltas = <<>> THEN <<<<base>>>>
  ELSE LET n == (Len(deltas) + GroupSize - 1) \div GroupSize
       IN [k \in 1..n |->
             LET chunk_group == ChunkGroup(deltas, k) IN
             IF Len(chunk_group) < GroupSize THEN <<base>> \o chunk_group
                                             ELSE chunk_group]

\* The frames of one base: alone if it has no deltas; otherwise the base goes
\* with the last group if that is short, and into a frame of its own if not.
Frames(base, deltas) ==
  IF deltas = <<>> THEN <<<<base>>>>
  ELSE LET n == (Len(deltas) + GroupSize - 1) \div GroupSize
       IN [k \in 1..n |->
             LET chunk_group == ChunkGroup(deltas, k) IN
             IF Len(chunk_group) < GroupSize THEN <<base>> \o chunk_group
                                             ELSE chunk_group]
          \o (IF Len(deltas) % GroupSize = 0 THEN <<<<base>>>> ELSE <<>>)

\* groupByBase: the frames it compresses, in the order of the std::map.
groupByBase(meta) ==
  LET grouped == dividByBase(meta)
      bases   == InOrder(DOMAIN grouped)
  IN FlattenSeq([i \in 1..Len(bases) |-> Frames(bases[i], grouped[bases[i]])])

\* ... the lengths it adds to total_size_origin_, of delta chunks only ...
GroupedDeltaSize(meta) ==
  LET upTo[n \in 0..Len(meta)] ==
        IF n = 0 THEN 0
        ELSE upTo[n - 1] + (IF meta[n].type = DeltaChunk THEN meta[n].size ELSE 0)
  IN upTo[Len(meta)]

\* ... and its counts of groups with more than one delta, and of their deltas.
LargeGroups(meta) == {base \in GroupKeys(meta) : Len(DeltasOf(meta, base)) > 1}
GroupedBlocks(meta) ==
  FoldSeq(LAMBDA m, sum : sum + (IF m.type = DeltaChunk /\ m.base \in LargeGroups(meta)
                                   THEN 1 ELSE 0), 0, meta)
=============================================================================
