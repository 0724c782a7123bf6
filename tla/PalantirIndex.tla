--------------------------- MODULE PalantirIndex ---------------------------
(***************************************************************************)
(* The index of the default configuration (index/palantir_index.cpp):      *)
(* levels of super features, the last of which also holds the float that   *)
(* comes last in a feature.  It is driven as both compressors drive it: a  *)
(* chunk for which no base is found is entered as a base.                  *)
(***************************************************************************)
EXTENDS SuperFeatureIndex, FeatureCalculator

CONSTANT MaxChunks   \* bound: chunks

ASSUME PalantirAssumption == Counts # <<>> /\ MaxChunks \in Nat

Features == {c.feature : c \in Computed}

VARIABLES levels_,  \* the levels
          nextId,   \* id of the next chunk
          bases     \* history: the base chunks, a set of features with ids

-----------------------------------------------------------------------------
\* The level that the k-th part of a feature is looked up in and entered in.
LevelOf(k) == Min({k, Len(Counts)})

\* The parts of a feature for which some base is found.
Hits(f) == {k \in DOMAIN f : GetBaseChunkID(levels_[LevelOf(k)], f[k]) # {}}

\* PalantirIndex::GetBaseChunkID: the first part for which there is a base.
BaseChunkIDs(f) ==
  UNION {GetBaseChunkID(levels_[LevelOf(k)], f[k]) : k \in {j \in Hits(f) : j = Min(Hits(f))}}

\* Mutant: the float is not entered.
AddFeaturesNoFloat(f, id) ==
  [k \in DOMAIN levels_ |-> AddFeature(levels_[k], f[k], id)]

\* PalantirIndex::AddFeature.
AddFeatures(f, id) ==
  LET entered == [k \in DOMAIN levels_ |-> AddFeature(levels_[k], f[k], id)] IN
  [entered EXCEPT ![Len(Counts)] = AddFeature(@, f[Len(f)], id)]

Init ==
  /\ levels_ = [k \in DOMAIN Counts |-> EmptyIndex(Counts[k])]
  /\ nextId = 0
  /\ bases = {}

\* Mutant: delta chunks are entered as well.
AddDeltaEntered(f) ==
  /\ nextId < MaxChunks /\ BaseChunkIDs(f) # {}
  /\ levels_' = AddFeatures(f, nextId)
  /\ nextId' = nextId + 1
  /\ UNCHANGED bases

\* A chunk with a base is a delta chunk, and the index stays as it is.
AddDelta(f) ==
  /\ nextId < MaxChunks /\ BaseChunkIDs(f) # {}
  /\ nextId' = nextId + 1
  /\ UNCHANGED <<levels_, bases>>

\* A chunk without a base becomes one.
AddBase(f) ==
  /\ nextId < MaxChunks /\ BaseChunkIDs(f) = {}
  /\ levels_' = AddFeatures(f, nextId)
  /\ nextId' = nextId + 1
  /\ bases' = bases \cup {[feature |-> f, id |-> nextId]}

Next == \E f \in Features : AddDelta(f) \/ AddBase(f)
-----------------------------------------------------------------------------
\* The parts that two features have in common.
Common(f, g) ==
  {k \in 1..Len(Counts) : \E i \in 1..Counts[k] : f[k].v[i] = g[k].v[i]}
    \cup {k \in {Len(Counts) + 1} : Near(f[k].v, g[k].v)}

\* The similarity that both compressors assume of the index: a base is found if
\* and only if some base has a super feature in the same place or a near float,
\* and what is found is such a base, on the best level there is one.
LookupAgrees ==
  \A f \in Features :
    LET similar == {b \in bases : Common(f, b.feature) # {}}
        best    == Min(UNION {Common(f, b.feature) : b \in similar})
    IN IF similar = {} THEN BaseChunkIDs(f) = {}
       ELSE /\ BaseChunkIDs(f) # {}
            /\ BaseChunkIDs(f) \subseteq
                 {b.id : b \in {c \in similar : best \in Common(f, c.feature)}}

\* The sub features that a group of the given level hashes: all but the first.
Hashed(k, i) ==
  LET n == features_num \div Counts[k] IN (i - 1) * n + 2..i * n

\* Two chunks agree on the least transforms of a group.
Agree(c, d) ==
  \E k \in DOMAIN Counts : \E i \in 1..Counts[k] :
    \A j \in Hashed(k, i) : c.least[j] = d.least[j]

\* Features of chunks, with those of the chunks that agree with them.
Similar ==
  {[feature |-> c.feature, similar |-> {d.feature : d \in {x \in Computed : Agree(c, x)}}] :
     c \in Computed}

\* A chunk that agrees with a base on the least transforms of some group finds
\* a base, whatever else differs.
SimilarFound ==
  \A b \in bases : \A s \in Similar :
    s.feature = b.feature => \A f \in s.similar : BaseChunkIDs(f) # {}

\* A chunk with the content of a base chunk is matched with that base and with
\* no other: bases stay retrievable however many follow.
FindsItself == \A b \in bases : BaseChunkIDs(b.feature) = {b.id}

\* No entry is overwritten or lost in a step.
EntriesKept ==
  \A k \in DOMAIN levels_ :
    /\ \A i \in DOMAIN levels_[k].sf : \A x \in DOMAIN levels_[k].sf[i] :
         x \in DOMAIN levels_'[k].sf[i] /\ levels_'[k].sf[i][x] = levels_[k].sf[i][x]
    /\ \A x \in DOMAIN levels_[k].float :
         x \in DOMAIN levels_'[k].float /\ levels_'[k].float[x] = levels_[k].float[x]
=============================================================================
