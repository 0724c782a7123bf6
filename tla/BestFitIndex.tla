---------------------------- MODULE BestFitIndex ----------------------------
(***************************************************************************)
(* The index of the configuration "bestfit" (index/best_fit_index.cpp):    *)
(* of the chunks that share features in the same position, the one with    *)
(* most of them is the base, if it has at least MinMatch.  It is driven as *)
(* both compressors drive it.                                              *)
(***************************************************************************)
EXTENDS Integers, Sequences, FiniteSets

CONSTANTS features_num,   \* feature_count_ (12 in the code)
          Computed,       \* chunks: what OdessSubfeatures computes of them,
                          \* and the reference for it, the least transforms
          MinMatch,       \* features that a base has in common (4 in the code)
          MaxChunks       \* bound: chunks

VARIABLES index_,   \* for each position, features with the ids entered
          nextId,   \* id of the next chunk
          bases     \* history: the least transforms of the base chunks, with ids
-----------------------------------------------------------------------------
\* The ids entered at position i for its feature.
Matched(f, i) == IF f[i] \in DOMAIN index_[i] THEN index_[i][f[i]] ELSE <<>>

\* match_count.
MatchCount(f, id) ==
  Cardinality({at \in (1..features_num) \X (1..MaxChunks) :
                 /\ at[2] <= Len(Matched(f, at[1]))
                 /\ Matched(f, at[1])[at[2]] = id})

\* The ids that GetBaseChunkID may return, none for nullopt: any that has most
\* matches, as the order of an unordered_map is unspecified.
BaseChunkIDs(f) ==
  {id \in 0..nextId - 1 :
     /\ MatchCount(f, id) >= MinMatch
     /\ \A other \in 0..nextId - 1 : MatchCount(f, other) <= MatchCount(f, id)}

\* AddFeature appends the id to those of each feature.
AddFeature(f, id) ==
  [i \in 1..features_num |->
     [x \in DOMAIN index_[i] \cup {f[i]} |->
        IF x = f[i] THEN Append(Matched(f, i), id) ELSE index_[i][x]]]

Init ==
  /\ index_ = [i \in 1..features_num |-> << >>]
  /\ nextId = 0
  /\ bases = {}

\* A chunk with a base is a delta chunk, and the index stays as it is.
AddDelta(c) ==
  /\ nextId < MaxChunks /\ BaseChunkIDs(c.sub) # {}
  /\ nextId' = nextId + 1
  /\ UNCHANGED <<index_, bases>>

\* A chunk without a base becomes one.
AddBase(c) ==
  /\ nextId < MaxChunks /\ BaseChunkIDs(c.sub) = {}
  /\ index_' = AddFeature(c.sub, nextId)
  /\ nextId' = nextId + 1
  /\ bases' = bases \cup {[least |-> c.least, id |-> nextId]}

Next == \E c \in Computed : AddDelta(c) \/ AddBase(c)
-----------------------------------------------------------------------------
\* Number of transforms whose least value two chunks have in common.
Shared(l, m) == Cardinality({i \in 1..features_num : l[i] = m[i]})

\* The base found for a chunk has at least MinMatch least transforms in common
\* with it, and no base has more; if none is found, no base has MinMatch.  A
\* chunk with the content of a base finds that base and no other.
LookupBestFit ==
  /\ \A c \in Computed :
       BaseChunkIDs(c.sub) =
         {b.id : b \in {x \in bases : /\ Shared(c.least, x.least) >= MinMatch
                                      /\ \A y \in bases :
                                           Shared(c.least, y.least) <= Shared(c.least, x.least)}}
  /\ \A b \in bases : \A c \in Computed :
       c.least = b.least => BaseChunkIDs(c.sub) = {b.id}
=============================================================================
