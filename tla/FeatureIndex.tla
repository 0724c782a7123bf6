---------------------------- MODULE FeatureIndex ----------------------------
(***************************************************************************)
(* The index that the configuration selects (the constructors in           *)
(* delta_compression.cpp and pipeline_delta_compression.cpp): Palantir's   *)
(* or the one of "bestfit", over the same sequence of chunks.  The         *)
(* features of the other types are plain vectors, which SuperFeatureIndex  *)
(* cannot take (std::get throws): there is no state to model.              *)
(***************************************************************************)
EXTENDS PalantirIndex

CONSTANT MinMatch   \* of BestFitIndex

ASSUME MatchAssumption == MinMatch \in 1..features_num

VARIABLES feature_type,   \* feature.type of the configuration
          index_          \* the index of BestFitIndex

BestFit == INSTANCE BestFitIndex

choiceVars == <<levels_, nextId, bases, feature_type, index_>>

ChoiceInit ==
  /\ feature_type \in {"palantir", "bestfit"}
  /\ Init
  /\ BestFit!Init

ChoiceNext ==
  \/ feature_type = "palantir" /\ Next /\ UNCHANGED <<feature_type, index_>>
  \/ feature_type = "bestfit" /\ BestFit!Next /\ UNCHANGED <<feature_type, levels_>>

ChoiceSpec == ChoiceInit /\ [][ChoiceNext]_choiceVars
-----------------------------------------------------------------------------
\* Palantir's index finds a base if and only if some base has a super feature in
\* the same place or a near float, on the best level there is one
\* (PalantirIndex::GetBaseChunkID), and a chunk with the features of a base finds
\* that base and no other, however many follow.
PalantirLookup == feature_type = "palantir" => LookupAgrees /\ FindsItself

\* A chunk that has the least transforms of a group of sub features in common
\* with a base finds one in Palantir's index, whatever else differs
\* (PalantirFeature).
PalantirSimilar == feature_type = "palantir" => SimilarFound

\* The best-fit index finds the bases that share most least transforms and at
\* least MinMatch, whatever the order of the hash map
\* (BestFitIndex::GetBaseChunkID) and whichever transforms come out as zero, the
\* value that stands for none (OdessSubfeatures); a chunk with the content of a
\* base finds that base and no other.
BestFitLookup == feature_type = "bestfit" => BestFit!LookupBestFit

\* With either index the loops over bytes and transforms (OdessSubfeatures) and
\* the hashing of groups let chunks be found that agree in what they sample.
SimilarIsFound == PalantirSimilar /\ BestFitLookup

\* No entry of Palantir's index is ever overwritten, although AddFeature would:
\* a chunk that shares an entry with a base is not entered.
EntriesStay == [][levels_' # levels_ => EntriesKept]_choiceVars
=============================================================================
