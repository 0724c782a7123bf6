------------------------- MODULE SuperFeatureIndex -------------------------
(***************************************************************************)
(* The index of super features (index/super_feature_index.cpp), as         *)
(* operators on its state, a record                                        *)
(*                                                                         *)
(*   sf     index_: for each position, super features with chunk ids       *)
(*   float  index_float_, which always has a single position               *)
(*                                                                         *)
(* A feature is a record of kind "sf", v being a sequence of super         *)
(* features, or of kind "float", v being an integer: floats are counted in *)
(* steps of which Threshold make up the 0.01 of the code.                  *)
(*                                                                         *)
(* DumpToFile and RecoverFromFile have no caller and are left out.         *)
(***************************************************************************)
EXTENDS Integers, Sequences, FiniteSetsExt

CONSTANT Threshold   \* distance from which two floats do not match

ASSUME ThresholdAssumption == Threshold \in Nat \ {0}

EmptyIndex(super_feature_count) ==
  [sf |-> [i \in 1..super_feature_count |-> << >>], float |-> << >>]

Near(x, y) == x - y < Threshold /\ y - x < Threshold

\* The ids that GetBaseChunkID may return, none for nullopt: of super features
\* the first position that matches decides; of floats, any that is near, as
\* the order of an unordered_map is unspecified.
GetBaseChunkID(index, f) ==
  IF f.kind = "sf"
    THEN LET hits == {i \in DOMAIN f.v : f.v[i] \in DOMAIN index.sf[i]} IN
         {index.sf[i][f.v[i]] : i \in {j \in hits : j = Min(hits)}}
    ELSE {index.float[x] : x \in {y \in DOMAIN index.float : Near(y, f.v)}}

\* An assignment to an unordered_map.
Put(table, x, id) == [y \in DOMAIN table \cup {x} |-> IF y = x THEN id ELSE table[y]]

\* AddFeature: an entry that is there already is overwritten.
AddFeature(index, f, id) ==
  IF f.kind = "sf"
    THEN [index EXCEPT !.sf = [i \in DOMAIN @ |-> Put(@[i], f.v[i], id)]]
    ELSE [index EXCEPT !.float = Put(@, f.v, id)]
=============================================================================
