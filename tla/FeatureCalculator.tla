------------------------- MODULE FeatureCalculator -------------------------
(***************************************************************************)
(* What the indexes are given: OdessSubfeatures and PalantirFeature        *)
(* (feature/features.cpp) and the share of zero bytes (ZERO_CAL in         *)
(* storage/our_feature.cpp).  The tables are parameters.  A word is the 32 *)
(* bits of a fingerprint and of a transform, and a byte of a sub feature   *)
(* stands for four: a sub feature is stored in 64 bits, of which the upper *)
(* half is zero because the transform is computed in 32.                   *)
(***************************************************************************)
EXTENDS Integers, SequencesExt, FiniteSetsExt

CONSTANTS WordSize,     \* values of a word (2^32)
          HashSize,     \* values of a super feature (2^64)
          GEAR_TABLE,   \* a number for each byte
          M, A,         \* the linear transforms, one for each sub feature
          SampleEvery,  \* a fingerprint is sampled if it is a multiple (128)
          Counts,       \* number of super features of each level (3, 4, 6)
          Chunks,       \* contents of chunks
          ZeroSteps     \* steps in which the share of zeros is counted

ASSUME TablesAssumption ==
  /\ WordSize \in Nat \ {0} /\ HashSize \in Nat \ {0}
  /\ GEAR_TABLE \in [0..WordSize - 1 -> Nat]
  /\ M \in Seq(Nat) /\ A \in Seq(Nat) /\ M # <<>> /\ Len(A) = Len(M)
  /\ Counts \in Seq(Nat \ {0}) /\ \A k \in DOMAIN Counts : Len(M) % Counts[k] = 0
  /\ Chunks \subseteq Seq(0..WordSize - 1) /\ \A c \in Chunks : Len(c) > 0    \* of bytes
  /\ ZeroSteps \in Nat

features_num == Len(M)

\* finger_print after another byte.
Roll(finger_print, b) == (2 * finger_print + GEAR_TABLE[b]) % WordSize

Transform(finger_print, j) == (M[j] * finger_print + A[j]) % WordSize

Sampled(finger_print) == finger_print % SampleEvery = 0

\* The fingerprints after the first n bytes.
FingerPrints(content) ==
  LET finger_print[n \in 0..Len(content)] ==
        IF n = 0 THEN 0 ELSE Roll(finger_print[n - 1], content[n])
  IN finger_print

\* Mutant: a sub feature that is still zero counts as the least.
TakeLeastOrZero(sub, t) == IF sub >= t THEN t ELSE sub

\* A sub feature is the least transform so far; zero stands for none.
TakeLeast(sub, t) == IF sub >= t \/ sub = 0 THEN t ELSE sub

\* The sub features sub after a byte that makes the fingerprint finger_print.
Sample(sub, finger_print) ==
  IF Sampled(finger_print)
    THEN [j \in 1..features_num |-> TakeLeast(sub[j], Transform(finger_print, j))]
    ELSE sub

\* OdessSubfeatures.
OdessSubfeatures(content) ==
  LET finger_print == FingerPrints(content)
      sub_features[n \in 0..Len(content)] ==
        IF n = 0 THEN [j \in 1..features_num |-> 0]
                 ELSE Sample(sub_features[n - 1], finger_print[n])
  IN sub_features[Len(content)]

\* The bytes of the sub features in memory, the lower half of each first.
HashBuf(sub) ==
  [m \in 1..2 * Len(sub) |-> IF m % 2 = 1 THEN sub[(m + 1) \div 2] ELSE 0]

\* The hash of bytes.
HashValue(bytes) ==
  FoldLeft(LAMBDA hash_value, b : (2 * hash_value + GEAR_TABLE[b]) % HashSize, 0, bytes)

\* group: a super feature is a hash of the bytes of its sub features.  The loop
\* starts at byte 4 of 8, and leaves out the lower half of the first.
Group(sub, sf_cnt) ==
  LET bytes == 2 * (features_num \div sf_cnt) IN
  [i \in 1..sf_cnt |->
     HashValue(SubSeq(HashBuf(sub), (i - 1) * bytes + 2, i * bytes))]

\* ZERO_CAL: the share of zeros.
ZeroCal(content) ==
  (Cardinality({n \in 1..Len(content) : content[n] = 0}) * ZeroSteps) \div Len(content)

\* PalantirFeature: the super features of each level, and the float.
PalantirFeature(content) ==
  LET sub == OdessSubfeatures(content) IN
  Append([k \in 1..Len(Counts) |-> [kind |-> "sf", v |-> Group(sub, Counts[k])]],
         [kind |-> "float", v |-> ZeroCal(content)])
-----------------------------------------------------------------------------
\* Where the fingerprint is sampled.
Samples(content) == {n \in 1..Len(content) : Sampled(FingerPrints(content)[n])}

\* Reference for a sub feature: the least transform of the samples; if one of
\* them is zero, which looks like none, of those after it.
LeastTransform(content, j) ==
  LET T(n)  == Transform(FingerPrints(content)[n], j)
      zeros == {n \in Samples(content) : T(n) = 0}
      since == {n \in Samples(content) : \A z \in zeros : n > z}
  IN IF since = {} THEN 0 ELSE Min({T(n) : n \in since})

\* The chunks, as far as the indexes can tell them apart, with the reference.
Computed ==
  {[feature |-> PalantirFeature(c), sub |-> OdessSubfeatures(c),
    least |-> [j \in 1..features_num |-> LeastTransform(c, j)]] : c \in Chunks}
=============================================================================
