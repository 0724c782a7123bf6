--------------------------- MODULE MCFeatureIndex ---------------------------
(* Chunks of up to MaxLen bytes of three values, four sub features of three *)
(* bits in one group of four and in two of two, and shares of zeros counted *)
(* in twelfths, of which a quarter is near: bases that match on every level,*)
(* by the float only, and not at all; chunks without a sample, and samples  *)
(* whose transform is zero.                                                 *)
EXTENDS FeatureIndex

CONSTANT MaxLen   \* length of the longest chunk

MCChunks == UNION {[1..n -> 0..2] : n \in 1..MaxLen}
MCCounts == <<1, 2>>
MCGear == [b \in 0..7 |-> <<3, 4, 2, 14, 5, 24, 17, 10>>[b + 1]]
MCM == <<1, 3, 5, 7>>
MCA == <<3, 5, 2, 6>>
=============================================================================
