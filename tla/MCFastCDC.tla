----------------------------- MODULE MCFastCDC -----------------------------
(* All files of up to MaxLen bytes over two byte values.  The window is      *)
(* longer than the shortest chunk that is cut, so that it matters that the   *)
(* fingerprint starts from zero at each chunk.                               *)
EXTENDS FastCDC

CONSTANT MaxLen   \* length of the longest file

MCInputs == UNION {[1..n -> Byte] : n \in 0..MaxLen}
MCStop == {<<1, 1, 1>>, <<0, 0, 1, 1>>}
=============================================================================
