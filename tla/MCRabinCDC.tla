----------------------------- MODULE MCRabinCDC -----------------------------
(* Bytes of two bits, files of up to MaxLen bytes 0 and 3, the polynomial    *)
(* x^3 + x + 1 and a window of three bytes, whose six bits do not fit in the *)
(* digest: bytes leave the window, and top bits are reduced, within a chunk. *)
(* The window is longer than the shortest chunk, so that resets matter.      *)
EXTENDS RabinCDC

CONSTANT MaxLen   \* length of the longest file

MCByte == AllBytes
MCInputs == UNION {[1..n -> {{}, {0, 1}}] : n \in 0..MaxLen}
MCPolynomial == {3, 1, 0}
=============================================================================
