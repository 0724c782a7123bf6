------------------------------- MODULE Rabin -------------------------------
(***************************************************************************)
(* The Rabin fingerprint of a sliding window (chunk/rabin_cdc.cpp): the    *)
(* bytes of the window, read as a polynomial over GF(2), modulo Polynomial.*)
(* A polynomial is the set of its exponents, so that exclusive or is       *)
(* symmetric difference; a byte is a polynomial of degree below ByteBits.  *)
(* The code's polynomial has degree 53 and its bytes 8 bits: the 64 bits   *)
(* of a word lose nothing, and words have no width here.                   *)
(***************************************************************************)
EXTENDS Integers, Sequences, FiniteSetsExt

CONSTANTS ByteBits,     \* bits of a byte (8)
          Polynomial,   \* polynomial (degree 53)
          WINSIZE       \* bytes of the window (48)

ASSUME RabinAssumption ==
  /\ ByteBits \in Nat \ {0} /\ WINSIZE \in Nat \ {0}
  /\ Polynomial \subseteq Nat
  /\ \E d \in Polynomial : d >= ByteBits /\ \A e \in Polynomial : e <= d

AllBytes == SUBSET (0..ByteBits - 1)

\* The byte 0 and the byte 1.
Zero == {}
One == {0}

deg(p) == IF p = {} THEN -1 ELSE Max(p)

ShiftLeft(p, n) == {e + n : e \in p}

\* What mod is given: a remainder and the bits of one byte above it.
Words == SUBSET (0..deg(Polynomial) + ByteBits - 1)

\* mod(x, polynomial).
mod[x \in Words] ==
  IF deg(x) < deg(Polynomial) THEN x
  ELSE mod[SymDiff(x, ShiftLeft(Polynomial, deg(x) - deg(Polynomial)))]

append_byte(hash, b) == mod[ShiftLeft(hash, ByteBits) \cup b]

\* The remainder of a sequence of bytes, the first being the most significant.
Remainder(bytes) ==
  LET hash[n \in 0..Len(bytes)] ==
        IF n = 0 THEN {} ELSE append_byte(hash[n - 1], bytes[n])
  IN hash[Len(bytes)]

\* Mutant: a byte is taken out as if it were followed by a whole window.
out_tableLate == [b \in AllBytes |-> Remainder(<<b>> \o [i \in 1..WINSIZE |-> Zero])]

\* What a byte contributes to the digest when it leaves the window.
out_table == [b \in AllBytes |-> Remainder(<<b>> \o [i \in 1..WINSIZE - 1 |-> Zero])]

\* What cancels the bits above the degree of the polynomial, and their remainder.
mod_table ==
  [b \in AllBytes |-> LET top == ShiftLeft(b, deg(Polynomial)) IN mod[top] \cup top]

rabin_append(digest, b) ==
  LET shift == deg(Polynomial) - ByteBits
      index == {e - shift : e \in {d \in digest : d >= shift}}
  IN SymDiff(ShiftLeft(digest, ByteBits) \cup b, mod_table[index])

\* A context: window is a ring of which wpos is the oldest byte.
rabin_slide(ctx, b) ==
  [window |-> [ctx.window EXCEPT ![ctx.wpos] = b],
   wpos   |-> (ctx.wpos + 1) % WINSIZE,
   digest |-> rabin_append(SymDiff(ctx.digest, out_table[ctx.window[ctx.wpos]]), b)]

\* The context that rabin_reset leaves.
rabin_reset ==
  rabin_slide([window |-> [i \in 0..WINSIZE - 1 |-> Zero], wpos |-> 0, digest |-> {}], One)

\* The context after all of the bytes have been slid in.
SlideAll(ctx, bytes) ==
  LET after[n \in 0..Len(bytes)] ==
        IF n = 0 THEN ctx ELSE rabin_slide(after[n - 1], bytes[n])
  IN after[Len(bytes)]

\* The bytes of the window, the oldest first.
WindowBytes(ctx) == [i \in 1..WINSIZE |-> ctx.window[(ctx.wpos + i - 1) % WINSIZE]]
=============================================================================
