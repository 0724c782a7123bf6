------------------------------ MODULE Xd3Hash ------------------------------
(***************************************************************************)
(* Checksums of the xdelta3 string matcher                                 *)
(* (3party/xdelta3/xdelta3-hash.h).  All arithmetic is modulo the machine  *)
(* word, whose width is a parameter.                                       *)
(***************************************************************************)
EXTENDS Integers, SequencesExt, Bitwise

CONSTANTS WordBits,          \* width of usize_t (64)
          HalfBits,          \* width of the small checksum (32)
          hash_multiplier,   \* xd3_hash_multiplier, an odd number
          ByteBits           \* width of a byte (8)

(* xd3_size_hashtable_bits and xd3_size_hashtable: the table has 2^bits    *)
(* slots, at least 4 and at most as many as there are values.              *)
HashBits(slots) == LET fits == {i \in 3 .. WordBits - 1 : slots < 2 ^ i}
                   IN  IF fits = {} THEN WordBits - 1 ELSE Min(fits) - 1

(* xd3_checksum_hash for a table of 2^bits slots. *)
checksum_hash(bits, cksum) ==
    (cksum \div 2 ^ (WordBits - bits)) ^^ (cksum % 2 ^ bits)

(* xd3_large64_cksum of the string s: a polynomial, the last byte with     *)
(* power 0 (powers[]).                                                     *)
large_cksum(s) ==
    FoldLeft(LAMBDA h, b : ((h * hash_multiplier) + b) % 2 ^ WordBits, 0, s)

(* xd3_large64_cksum_update: the checksum of look bytes moves by one byte, *)
(* first leaves and next enters; multiplier = hash_multiplier ^ look.      *)
multiplier(look) == FoldLeft(LAMBDA m, i : (m * hash_multiplier) % 2 ^ WordBits, 1, [i \in 1 .. look |-> i])
large_cksum_update(cksum, look, first, next) ==
    ((hash_multiplier * cksum) - ((multiplier(look) * first) % 2 ^ WordBits) + next) % 2 ^ WordBits

(* xd3_scksum of four bytes, read as a little-endian word. *)
scksum(s) ==
    (hash_multiplier * (s[1] + (s[2] * 2 ^ ByteBits) + (s[3] * 2 ^ (2 * ByteBits))
                             + (s[4] * 2 ^ (3 * ByteBits)))) % 2 ^ HalfBits
=============================================================================
