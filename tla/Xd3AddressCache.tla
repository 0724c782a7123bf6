-------------------------- MODULE Xd3AddressCache --------------------------
(***************************************************************************)
(* The VCDIFF address cache of xdelta3 (3party/xdelta3/xdelta3.c).  A copy *)
(* address is sent as a mode and a value: the address itself (VCD_SELF),   *)
(* its distance to the current position (VCD_HERE), its distance to one of *)
(* the s_near last addresses, or the slot of the same-cache that holds it. *)
(* Encoder and decoder each keep a cache, forgotten before each window.    *)
(* Addresses and positions are numbers of type usize_t.                    *)
(***************************************************************************)
EXTENDS Integers, Sequences

CONSTANTS s_near,    \* near modes of the code table (4 in RFC 3284)
          s_same,    \* same modes of the code table (3 in RFC 3284)
          Bytes,     \* values of a byte (256)
          Radix,     \* values of one digit of an integer (128)
          USize      \* USIZE_T_MAX + 1

ASSUME CacheAssumption ==
    /\ s_near \in Nat
    /\ s_same \in Nat
    /\ Bytes \in Nat \ {0}
    /\ Radix \in Nat \ {0}
    /\ USize \in Nat \ {0}

SameSlots == s_same * Bytes
SameStart == 2 + s_near
Modes == 0 .. SameStart + s_same - 1

Cache == [near : [0 .. s_near - 1 -> Nat],
          next_slot : Nat,
          same : [0 .. SameSlots - 1 -> Nat]]

(* xd3_init_cache: everything is forgotten before each window. *)
InitCache == [near |-> [i \in 0 .. s_near - 1 |-> 0],
              next_slot |-> 0,
              same |-> [i \in 0 .. SameSlots - 1 |-> 0]]

(* xd3_update_cache. *)
UpdateCache(c, addr) ==
    [near |-> IF s_near > 0 THEN [c.near EXCEPT ![c.next_slot] = addr] ELSE c.near,
     next_slot |-> IF s_near > 0 THEN (c.next_slot + 1) % s_near ELSE c.next_slot,
     same |-> IF s_same > 0 THEN [c.same EXCEPT ![addr % SameSlots] = addr] ELSE c.same]

(* What would be sent for addr in one of the modes before SameStart, and   *)
(* whether that mode can express it: distances are unsigned.               *)
Usable(c, addr, m) == m < 2 \/ addr >= c.near[m - 2]
Distance(c, addr, here, m) ==
    CASE m = 0 -> addr
      [] m = 1 -> here - addr
      [] OTHER -> addr - c.near[m - 2]

(* The first mode, in the order of the search, whose value satisfies P.    *)
FirstMode(S) == CHOOSE m \in S : \A n \in S : m <= n

(* xd3_encode_address.  The search stops at the first value of one digit   *)
(* (SMALLEST_INT); only when there is none is the same-cache tried, and    *)
(* only then is the smallest value taken.  A same-cache slot is sent as a  *)
(* plain byte, every other value as an integer.                            *)
EncodeAddress(c, addr, here) ==
    LET d(m) == Distance(c, addr, here, m)
        usable == {m \in 0 .. SameStart - 1 : Usable(c, addr, m)}
        short == {m \in usable : d(m) < Radix}
        least == {m \in usable : \A n \in usable : d(m) <= d(n)}
        slot == addr % SameSlots
    IN  IF short # {} THEN [mode |-> FirstMode(short), val |-> d(FirstMode(short))]
        ELSE IF s_same > 0 /\ c.same[slot] = addr
        THEN [mode |-> SameStart + (slot \div Bytes), val |-> slot % Bytes]
        ELSE [mode |-> FirstMode(least), val |-> d(FirstMode(least))]

(* xd3_decode_address, without the reading of the value: whatever value is *)
(* read, sum and difference are unsigned.                                  *)
DecodeAddress(c, here, mode, val) ==
    CASE mode = 0 -> val
      [] mode = 1 -> (here - val) % USize
      [] mode \in 2 .. SameStart - 1 -> (c.near[mode - 2] + val) % USize
      [] OTHER -> c.same[(mode - SameStart) * Bytes + val]
=============================================================================
