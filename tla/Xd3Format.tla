----------------------------- MODULE Xd3Format -----------------------------
(***************************************************************************)
(* The VCDIFF format as xdelta3 writes and reads it                        *)
(* (3party/xdelta3/xdelta3-internal.h, xdelta3.c): integers of base-Radix  *)
(* digits, the code table of RFC 3284, the choice of codes and the window  *)
(* checksum.  A byte is a number below 256.                                *)
(***************************************************************************)
EXTENDS Xd3AddressCache, SequencesExt

(* EMIT_INTEGER_TYPE: digits, the most significant one first, every digit  *)
(* but the last with the continuation bit.                                 *)
Digits(num) == CHOOSE n \in 1 .. 10 : /\ num \div Radix ^ n = 0
                                      /\ n > 1 => num \div Radix ^ (n - 1) # 0
EmitInteger(num) ==
    [i \in 1 .. Digits(num) |->
        ((num \div Radix ^ (Digits(num) - i)) % Radix)
            + (IF i < Digits(num) THEN Radix ELSE 0)]

(* xd3_sizeof_size: computed by comparison, not by emitting. *)
SizeofSize(num) == LET fits == {n \in 1 .. 9 : num < Radix ^ n}
                   IN  IF fits = {} THEN 10 ELSE Min(fits)

(* One step of DECODE_INTEGER_TYPE and of READ_INTEGER_TYPE: the part so   *)
(* far is refused when its upper seven bits are taken.  USize has to be a  *)
(* power of Radix times at most Radix.                                     *)
Overflows(part) == part >= USize \div Radix
AddDigit(part, byte) == (part * Radix) + (byte % Radix)
IsLastDigit(byte) == byte < Radix

(* READ_INTEGER_TYPE: an integer of section s from index p on; next = 0    *)
(* stands for XD3_INVALID_INPUT (end of section or overflow).              *)
ReadInteger(s, p) ==
    LET ends == {q \in p .. Len(s) : IsLastDigit(s[q])}
        q == CHOOSE x \in ends : \A y \in ends : x <= y
        part(k) == FoldLeft(AddDigit, 0, SubSeq(s, p, k))
    IN  IF ends = {} \/ \E k \in p .. q - 1 : Overflows(part(k))
        THEN [val |-> 0, next |-> 0]
        ELSE [val |-> part(q), next |-> q + 1]

-----------------------------------------------------------------------------
(* Instruction types; a copy is XD3_CPY plus its address mode. *)
XD3_NOOP == 0
XD3_ADD == 1
XD3_RUN == 2
XD3_CPY == 3
MIN_MATCH == 4

(* __rfc3284_code_table_desc *)
desc == [add_sizes |-> 17, near_modes |-> 4, same_modes |-> 3, cpy_sizes |-> 15,
         addcopy_add_max |-> 4, addcopy_near_cpy_max |-> 6, addcopy_same_cpy_max |-> 4,
         copyadd_add_max |-> 1, copyadd_near_cpy_max |-> 4, copyadd_same_cpy_max |-> 4]
cpy_modes == 2 + desc.near_modes + desc.same_modes

Code(t1, z1, t2, z2) == [type1 |-> t1, size1 |-> z1, type2 |-> t2, size2 |-> z2]

(* xd3_build_code_table: the entry of code c is code_table[c + 1]. *)
code_table ==
    LET near(m) == m < 2 + desc.near_modes
        eachMode(Op(_)) == FlattenSeq([m \in 1 .. cpy_modes |-> Op(m - 1)])
        copies(m) == [i \in 1 .. desc.cpy_sizes + 1 |->
                         Code(XD3_CPY + m, IF i = 1 THEN 0 ELSE MIN_MATCH + i - 2, XD3_NOOP, 0)]
        addcopies(m) ==
            LET top == IF near(m) THEN desc.addcopy_near_cpy_max ELSE desc.addcopy_same_cpy_max
            IN  FlattenSeq([a \in 1 .. desc.addcopy_add_max |->
                    [i \in 1 .. top - MIN_MATCH + 1 |->
                        Code(XD3_ADD, a, XD3_CPY + m, MIN_MATCH + i - 1)]])
        copyadds(m) ==
            LET top == IF near(m) THEN desc.copyadd_near_cpy_max ELSE desc.copyadd_same_cpy_max
            IN  FlattenSeq([i \in 1 .. top - MIN_MATCH + 1 |->
                    [a \in 1 .. desc.copyadd_add_max |->
                        Code(XD3_CPY + m, MIN_MATCH + i - 1, XD3_ADD, a)]])
    IN  <<Code(XD3_RUN, 0, XD3_NOOP, 0), Code(XD3_ADD, 0, XD3_NOOP, 0)>>
        \o [z \in 1 .. desc.add_sizes |-> Code(XD3_ADD, z, XD3_NOOP, 0)]
        \o eachMode(copies) \o eachMode(addcopies) \o eachMode(copyadds)

(* xd3_choose_instruction, hard-coded for that table: the code of an       *)
(* instruction by itself ...                                               *)
code1(inst) ==
    CASE inst.type = XD3_RUN -> 0
      [] inst.type = XD3_ADD -> 1 + (IF inst.size <= 17 THEN inst.size ELSE 0)
      [] OTHER -> 19 + 16 * (inst.type - XD3_CPY)
                     + (IF inst.size \in 4 .. 18 THEN inst.size - 3 ELSE 0)

(* ... and the code of the pair it makes with the one before, or 0. *)
code2(prev, inst) ==
    LET mode == inst.type - XD3_CPY
    IN  CASE inst.type = XD3_ADD /\ inst.size = 1 /\ prev.size = 4 /\ prev.type >= XD3_CPY
                -> 247 + (prev.type - XD3_CPY)
          [] inst.type >= XD3_CPY /\ inst.size \in 4 .. 6 /\ mode <= 5
                /\ prev.type = XD3_ADD /\ prev.size <= 4
                -> 163 + mode * 12 + 3 * (prev.size - 1) + (inst.size - 4)
          [] inst.type >= XD3_CPY /\ inst.size = 4 /\ mode >= 6
                /\ prev.type = XD3_ADD /\ prev.size <= 4
                -> 235 + (mode - 6) * 4 + (prev.size - 1)
          [] OTHER -> 0

-----------------------------------------------------------------------------
A32_BASE == 65521

(* adler32 (1, buf, len), sent as four bytes. *)
Adler32(buf) ==
    LET step(s, b) == [s1 |-> (s.s1 + b) % A32_BASE, s2 |-> (s.s2 + s.s1 + b) % A32_BASE]
        s == FoldLeft(step, [s1 |-> 1, s2 |-> 0], buf)
    IN  <<s.s2 \div 256, s.s2 % 256, s.s1 \div 256, s.s1 % 256>>

(* VCDIFF_MAGIC1 to 3 and VCDIFF_VERSION *)
Magic == <<214, 195, 196, 0>>

(* Bits of the indicators of the file header and of a window. *)
VCD_SECONDARY == 1
VCD_CODETABLE == 2
VCD_APPHEADER == 4
VCD_SOURCE == 1
VCD_TARGET == 2
VCD_ADLER32 == 4
Bit(ind, b) == (ind \div b) % 2 = 1

(* The size of a window's encoding, written by xd3_emit_hdr and checked    *)
(* against the other fields by the decoder in DEC_CKSUM.                   *)
EncLen(tgtlen, data, inst, addr, adler) ==
    1 + SizeofSize(tgtlen) + SizeofSize(data) + SizeofSize(inst) + SizeofSize(addr)
      + data + inst + addr + (IF adler THEN 4 ELSE 0)
=============================================================================
