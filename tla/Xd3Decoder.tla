----------------------------- MODULE Xd3Decoder -----------------------------
(***************************************************************************)
(* The decoding state machine of xdelta3 (xd3_decode_input of              *)
(* 3party/xdelta3/xdelta3-decode.h), without secondary compression.  The   *)
(* operators map the state d of the stream to its next state; d.ret tells  *)
(* how the function returned.  The header is read one byte at a time, so   *)
(* that the input may end anywhere (XD3_INPUT).                            *)
(***************************************************************************)
EXTENDS Xd3Format

CONSTANTS HARDMAXWINSIZE,  \* XD3_HARDMAXWINSIZE
          DEC_ALLOCSIZE    \* XD3_ALLOCSIZE, the unit of output buffers

VCD_DJW_ID == 1
VCD_FGK_ID == 16

Half(type, size, addr) == [type |-> type, size |-> size, addr |-> addr]
NoHalf == Half(XD3_NOOP, 0, 0)

(* A section: its size, how much of it has been read, whether it was       *)
(* copied (then buf holds it) or refers to the client's input from offset  *)
(* at on, and how much of it has been consumed (used).                     *)
NoSection == [size |-> 0, pos |-> 0, copied |-> FALSE, buf |-> << >>, at |-> 0, used |-> 0]

(* skip_emit is the flag XD3_SKIP_EMIT of the tools that only look at a  *)
(* delta.                                                                  *)
NewDecoder(skip_emit) ==
    [skip_emit |-> skip_emit, state |-> "VCHEAD", part |-> 0, bytes |-> << >>, ret |-> "ok",
     hdr_ind |-> 0, win_ind |-> 0, del_ind |-> 0, appheadsz |-> 0,
     cpylen |-> 0, cpyoff |-> 0, enclen |-> 0, tgtlen |-> 0, winstart |-> 0,
     position |-> 0, maxpos |-> 0, cksum |-> << >>, winbytes |-> 0, window_count |-> 0,
     data |-> NoSection, inst |-> NoSection, addr |-> NoSection,
     current1 |-> NoHalf, current2 |-> NoHalf, acache |-> InitCache,
     next_out |-> << >>, space_out |-> 0, secondid |-> 0, getblkno |-> 0]

Invalid(d) == [d EXCEPT !.ret = "INVALID_INPUT"]

-----------------------------------------------------------------------------
(* The header: in which order the fields come, which of them are there and *)
(* what kind each is.                                                      *)
HeaderFields ==
    <<"VCHEAD", "HDRIND", "SECONDID", "TABLEN", "NEAR", "SAME", "APPLEN", "APPDAT",
      "WININD", "CPYLEN", "CPYOFF", "ENCLEN", "TGTLEN", "DELIND",
      "DATALEN", "INSTLEN", "ADDRLEN", "CKSUM", "DATA">>
After(state) == LET i == CHOOSE k \in DOMAIN HeaderFields : HeaderFields[k] = state
                IN  HeaderFields[i + 1]

Present(d, state) ==
    CASE state = "SECONDID" -> Bit(d.hdr_ind, VCD_SECONDARY)
      [] state \in {"TABLEN", "NEAR", "SAME"} -> Bit(d.hdr_ind, VCD_CODETABLE)
      [] state = "APPLEN" -> Bit(d.hdr_ind, VCD_APPHEADER)
      [] state = "APPDAT" -> Bit(d.hdr_ind, VCD_APPHEADER) /\ d.appheadsz > 0
      [] state \in {"CPYLEN", "CPYOFF"} -> (d.win_ind % 4) \in {VCD_SOURCE, VCD_TARGET}
      [] state = "CKSUM" -> Bit(d.win_ind, VCD_ADLER32)
      [] OTHER -> TRUE

(* How many bytes a field of fixed length has; 0 for an integer. *)
Width(d, state) ==
    CASE state \in {"VCHEAD", "CKSUM"} -> 4
      [] state \in {"HDRIND", "SECONDID", "NEAR", "SAME", "WININD", "DELIND"} -> 1
      [] state = "APPDAT" -> d.appheadsz
      [] OTHER -> 0

(* What xd3_decode_input does once a field is known: v is the integer or   *)
(* the only byte, s the bytes.  A code table of its own has a length of    *)
(* more than two, with the numbers of its near and same modes; they are    *)
(* read, but not used, since the table that follows is not supported.      *)
Accept(d, v, s) ==
    CASE d.state = "VCHEAD" -> IF s = Magic THEN d ELSE Invalid(d)
      [] d.state = "HDRIND" -> IF v >= 8 THEN Invalid(d) ELSE [d EXCEPT !.hdr_ind = v]
      [] d.state = "SECONDID" ->
            IF v \in {VCD_DJW_ID, VCD_FGK_ID} THEN [d EXCEPT !.secondid = v] ELSE Invalid(d)
      [] d.state = "TABLEN" -> IF v <= 2 THEN [d EXCEPT !.ret = "ENOMEM"] ELSE d
      [] d.state = "SAME" -> [d EXCEPT !.ret = "UNIMPLEMENTED"]
      [] d.state = "APPLEN" -> IF v + 1 >= USize THEN Invalid(d) ELSE [d EXCEPT !.appheadsz = v]
      [] d.state = "WININD" ->
            LET n == [d EXCEPT !.win_ind = v, !.winstart = @ + d.tgtlen,
                               !.cpylen = 0, !.cpyoff = 0, !.position = 0, !.acache = InitCache]
            IN  IF v >= 8 THEN Invalid(n) ELSE n
      [] d.state = "CPYLEN" -> [d EXCEPT !.cpylen = v, !.position = v]
      [] d.state = "CPYOFF" ->
            IF \/ v + d.cpylen >= USize
               \/ Bit(d.win_ind, VCD_TARGET) /\ v + d.cpylen > d.winstart
            THEN Invalid(d) ELSE [d EXCEPT !.cpyoff = v]
      [] d.state = "ENCLEN" -> [d EXCEPT !.enclen = v]
      [] d.state = "TGTLEN" ->
            IF d.cpylen + v >= USize \/ v > HARDMAXWINSIZE
            THEN Invalid([d EXCEPT !.tgtlen = v])
            ELSE [d EXCEPT !.tgtlen = v, !.maxpos = d.cpylen + v]
      [] d.state = "DELIND" ->
            IF v >= 8 \/ (v # 0 /\ d.secondid = 0) THEN Invalid(d) ELSE [d EXCEPT !.del_ind = v]
      [] d.state = "DATALEN" -> [d EXCEPT !.data.size = v]
      [] d.state = "INSTLEN" -> [d EXCEPT !.inst.size = v]
      [] d.state = "ADDRLEN" -> [d EXCEPT !.addr.size = v]
      [] d.state = "CKSUM" -> [d EXCEPT !.cksum = s]
      [] OTHER -> d

(* The redundant length, checked before the sections are read. *)
CheckEnclen(d) ==
    IF d.enclen = EncLen(d.tgtlen, d.data.size, d.inst.size, d.addr.size, Bit(d.win_ind, VCD_ADLER32))
    THEN d ELSE Invalid(d)

(* To the next field that is there. *)
RECURSIVE Advance(_, _)
Advance(d, state) ==
    IF state = "DATA" THEN CheckEnclen([d EXCEPT !.state = "DATA"])
    ELSE IF Present(d, state) THEN [d EXCEPT !.state = state, !.part = 0, !.bytes = << >>]
    ELSE Advance(d, After(state))

(* xd3_decode_byte, xd3_decode_bytes, xd3_decode_size, xd3_decode_offset   *)
(* given one more byte.                                                    *)
DecodeByte(d, b) ==
    LET width == Width(d, d.state)
        bytes == Append(d.bytes, b)
        part == AddDigit(d.part, b)
        complete == IF width > 0 THEN Len(bytes) = width ELSE IsLastDigit(b)
        a == Accept(d, IF width > 0 THEN b ELSE part, bytes)
    IN  IF width = 0 /\ Overflows(d.part) THEN Invalid(d)
        ELSE IF ~ complete THEN [d EXCEPT !.bytes = bytes, !.part = part]
        ELSE IF a.ret # "ok" THEN a
        ELSE Advance(a, After(d.state))

-----------------------------------------------------------------------------
(* xd3_decode_section: n bytes of input are at hand, from offset at of the *)
(* client's buffer on.  Without copying, the section refers to the buffer. *)
ReadSection(s, input, at, copy) ==
    LET n == IF ~ copy /\ s.pos = 0 THEN s.size ELSE Min({s.size - s.pos, Len(input)})
        from == SubSeq(input, 1, n)
    IN  IF s.pos = s.size THEN s
        ELSE IF ~ copy /\ s.pos = 0
        THEN [s EXCEPT !.pos = s.size, !.copied = FALSE, !.at = at, !.buf = << >>]
        ELSE [s EXCEPT !.pos = @ + n, !.copied = TRUE,
                       !.buf = (IF s.pos = 0 THEN << >> ELSE @) \o from]

(* xd3_decode_sections for the section named by the state; the rest of the *)
(* sections is all at hand exactly when copy is FALSE.                     *)
SectionOf == [DATA |-> "data", INST |-> "inst", ADDR |-> "addr"]
NextSection == [DATA |-> "INST", INST |-> "ADDR", ADDR |-> "EMIT"]
Needs(d) == d.data.size + d.inst.size + d.addr.size - d.winbytes

(* xd3_decode_setup_buffers, when all sections have been read. *)
SetupBuffers(d) ==
    IF Bit(d.win_ind, VCD_TARGET) THEN [d EXCEPT !.ret = "UNIMPLEMENTED"]
    ELSE [d EXCEPT !.space_out = IF @ >= d.tgtlen THEN @
              ELSE ((d.tgtlen + DEC_ALLOCSIZE - 1) \div DEC_ALLOCSIZE) * DEC_ALLOCSIZE]

(* xd3_decode_finish_window *)
FinishWindow(d) == [d EXCEPT !.winbytes = 0, !.state = "FINISH", !.ret = "OUTPUT",
                             !.data.pos = 0, !.inst.pos = 0, !.addr.pos = 0]

DecodeSection(d, input, at) ==
    LET f == SectionOf[d.state]
        s == ReadSection(d[f], input, at, Len(input) < Needs(d))
        taken == s.pos - d[f].pos
        r == [d EXCEPT ![f] = s, !.winbytes = @ + taken]
    IN  IF s.pos < s.size THEN [d |-> r, taken |-> taken]
        ELSE LET n == [r EXCEPT ![f].pos = 0, ![f].used = 0, !.state = NextSection[d.state]]
             IN  [taken |-> taken,
                  d |-> IF n.state # "EMIT" THEN n
                        ELSE IF d.skip_emit THEN FinishWindow(n) ELSE SetupBuffers(n)]

-----------------------------------------------------------------------------
(* The content of a section, given the client's buffer mem. *)
Content(s, mem) == IF s.copied THEN s.buf ELSE SubSeq(mem, s.at + 1, s.at + s.size)
Rest(s, mem) == SubSeq(Content(s, mem), s.used + 1, s.size)
Exhausted(s) == s.used = s.size

(* xd3_decode_parse_halfinst: the size and the address of an instruction   *)
(* are read and checked.  The instruction is left in field h.              *)
ParseHalf(d, mem, h) ==
    LET i == d[h]
        sz == IF i.size = 0 THEN ReadInteger(Rest(d.inst, mem), 1) ELSE [val |-> i.size, next |-> 1]
        copy == i.type >= XD3_CPY
        mode == i.type - XD3_CPY
        same == copy /\ mode >= SameStart
        ad == IF ~ copy THEN [val |-> 0, next |-> 1]
              ELSE IF same
              THEN IF Exhausted(d.addr) THEN [val |-> 0, next |-> 0]
                   ELSE [val |-> Head(Rest(d.addr, mem)), next |-> 2]
              ELSE ReadInteger(Rest(d.addr, mem), 1)
        addr == IF copy THEN DecodeAddress(d.acache, d.position, mode, ad.val) ELSE 0
    IN  IF sz.next = 0 THEN Invalid(d)
        ELSE IF ad.next = 0 THEN Invalid(d)
        ELSE IF copy /\ (\/ addr >= d.position
                         \/ addr < d.cpylen /\ (addr + sz.val) % USize > d.cpylen)
        THEN Invalid(d)
        ELSE IF (d.position + sz.val) % USize > d.maxpos THEN Invalid(d)
        ELSE [d EXCEPT ![h] = [i EXCEPT !.size = sz.val, !.addr = addr],
                       !.inst.used = @ + sz.next - 1,
                       !.addr.used = @ + ad.next - 1,
                       !.acache = IF copy THEN UpdateCache(@, addr) ELSE @,
                       !.position = (@ + sz.val) % USize]

(* xd3_decode_instruction: the next code, and both its halves. *)
DecodeInstruction(d, mem) ==
    LET start(c) == [d EXCEPT !.inst.used = @ + 1,
                              !.current1 = Half(c.type1, c.size1, 0),
                              !.current2 = Half(c.type2, c.size2, 0)]
        parse(x, h) == IF x.ret = "ok" /\ x[h].type # XD3_NOOP THEN ParseHalf(x, mem, h) ELSE x
    IN  parse(parse(start(code_table[Head(Rest(d.inst, mem)) + 1]), "current1"), "current2")

(* A copy from the window being written: byte by byte, it may overlap.     *)
CopyWithin(s, from, n) ==
    FoldLeft(LAMBDA t, i : Append(t, t[from + i]), s, [i \in 1 .. n |-> i])

(* xd3_decode_output_halfinst: what the instruction in h appends.  source  *)
(* is [bytes, blksize, curblkno]; a copy from the source takes as much as  *)
(* the block at hand holds.                                                *)
OutputHalf(d, mem, source, h) ==
    LET i == d[h]
        data == Rest(d.data, mem)
        done(x) == [x EXCEPT ![h].type = XD3_NOOP]
        from == d.cpyoff + i.addr
        block == from \div source.blksize
        blkoff == from % source.blksize
        onblk == Max({0, Min({source.blksize, Len(source.bytes) - block * source.blksize})})
        whole == blkoff + i.size <= source.blksize
        take == IF whole THEN i.size ELSE source.blksize - blkoff
    IN  CASE Len(d.next_out) + i.size > d.space_out -> Invalid(d)
          [] i.type = XD3_RUN ->
               IF data = << >> THEN Invalid(d)
               ELSE done([d EXCEPT !.next_out = @ \o [k \in 1 .. i.size |-> Head(data)],
                                   !.data.used = @ + 1])
          [] i.type = XD3_ADD ->
               IF Len(data) < i.size THEN Invalid(d)
               ELSE done([d EXCEPT !.next_out = @ \o SubSeq(data, 1, i.size),
                                   !.data.used = @ + i.size])
          [] i.type >= XD3_CPY /\ i.addr >= d.cpylen ->
               done([d EXCEPT !.next_out = CopyWithin(@, i.addr - d.cpylen, i.size)])
          [] i.type >= XD3_CPY /\ i.addr < d.cpylen /\ source.curblkno # block ->
               [d EXCEPT !.ret = "GETSRCBLK", !.getblkno = block]
          [] OTHER ->
               IF onblk # source.blksize /\ blkoff + i.size > onblk THEN Invalid(d)
               ELSE LET copied == [d EXCEPT !.next_out = @ \o SubSeq(source.bytes, from + 1, from + take)]
                    IN  IF whole THEN done(copied)
                        ELSE [copied EXCEPT ![h].size = @ - take, ![h].addr = @ + take]

(* The end of xd3_decode_emit: everything has been used, and nothing more. *)
CheckWindow(d) ==
    IF \/ Len(d.next_out) # d.tgtlen
       \/ ~ Exhausted(d.data)
       \/ ~ Exhausted(d.addr)
       \/ Bit(d.win_ind, VCD_ADLER32) /\ Adler32(d.next_out) # d.cksum
    THEN Invalid(d)
    ELSE FinishWindow(d)

(* One turn of the loop of xd3_decode_emit.  hasSource is src # NULL.      *)
Emit(d, mem, source, hasSource) ==
    IF Bit(d.win_ind, VCD_SOURCE) /\ ~ hasSource THEN Invalid(d)
    ELSE IF d.current1.type # XD3_NOOP THEN OutputHalf(d, mem, source, "current1")
    ELSE IF d.current2.type # XD3_NOOP THEN OutputHalf(d, mem, source, "current2")
    ELSE IF ~ Exhausted(d.inst) THEN DecodeInstruction(d, mem)
    ELSE CheckWindow(d)
=============================================================================
