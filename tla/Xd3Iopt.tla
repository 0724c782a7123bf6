------------------------------ MODULE Xd3Iopt ------------------------------
(***************************************************************************)
(* The instruction buffer of the xdelta3 encoder                           *)
(* (3party/xdelta3/xdelta3.c).  String matching enters overlapping copies  *)
(* and runs; when they leave the buffer, overlaps are removed, the gaps    *)
(* become ADDs and each instruction is written to the data, instruction    *)
(* and address sections.  The operators map the encoder's state e, a       *)
(* record with the fields of xd3_stream, to its next state.                *)
(***************************************************************************)
EXTENDS Xd3Format

MAX_MATCH_SPLIT == 18

Inst(type, pos, size, addr, xtra) ==
    [type |-> type, pos |-> pos, size |-> size, addr |-> addr, xtra |-> xtra]
NoInst == Inst(XD3_NOOP, 0, 0, 0, 0)
End(r) == r.pos + r.size

(* xd3_source_eof: the end of the source, as far as it is known. *)
SourceEof(e) == e.max_blkno * e.blksize + e.onlastblk

(* xd3_srcwin_setup: the source window is fixed when the first copy is     *)
(* written: exactly what the copies use if the whole window is known,      *)
(* otherwise a guess.                                                      *)
SrcwinSetup(e) ==
    LET used == e.match_maxaddr - e.match_minaddr
        atLeast == Max({used, Len(e.next_in) + (Len(e.next_in) \div 4)})
        guess == IF e.eof_known THEN Min({atLeast, SourceEof(e) - e.match_minaddr}) ELSE atLeast
        len == IF e.enc_state # "INSTR" THEN guess
               ELSE IF e.match_maxaddr = 0 THEN 0 ELSE used
        base == IF e.enc_state = "INSTR" /\ e.match_maxaddr = 0 THEN 0 ELSE e.match_minaddr
    IN  [e EXCEPT !.srcwin_decided = TRUE, !.srcbase = base, !.srclen = len, !.taroff = len]

(* xd3_emit_single *)
EmitSingle(r) == <<code1(r)>>
    \o (IF code_table[code1(r) + 1].size1 = 0 THEN EmitInteger(r.size) ELSE << >>)

(* xd3_emit_double: sizes are in the code. *)
EmitDouble(code) == <<code>>

(* The assertions of the source, compiled out of the build (XD3_DEBUG=0):  *)
(* the names of those that do not hold are collected in failed.            *)
Failing(claims) == {n \in DOMAIN claims : ~ claims[n]}

(* Instruction i is written together with the one that waits in iout, if a *)
(* code for both exists (pair # 0), and waits itself otherwise.            *)
PutCode(e, i, pair) ==
    [e EXCEPT !.inst = @ \o (IF pair # 0 THEN EmitDouble(pair)
                             ELSE IF e.iout # NoInst THEN EmitSingle(e.iout) ELSE << >>),
              !.iout = IF pair # 0 THEN NoInst ELSE i]
PutInst(e, i) == PutCode(e, i, IF e.iout # NoInst THEN code2(e.iout, i) ELSE 0)

(* The copy r, whose address is sent as a = [mode, val]. *)
PutAddress(e, r, addr, a) ==
    PutInst([e EXCEPT !.addr = @ \o (IF a.mode >= SameStart THEN <<a.val>> ELSE EmitInteger(a.val)),
                      !.acache = UpdateCache(@, addr)],
            [r EXCEPT !.type = XD3_CPY + a.mode])
PutCopy(e, r, addr) ==
    PutAddress([e EXCEPT !.failed = @ \cup Failing([belowHere |-> addr < r.pos + e.taroff])],
               r, addr, EncodeAddress(e.acache, addr, r.pos + e.taroff))

(* Addresses in the source count from the start of the source window,      *)
(* those in the target from its end.                                       *)
PutOperands(e, r) ==
    IF r.type # XD3_CPY THEN PutInst(e, r)
    ELSE PutCopy(e, r, IF ~ e.has_src THEN r.addr
                       ELSE IF r.xtra = 1 THEN r.addr - e.srcbase ELSE e.taroff + r.addr)

(* The bytes of a RUN or an ADD. *)
PutData(e, r) ==
    LET inWindow == /\ r.addr >= e.srcbase
                    /\ r.addr + r.size <= e.srcbase + e.srclen
    IN  [e EXCEPT
           !.failed = @ \cup Failing([inInput |-> End(r) <= Len(e.next_in),
                                      inWindow |-> r.type = XD3_CPY /\ r.xtra = 1 => inWindow,
                                      inOrder |-> e.unencoded_offset = r.pos]),
           !.data = CASE r.type = XD3_RUN -> Append(@, r.xtra)
                      [] r.type = XD3_ADD -> @ \o SubSeq(e.next_in, r.pos + 1, End(r))
                      [] OTHER -> @,
           !.unencoded_offset = @ + r.size]

(* xd3_iopt_finish_encoding: the operands of r go to their sections; the   *)
(* code waits in iout for an instruction to pair with.                     *)
FinishEncoding(e, r) ==
    LET decides == r.type = XD3_CPY /\ e.has_src /\ ~ e.srcwin_decided
    IN  PutOperands(PutData(IF decides THEN SrcwinSetup(e) ELSE e, r), r)

(* xd3_iopt_add: what lies before pos and is not encoded becomes an ADD. *)
IoptAdd(e, pos) ==
    IF pos > e.unencoded_offset
    THEN FinishEncoding(e, Inst(XD3_ADD, e.unencoded_offset, pos - e.unencoded_offset, 0, 0))
    ELSE e

(* xd3_iopt_add_encoding *)
IoptAddEncoding(e, r) == FinishEncoding(IoptAdd(e, r.pos), r)

(* xd3_iopt_add_finalize *)
IoptAddFinalize(e) ==
    LET last(d) == [d EXCEPT !.inst = IF d.iout # NoInst THEN @ \o EmitSingle(d.iout) ELSE @,
                             !.iout = NoInst]
    IN  last(IoptAdd(e, Len(e.next_in)))

(* The last branch of the loop of xd3_iopt_flush_instructions: r1 and r2   *)
(* overlap and both are kept, balanced; the cut is returned.               *)
Balance(r1, r2) ==
    LET gap == End(r2) - r1.pos
        newsize == Min({MAX_MATCH_SPLIT, gap - gap \div 2})
        cut1 == CASE newsize > r1.size -> 0
                  [] newsize <= r1.size /\ newsize > r2.size -> End(r1) - r2.pos
                  [] OTHER ->
                       LET cut == r1.size - newsize
                       IN  IF r2.pos > End(r1) - cut
                           THEN cut - (r2.pos - (End(r1) - cut)) ELSE cut
        cut2 == End(r1) - cut1 - r2.pos
    IN  <<[r1 EXCEPT !.size = @ - cut1],
          [r2 EXCEPT !.size = @ - cut2, !.pos = @ + cut2, !.addr = @ + cut2]>>

(* The loop of xd3_iopt_flush_instructions over the buffer u; r1 is u[k].  *)
RECURSIVE RemoveOverlaps(_, _, _)
RemoveOverlaps(u, k, force) ==
    IF k >= Len(u) THEN u
    ELSE LET r1 == u[k]
             r2 == u[k + 1]
             r3 == k + 2 <= Len(u)
             nearlySame == \/ End(r2) - r1.pos < 2 * MIN_MATCH
                           \/ End(r2) - End(r1) <= 2
                           \/ r2.pos - r1.pos <= 2
         IN  CASE End(r1) <= r2.pos -> RemoveOverlaps(u, k + 1, force)
               [] End(r1) > r2.pos /\ r3 /\ u[k + 2].pos <= End(r1) + 1 ->
                    RemoveOverlaps(RemoveAt(u, k + 1), k, force)
               [] End(r1) > r2.pos /\ ~ r3 /\ ~ force -> u
               [] OTHER ->
                    IF ~ nearlySame
                    THEN LET b == Balance(r1, r2)
                         IN  RemoveOverlaps([u EXCEPT ![k] = b[1], ![k + 1] = b[2]], k + 1, force)
                    ELSE IF r1.size < r2.size
                    THEN RemoveOverlaps(RemoveAt(u, k), k, force)
                    ELSE RemoveOverlaps(RemoveAt(u, k + 1), k + 1, force)

(* The rest of xd3_iopt_flush_instructions: instructions leave the buffer, *)
(* all of them when forced, otherwise about half and never the last two.   *)
RECURSIVE EncodeFront(_, _, _)
EncodeFront(e, force, flushed) ==
    IF e.iopt_used = << >> THEN e
    ELSE LET more(d) ==
                 IF ~ force /\ (flushed + 1 > e.iopt_size \div 2 \/ Len(d.iopt_used) < 3)
                 THEN d ELSE EncodeFront(d, force, flushed + 1)
         IN  more(IoptAddEncoding([e EXCEPT !.iopt_used = Tail(@)], Head(e.iopt_used)))

FlushInstructions(e, force) ==
    EncodeFront([e EXCEPT !.iopt_used = RemoveOverlaps(@, 1, force)], force, 0)

(* The elements of iopt_free: neither buffered nor waiting in iout.  An    *)
(* ADD in iout is on the stack of its caller.                              *)
FreeSlots(e) == e.iopt_size - Len(e.iopt_used)
                  - (IF e.iout.type \in {XD3_NOOP, XD3_ADD} THEN 0 ELSE 1)

(* xd3_iopt_get_slot.  iopt_size = 0 stands for iopt_unlimited.  Taking an *)
(* element of the empty list is recorded in no_slot.                       *)
GetSlot(e, r) ==
    LET add(d) == [d EXCEPT !.iopt_used = Append(@, r),
                            !.no_slot = @ \/ (d.iopt_size # 0 /\ FreeSlots(d) <= 0)]
    IN  add(IF e.iopt_size # 0 /\ FreeSlots(e) = 0 THEN FlushInstructions(e, FALSE) ELSE e)

(* xd3_emit_run and xd3_found_match *)
EmitRun(e, pos, size, run_c) == GetSlot(e, Inst(XD3_RUN, pos, size, 0, run_c))
FoundMatch(e, pos, size, addr, is_source) == GetSlot(e, Inst(XD3_CPY, pos, size, addr, is_source))

\* Mutant: the instructions that the copy covers stay.
IoptEraseNone(e, pos) == e

(* xd3_iopt_erase: a new copy that reaches back to pos covers the          *)
(* instructions at the end of the buffer that start at pos or later.       *)
IoptErase(e, pos) ==
    LET kept == {k \in 1 .. Len(e.iopt_used) : e.iopt_used[k].pos < pos}
    IN  [e EXCEPT !.iopt_used = SubSeq(@, 1, Max(kept \cup {0}))]

(* xd3_iopt_last_matched *)
IoptLastMatched(e) == IF e.iopt_used = << >> THEN 0 ELSE End(Last(e.iopt_used))
=============================================================================
