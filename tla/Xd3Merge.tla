------------------------------ MODULE Xd3Merge ------------------------------
(***************************************************************************)
(* Merging of deltas (3party/xdelta3/xdelta3-merge.h) as the tools of      *)
(* xdelta3-main.h use it: the instructions of all windows of a delta are   *)
(* collected in a whole state, its copies from the source are replaced by  *)
(* what an earlier delta made that source of, and the result is encoded    *)
(* again.  A whole state is                                                *)
(* [adds, inst, wininfo, length]; inst holds xd3_winst records.            *)
(***************************************************************************)
EXTENDS Xd3Encoder, Xd3Decoder

CONSTANT RECODE_IOPT   \* XD3_DEFAULT_IOPT_SIZE, of the stream that encodes again

NoWhole == [adds |-> << >>, inst |-> << >>, wininfo |-> << >>, length |-> 0, ret |-> "ok"]

Winst(type, mode, size, addr, position) ==
    [type |-> type, mode |-> mode, size |-> size, addr |-> addr, position |-> position]

(* xd3_whole_append_inst: half instruction i, whose data comes next in     *)
(* data.  Addresses become absolute.                                       *)
WholeAppendInst(w, d, i, data) ==
    LET literal == CASE i.type = XD3_RUN -> SubSeq(data, 1, 1)
                     [] i.type = XD3_ADD -> SubSeq(data, 1, i.size)
                     [] OTHER -> << >>
        inSource == i.addr < d.cpylen
        inst == IF i.type < XD3_CPY THEN Winst(i.type, 0, i.size, Len(w.adds), w.length)
                ELSE IF inSource THEN Winst(XD3_CPY, d.win_ind % 4, i.size, d.cpyoff + i.addr, w.length)
                ELSE Winst(XD3_CPY, 0, i.size, d.winstart + i.addr - d.cpylen, w.length)
    IN  [w EXCEPT !.adds = @ \o literal, !.inst = Append(@, inst), !.length = @ + i.size]

(* The loop of xd3_whole_append_window; x is [w, d]. *)
RECURSIVE AppendInstructions(_, _)
AppendInstructions(x, mem) ==
    LET append(y, h) ==
            IF y.d[h].type = XD3_NOOP THEN y
            ELSE LET w == WholeAppendInst(y.w, y.d, y.d[h], Rest(y.d.data, mem))
                 IN  [w |-> w, d |-> [y.d EXCEPT !.data.used = @ + Len(w.adds) - Len(y.w.adds)]]
        both(y) == IF y.d.ret = "INVALID_INPUT" THEN y
                   ELSE AppendInstructions(append(append(y, "current1"), "current2"), mem)
    IN  IF Exhausted(x.d.inst) THEN x ELSE both([x EXCEPT !.d = DecodeInstruction(x.d, mem)])

WholeAppendWindow(w, d, mem) ==
    AppendInstructions(
        [d |-> [d EXCEPT !.ret = "ok"],
         w |-> [w EXCEPT !.wininfo = Append(@, [length |-> d.tgtlen, offset |-> d.winstart,
                                                adler32 |-> d.cksum])]], mem)

-----------------------------------------------------------------------------
(* xd3_merge_find_position: binary search for the instruction of source    *)
(* that makes the byte at address; low and high count from 0.  0 if there  *)
(* is none.                                                                *)
RECURSIVE FindPosition(_, _, _, _)
FindPosition(source, address, low, high) ==
    LET mid == low + (high - low) \div 2
        s == source.inst[mid + 1]
    IN  IF low = high THEN 0
        ELSE IF address < s.position THEN FindPosition(source, address, low, mid)
        ELSE IF address >= s.position + s.size THEN FindPosition(source, address, mid + 1, high)
        ELSE mid + 1

\* Mutant: what an ADD writes is taken from its start.
LiteralFromStart(source, s, offset, take) ==
    CASE s.type = XD3_RUN -> SubSeq(source.adds, s.addr + 1, s.addr + 1)
      [] s.type = XD3_ADD -> SubSeq(source.adds, s.addr + 1, s.addr + take)
      [] OTHER -> << >>

(* The bytes that take bytes from offset on of what instruction s of       *)
(* source writes are made of; a RUN has only one.                          *)
Literal(source, s, offset, take) ==
    CASE s.type = XD3_RUN -> SubSeq(source.adds, s.addr + 1, s.addr + 1)
      [] s.type = XD3_ADD -> SubSeq(source.adds, s.addr + offset + 1, s.addr + offset + take)
      [] OTHER -> << >>

(* The loop of xd3_merge_source_copy: what is left of copy i, from         *)
(* instruction n of source on.  A copy within the source's own target is   *)
(* followed in turn.                                                       *)
RECURSIVE CopyInstructions(_, _, _, _)
MergeSourceCopy(m, source, i) ==
    LET n == FindPosition(source, i.addr, 0, Len(source.inst))
    IN  IF i.addr >= source.length THEN [m EXCEPT !.ret = "INVALID_INPUT"]
        ELSE IF n = 0 THEN [m EXCEPT !.ret = "INTERNAL"]
        ELSE CopyInstructions(m, source, i, n)
CopyInstructions(m, source, i, n) ==
    IF i.size = 0 \/ m.ret # "ok" THEN m
    ELSE LET s == source.inst[n]
             offset == i.addr - s.position
             take == Min({i.size, s.size - offset})
             new == Winst(s.type, s.mode, take,
                          IF s.type = XD3_CPY THEN s.addr + offset ELSE Len(m.adds), i.position)
             taken == IF s.type = XD3_CPY /\ s.mode = 0
                      THEN MergeSourceCopy(m, source, Winst(XD3_CPY, i.mode, take, s.addr + offset, i.position))
                      ELSE [m EXCEPT !.adds = @ \o Literal(source, s, offset, take), !.inst = Append(@, new)]
         IN  CopyInstructions(taken, source,
                 [i EXCEPT !.position = @ + take, !.addr = @ + take, !.size = @ - take], n + 1)

(* xd3_merge_run, xd3_merge_add, xd3_merge_target_copy or                  *)
(* xd3_merge_source_copy, for instruction i of input.                      *)
MergeInst(m, source, input, i) ==
    LET literal == SubSeq(input.adds, i.addr + 1, i.addr + (IF i.type = XD3_RUN THEN 1 ELSE i.size))
        merged == CASE i.type < XD3_CPY ->
                         [m EXCEPT !.adds = @ \o literal,
                                   !.inst = Append(@, [i EXCEPT !.addr = Len(m.adds), !.position = m.length])]
                    [] i.type = XD3_CPY /\ i.mode = 0 -> [m EXCEPT !.inst = Append(@, i)]
                    [] i.type = XD3_CPY /\ i.mode = VCD_TARGET -> [m EXCEPT !.ret = "INVALID_INPUT"]
                    [] OTHER -> MergeSourceCopy(m, source, i)
    IN  IF m.ret # "ok" THEN m ELSE [merged EXCEPT !.length = @ + i.size]

(* xd3_merge_inputs: input applied to what source makes. *)
MergeInputs(source, input) ==
    FoldLeft(LAMBDA m, i : MergeInst(m, source, input, i), [NoWhole EXCEPT !.wininfo = input.wininfo], input.inst)

-----------------------------------------------------------------------------
(* A window of main_merge_output: x is [s, insts, pos, srcset, min, max];  *)
(* instructions are taken until the window is full, the last of them in    *)
(* part.  ADDs are implicit, their bytes go to the input buffer.           *)
RECURSIVE FillWindow(_, _, _)
FillWindow(x, adds, win) ==
    LET i == Head(x.insts)
        take == Min({i.size, win.length - x.pos})
        bytes == SubSeq(adds, i.addr + 1, i.addr + take)
        fromSource == i.type = XD3_CPY /\ i.mode # 0
        s == CASE i.type = XD3_RUN -> EmitRun(x.s, x.pos, take, adds[i.addr + 1])
               [] i.type = XD3_ADD ->
                    [x.s EXCEPT !.next_in = [k \in DOMAIN @ |-> IF k - x.pos \in DOMAIN bytes
                                                                THEN bytes[k - x.pos] ELSE @[k]]]
               [] OTHER -> FoundMatch(x.s, x.pos, take, IF fromSource THEN i.addr ELSE i.addr - win.offset,
                                      IF fromSource THEN 1 ELSE 0)
        rest == [i EXCEPT !.size = @ - take, !.addr = IF i.type = XD3_RUN THEN @ ELSE @ + take]
    IN  IF x.pos = win.length \/ x.insts = << >> THEN x
        ELSE FillWindow([s |-> s, pos |-> x.pos + take,
                         insts |-> (IF take = i.size THEN << >> ELSE <<rest>>) \o Tail(x.insts),
                         srcset |-> x.srcset \/ fromSource,
                         min |-> IF ~ fromSource THEN x.min
                                 ELSE IF x.srcset THEN Min({x.min, i.addr}) ELSE i.addr,
                         max |-> IF ~ fromSource THEN x.max
                                 ELSE IF x.srcset THEN Max({x.max, i.addr + take}) ELSE i.addr + take],
                        adds, win)

(* One turn of the outer loop of main_merge_output: the window is filled,  *)
(* its source window set, and ENC_INSTR to ENC_POSTWIN write it to out.    *)
MergeWindow(x, w, win) ==
    LET start == StartWindow([x.s EXCEPT !.next_in = [k \in 1 .. win.length |-> 0],
                                         !.recode_adler32 = win.adler32])
        set(f) == [f.s EXCEPT !.enc_state = "INSTR", !.next_in = SubSeq(@, 1, f.pos),
                              !.has_src = f.srcset, !.srcwin_decided = f.srcset,
                              !.srcbase = IF f.srcset THEN f.min ELSE @,
                              !.srclen = IF f.srcset THEN f.max - f.min ELSE 0,
                              !.taroff = f.max - f.min]
        written(f, done) ==
            [s |-> ResetWindow(done), insts |-> f.insts, pos |-> x.pos + f.pos,
             ret |-> IF x.pos # win.offset THEN "INVALID" ELSE x.ret,
             out |-> x.out \o Header(done) \o done.data \o done.inst \o done.addr]
        filled(f) == written(f, IoptAddFinalize(FlushInstructions(set(f), TRUE)))
    IN  filled(FillWindow([s |-> start, insts |-> x.insts, pos |-> 0,
                           srcset |-> FALSE, min |-> 0, max |-> 0], w.adds, win))

(* The outer loop of main_merge_output: the windows of the input delta, at *)
(* least one, as long as there are instructions.                           *)
MergeWindows(recode, w) ==
    IF w.ret # "ok" THEN [out |-> << >>, ret |-> w.ret]
    ELSE FoldLeft(LAMBDA x, win : IF x.insts = << >> /\ x.s.current_window > 0 THEN x
                                  ELSE MergeWindow(x, w, win),
                  [s |-> recode, insts |-> w.inst, pos |-> 0, ret |-> "ok", out |-> << >>],
                  w.wininfo)

(* main_merge_output *)
MergeOutput(stream, source, input) ==
    MergeWindows([stream EXCEPT !.iopt_size = RECODE_IOPT, !.flush = TRUE, !.has_src = FALSE,
                                !.adler = FALSE, !.has_in = TRUE],
                 MergeInputs(source, input))
=============================================================================
