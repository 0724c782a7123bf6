----------------------------- MODULE Xd3Encoder -----------------------------
(***************************************************************************)
(* The encoding state machine of xdelta3 (xd3_encode_input and             *)
(* xd3_string_match of 3party/xdelta3/xdelta3.c) with its client.  The     *)
(* client that this program uses is xd3_encode_memory: whole windows, each *)
(* flushed, and the source as a single block.  The library's other client  *)
(* hands over the target in pieces of any size and the source one block    *)
(* at a time, as the encoder asks for it.                                  *)
(***************************************************************************)
EXTENDS Xd3Match

CONSTANTS Jobs,           \* what there is to encode: [target, source, ...]
          DEFAULT_WINSIZE,\* XD3_DEFAULT_WINSIZE
          ALLOCSIZE,      \* XD3_ALLOCSIZE, the least max_winsize
          OUTPUT_MAX,     \* size of the client's output buffer
          Pieces          \* sizes of the pieces of a client that streams

VARIABLES job,      \* the job at hand
          e,        \* the xd3_stream and its xd3_source
          ipos,     \* bytes of the target given to the encoder
          out,      \* bytes taken from the encoder
          client    \* what the client does next

vars == <<job, e, ipos, out, client>>

(* xd3_pow2_roundup *)
Pow2Roundup(n) == CHOOSE p \in {2 ^ i : i \in 0 .. 12} : p >= n /\ (p = 1 \/ p \div 2 < n)

(* xd3_set_source and xd3_set_source_and_size. *)
SetSource(j) ==
    LET blksize == IF j.memory THEN Pow2Roundup(Max({1, Len(j.source)})) ELSE j.blksize
        known == j.memory \/ j.size_known
    IN  [blksize |-> blksize,
         max_winsize |-> Max({ALLOCSIZE, IF j.memory THEN blksize ELSE j.max_winsize}),
         eof_known |-> known,
         max_blkno |-> IF known THEN Len(j.source) \div blksize ELSE 0,
         onlastblk |-> IF known THEN Len(j.source) % blksize ELSE 0]

(* xd3_process_memory, or a client that streams, up to the first call:     *)
(* xd3_config_stream, the source and xd3_encode_init.  has_src = FALSE     *)
(* stands for source = NULL.                                               *)
NewStream(j) ==
    LET winsize == IF j.memory /\ j.target # << >>
                   THEN Min({Len(j.target), DEFAULT_WINSIZE}) ELSE DEFAULT_WINSIZE
        sprevsz == Pow2Roundup(winsize)
        s == SetSource(j)
        lbits == HashBits(s.max_winsize \div LSTEP)
        sbits == HashBits(winsize)
    IN  [winsize |-> winsize, sprevsz |-> sprevsz, iopt_size |-> j.iopt_size,
         adler |-> j.adler, flush |-> j.memory,
         src |-> j.source, has_src |-> j.has_src,
         blksize |-> s.blksize, max_winsize |-> s.max_winsize,
         curblkno |-> IF j.memory THEN 0 ELSE -1, getblkno |-> 0,
         eof_known |-> s.eof_known, max_blkno |-> s.max_blkno, onlastblk |-> s.onlastblk,
         srcbase |-> 0, srclen |-> 0, taroff |-> 0, srcwin_decided |-> FALSE,
         match_minaddr |-> 0, match_maxaddr |-> 0, maxsrcaddr |-> 0, srcwin_cksum_pos |-> 0,
         match_state |-> "TARGET", match_srcpos |-> 0, match_last_srcpos |-> 0,
         match_back |-> 0, match_maxback |-> 0, match_fwd |-> 0, match_maxfwd |-> 0,
         large_bits |-> lbits, small_bits |-> sbits,
         large_table |-> [h \in 0 .. 2 ^ lbits - 1 |-> 0],
         small_table |-> [h \in 0 .. 2 ^ sbits - 1 |-> 0],
         small_prev |-> [i \in 0 .. sprevsz - 1 |-> 0],
         small_alloc |-> FALSE, small_reset |-> FALSE,
         has_in |-> FALSE, next_in |-> << >>, buf |-> << >>, leftover |-> << >>,
         total_in |-> 0, current_window |-> 0, enc_state |-> "INPUT",
         input_position |-> 0, min_match |-> MIN_MATCH, unencoded_offset |-> 0,
         run_l |-> 0, run_c |-> 0, lcksum |-> 0, next_move_point |-> 0,
         acache |-> InitCache, iopt_used |-> << >>, iout |-> NoInst,
         hdr |-> << >>, data |-> << >>, inst |-> << >>, addr |-> << >>, pending |-> << >>,
         recode_adler32 |-> << >>, no_slot |-> FALSE, failed |-> {}, ret |-> "ok"]

Init == /\ job \in Jobs
        /\ e = NewStream(job)
        /\ ipos = 0
        /\ out = << >>
        /\ client = "input"

-----------------------------------------------------------------------------
(* xd3_avail_input: the client hands over a piece of at most a window, a   *)
(* whole one in xd3_process_stream; the streaming client sets XD3_FLUSH    *)
(* with its last piece.                                                    *)
AvailInput(n) ==
    /\ client = "input"
    /\ ~ e.has_in \/ ipos < Len(job.target)
    /\ n <= Min({e.winsize, Len(job.target) - ipos})
    /\ IF job.memory THEN n = Min({e.winsize, Len(job.target) - ipos})
                     ELSE n > 0 \/ job.target = << >>
    /\ e' = [e EXCEPT !.has_in = TRUE,
                      !.next_in = SubSeq(job.target, ipos + 1, ipos + n),
                      !.flush = @ \/ ipos + n = Len(job.target)]
    /\ ipos' = ipos + n
    /\ client' = "call"
    /\ UNCHANGED <<job, out>>

(* xd3_close_stream after the last piece. *)
Close ==
    /\ client = "input"
    /\ e.has_in
    /\ ipos = Len(job.target)
    /\ client' = IF e.leftover # << >> \/ e.next_in # << >> THEN "incomplete" ELSE "done"
    /\ UNCHANGED <<job, e, ipos, out>>

(* The client supplies the source block that was asked for.  The memory    *)
(* client never does: XD3_GETSRCBLK is its error "library requested source *)
(* block".                                                                 *)
SupplyBlock ==
    /\ client = "getblk"
    /\ IF job.memory THEN client' = "no_block" /\ UNCHANGED e
       ELSE client' = "call" /\ e' = [e EXCEPT !.curblkno = e.getblkno]
    /\ UNCHANGED <<job, ipos, out>>

-----------------------------------------------------------------------------
(* xd3_encode_buffer_leftover: input short of a window is collected.       *)
BufferLeftover(s) ==
    LET start == IF s.leftover # << >> THEN s.leftover ELSE s.buf
        take == Min({s.winsize - Len(start), Len(s.next_in)})
        filled == start \o SubSeq(s.next_in, 1, take)
        rest == SubSeq(s.next_in, take + 1, Len(s.next_in))
        short == rest = << >> /\ Len(filled) < s.winsize /\ ~ s.flush
        d == [s EXCEPT !.leftover = rest,
                       !.failed = @ \cup Failing([emptyBuffer |-> s.leftover # << >> => s.buf = << >>,
                                                  shortLeftover |-> Len(s.leftover) < s.winsize])]
    IN  IF short THEN [d EXCEPT !.buf = filled, !.ret = "INPUT"]
        ELSE [d EXCEPT !.next_in = filled, !.buf = << >>, !.ret = "ok"]

\* Mutant: the address cache is that of the window before.
InitWindowKeepsCache(s) == [s EXCEPT !.input_position = 0, !.min_match = MIN_MATCH,
                                     !.unencoded_offset = 0, !.enc_state = "SEARCH"]

(* A window begins, with an empty address cache. *)
InitWindow(s) == [s EXCEPT !.acache = InitCache, !.input_position = 0, !.min_match = MIN_MATCH,
                           !.unencoded_offset = 0, !.enc_state = "SEARCH"]

(* ENC_INPUT *)
StartWindow(s) ==
    LET buffering == \/ s.leftover # << >>
                     \/ s.buf # << >>
                     \/ Len(s.next_in) < s.winsize /\ ~ s.flush
        d == IF buffering THEN BufferLeftover(s) ELSE [s EXCEPT !.ret = "ok"]
    IN  IF d.ret = "INPUT" THEN d
        ELSE InitWindow(d)

EncInput ==
    /\ client = "call"
    /\ e.enc_state = "INPUT"
    /\ e' = StartWindow(e)
    /\ client' = IF e'.ret = "INPUT" THEN "input" ELSE "call"
    /\ UNCHANGED <<job, ipos, out>>

(* A function of the search returns to the client to get a source block;   *)
(* the next call enters ENC_SEARCH again.                                  *)
Returning(s) == IF s.ret = "GETSRCBLK" THEN [s EXCEPT !.enc_state = "SEARCH"] ELSE s
Caller(s) == IF s.ret = "GETSRCBLK" THEN "getblk" ELSE "call"

(* The entry of xd3_string_match, with xd3_string_match_init: tables are   *)
(* made when they are first used, and the small one is cleared once per    *)
(* window.                                                                 *)
EnterStringMatch(s) ==
    IF s.input_position + SLOOK > AvailIn(s) THEN [s EXCEPT !.enc_state = "INSTR"]
    ELSE [s EXCEPT !.enc_state = "RESTART",
                   !.next_move_point = 0,
                   !.small_alloc = TRUE,
                   !.small_reset = IF s.small_alloc THEN FALSE ELSE @,
                   !.small_table = IF s.small_alloc /\ s.small_reset
                                   THEN [h \in DOMAIN @ |-> 0] ELSE @]

(* ENC_SEARCH: a source match is begun at the start of the stream, or      *)
(* continued from the previous window or from before the client was asked  *)
(* for a block; then the string matcher is entered.                        *)
ReentrantMatch(s) ==
    LET setup == MatchSetup(s, s.match_srcpos)
        m == IF s.match_state # "TARGET" THEN s
             ELSE IF AvailIn(s) > 0
             THEN [setup EXCEPT !.match_state = "FORWARD",
                                !.failed = @ \cup Failing([setupSucceeds |-> setup.ret = "ok"])]
             ELSE [s EXCEPT !.match_state = "SEARCHING", !.match_fwd = 0]
        after(x) == IF x.ret # "ok" THEN x ELSE [x EXCEPT !.input_position = @ + x.match_fwd]
    IN  IF m.match_state = "SEARCHING" \/ AvailIn(s) = 0 THEN [m EXCEPT !.ret = "ok"]
        ELSE after(ExtendMatch(m))

EncSearch ==
    /\ client = "call"
    /\ e.enc_state = "SEARCH"
    /\ \E r \in {IF e.has_src THEN ReentrantMatch(e) ELSE [e EXCEPT !.ret = "ok"]} :
          /\ e' = IF r.ret # "ok" THEN Returning(r)
                  ELSE IF AvailIn(e) # 0 THEN EnterStringMatch(r)
                  ELSE [r EXCEPT !.enc_state = "INSTR"]
          /\ client' = Caller(r)
    /\ UNCHANGED <<job, ipos, out>>

-----------------------------------------------------------------------------
NextRun(r, c) == IF c = r.run_c THEN [r EXCEPT !.run_l = @ + 1]
                 ELSE [r EXCEPT !.run_l = 1, !.run_c = c]

(* xd3_comprun *)
CompRun(s) == FoldLeft(NextRun, [run_l |-> 0, run_c |-> 0], s)

(* restartloop: the incremental state is computed afresh. *)
RestartLoop ==
    /\ client = "call"
    /\ e.enc_state = "RESTART"
    /\ LET p == e.input_position
           last == IoptLastMatched(e)
           run == CompRun(Gram(e, p))
           d == [e EXCEPT !.min_match = IF last > p THEN Max({MIN_MATCH, 1 + last - p}) ELSE MIN_MATCH,
                          !.run_l = run.run_l, !.run_c = run.run_c]
           large == e.has_src /\ p + LLOOK <= AvailIn(e)
       IN  IF p + SLOOK > AvailIn(e)
           THEN e' = [e EXCEPT !.enc_state = "INSTR"] /\ UNCHANGED client
           ELSE \E m \in {IF large THEN MovePoint(d) ELSE [d EXCEPT !.ret = "ok"]} :
                   /\ client' = Caller(m)
                   /\ e' = IF m.ret # "ok" THEN Returning(m)
                           ELSE [m EXCEPT !.enc_state = "LOOP",
                                          !.lcksum = IF large
                                             THEN large_cksum(SubSeq(e.next_in, p + 1, p + LLOOK)) ELSE @]
    /\ UNCHANGED <<job, ipos, out>>

(* updateone: the incremental state moves by one byte. *)
UpdateOne(s) ==
    LET p == s.input_position
        run == NextRun([run_l |-> s.run_l, run_c |-> s.run_c], Inp(s, p + SLOOK))
    IN  IF p + SLOOK = AvailIn(s) THEN [s EXCEPT !.enc_state = "INSTR"]
        ELSE [s EXCEPT !.input_position = @ + 1, !.run_l = run.run_l, !.run_c = run.run_c,
                       !.lcksum = IF s.has_src /\ p + LLOOK < AvailIn(s)
                                  THEN large_cksum_update(@, LLOOK, Inp(s, p), Inp(s, p + LLOOK)) ELSE @]

(* HANDLELAZY: after a short instruction the search goes on at the next    *)
(* byte, otherwise after the instruction.                                  *)
HandleLazy(s, len) ==
    IF MAXLAZY > 0 /\ len < MAXLAZY /\ s.input_position + len <= AvailIn(s) - 2
    THEN UpdateOne([s EXCEPT !.min_match = len])
    ELSE [s EXCEPT !.input_position = @ + len, !.enc_state = "RESTART"]

(* The small match of an iteration. *)
TrySmall(s) ==
    LET p == s.input_position
        inx == checksum_hash(s.small_bits, scksum(Gram(s, p)))
        entry == s.small_table[inx]
        d == [ScksumInsert(s, inx, p) EXCEPT
                !.failed = @ \cup Failing([chainBehind |-> entry <= p,
                                           roomForMatch |-> entry # 0 => s.min_match + p <= AvailIn(s)])]
        found(m) == IF m.len >= s.min_match
                    THEN HandleLazy(FoundMatch(d, p, m.len, m.off, 0), m.len)
                    ELSE UpdateOne([d EXCEPT !.min_match = Max({MIN_MATCH, @ - 1})])
    IN  found(IF entry # 0 THEN Smatch(s, entry) ELSE [len |-> 0, off |-> 0])

(* A candidate in the source for the string at hand, followed as far as it *)
(* goes.                                                                   *)
FollowLarge(m) ==
    LET found(x) == IF x.ret = "ok" /\ x.match_fwd = 0 THEN [x EXCEPT !.ret = "none"] ELSE x
    IN  IF m.ret = "bad" THEN [m EXCEPT !.ret = "none"] ELSE found(ExtendMatch(m))
LookUpLarge(m) ==
    LET entry == m.large_table[checksum_hash(m.large_bits, m.lcksum)]
    IN  IF m.ret # "ok" THEN m
        ELSE IF entry = 0 THEN [m EXCEPT !.ret = "none"]
        ELSE FollowLarge(MatchSetup(m, entry - 1))

(* The large match of an iteration; ret = "ok" and match_fwd > 0 when a    *)
(* match was entered.                                                      *)
TryLarge(s) ==
    LET moved == IF s.input_position >= s.next_move_point THEN MovePoint(s) ELSE [s EXCEPT !.ret = "ok"]
    IN  IF ~ s.has_src \/ s.input_position + LLOOK > AvailIn(s) THEN [s EXCEPT !.ret = "none"]
        ELSE LookUpLarge(moved)

(* One iteration of the loop of xd3_string_match: a run, a large match, a  *)
(* small match, in this order.                                             *)
MatchLoop ==
    /\ client = "call"
    /\ e.enc_state = "LOOP"
    /\ LET p == e.input_position
           rest == AvailIn(e) - p - e.run_l
           isC == {i \in 0 .. rest - 1 : Inp(e, p + e.run_l + i) = e.run_c}
           r == IF e.run_l = SLOOK
                THEN [e EXCEPT !.run_l = @ + Extent(isC, rest)] ELSE e
           isRun == e.run_l = SLOOK /\ r.run_l >= e.min_match /\ r.run_l >= MIN_RUN
       IN  IF isRun
           THEN e' = HandleLazy(EmitRun(r, p, r.run_l, r.run_c), r.run_l) /\ UNCHANGED client
           ELSE \E l \in {TryLarge(r)} :
                   /\ e' = CASE l.ret = "GETSRCBLK" -> Returning(l)
                             [] l.ret = "ok" -> HandleLazy(l, l.match_fwd)
                             [] l.ret = "none" -> TrySmall(l)
                   /\ client' = Caller(l)
    /\ UNCHANGED <<job, ipos, out>>

-----------------------------------------------------------------------------
(* ENC_INSTR: the instruction buffer is emptied. *)
EncInstr ==
    /\ client = "call"
    /\ e.enc_state = "INSTR"
    /\ e' = [IoptAddFinalize(FlushInstructions(e, TRUE)) EXCEPT !.enc_state = "FLUSH"]
    /\ UNCHANGED <<job, ipos, out, client>>

(* xd3_emit_hdr without secondary compression and application header.  The *)
(* checksum is computed, or that of the delta that is encoded again.       *)
Header(s) ==
    LET cksum == IF s.adler THEN Adler32(s.next_in) ELSE s.recode_adler32
        win_ind == (IF s.srclen # 0 THEN VCD_SOURCE ELSE 0) + (IF cksum # << >> THEN VCD_ADLER32 ELSE 0)
    IN  (IF s.current_window = 0 THEN Magic \o <<0>> ELSE << >>)
        \o <<win_ind>>
        \o (IF s.srclen # 0 THEN EmitInteger(s.srclen) \o EmitInteger(s.srcbase) ELSE << >>)
        \o EmitInteger(EncLen(AvailIn(s), Len(s.data), Len(s.inst), Len(s.addr), cksum # << >>))
        \o EmitInteger(AvailIn(s)) \o <<0>>
        \o EmitInteger(Len(s.data)) \o EmitInteger(Len(s.inst)) \o EmitInteger(Len(s.addr))
        \o cksum

(* ENC_FLUSH: the sections are chained; those that hold anything are put   *)
(* out one after the other.                                                *)
EncFlush ==
    /\ client = "call"
    /\ e.enc_state = "FLUSH"
    /\ e' = [e EXCEPT !.enc_state = "POSTOUT",
                      !.pending = SelectSeq(<<Header(e), e.data, e.inst, e.addr>>,
                                            LAMBDA s : s # << >>)]
    /\ client' = "output"
    /\ UNCHANGED <<job, ipos, out>>

(* XD3_OUTPUT and xd3_consume_output; the last buffer is followed by       *)
(* XD3_WINFINISH.                                                          *)
TakeOutput ==
    /\ client = "output"
    /\ IF Len(out) + Len(Head(e.pending)) > OUTPUT_MAX
       THEN client' = "no_space" /\ UNCHANGED <<e, out>>
       ELSE /\ out' = out \o Head(e.pending)
            /\ e' = [e EXCEPT !.pending = Tail(@),
                              !.enc_state = IF Len(e.pending) = 1 THEN "POSTWIN" ELSE @,
                              !.total_in = IF Len(e.pending) = 1 THEN @ + AvailIn(e) ELSE @]
            /\ client' = IF Len(e.pending) = 1 THEN "call" ELSE "output"
    /\ UNCHANGED <<job, ipos>>

(* xd3_encode_reset, and ENC_POSTWIN. *)
ResetWindow(s) ==
    [s EXCEPT !.next_in = << >>, !.small_reset = TRUE,
              !.srcbase = 0, !.srclen = 0, !.taroff = 0, !.srcwin_decided = FALSE,
              !.match_minaddr = 0, !.match_maxaddr = 0,
              !.data = << >>, !.inst = << >>, !.addr = << >>,
              !.current_window = @ + 1, !.enc_state = "INPUT"]

(* ENC_POSTWIN; leftover input begins a window at once. *)
EncPostwin ==
    /\ client = "call"
    /\ e.enc_state = "POSTWIN"
    /\ e' = IF e.leftover # << >> THEN StartWindow(ResetWindow(e))
            ELSE [ResetWindow(e) EXCEPT !.ret = "INPUT"]
    /\ client' = IF e'.ret = "INPUT" THEN "input" ELSE "call"
    /\ UNCHANGED <<job, ipos, out>>

Next == \/ \E n \in Pieces \cup {0, e.winsize, Len(job.target) - ipos} : AvailInput(n)
        \/ Close
        \/ SupplyBlock
        \/ EncInput
        \/ EncSearch
        \/ RestartLoop
        \/ MatchLoop
        \/ EncInstr
        \/ EncFlush
        \/ TakeOutput
        \/ EncPostwin
=============================================================================
