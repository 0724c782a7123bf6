------------------------------ MODULE Xd3Match ------------------------------
(***************************************************************************)
(* String matching of the xdelta3 encoder (3party/xdelta3/xdelta3.c): the  *)
(* source is indexed block by block by a large checksum, the target window *)
(* by a small one; a hit is extended backward and forward and entered in   *)
(* the instruction buffer.  When the source block that is needed is not    *)
(* the one at hand, the search returns to the client (XD3_GETSRCBLK) and   *)
(* is entered again later.  As in Xd3Iopt, operators map the state e of    *)
(* the stream to its next state; e.ret tells how the function returned.    *)
(***************************************************************************)
EXTENDS Xd3Iopt, Xd3Hash

CONSTANTS LLOOK, LSTEP,      \* large checksum: bytes it covers, distance of two (9, 3)
          SCHAIN, SLCHAIN,   \* small matches to try, and when matching lazily (8, 2)
          MAXLAZY,           \* longest match that is followed by a lazy search (36)
          LONGENOUGH,        \* match that ends the search (70)
          MIN_RUN,           \* shortest run (8)
          Far4, Far5         \* distances too far for a match of 4, 5 (2^14, 2^21)

SLOOK == 4
USIZE_T_MAX == USize - 1

(* The byte at offset i of the window, and of the source. *)
Inp(e, i) == e.next_in[i + 1]
Src(e, i) == e.src[i + 1]
AvailIn(e) == Len(e.next_in)

(* How many of the n offsets from 0 on agree, until the first that does not. *)
Extent(same, n) == Max({k \in 0 .. n : 0 .. k - 1 \subseteq same})

-----------------------------------------------------------------------------
(* Bytes of the source on block b (onblk of that block). *)
OnBlk(e, b) == Max({0, Min({e.blksize, Len(e.src) - b * e.blksize})})

(* xd3_getblk with getblk = NULL: the block is at hand or the client has   *)
(* to supply it.  A short block reveals the end of the source.             *)
GetBlk(e, b) ==
    IF e.curblkno # b THEN [e EXCEPT !.getblkno = b, !.ret = "GETSRCBLK"]
    ELSE [e EXCEPT
            !.ret = "ok",
            !.max_blkno = Max({@, b}),
            !.eof_known = @ \/ (b > e.max_blkno /\ OnBlk(e, b) # e.blksize),
            !.onlastblk = IF b >= e.max_blkno THEN OnBlk(e, b) ELSE @]

(* xd3_bytes_on_srcblk *)
BytesOnBlk(e, b) == IF b = e.max_blkno THEN e.onlastblk ELSE e.blksize

-----------------------------------------------------------------------------
\* Mutant: a match is tried again where it was tried before.
NeverLooping(e, srcpos) == FALSE

(* The same position as the time before would repeat a search that was     *)
(* given up for a block that is not at hand.                               *)
Looping(e, srcpos) == srcpos # 0 /\ srcpos = e.match_last_srcpos

\* Mutant: the end of the source does not bound a match.
FollowsWindow(e, srcpos, fwd) == fwd

(* How far a match may go on before the source window is decided. *)
WithinSource(e, srcpos, fwd) == IF e.eof_known THEN Min({fwd, SourceEof(e) - srcpos}) ELSE fwd

(* xd3_source_match_setup: how far a source match at srcpos may extend.    *)
(* ret = "bad" when it may not be used at all.  No client sets             *)
(* XD3_BEGREEDY: a match may reach back to what has not been written.      *)
MatchSetup(e, srcpos) ==
    LET tooFar == srcpos < e.srcwin_cksum_pos /\ e.srcwin_cksum_pos - srcpos > e.max_winsize
        outside == /\ e.srcwin_decided
                   /\ srcpos \notin e.srcbase .. e.srcbase + e.srclen
        back == e.input_position - e.unencoded_offset
        fwd == AvailIn(e) - e.input_position
        r == IF e.srcwin_decided
             THEN [back |-> Min({back, srcpos - e.srcbase}),
                   fwd |-> Min({fwd, e.srcbase + e.srclen - srcpos})]
             ELSE [back |-> Min({back, srcpos}),
                   fwd |-> WithinSource(e, srcpos, fwd)]
        claims == [behindInput |-> e.input_position >= e.unencoded_offset,
                   inputLeft |-> AvailIn(e) > e.input_position,
                   windowDecided |-> e.srcwin_decided => e.srclen > 0]
        d == [e EXCEPT !.match_last_srcpos = srcpos, !.match_back = 0, !.match_fwd = 0]
    IN  IF Looping(e, srcpos) \/ tooFar
        THEN [d EXCEPT !.match_state = "SEARCHING", !.ret = "bad",
                       !.match_maxback = 0, !.match_maxfwd = 0]
        ELSE IF outside
        THEN [d EXCEPT !.match_state = "SEARCHING", !.ret = "bad",
                       !.match_maxback = back, !.match_maxfwd = fwd,
                       !.failed = @ \cup Failing(claims)]
        ELSE [d EXCEPT !.match_state = "BACKWARD", !.match_srcpos = srcpos, !.ret = "ok",
                       !.match_maxback = r.back, !.match_maxfwd = r.fwd,
                       !.failed = @ \cup Failing(claims)]

(* The first loop of xd3_source_extend_match: backward over the source     *)
(* blocks.                                                                 *)
RECURSIVE ExtendBackward(_)
ExtendBackward(e) ==
    LET matchoff == e.match_srcpos - e.match_back
        streamoff == e.input_position - e.match_back
        atEdge == matchoff % e.blksize = 0
        tryblk == (matchoff \div e.blksize) - (IF atEdge THEN 1 ELSE 0)
        tryoff == IF atEdge THEN e.blksize ELSE matchoff % e.blksize
        tryrem == Min({tryoff, e.match_maxback - e.match_back})
        same == {i \in 0 .. tryrem - 1 :
                    Src(e, matchoff - 1 - i) = Inp(e, streamoff - 1 - i)}
        matched == Extent(same, tryrem)
        g == GetBlk(e, tryblk)
        d == [g EXCEPT !.match_back = @ + matched]
    IN  IF e.match_back >= e.match_maxback THEN [e EXCEPT !.match_state = "FORWARD", !.ret = "ok"]
        ELSE IF g.ret # "ok" THEN g
        ELSE IF matched < tryrem THEN [d EXCEPT !.match_state = "FORWARD"]
        ELSE ExtendBackward(d)

(* The second loop: forward. *)
RECURSIVE ExtendForward(_)
ExtendForward(e) ==
    LET matchoff == e.match_srcpos + e.match_fwd
        streamoff == e.input_position + e.match_fwd
        tryblk == matchoff \div e.blksize
        tryoff == matchoff % e.blksize
        tryrem == Min({e.match_maxfwd - e.match_fwd, OnBlk(e, tryblk) - tryoff})
        same == {i \in 0 .. tryrem - 1 : Src(e, matchoff + i) = Inp(e, streamoff + i)}
        matched == Extent(same, tryrem)
        g == GetBlk(e, tryblk)
        d == [g EXCEPT !.match_fwd = @ + matched,
                       !.failed = @ \cup Failing([shortBlock |->
                                        tryrem > 0 \/ OnBlk(e, tryblk) < e.blksize])]
    IN  IF e.match_fwd >= e.match_maxfwd THEN [e EXCEPT !.ret = "ok"]
        ELSE IF g.ret # "ok" THEN g
        ELSE IF tryrem = 0 \/ matched < tryrem THEN d
        ELSE ExtendForward(d)

(* The end of xd3_source_extend_match: a match that is long enough is      *)
(* entered; one that reaches the end of the window is continued in the     *)
(* next one.                                                               *)
TakeMatch(e) ==
    LET pos == e.input_position - e.match_back
        len == e.match_back + e.match_fwd
        start == e.match_srcpos - e.match_back
        end == e.match_srcpos + e.match_fwd
        continued == pos + len = AvailIn(e)
        covered == IF e.match_back > 0 THEN IoptErase(e, pos) ELSE e
        d == [covered EXCEPT
                !.match_state = IF continued THEN "TARGET" ELSE "SEARCHING",
                !.match_srcpos = IF continued THEN end ELSE @,
                !.match_back = 0,
                !.ret = "ok",
                !.match_minaddr = IF e.match_maxaddr = 0 \/ start < @ THEN start ELSE @,
                !.match_maxaddr = Max({@, end}),
                !.maxsrcaddr = Max({@, end})]
    IN  IF e.match_fwd < e.min_match
        THEN [e EXCEPT !.match_state = "SEARCHING", !.match_fwd = 0, !.ret = "ok"]
        ELSE FoundMatch(d, pos, len, start, 1)

(* xd3_source_extend_match: backward, if it has not yet been so, forward,  *)
(* and to the end, unless one of the loops returns for a block.            *)
Extended(f) == IF f.ret # "ok" THEN f ELSE TakeMatch(f)
ExtendedBackward(b) == IF b.ret # "ok" THEN b ELSE Extended(ExtendForward(b))
ExtendMatch(e) ==
    IF e.match_state = "BACKWARD" THEN ExtendedBackward(ExtendBackward(e))
    ELSE Extended(ExtendForward(e))

-----------------------------------------------------------------------------
(* The hash of the string of look bytes at an offset. *)
LargeHash(e, s) == checksum_hash(e.large_bits, large_cksum(s))
Gram(e, i) == SubSeq(e.next_in, i + 1, i + SLOOK)

(* xd3_scksum_insert: entries are offset by one, 0 is an empty bucket.     *)
(* small_prev is a ring; it exists when chains are followed.               *)
ScksumInsert(e, inx, pos) ==
    [e EXCEPT !.small_prev = IF SCHAIN > 1 \/ SLCHAIN > 1
                             THEN [@ EXCEPT ![pos % e.sprevsz] = e.small_table[inx]] ELSE @,
              !.small_table[inx] = pos + 1]

(* xd3_smatch: the longest of the matches on the chain from base on.       *)
RECURSIVE FollowChain(_, _, _, _)
FollowChain(e, base, chain, best) ==
    LET rest == AvailIn(e) - e.input_position
        same == {i \in 0 .. rest - 1 : Inp(e, base + i) = Inp(e, e.input_position + i)}
        cmp_len == Extent(same, rest)
        better == cmp_len > best.len
        now == IF better THEN [len |-> cmp_len, off |-> base] ELSE best
        enough == better /\ (\/ e.input_position + cmp_len = AvailIn(e)
                             \/ cmp_len >= LONGENOUGH)
        prev == e.small_prev[base % e.sprevsz]
    IN  IF enough \/ chain = 1 THEN now
        ELSE IF prev = 0 \/ prev - 1 > base \/ e.input_position - (prev - 1) >= e.sprevsz
        THEN now
        ELSE FollowChain(e, prev - 1, chain - 1, now)

Smatch(e, entry) ==
    LET tooFar(m, dist) == (m.len = 4 /\ dist >= Far4) \/ (m.len = 5 /\ dist >= Far5)
        checked(m) == IF tooFar(m, e.input_position - m.off) THEN [m EXCEPT !.len = 0] ELSE m
    IN  checked(FollowChain(e, entry - 1, IF e.min_match = MIN_MATCH THEN SCHAIN ELSE SLCHAIN,
                            [len |-> 0, off |-> 0]))

-----------------------------------------------------------------------------
(* The loop of xd3_srcwin_move_point: the blocks up to target are indexed. *)
(* Within a block positions are entered from its end on, LSTEP apart, so   *)
(* of those that share a bucket the lowest one stays.                      *)
RECURSIVE IndexBlocks(_, _)
IndexBlocks(e, target) ==
    LET blkno == e.srcwin_cksum_pos \div e.blksize
        oldpos == e.srcwin_cksum_pos % e.blksize
        g == GetBlk(e, blkno)
        last == BytesOnBlk(g, blkno) - LLOOK
        at(p) == blkno * e.blksize + p
        entered == {p \in 0 .. last : (last - p) % LSTEP = 0 /\ (p >= oldpos \/ p = last)}
        hashOf == [p \in entered |-> LargeHash(e, SubSeq(e.src, at(p) + 1, at(p) + LLOOK))]
        table == [h \in DOMAIN e.large_table |->
                    LET ps == {p \in entered : hashOf[p] = h}
                    IN  IF ps = {} THEN e.large_table[h] ELSE at(Min(ps)) + 1]
    IN  IF e.srcwin_cksum_pos >= target \/ (e.eof_known /\ e.srcwin_cksum_pos >= SourceEof(e))
        THEN [e EXCEPT !.ret = "ok"]
        ELSE IF g.ret # "ok" THEN g
        ELSE IndexBlocks([g EXCEPT !.large_table = IF last < 0 THEN @ ELSE table,
                                   !.srcwin_cksum_pos = (blkno + 1) * e.blksize], target)

(* xd3_srcwin_move_point *)
MovePoint(e) ==
    LET pos == e.total_in + e.input_position
        half == e.max_winsize \div 2
        ahead == pos + half + 2 * e.blksize
        from == Max({e.srcwin_cksum_pos, e.maxsrcaddr})
        target == Max({from, IF pos < half THEN e.max_winsize ELSE ahead - (ahead % e.blksize)})
        moved(d) ==
            IF d.ret # "ok" THEN d
            ELSE IF d.eof_known /\ d.srcwin_cksum_pos >= SourceEof(d)
            THEN [d EXCEPT !.srcwin_cksum_pos = SourceEof(d), !.next_move_point = USIZE_T_MAX]
            ELSE [d EXCEPT !.next_move_point =
                      e.input_position + e.blksize - ((d.srcwin_cksum_pos - target) % e.blksize),
                           !.failed = @ \cup Failing([targetReached |-> d.srcwin_cksum_pos >= target])]
    IN  IF e.eof_known /\ e.srcwin_cksum_pos = SourceEof(e)
        THEN [e EXCEPT !.next_move_point = USIZE_T_MAX, !.ret = "ok"]
        ELSE moved(IndexBlocks([e EXCEPT !.srcwin_cksum_pos = from], target))
=============================================================================
