------------------------------ MODULE Xd3Codec ------------------------------
(***************************************************************************)
(* Encoder and decoder of xdelta3 put together: a delta is encoded, kept,  *)
(* possibly cut short, and decoded against the same source.  The client of *)
(* a memory job is the XDelta class of encoder/xdelta.h: one output buffer *)
(* serves encode and decode, so that a delta that was not copied           *)
(* (in_place) is overwritten by what is decoded from it.  The delta of a   *)
(* merge job is merged with an earlier one, which made the source from     *)
(* job.base, and the merged delta is decoded against that base.            *)
(***************************************************************************)
EXTENDS Xd3Merge

CONSTANTS DecodePieces,   \* sizes in which a streaming client hands over the delta
          Cuts            \* bound: how many bytes a delta may lose at its end

VARIABLES d,         \* the decoding xd3_stream
          curblk,    \* the source block the decoder holds, -1 for none
          mem,       \* the client's buffer that holds the delta
          at,        \* how much of mem the decoder has consumed
          avail,     \* bytes handed over and not consumed
          dout,      \* what was decoded
          whole,     \* whole_target: the instructions of a delta to be merged
          reader     \* what the decoder's client does next

dvars == <<d, curblk, mem, at, avail, dout, whole, reader>>
allvars == <<job, e, ipos, out, client, d, curblk, mem, at, avail, dout, whole, reader>>

CodecInit ==
    /\ Init
    /\ d = NewDecoder(job.merge)
    /\ whole = NoWhole
    /\ curblk = -1
    /\ mem = << >>
    /\ at = 0
    /\ avail = 0
    /\ dout = << >>
    /\ reader = "idle"

(* The delta is read back, without its last cut bytes. *)
StartDecode(cut) ==
    /\ client = "done"
    /\ reader = "idle"
    /\ job.merge => cut = 0
    /\ mem' = SubSeq(out, 1, Max({0, Len(out) - cut}))
    /\ curblk' = IF job.memory THEN 0 ELSE -1
    /\ reader' = "input"
    /\ UNCHANGED <<d, at, avail, dout, whole>>

(* xd3_avail_input; xd3_process_stream hands over all there is. *)
DecodeAvailInput(n) ==
    /\ reader = "input"
    /\ at < Len(mem)
    /\ n \in 1 .. Len(mem) - at
    /\ job.memory => n = Len(mem) - at
    /\ avail' = n
    /\ reader' = "call"
    /\ UNCHANGED <<d, curblk, mem, at, dout, whole>>

\* Mutant: a window that is not complete is forgotten.
DecodeCloseAnywhere ==
    /\ reader = "input"
    /\ at = Len(mem)
    /\ reader' = IF d.skip_emit THEN "merge" ELSE "done"
    /\ UNCHANGED <<d, curblk, mem, at, avail, dout, whole>>

(* xd3_close_stream: fine between two windows, and before the header.      *)
(* Then a delta that is to be merged is complete.                          *)
DecodeClose ==
    /\ reader = "input"
    /\ at = Len(mem)
    /\ reader' = IF d.state \notin {"VCHEAD", "WININD"} THEN "eof"
                 ELSE IF d.skip_emit THEN "merge" ELSE "done"
    /\ UNCHANGED <<d, curblk, mem, at, avail, dout, whole>>

(* How the client goes on after a call that left the stream in r. *)
Reader(r) == CASE r.ret \in {"INVALID_INPUT", "UNIMPLEMENTED", "ENOMEM"} -> "refused"
               [] r.ret = "OUTPUT" -> IF r.skip_emit THEN "append" ELSE "output"
               [] r.ret = "GETSRCBLK" -> "getblk"
               [] OTHER -> "call"

DecodeHeader ==
    /\ reader = "call"
    /\ d.state \notin {"DATA", "INST", "ADDR", "EMIT", "FINISH"}
    /\ IF avail = 0 THEN reader' = "input" /\ UNCHANGED <<d, at, avail>>
       ELSE /\ d' = DecodeByte(d, mem[at + 1])
            /\ at' = at + 1
            /\ avail' = avail - 1
            /\ reader' = Reader(d')
    /\ UNCHANGED <<curblk, mem, dout, whole>>

DecodeSections ==
    /\ reader = "call"
    /\ d.state \in {"DATA", "INST", "ADDR"}
    /\ \E r \in {DecodeSection(d, SubSeq(mem, at + 1, at + avail), at)} :
          /\ d' = r.d
          /\ at' = at + r.taken
          /\ avail' = avail - r.taken
          /\ reader' = IF r.d.state = d.state THEN "input" ELSE Reader(r.d)
    /\ UNCHANGED <<curblk, mem, dout, whole>>

(* What the delta in mem is decoded against. *)
Merged == job.merge /\ ~ d.skip_emit
Source == LET bytes == IF Merged THEN job.base ELSE job.source
          IN  [bytes |-> bytes, curblkno |-> curblk,
               blksize |-> IF job.memory THEN Pow2Roundup(Max({1, Len(bytes)})) ELSE e.blksize]

DecodeEmit ==
    /\ reader = "call"
    /\ d.state = "EMIT"
    /\ d' = Emit(d, mem, Source, Merged \/ job.has_src)
    /\ reader' = Reader(d')
    /\ UNCHANGED <<curblk, mem, at, avail, dout, whole>>

(* The decoder's client supplies a block; the memory client has no other.  *)
DecodeSupplyBlock ==
    /\ reader = "getblk"
    /\ IF job.memory THEN reader' = "no_block" /\ UNCHANGED <<d, curblk>>
       ELSE curblk' = d.getblkno /\ d' = [d EXCEPT !.ret = "ok"] /\ reader' = "call"
    /\ UNCHANGED <<mem, at, avail, dout, whole>>

(* DEC_FINISH *)
FinishDecoding(r) == [r EXCEPT !.ret = "ok", !.state = "WININD", !.part = 0, !.bytes = << >>,
                               !.next_out = << >>, !.window_count = @ + 1]

(* XD3_OUTPUT: the window is copied out, in place over the delta itself if *)
(* that is where the output buffer is; then DEC_FINISH.                    *)
DecodeTakeOutput ==
    /\ reader = "output"
    /\ IF Len(dout) + Len(d.next_out) > OUTPUT_MAX
       THEN reader' = "no_space" /\ UNCHANGED <<d, mem, dout>>
       ELSE /\ dout' = dout \o d.next_out
            /\ mem' = IF job.memory /\ job.in_place
                      THEN [i \in DOMAIN mem |-> IF i <= Len(dout') THEN dout'[i] ELSE mem[i]] ELSE mem
            /\ d' = FinishDecoding(d)
            /\ reader' = "call"
    /\ UNCHANGED <<curblk, at, avail, whole>>

(* main_merge_func: the instructions of a window are collected. *)
MergeFunc ==
    /\ reader = "append"
    /\ \E x \in {WholeAppendWindow(whole, d, mem)} :
          /\ whole' = x.w
          /\ d' = IF x.d.ret = "ok" THEN FinishDecoding(x.d) ELSE x.d
          /\ reader' = IF x.d.ret = "ok" THEN "call" ELSE "refused"
    /\ UNCHANGED <<curblk, mem, at, avail, dout>>

(* The delta is merged with the first one, and then decoded. *)
MergeDeltas ==
    /\ reader = "merge"
    /\ \E x \in {MergeOutput(NewStream(job), job.first, whole)} :
          /\ mem' = x.out
          /\ reader' = IF x.ret = "ok" THEN "input" ELSE "refused"
    /\ d' = NewDecoder(FALSE)
    /\ curblk' = IF job.memory THEN 0 ELSE -1
    /\ at' = 0
    /\ UNCHANGED <<avail, dout, whole>>

DecodeNext == \/ \E cut \in Cuts : StartDecode(cut)
              \/ \E n \in DecodePieces \cup {Len(mem) - at} : DecodeAvailInput(n)
              \/ DecodeClose
              \/ DecodeHeader
              \/ DecodeSections
              \/ DecodeEmit
              \/ DecodeSupplyBlock
              \/ DecodeTakeOutput
              \/ MergeFunc
              \/ MergeDeltas

Finished == client \in {"incomplete", "no_block", "no_space"}
            \/ reader \in {"done", "eof", "refused", "no_block", "no_space"}

CodecNext == \/ Next /\ UNCHANGED dvars
             \/ DecodeNext /\ UNCHANGED vars
             \/ Finished /\ UNCHANGED allvars

(* A client calls the library until it is done.  Some step is enabled      *)
(* until then, so this is the weak fairness of CodecNext without its       *)
(* ENABLED, which is slow to evaluate.                                     *)
KeepsCalling == []<>Finished \/ []<><<TRUE>>_allvars

CodecSpec == CodecInit /\ [][CodecNext]_allvars /\ KeepsCalling

-----------------------------------------------------------------------------
Whole == Len(mem) = Len(out)

(* A delta that was kept whole is decoded to the target it was encoded     *)
(* from, and is not refused: not for what the search found, how            *)
(* instructions were cut and paired, how addresses were sent, nor for how  *)
(* input and source blocks were handed over (xdelta_test.cpp checks this   *)
(* for one pair of chunks).                                                *)
RoundTrip == Finished /\ ~ job.merge /\ (reader = "idle" \/ Whole) => reader = "done" /\ dout = job.target

(* A delta that lost its end is refused, wherever in its last window the   *)
(* cut is and however the rest is handed over: it is not taken for a       *)
(* shorter one (the "zero-byte ambiguity" of xd3_close_stream).            *)
CutRefused == reader = "done" /\ ~ job.merge => Whole

(* A merged delta makes the target from the base, though its copies have   *)
(* been followed through the earlier delta, split, and encoded again in    *)
(* the windows and with the checksums of the later one ("Window sizes must *)
(* match from the input to the output, so that target copies are           *)
(* in-range", main_merge_output).                                          *)
MergeComposes == Finished /\ job.merge => Merged /\ reader = "done" /\ dout = job.target

(* Overlapping instructions of the buffer begin and end in order ("The     *)
(* min_match adjustments prevent this", xd3_iopt_flush_instructions).      *)
InstructionsAdvance ==
    \A k \in 1 .. Len(e.iopt_used) - 1 :
        /\ e.iopt_used[k].pos < e.iopt_used[k + 1].pos
        /\ End(e.iopt_used[k]) < End(e.iopt_used[k + 1])

(* The rolling checksum is that of the bytes at the position               *)
(* (xd3_verify_large_state).                                               *)
ChecksumRolls ==
    e.enc_state = "LOOP" /\ e.has_src /\ e.input_position + LLOOK <= AvailIn(e) =>
        e.lcksum = large_cksum(SubSeq(e.next_in, e.input_position + 1, e.input_position + LLOOK))

(* The assertions of the encoder that depend on what the search found and  *)
(* on the order of instructions hold, though the build leaves them out:    *)
(* copies lie in the source window that was decided before they were       *)
(* known, addresses are below the position, instructions are written in    *)
(* order, the buffer of instructions has an element to give.  Those that   *)
(* follow from the lines before them are not recorded (that srclen is not  *)
(* 0, the sizes xd3_iopt_flush_instructions cuts to, the upper bound of    *)
(* srcwin_cksum_pos), nor those about lists, allocation and code tables.   *)
AssertionsHold == e.failed = {} /\ ~ e.no_slot /\ InstructionsAdvance /\ ChecksumRolls

(* "The library should never ask for another source block"                 *)
(* (xd3_process_stream), when it was given the source as one block.        *)
NeverAsksForBlock == client # "no_block" /\ reader # "no_block"

(* Encoding and decoding end, also when a backward match crosses a source  *)
(* block again and again (the "non-blocking endless loop" of               *)
(* xd3_source_match_setup).                                                *)
Terminates == <>Finished
=============================================================================
