--------------------------- MODULE Xd3AddressSync ---------------------------
(***************************************************************************)
(* Encoder and decoder of copy addresses (3party/xdelta3/xdelta3.c).  Each *)
(* side keeps a cache that must evolve in step with the other's, though    *)
(* the decoder runs later, on a stored delta, and knows only the modes and *)
(* values that were sent.  A delta is a sequence of windows; here is the   *)
(* position both sides count from the start of the source window, in the   *)
(* numbers of usize_t.                                                     *)
(***************************************************************************)
EXTENDS Xd3AddressCache

CONSTANTS SourceLengths,   \* lengths of source windows
          Sizes            \* sizes of instructions

VARIABLES enc,      \* [cache, here] of the encoder
          dec,      \* [cache, here] of the decoder
          delta,    \* what was written
          pos       \* how much of delta the decoder has read

vars == <<enc, dec, delta, pos>>

(* Each entry of delta carries, besides what is sent, the copy it stands   *)
(* for and the state the encoder was in (history, not read by the decoder).*)
Start == [cache |-> InitCache, here |-> 0]

Init == /\ enc = Start
        /\ dec = Start
        /\ delta = << >>
        /\ pos = 0

(* ENC_INPUT: a window starts after srclen bytes of source (taroff). *)
EncodeWindow(srclen) ==
    /\ enc' = [cache |-> InitCache, here |-> srclen]
    /\ delta' = Append(delta, [kind |-> "window", here |-> srclen, was |-> enc])
    /\ UNCHANGED <<dec, pos>>

(* xd3_iopt_finish_encoding, XD3_CPY: an address below the position. *)
EncodeCopy(addr, size) ==
    /\ LET a == EncodeAddress(enc.cache, addr, enc.here)
       IN  delta' = Append(delta, [kind |-> "copy", mode |-> a.mode, val |-> a.val,
                                   size |-> size, addr |-> addr, was |-> enc])
    /\ enc' = [cache |-> UpdateCache(enc.cache, addr), here |-> (enc.here + size) % USize]
    /\ UNCHANGED <<dec, pos>>

(* xd3_iopt_finish_encoding, XD3_ADD and XD3_RUN. *)
EncodeOther(size) ==
    /\ enc' = [enc EXCEPT !.here = (@ + size) % USize]
    /\ delta' = Append(delta, [kind |-> "other", size |-> size, was |-> enc])
    /\ UNCHANGED <<dec, pos>>

(* xd3_decode_init_window, or xd3_decode_parse_halfinst. *)
DecodeEntry ==
    /\ pos < Len(delta)
    /\ LET x == delta[pos + 1]
       IN  dec' = CASE x.kind = "window" -> [cache |-> InitCache, here |-> x.here]
                    [] x.kind = "other" -> [dec EXCEPT !.here = (@ + x.size) % USize]
                    [] x.kind = "copy" ->
                         [cache |-> UpdateCache(dec.cache,
                                       DecodeAddress(dec.cache, dec.here, x.mode, x.val)),
                          here |-> (dec.here + x.size) % USize]
    /\ pos' = pos + 1
    /\ UNCHANGED <<enc, delta>>

Next == \/ \E srclen \in SourceLengths : EncodeWindow(srclen)
        \/ \E addr \in 0 .. enc.here - 1, size \in Sizes : EncodeCopy(addr, size)
        \/ \E size \in Sizes : EncodeOther(size)
        \/ DecodeEntry

Spec == Init /\ [][Next]_vars
-----------------------------------------------------------------------------
(* The address the decoder is about to take for the copy it reads next.    *)
NextAddress == LET x == delta[pos + 1]
               IN  DecodeAddress(dec.cache, dec.here, x.mode, x.val)

(* Every copy is decoded to the address it was encoded from: the two       *)
(* caches stay in step through any choice of modes, however far the        *)
(* decoder lags behind (xd3_encode_address against xd3_decode_address).    *)
AddressesAgree ==
    pos < Len(delta) /\ delta[pos + 1].kind = "copy"
        => NextAddress = delta[pos + 1].addr

(* A decoder that has read the whole delta is in the encoder's state. *)
CachesMeet == pos = Len(delta) => dec = enc
=============================================================================
