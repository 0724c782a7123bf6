---------------------------- MODULE Xd3Secondary ----------------------------
(***************************************************************************)
(* Secondary compression (3party/xdelta3/xdelta3-second.h): the sections   *)
(* of one kind, one per window, are compressed if that saves enough, and   *)
(* decompressed later, in the same order.  The compressor keeps its state  *)
(* from one section to the next: none in xdelta3-djw.h, a growing tree in  *)
(* xdelta3-fgk.h.                                                          *)
(***************************************************************************)
EXTENDS Xd3Djw

CONSTANTS Sections,             \* for each compressor: contents a section may have
          Configs,              \* [type : {"djw", "fgk"}] with the fields of xd3_sec_cfg
          MaxSections,          \* for each compressor: bound on the number of windows
          SECONDARY_MIN_INPUT,  \* 10
          SECONDARY_MIN_SAVINGS \* 2

Fgk == INSTANCE Xd3Fgk

VARIABLES cfg,      \* the configuration, the same for all sections
          enc,      \* the encoder's fgk_stream
          dec,      \* the decoder's fgk_stream
          sent,     \* the sections as they were written
          read      \* the sections as they were read, Bad for an error

vars == <<cfg, enc, dec, sent, read>>

Init == /\ cfg \in Configs
        /\ enc = Fgk!NewFgk
        /\ dec = Fgk!NewFgk
        /\ sent = << >>
        /\ read = << >>

Bad == <<-1>>

(* What xd3_emit_size takes: sizes of sections are below 128. *)
SizeBytes == 1
BytesOf(bits) == (bits + 7) \div 8

(* The compressor of the stream: sec_type->encode. *)
Encode(data) ==
    LET f == Fgk!EncodeFgk(enc, data)
    IN  IF cfg.type = "fgk"
        THEN [h |-> f.h, code |-> [bits |-> f.bits, ret |-> "ok", skew |-> FALSE]]
        ELSE [h |-> enc, code |-> EncodeHuff(data, cfg, SizeBytes)]

(* xd3_encode_secondary: a section that is too short is left alone, one    *)
(* that would not get shorter is kept as it was.                           *)
EncodeSecondary(data) ==
    /\ Len(sent) < MaxSections[cfg.type]
    /\ \E r \in {Encode(data)} :
          LET bits == r.code.bits
              size == BytesOf(Len(bits))
              padded == bits \o [i \in 1 .. 8 * size - Len(bits) |-> 0]
              saves == SizeBytes + size < Len(data) - SECONDARY_MIN_SAVINGS
              entry(how, b) == [data |-> data, how |-> how, bits |-> b, skew |-> r.code.skew]
          IN  IF Len(data) < SECONDARY_MIN_INPUT
              THEN sent' = Append(sent, entry("short", << >>)) /\ UNCHANGED enc
              ELSE /\ enc' = r.h
                   /\ sent' = Append(sent, IF r.code.ret = "ok" /\ (saves \/ cfg.inefficient)
                                           THEN entry("compressed", padded) ELSE entry("kept", << >>))
    /\ UNCHANGED <<cfg, dec, read>>

(* The decompressor: sec_type->decode.  All input must be used. *)
Decode(x) ==
    LET fgk(f) == [h |-> f.h, data |-> f.data, ok |-> f.ret = "ok" /\ Len(f.rest) < 8]
        djw(d) == [h |-> dec, data |-> d.data, ok |-> d.r.ret = "ok" /\ Len(x.bits) - d.r.pos < 8]
    IN  IF cfg.type = "fgk" THEN fgk(Fgk!DecodeFgk(dec, x.bits, Len(x.data), << >>))
        ELSE djw(DecodeHuff(x.bits, Len(x.data)))

(* xd3_decode_secondary, for a section that was compressed. *)
DecodeSecondary ==
    /\ Len(read) < Len(sent)
    /\ \A i \in DOMAIN read : read[i] # Bad
    /\ LET x == sent[Len(read) + 1]
       IN  IF x.how # "compressed" THEN read' = Append(read, x.data) /\ UNCHANGED dec
           ELSE \E r \in {Decode(x)} :
                   read' = Append(read, IF r.ok THEN r.data ELSE Bad) /\ dec' = r.h
    /\ UNCHANGED <<cfg, enc, sent>>

Next == \/ \E data \in Sections[cfg.type] : EncodeSecondary(data)
        \/ DecodeSecondary

Spec == Init /\ [][Next]_vars

-----------------------------------------------------------------------------
ReadBack == \A i \in DOMAIN read : read[i] = sent[i].data

(* The two cases in which that fails: the tree has learnt a section that   *)
(* was then kept uncompressed; or, in djw, a symbol has a code in one      *)
(* table and none in another, after code lengths above the maximum.        *)
Unlearnt == cfg.type = "fgk" /\ \E i \in DOMAIN sent : sent[i].how = "kept"
Skewed == \E i \in DOMAIN sent : sent[i].skew

(* In every other case sections are read back, whatever their number,      *)
(* order and sizes.                                                        *)
ReadBackUnlessLost == Unlearnt \/ Skewed \/ ReadBack

-----------------------------------------------------------------------------
Live(h) == {x \in Fgk!Nodes : h.node[x].weight # 0}
Inner(h) == {x \in Live(h) : x >= ALPHABET_SIZE}
Ranked(h) == Live(h) \ {h.root_node}
SomeUnseen(h) == h.remaining_zeros # Fgk!NULL

(* The links of a tree agree with each other, weights add up, and no node  *)
(* refers to a block that has been freed (its leader would be read from    *)
(* the link of the free list, union of struct _fgk_block).                 *)
LinksAgree(h) ==
    LET n == h.node
    IN  /\ \A x \in Inner(h) :
              /\ n[n[x].left_child].parent = x
              /\ n[n[x].right_child].parent = x
              /\ n[x].weight = n[n[x].left_child].weight + n[n[x].right_child].weight
        /\ \A x \in Ranked(h) :
              /\ n[x].right # Fgk!NULL
              /\ n[n[x].right].left = x
              /\ n[x].my_block \notin ToSet(h.free_block)
              /\ n[h.leader[n[x].my_block]].weight = n[x].weight

(* "right and left point to neighbors in an ordered sequence of weights.   *)
(* The left child of a node is always guaranteed to have weight not        *)
(* greater than its sibling" (struct _fgk_node): true as long as some      *)
(* symbol has not been seen.                                               *)
WeightsOrdered(h) ==
    LET n == h.node
    IN  /\ \A x \in Inner(h) : n[n[x].left_child].weight <= n[n[x].right_child].weight
        /\ \A x \in Ranked(h) : n[x].weight <= n[n[x].right].weight

(* A decoder that has read all there is has the encoder's tree, though it  *)
(* learnt the symbols from their codes.                                    *)
Tree(h) == <<h.node, h.leader, h.free_block, h.root_node, h.remaining_zeros, h.zero_freq_count>>
TreesMeet == Len(read) = Len(sent) /\ ~ Unlearnt => Tree(dec) = Tree(enc)

(* The trees of xdelta3-fgk.h stay sound through every exchange of nodes,  *)
(* every new node and every change of block, and grow alike.               *)
TreesSound == /\ \A h \in {enc, dec} : LinksAgree(h) /\ (SomeUnseen(h) => WeightsOrdered(h))
              /\ TreesMeet

(* The lengths of the complete prefix codes for n symbols, the shortest    *)
(* first: what a best code is looked for among.                            *)
Kraft(clen) == SumOver({i \in DOMAIN clen : clen[i] # 0}, LAMBDA i : 2 ^ (ALPHABET_SIZE - clen[i]))
CompleteCodes ==
    [n \in 2 .. ALPHABET_SIZE |->
        {c \in [1 .. n -> 1 .. n - 1] : /\ \A i \in 1 .. n - 1 : c[i] <= c[i + 1]
                                       /\ Kraft(c) = 2 ^ ALPHABET_SIZE}]

(* A table made by djw_build_prefix is a complete prefix code within the   *)
(* longest length, and the shortest one there is for its frequencies       *)
(* whenever one of those fits: of two trees of one weight the lower one is *)
(* joined first (heap_less), so no length is wasted on a deep tree and the *)
(* frequencies are flattened only when they must be.                       *)
TableBest(freq) ==
    LET p == BuildPrefix(freq, ALPHABET_SIZE, DJW_MAX_CODELEN)
        used == SelectSeq(SortSeq(freq, LAMBDA a, b : a > b), LAMBDA f : f # 0)
        codes == CompleteCodes[Max({2, Len(used)})]
        cost(c) == SumOver(DOMAIN used, LAMBDA i : c[i] * used[i])
        best == Min({cost(c) : c \in codes})
        fits == \E c \in codes : cost(c) = best /\ Last(c) <= DJW_MAX_CODELEN
    IN  /\ Kraft(p.clen) = 2 ^ ALPHABET_SIZE
        /\ \A i \in DOMAIN freq : p.clen[i] <= DJW_MAX_CODELEN
        /\ fits => p.bits = best
TablesBest == cfg.type = "djw" => \A i \in DOMAIN sent : TableBest(CountFreqs(sent[i].data, ALPHABET_SIZE))
=============================================================================
