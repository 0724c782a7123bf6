------------------------------- MODULE Xd3Djw -------------------------------
(***************************************************************************)
(* The semi-static Huffman coder of xdelta3                                *)
(* (3party/xdelta3/xdelta3-djw.h).  A section is cut into sectors, each    *)
(* coded with one of several tables.  A table is sent as its code lengths, *)
(* move-to-front coded, run-length coded and again Huffman coded.  Bits    *)
(* are sequences of 0 and 1; a table is a sequence with the entry of       *)
(* symbol s at s + 1.                                                      *)
(***************************************************************************)
EXTENDS Integers, SequencesExt

CONSTANTS ALPHABET_SIZE,        \* 256
          DJW_MAX_CODELEN,      \* 20
          djw_encode_12basic,   \* code lengths that are always sent, in this order
          djw_encode_12extra,   \* code lengths that are sent if need be, in this order
          DJW_EXTRA_CODE_BITS,  \* 4
          DJW_CLCLEN_BITS,      \* 4
          DJW_GBCLEN_BITS,      \* 3
          DJW_MIN_IMPROVEMENT,  \* 20
          EFFICIENCY_BITS       \* 16

DJW_TOTAL_CODES == DJW_MAX_CODELEN + 2
DJW_MAX_CLCLEN == 2 ^ DJW_CLCLEN_BITS - 1
DJW_MAX_GBCLEN == 2 ^ DJW_GBCLEN_BITS - 1
DJW_EXTRA_12OFFSET == Len(djw_encode_12basic) + 2
DJW_MAX_GROUPS == 8
DJW_GROUP_BITS == 3
DJW_SECTORSZ_MULT == 5
DJW_SECTORSZ_BITS == 5
DJW_SECTORSZ_MAX == 2 ^ DJW_SECTORSZ_BITS * DJW_SECTORSZ_MULT
DJW_MAX_ITER == 6
RUN_1 == 1

Upto(n) == 0 .. n - 1
SumOver(S, f(_)) == MapThenSumSet(f, S)
(* A table, as a tuple (the concatenation makes TLC compute it once). *)
Table(n, f(_)) == << >> \o [i \in 1 .. n |-> f(i - 1)]
At(table, s) == table[s + 1]
Concat(f(_), n) == FlattenSeq([i \in 1 .. n |-> f(i - 1)])

-----------------------------------------------------------------------------
(* heap_less, heap_insert and heap_extract; the heap is a sequence of      *)
(* indices of ents.                                                        *)
HeapLess(a, b) == a.freq < b.freq \/ (a.freq = b.freq /\ a.depth < b.depth)

RECURSIVE SiftUp(_, _, _, _)
SiftUp(heap, ents, p, e) ==
    LET pp == p \div 2
    IN  IF pp > 0 /\ HeapLess(ents[e], ents[heap[pp]])
        THEN SiftUp([heap EXCEPT ![p] = heap[pp]], ents, pp, e)
        ELSE [heap EXCEPT ![p] = e]
HeapInsert(heap, ents, e) == SiftUp(Append(heap, e), ents, Len(heap) + 1, e)

\* Mutant: the left child is taken for the lighter one.
RECURSIVE SiftDownLeft(_, _, _)
SiftDownLeft(heap, ents, p) ==
    IF 2 * p > Len(heap) THEN heap
    ELSE IF ~ HeapLess(ents[heap[2 * p]], ents[heap[p]]) THEN heap
    ELSE SiftDownLeft([heap EXCEPT ![p] = heap[2 * p], ![2 * p] = heap[p]], ents, 2 * p)

RECURSIVE SiftDown(_, _, _)
SiftDown(heap, ents, p) ==
    LET pc == IF 2 * p < Len(heap) /\ HeapLess(ents[heap[(2 * p) + 1]], ents[heap[2 * p]])
              THEN (2 * p) + 1 ELSE 2 * p
    IN  IF 2 * p > Len(heap) THEN heap
        ELSE IF ~ HeapLess(ents[heap[pc]], ents[heap[p]]) THEN heap
        ELSE SiftDown([heap EXCEPT ![p] = heap[pc], ![pc] = heap[p]], ents, pc)
HeapExtract(heap, ents) ==
    IF Len(heap) = 1 THEN << >>
    ELSE SiftDown([Front(heap) EXCEPT ![1] = Last(heap)], ents, 1)

(* The loop of djw_build_prefix that joins the two lightest trees. *)
RECURSIVE JoinTrees(_, _)
JoinTrees(heap, ents) ==
    IF Len(heap) <= 1 THEN ents
    ELSE LET new == Len(ents) + 1
             joined(h1, h2) ==
                 Append([ents EXCEPT ![h1].parent = new, ![h2].parent = new],
                        [freq |-> ents[h1].freq + ents[h2].freq,
                         depth |-> 1 + Max({ents[h1].depth, ents[h2].depth}), parent |-> 0])
             add(two, trees) == JoinTrees(HeapInsert(two, trees, new), trees)
             join(one) == add(HeapExtract(one, ents), joined(heap[1], one[1]))
         IN  join(HeapExtract(heap, ents))

RECURSIVE DepthOf(_, _)
DepthOf(ents, i) == IF ents[i].parent = 0 THEN 0 ELSE 1 + DepthOf(ents, ents[i].parent)

(* djw_build_prefix: f are the frequencies in ents.  A symbol alone gets a *)
(* companion; code lengths above maxlen start over with flatter            *)
(* frequencies, which gives every symbol one.                              *)
RECURSIVE PrefixOf(_, _, _, _)
PrefixOf(freq, f, asize, maxlen) ==
    LET used == {i \in 1 .. asize : f[i] # 0}
        companion == IF freq[1] # 0 THEN asize ELSE 1
        ents0 == Table(asize, LAMBDA s : [freq |-> At(f, s), depth |-> 0, parent |-> 0])
        heap0 == FoldLeft(LAMBDA h, i : IF f[i] # 0 THEN HeapInsert(h, ents0, i) ELSE h,
                          << >>, [i \in 1 .. asize |-> i])
        lengths(ents) == Table(asize, LAMBDA s : IF At(f, s) # 0 THEN DepthOf(ents, s + 1) ELSE 0)
        fit(clen) ==
            IF \E i \in used : clen[i] > maxlen
            THEN PrefixOf(freq, Table(asize, LAMBDA s : (At(f, s) \div 2) + 1), asize, maxlen)
            ELSE [clen |-> clen, bits |-> SumOver(used, LAMBDA i : clen[i] * freq[i])]
    IN  IF Cardinality(used) = 1
        THEN PrefixOf(freq, [f EXCEPT ![companion] = 1], asize, maxlen)
        ELSE fit(lengths(JoinTrees(heap0, ents0)))

BuildPrefix(freq, asize, maxlen) == PrefixOf(freq, freq, asize, maxlen)

(* djw_build_codes: codes are given in order of length, then of symbol. *)
BuildCodes(clen, asize) ==
    LET count(l) == Cardinality({i \in 1 .. asize : clen[i] = l})
        least == Min({clen[i] : i \in {j \in 1 .. asize : clen[j] > 0}})
        first[l \in Nat] == IF l <= least THEN 0 ELSE (first[l - 1] + count(l - 1)) * 2
    IN  Table(asize, LAMBDA s : IF At(clen, s) = 0 THEN 0
            ELSE first[At(clen, s)] + Cardinality({j \in 1 .. s : clen[j] = At(clen, s)}))

(* xd3_encode_bits: the most significant bit first. *)
EncodeBits(n, value) == [i \in 1 .. n |-> (value \div 2 ^ (n - i)) % 2]

(* All of s, each symbol with its code. *)
EncodeSymbols(s, clen, code) ==
    FlattenSeq([i \in 1 .. Len(s) |-> EncodeBits(At(clen, s[i]), At(code, s[i]))])

-----------------------------------------------------------------------------
(* djw_update_mtf: the element at place i, counted from 0, goes first. *)
MoveToFront(mtf, i) == <<mtf[i + 1]>> \o RemoveAt(mtf, i + 1)

(* djw_update_1_2: a run in digits 1 and 2 of base 2, written RUN_0, RUN_1. *)
RECURSIVE RunCodes(_)
RunCodes(run) ==
    LET r == run - 1
    IN  <<r % 2>> \o (IF r \div 2 >= 1 THEN RunCodes(r \div 2) ELSE << >>)

(* djw_compute_mtf_1_2 *)
ComputeMtf(symbols, mtf) ==
    LET flush(r) == IF r.run > 0 THEN r.out \o RunCodes(r.run) ELSE r.out
        step(r, sym) ==
            LET j == CHOOSE x \in Upto(Len(r.mtf)) : r.mtf[x + 1] = sym
            IN  IF j = 0 THEN [r EXCEPT !.run = @ + 1]
                ELSE [mtf |-> MoveToFront(r.mtf, j), run |-> 0, out |-> Append(flush(r), j + RUN_1)]
    IN  flush(FoldLeft(step, [mtf |-> mtf, run |-> 0, out |-> << >>], symbols))

(* djw_count_freqs *)
CountFreqs(s, asize) == Table(asize, LAMBDA c : Cardinality({i \in DOMAIN s : s[i] = c}))

(* djw_init_clen_mtf_1_2 *)
ClenMtf == <<0>> \o djw_encode_12basic \o djw_encode_12extra

(* djw_encode_prefix: code lengths, themselves coded. *)
EncodePrefix(symbols) ==
    LET written(mtfsym, clclen) ==
            LET num == Max({DJW_EXTRA_12OFFSET} \cup {j \in 1 .. DJW_TOTAL_CODES : clclen[j] # 0})
            IN  EncodeBits(DJW_EXTRA_CODE_BITS, num - DJW_EXTRA_12OFFSET)
                \o Concat(LAMBDA i : EncodeBits(DJW_CLCLEN_BITS, At(clclen, i)), num)
                \o EncodeSymbols(mtfsym, clclen, BuildCodes(clclen, DJW_TOTAL_CODES))
        coded(mtfsym) ==
            written(mtfsym, BuildPrefix(CountFreqs(mtfsym, DJW_TOTAL_CODES),
                                        DJW_TOTAL_CODES, DJW_MAX_CLCLEN).clen)
    IN  coded(ComputeMtf(symbols, ClenMtf))

\* Mutant: all lengths are sent, for every table.
MultiPrefixFull(clens, groups) == Concat(LAMBDA g : At(clens, g), groups)

(* djw_compute_multi_prefix: after the first table, only lengths that are  *)
(* not zero are sent.                                                      *)
MultiPrefix(clens, groups) ==
    Concat(LAMBDA g : SelectSeq(At(clens, g), LAMBDA l : g = 0 \/ l # 0), groups)

-----------------------------------------------------------------------------
(* xd3_encode_howmany_groups: up to this size, so many groups and a sector *)
(* of this size.                                                           *)
Suggestions ==
    [DATA |-> <<<<1000, 1, 0>>, <<4000, 2, 10>>, <<7000, 3, 10>>, <<10000, 4, 10>>, <<25000, 5, 10>>,
                <<50000, 7, 20>>, <<100000, 8, 30>>>>,
     INST |-> <<<<7000, 1, 0>>, <<10000, 2, 50>>, <<25000, 3, 50>>, <<50000, 6, 40>>, <<100000, 8, 40>>>>,
     ADDR |-> <<<<9000, 1, 0>>, <<25000, 2, 130>>, <<50000, 3, 130>>, <<100000, 5, 130>>>>]
Unbounded == [DATA |-> <<0, 8, 70>>, INST |-> <<0, 8, 40>>, ADDR |-> <<0, 7, 130>>]
DefaultSector == [DATA |-> 20, INST |-> 50, ADDR |-> 130]

HowManyGroups(cfg, size) ==
    LET fits == SelectSeq(Suggestions[cfg.data_type], LAMBDA x : size < x[1])
        s == IF fits = << >> THEN Unbounded[cfg.data_type] ELSE Head(fits)
        groups == IF cfg.ngroups # 0 THEN cfg.ngroups ELSE s[2]
        sector == IF cfg.sector_size # 0 THEN cfg.sector_size ELSE s[3]
        invalid == \/ cfg.ngroups > DJW_MAX_GROUPS
                   \/ cfg.sector_size # 0
                        /\ (\/ cfg.sector_size \notin DJW_SECTORSZ_MULT .. DJW_SECTORSZ_MAX
                            \/ cfg.sector_size % DJW_SECTORSZ_MULT # 0)
    IN  [ok |-> ~ invalid, groups |-> groups,
         sector |-> IF groups # 1 /\ sector = 0 THEN DefaultSector[cfg.data_type] ELSE sector]

SectorCount(size, sector) == 1 + (size - 1) \div sector
Sector(data, sector, k) == SubSeq(data, k * sector + 1, Min({(k + 1) * sector, Len(data)}))

(* The first tables: each group favours a range of symbols that makes up   *)
(* its share of the input.  ok = FALSE asks for one group less.            *)
RECURSIVE InitialTables(_, _, _, _, _, _, _)
InitialTables(freq, groups, g, left, sym1, sym2, inefficient) ==
    LET goal == left \div (groups - g)
        upto(s) == SumOver(sym2 .. s - 1, LAMBDA i : At(freq, i))
        next == CHOOSE s \in sym2 .. ALPHABET_SIZE : upto(s) >= goal /\ \A t \in sym2 .. s - 1 : upto(t) < goal
        table == Table(ALPHABET_SIZE, LAMBDA s : IF s \in sym1 .. next THEN 1 ELSE 16)
        rest == InitialTables(freq, groups, g + 1, left - upto(next), next + 1, next, inefficient)
    IN  IF g = groups THEN [ok |-> TRUE, tables |-> << >>]
        ELSE IF goal = 0 /\ ~ inefficient THEN [ok |-> FALSE, tables |-> << >>]
        ELSE [ok |-> rest.ok, tables |-> <<table>> \o rest.tables]

(* The iteration "repeat": every sector takes the table that codes it      *)
(* best, then every table is made anew from the sectors that took it.  The *)
(* gain is an unsigned difference.                                         *)
RECURSIVE Evolve(_, _, _, _, _, _)
Evolve(data, freq, sector, clens, niter, best) ==
    LET groups == Len(clens)
        n == SectorCount(Len(data), sector)
        cost(k, g) == FoldLeft(LAMBDA c, s : c + At(At(clens, g), s), 0, Sector(data, sector, k))
        costs == Table(n, LAMBDA k : Table(groups, LAMBDA g : cost(k, g)))
        gbest == Table(n, LAMBDA k : (CHOOSE i \in 1 .. groups :
                     /\ \A x \in 1 .. groups : At(costs, k)[i] <= At(costs, k)[x]
                     /\ \A x \in 1 .. i - 1 : At(costs, k)[i] # At(costs, k)[x]) - 1)
        chosen(g) == Concat(LAMBDA k : IF At(gbest, k) = g THEN Sector(data, sector, k) ELSE << >>, n)
        seen == Table(groups, LAMBDA g : CountFreqs(chosen(g), ALPHABET_SIZE))
        lent(g) == {i \in 1 .. ALPHABET_SIZE : At(seen, g)[i] = 0 /\ freq[i] # 0}
        build(g) == BuildPrefix(Table(ALPHABET_SIZE, LAMBDA s : IF s + 1 \in lent(g) THEN 1 ELSE At(At(seen, g), s)),
                                ALPHABET_SIZE, DJW_MAX_CODELEN)
        more(next, total) ==
            IF niter = 1 \/ (niter < DJW_MAX_ITER /\ (best - total >= DJW_MIN_IMPROVEMENT \/ best < total))
            THEN Evolve(data, freq, sector, next, niter + 1, total)
            ELSE [clens |-> next, gbest |-> gbest, bits |-> total]
        evolved(built) ==
            more(Table(groups, LAMBDA g : At(built, g).clen),
                 SumOver(Upto(groups), LAMBDA g :
                     At(built, g).bits - SumOver(lent(g), LAMBDA i : At(built, g).clen[i])))
    IN  evolved(Table(groups, build))

NoSecond == [ret |-> "NOSECOND", bits |-> << >>, skew |-> FALSE]

(* So many bits save too little. *)
Poor(data, cfg, bits) == bits + EFFICIENCY_BITS >= 8 * Len(data) /\ ~ cfg.inefficient

(* xd3_encode_huff with one table.  used bytes of the output are taken. *)
EncodeOne(data, cfg, used) ==
    LET written(p, head) ==
            IF Poor(data, cfg, p.bits) \/ Poor(data, cfg, p.bits + 8 * (used + Len(head) \div 8))
            THEN NoSecond
            ELSE [ret |-> "ok", skew |-> FALSE,
                  bits |-> head \o EncodeSymbols(data, p.clen, BuildCodes(p.clen, ALPHABET_SIZE))]
        coded(p) == written(p, EncodeBits(DJW_GROUP_BITS, 0) \o EncodePrefix(p.clen))
    IN  coded(BuildPrefix(CountFreqs(data, ALPHABET_SIZE), ALPHABET_SIZE, DJW_MAX_CODELEN))

(* xd3_encode_huff with several tables.  skew tells whether a code length  *)
(* is zero in one table only.                                              *)
EncodeMany(data, cfg, used, tables, sector) ==
    LET groups == Len(tables)
        n == SectorCount(Len(data), sector)
        written(ev, sel, head) ==
            LET codes == Table(groups, LAMBDA g : BuildCodes(At(ev.clens, g), ALPHABET_SIZE))
            IN  IF \/ Poor(data, cfg, ev.bits)
                   \/ Poor(data, cfg, ev.bits + sel.bits + 8 * (used + Len(head) \div 8))
                THEN NoSecond
                ELSE [ret |-> "ok",
                      skew |-> \E g \in 1 .. groups, i \in 1 .. ALPHABET_SIZE :
                                   (ev.clens[g][i] = 0) # (ev.clens[1][i] = 0),
                      bits |-> head \o Concat(LAMBDA k :
                                   EncodeSymbols(Sector(data, sector, k), At(ev.clens, At(ev.gbest, k)),
                                                 At(codes, At(ev.gbest, k))), n)]
        headed(ev, mtf, sel) ==
            written(ev, sel,
                    EncodeBits(DJW_GROUP_BITS, groups - 1)
                    \o EncodeBits(DJW_SECTORSZ_BITS, (sector \div DJW_SECTORSZ_MULT) - 1)
                    \o EncodePrefix(MultiPrefix(ev.clens, groups))
                    \o Concat(LAMBDA g : EncodeBits(DJW_GBCLEN_BITS, At(sel.clen, g)), groups + 1)
                    \o EncodeSymbols(mtf, sel.clen, BuildCodes(sel.clen, groups + 1)))
        selected(ev, mtf) ==
            headed(ev, mtf, BuildPrefix(CountFreqs(mtf, groups + 1), groups + 1, DJW_MAX_GBCLEN))
        chosen(ev) == selected(ev, ComputeMtf(ev.gbest, Table(groups, LAMBDA g : g)))
    IN  chosen(Evolve(data, CountFreqs(data, ALPHABET_SIZE), sector, tables, 1, 0))

(* xd3_encode_huff; "regroup" tries with one table less. *)
RECURSIVE EncodeGroups(_, _, _, _, _)
EncodeGroups(data, cfg, used, groups, sector) ==
    LET init == InitialTables(CountFreqs(data, ALPHABET_SIZE), groups, 0, Len(data), 0, 0, cfg.inefficient)
    IN  IF groups = 1 THEN EncodeOne(data, cfg, used)
        ELSE IF ~ init.ok THEN EncodeGroups(data, cfg, used, groups - 1, sector)
        ELSE EncodeMany(data, cfg, used, init.tables, sector)

EncodeHuff(data, cfg, used) ==
    LET h == HowManyGroups(cfg, Len(data))
    IN  IF ~ h.ok THEN [NoSecond EXCEPT !.ret = "INTERNAL"]
        ELSE EncodeGroups(data, cfg, used, h.groups, h.sector)

-----------------------------------------------------------------------------
(* djw_build_decoder: for each length the first and last code, and the     *)
(* symbols in order of their codes.                                        *)
BuildDecoder(clen, asize, abs_max) ==
    LET nr(l) == Cardinality({i \in 1 .. asize : clen[i] = l})
        lengths == {l \in 1 .. abs_max : nr(l) # 0}
        least == Min(lengths)
        most == IF lengths = {} THEN 0 ELSE Max(lengths)
        limit[l \in Nat] == IF l = least THEN nr(l) - 1 ELSE (limit[l - 1] + 1) * 2 + nr(l) - 1
        before(l) == Cardinality({i \in 1 .. asize : clen[i] \in 1 .. l - 1})
        place(i) == before(clen[i]) + Cardinality({j \in 1 .. i - 1 : clen[j] = clen[i]})
        coded == {i \in 1 .. asize : clen[i] # 0}
    IN  [min_clen |-> IF lengths = {} THEN abs_max + 1 ELSE least, max_clen |-> most,
         limit |-> << >> \o [l \in 1 .. most |-> IF l < least THEN -1 ELSE limit[l]],
         base |-> << >> \o [l \in 1 .. most |-> IF l <= least THEN 0 ELSE (limit[l - 1] + 1) * 2 - before(l)],
         inorder |-> Table(Cardinality(coded), LAMBDA k : (CHOOSE i \in coded : place(i) = k) - 1)]

(* A reader is [bits, pos, ret]: what was taken, and "bad" after an error  *)
(* (end of input or invalid code).  xd3_decode_bits.                       *)
ValueOf(s) == FoldLeft(LAMBDA v, b : (v * 2) + b, 0, s)
DecodeBits(r, n) ==
    IF r.pos + n > Len(r.bits) THEN [r EXCEPT !.ret = "bad", !.value = 0]
    ELSE [r EXCEPT !.pos = @ + n, !.value = ValueOf(SubSeq(r.bits, r.pos + 1, r.pos + n))]

(* djw_decode_symbol: bits are added until they make a code. *)
DecodeSymbol(r, d) ==
    LET code(k) == ValueOf(SubSeq(r.bits, r.pos + 1, r.pos + k))
        ends == {k \in d.min_clen .. d.max_clen : r.pos + k <= Len(r.bits) /\ code(k) <= d.limit[k]}
        k == Min(ends)
        offset == code(k) - d.base[k]
    IN  IF ends = {} THEN [r EXCEPT !.ret = "bad", !.value = 0]
        ELSE IF offset \notin Upto(Len(d.inorder)) THEN [r EXCEPT !.ret = "bad", !.value = 0]
        ELSE [r EXCEPT !.pos = @ + k, !.value = At(d.inorder, offset)]

(* djw_decode_1_2: elts values; those that were zero skip places before    *)
(* are zero without being sent.  x is [r, values, rep, mtf, s, mtfvals].   *)
RECURSIVE Decode12(_, _, _, _)
Decode12(x, d, elts, skip) ==
    LET n == Len(x.values)
        add(sym, m) ==
            IF sym.ret # "ok" THEN [x EXCEPT !.r = sym]
            ELSE IF m <= RUN_1
            THEN Decode12([x EXCEPT !.r = sym, !.rep = (m + 1) * 2 ^ x.s, !.s = @ + 1], d, elts, skip)
            ELSE Decode12([x EXCEPT !.r = sym, !.mtf = m - RUN_1, !.s = 0], d, elts, skip)
        next(sym) == add(sym, sym.value)
    IN  IF n = elts THEN IF x.rep # 0 THEN [x EXCEPT !.r.ret = "bad"] ELSE x
        ELSE IF skip # 0 /\ n >= skip /\ x.values[n - skip + 1] = 0
        THEN Decode12([x EXCEPT !.values = Append(@, 0)], d, elts, skip)
        ELSE IF x.rep # 0
        THEN Decode12([x EXCEPT !.values = Append(@, x.mtfvals[1]), !.rep = @ - 1], d, elts, skip)
        ELSE IF x.mtf # 0
        THEN Decode12([x EXCEPT !.values = Append(@, x.mtfvals[x.mtf + 1]), !.mtf = 0,
                                !.mtfvals = MoveToFront(@, x.mtf)], d, elts, skip)
        ELSE next(DecodeSymbol(x.r, d))

StartDecode12(r, mtfvals) ==
    [r |-> r, values |-> << >>, rep |-> 0, mtf |-> 0, s |-> 0, mtfvals |-> mtfvals]

(* n numbers of width bits each, as a sequence. *)
RECURSIVE DecodeNumbers(_, _, _, _)
DecodeNumbers(r, n, width, sofar) ==
    LET next == DecodeBits(r, width)
    IN  IF n = 0 \/ r.ret # "ok" THEN [r |-> r, list |-> sofar]
        ELSE DecodeNumbers(next, n - 1, width, Append(sofar, next.value))

Padded(list, asize) == Table(asize, LAMBDA s : IF s < Len(list) THEN At(list, s) ELSE 0)

(* djw_decode_clclen and djw_decode_prefix: the code lengths of all        *)
(* groups, one after the other.                                            *)
DecodePrefix(r, groups) ==
    LET num == DecodeBits(r, DJW_EXTRA_CODE_BITS)
        cl == DecodeNumbers(num, num.value + DJW_EXTRA_12OFFSET, DJW_CLCLEN_BITS, << >>)
        d == BuildDecoder(Padded(cl.list, DJW_TOTAL_CODES), DJW_TOTAL_CODES, DJW_MAX_CLCLEN)
    IN  IF cl.r.ret # "ok" THEN StartDecode12(cl.r, ClenMtf)
        ELSE Decode12(StartDecode12(cl.r, ClenMtf), d, ALPHABET_SIZE * groups, ALPHABET_SIZE)

(* The last loop of xd3_decode_huff: out symbols, sector by sector. *)
RECURSIVE DecodeData(_, _, _, _, _, _)
DecodeData(r, decoders, sel, sector, size, sofar) ==
    LET k == Len(sofar) \div sector
        next == DecodeSymbol(r, At(decoders, At(sel, k)))
    IN  IF Len(sofar) = size \/ r.ret # "ok" THEN [r |-> r, data |-> sofar]
        ELSE DecodeData(next, decoders, sel, sector, size,
                        IF next.ret = "ok" THEN Append(sofar, next.value) ELSE sofar)

(* The codes of the tables chosen, and then the choice for every sector. *)
DecodeSelection(lens, groups, sectors) ==
    IF lens.r.ret # "ok" THEN StartDecode12(lens.r, << >>)
    ELSE Decode12(StartDecode12(lens.r, Table(groups + 1, LAMBDA g : g)),
                  BuildDecoder(Padded(lens.list, groups + 1), groups + 1, DJW_MAX_GBCLEN), sectors, 0)

(* xd3_decode_huff, once the number of groups and the sector are known. *)
DecodeGroups(r, groups, sector, size) ==
    LET decoders(p) == Table(groups, LAMBDA g :
            BuildDecoder(SubSeq(p.values, g * ALPHABET_SIZE + 1, (g + 1) * ALPHABET_SIZE),
                         ALPHABET_SIZE, DJW_MAX_CODELEN))
        bad(x) == [r |-> x, data |-> << >>]
        selected(p, sel) ==
            IF sel.r.ret # "ok" THEN bad(sel.r)
            ELSE DecodeData(sel.r, decoders(p), sel.values, sector, size, << >>)
        coded(p) ==
            IF p.r.ret # "ok" THEN bad(p.r)
            ELSE IF groups = 1 THEN DecodeData(p.r, decoders(p), <<0>>, sector, size, << >>)
            ELSE selected(p, DecodeSelection(DecodeNumbers(p.r, groups + 1, DJW_GBCLEN_BITS, << >>),
                                             groups, SectorCount(size, sector)))
    IN  coded(DecodePrefix(r, groups))

(* xd3_decode_huff *)
DecodeHuff(bits, size) ==
    LET start == DecodeBits([bits |-> bits, pos |-> 0, ret |-> "ok", value |-> 0], DJW_GROUP_BITS)
        groups == start.value + 1
        sized == DecodeBits(start, DJW_SECTORSZ_BITS)
    IN  IF groups = 1 THEN DecodeGroups(start, 1, size, size)
        ELSE DecodeGroups(sized, groups, (sized.value + 1) * DJW_SECTORSZ_MULT, size)
=============================================================================
