----------------------------- MODULE MCXd3Codec -----------------------------
(***************************************************************************)
(* Instance for TLC.  Bytes are 0 .. 3, so that matches, runs and hash     *)
(* collisions are frequent; a window holds 12 bytes, a source block 4.     *)
(* Targets of up to 24 bytes are made from pieces of the source, with      *)
(* insertions, runs and periodic data, and take up to three windows.       *)
(***************************************************************************)
EXTENDS Xd3Codec

Slice(s, i, n) == SubSeq(s, i, i + n - 1)
Zeros == [i \in 1 .. 8 |-> 0]

(* Edited copies of s, targets that owe nothing to it, and ones made of    *)
(* overlapping pieces of it, of two windows and more.                      *)
Edited(s) == {Slice(s, i, 6) \o lit \o Slice(s, k, 5) :
                  i \in 1 .. 3, k \in {1, 4}, lit \in {<< >>, <<2>>, Zeros}}
Unrelated == {<< >>, <<1, 2, 1>>, <<1, 2, 1, 2, 1, 2, 1, 2, 1, 2>>}
Pieced(s) == {Slice(s, i, 5) \o Slice(s, j, 5) \o Slice(s, k, 8) \o Slice(s, 1, 6) :
                  i \in {1, 3}, j \in 1 .. 4, k \in 1 .. Len(s) - 7}
ShiftsOf(s) == {Slice(s, i, 8) : i \in 1 .. 4} \cup {s \o <<3>>, <<3>> \o s, s \o s}

(* Deltas that make a source from the base: copies, runs, an ADD, and      *)
(* copies of their own target, some of them overlapping themselves.        *)
Base == <<0, 1, 2, 3, 3, 2, 1, 0>>
First1 == [NoWhole EXCEPT !.adds = <<1, 1, 2>>, !.length = 14,
    !.inst = <<Winst(XD3_CPY, VCD_SOURCE, 4, 2, 0), Winst(XD3_ADD, 0, 2, 0, 4),
               Winst(XD3_RUN, 0, 3, 2, 6), Winst(XD3_CPY, 0, 5, 3, 9)>>]
First2 == [NoWhole EXCEPT !.adds = <<3, 0>>, !.length = 12,
    !.inst = <<Winst(XD3_ADD, 0, 2, 0, 0), Winst(XD3_CPY, 0, 6, 0, 2),
               Winst(XD3_CPY, VCD_SOURCE, 4, 0, 8)>>]

(* The bytes a whole state stands for. *)
Apply(w, base) ==
    FoldLeft(LAMBDA s, i :
                 CASE i.type = XD3_RUN -> s \o [k \in 1 .. i.size |-> w.adds[i.addr + 1]]
                   [] i.type = XD3_ADD -> s \o Slice(w.adds, i.addr + 1, i.size)
                   [] i.type = XD3_CPY /\ i.mode # 0 -> s \o Slice(base, i.addr + 1, i.size)
                   [] OTHER -> CopyWithin(s, i.addr, i.size), << >>, w.inst)

Sources == {<<0, 1, 2, 3, 3, 2, 1, 0, 0, 0, 1, 1>>, <<1, 0, 2, 3, 1, 0, 2, 2>>}

Common == [blksize : {4}, max_winsize : {4}]
Memory == [memory : {TRUE}, size_known : {TRUE}, iopt_size : {0}, adler : {FALSE}]
Streaming == [memory : {FALSE}, size_known : BOOLEAN, iopt_size : {0, 4}, adler : {TRUE},
              has_src : {TRUE}, in_place : {FALSE}]
With(A, B) == {a @@ b : a \in A, b \in B}
Plain == [merge : {FALSE}, first : {NoWhole}, base : {<< >>}]

PlainJobs(s, T, O) == With(With(Common, With(O, Plain)), [source : {s}, target : T])
MergeJobs(w, O) ==
    LET s == Apply(w, Base)
    IN  With(With(Common, O), [source : {s}, target : Edited(s) \cup ShiftsOf(s),
                               merge : {TRUE}, first : {w}, base : {Base}])

MCJobs ==
    UNION {PlainJobs(s, Edited(s) \cup Pieced(s) \cup Unrelated,
                     With(Memory, [has_src : BOOLEAN, in_place : {FALSE}]) \cup Streaming) : s \in Sources}
    \cup UNION {PlainJobs(s, {t \in Edited(s) \cup Unrelated : Len(t) <= 12},
                          With(Memory, [has_src : {TRUE}, in_place : {TRUE}])) : s \in Sources}
    \cup UNION {MergeJobs(w, With(Memory, [has_src : {TRUE}, in_place : {FALSE}])
                             \cup {o \in Streaming : ~ o.size_known /\ o.iopt_size = 0}) : w \in {First1, First2}}
MCPieces == {3, 7}
MCDecodePieces == {9}
=============================================================================
