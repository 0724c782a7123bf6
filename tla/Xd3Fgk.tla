------------------------------- MODULE Xd3Fgk -------------------------------
(***************************************************************************)
(* The adaptive Huffman coder of xdelta3 (3party/xdelta3/xdelta3-fgk.h).   *)
(* Encoder and decoder each grow a tree from the symbols they have seen; a *)
(* symbol not seen yet is sent as the path to the list of unseen ones,     *)
(* followed by its place in that list.  h is an fgk_stream; the nodes are  *)
(* linked as a tree, as a list ordered by weight (left, right) and, while  *)
(* unseen, as a list through left_child and right_child.                   *)
(***************************************************************************)
EXTENDS Integers, SequencesExt

CONSTANT ALPHABET_SIZE   \* symbols 0 .. ALPHABET_SIZE - 1

NULL == -1
Symbols == 0 .. ALPHABET_SIZE - 1
Nodes == 0 .. 2 * ALPHABET_SIZE - 2
Blocks == 1 .. 2 * (2 * ALPHABET_SIZE - 1)

(* fgk_factor_remaining: count = 2^exp + rem, one element fewer. *)
FactorRemaining(h) ==
    LET count == h.zero_freq_count - 1
        exp == CHOOSE x \in 0 .. count : 2 ^ x <= count /\ count < 2 ^ (x + 1)
    IN  [h EXCEPT !.zero_freq_count = count, !.zero_freq_exp = exp,
                  !.zero_freq_rem = count - 2 ^ exp]

(* fgk_init_node *)
InitNode(i) ==
    [weight |-> 0, parent |-> NULL, left |-> NULL, right |-> NULL, my_block |-> NULL,
     left_child |-> IF i \in 1 .. ALPHABET_SIZE - 1 THEN i - 1 ELSE NULL,
     right_child |-> IF i < ALPHABET_SIZE - 1 THEN i + 1 ELSE NULL]

(* fgk_alloc and fgk_init *)
NewFgk ==
    FactorRemaining(FactorRemaining(
        [root_node |-> 0, decode_ptr |-> 0, free_node |-> ALPHABET_SIZE, remaining_zeros |-> 0,
         coded_bits |-> [i \in Symbols |-> 0], coded_depth |-> 0,
         zero_freq_count |-> ALPHABET_SIZE + 2, zero_freq_exp |-> 0, zero_freq_rem |-> 0,
         node |-> [i \in Nodes |-> InitNode(i)],
         leader |-> [b \in Blocks |-> NULL], free_block |-> [b \in Blocks |-> b]]))

-----------------------------------------------------------------------------
(* Assignments to fields of nodes: <<node, field, value>>. *)
Assign(h, assignments) ==
    FoldLeft(LAMBDA g, a : [g EXCEPT !.node[a[1]][a[2]] = a[3]], h, assignments)

(* fgk_make_block for node l, and fgk_free_block. *)
MakeBlock(h, n) ==
    LET b == Head(h.free_block)
    IN  [h EXCEPT !.free_block = Tail(@), !.leader[b] = n, !.node[n].my_block = b]
FreeBlock(h, b) == [h EXCEPT !.free_block = <<b>> \o @]

\* Mutant: a node gets a block of its own, also beside nodes of its weight.
JoinBlockNever(h, n, m, joins) == MakeBlock(h, n)

(* n shares the block of m if m has weight w, or gets one of its own. *)
JoinBlock(h, n, m, joins) ==
    IF joins THEN [h EXCEPT !.node[n].my_block = h.node[m].my_block] ELSE MakeBlock(h, n)

(* Which child of its parent n is. *)
SideOf(h, n) == IF h.node[h.node[n].parent].right_child = n THEN "right_child" ELSE "left_child"

(* fgk_move_right: fwd changes places with the leader of its block, in the *)
(* list and in the tree.                                                   *)
MoveRight(h, fwd) ==
    LET n == h.node
        back == h.leader[n[fwd].my_block]
        adjacent == n[fwd].right = back
        pf == n[fwd].parent
        pb == n[back].parent
        list == <<<<n[back].right, "left", fwd>>>>
                \o (IF n[fwd].left # NULL THEN <<<<n[fwd].left, "right", back>>>> ELSE << >>)
                \o <<<<fwd, "right", n[back].right>>, <<back, "left", n[fwd].left>>>>
                \o (IF adjacent THEN <<<<back, "right", fwd>>, <<fwd, "left", back>>>>
                    ELSE <<<<n[fwd].right, "left", back>>, <<back, "right", n[fwd].right>>,
                           <<n[back].left, "right", fwd>>, <<fwd, "left", n[back].left>>>>)
        tree == <<<<fwd, "parent", pb>>, <<back, "parent", pf>>,
                  <<pf, SideOf(h, fwd), back>>, <<pb, SideOf(h, back), fwd>>>>
    IN  IF fwd = back \/ pf = back \/ n[fwd].weight = 0 THEN h
        ELSE [Assign(h, list \o tree) EXCEPT !.leader[n[fwd].my_block] = fwd]

(* The leader leaves block b; its left neighbour leads the others.         *)
LeaveBlock(h, b, left) ==
    IF h.node[left].my_block = b THEN [h EXCEPT !.leader[b] = left] ELSE FreeBlock(h, b)

(* fgk_promote: the leader of its block goes to the block of the next      *)
(* weight, before its weight is raised.                                    *)
Promote(h, x) ==
    LET n == h.node
        r == n[x].right
        l == n[x].left
        cur == n[x].my_block
        joins == n[x].weight = n[r].weight - 1 /\ r # h.root_node
        overZeros == /\ l = n[x].right_child
                     /\ n[x].left_child # NULL
                     /\ n[n[x].left_child].weight = 0
    IN  IF n[x].weight = 0 THEN h
        ELSE IF overZeros
        THEN IF ~ joins THEN h
             ELSE Assign(FreeBlock(h, cur), <<<<x, "my_block", n[r].my_block>>,
                                              <<l, "my_block", n[r].my_block>>>>)
        ELSE IF l = h.remaining_zeros THEN h
        ELSE JoinBlock(LeaveBlock(h, cur, l), x, r, joins)

(* fgk_eliminate_zero: s leaves the list of unseen symbols. *)
EliminateZero(h, s) ==
    LET g == FactorRemaining(h)
        l == h.node[s].left_child
        r == h.node[s].right_child
        head == h.node[h.remaining_zeros].right_child
    IN  CASE l = NULL -> Assign([g EXCEPT !.remaining_zeros = head], <<<<head, "left_child", NULL>>>>)
          [] l # NULL /\ r = NULL -> Assign(g, <<<<l, "right_child", NULL>>>>)
          [] OTHER -> Assign(g, <<<<r, "left_child", l>>, <<l, "right_child", r>>>>)

(* fgk_increase_zero_weight: s is seen for the first time.  The last       *)
(* unseen symbol just stays where it is; any other gets a new internal     *)
(* node, which takes the place of the unseen ones.                         *)
IncreaseZeroWeight(h, s) ==
    LET z == h.remaining_zeros
        new == h.free_node
        right == h.node[z].right
        first == z = h.root_node
        linked == Assign([h EXCEPT !.free_node = @ + 1],
                     <<<<new, "parent", h.node[z].parent>>, <<new, "right", right>>,
                       <<new, "weight", 0>>, <<new, "right_child", s>>, <<new, "left", s>>>>)
        placed ==
            IF first THEN MakeBlock(MakeBlock([linked EXCEPT !.root_node = new], s), new)
            ELSE LET at == Assign(linked, <<<<right, "left", new>>,
                                            <<h.node[z].parent, SideOf(h, z), new>>>>)
                     own == JoinBlock(at, new, right, h.node[right].weight = 1)
                 IN  Assign(own, <<<<s, "my_block", own.node[new].my_block>>>>)
        hang(g, zeros) ==
            Assign(g, <<<<new, "left_child", zeros>>, <<s, "right", new>>, <<s, "left", zeros>>,
                        <<s, "parent", new>>, <<s, "left_child", NULL>>, <<s, "right_child", NULL>>,
                        <<zeros, "parent", new>>, <<zeros, "right", s>>>>)
        add(g) == hang(g, g.remaining_zeros)
    IN  IF h.zero_freq_count = 1
        THEN [JoinBlock(Assign(h, <<<<s, "right_child", NULL>>>>), s, h.node[s].right,
                        h.node[h.node[s].right].weight = 1) EXCEPT !.remaining_zeros = NULL]
        ELSE add(EliminateZero(placed, s))

(* The loop of fgk_update_tree: from the leaf to the root, every weight is *)
(* raised by one.                                                          *)
RECURSIVE Raise(_, _)
Raise(h, x) ==
    IF x = h.root_node THEN [h EXCEPT !.node[x].weight = @ + 1]
    ELSE LET up(g) == Raise([g EXCEPT !.node[x].weight = @ + 1], g.node[x].parent)
         IN  up(Promote(MoveRight(h, x), x))

UpdateTree(h, s) == Raise(IF h.node[s].weight = 0 THEN IncreaseZeroWeight(h, s) ELSE h, s)

-----------------------------------------------------------------------------
(* fgk_find_nth_zero: the place of symbol s among the unseen ones, from x. *)
RECURSIVE FindNthZero(_, _, _)
FindNthZero(h, s, x) == IF x = s THEN 0 ELSE 1 + FindNthZero(h, s, h.node[x].right_child)

(* fgk_nth_zero: stops at the end of the list. *)
RECURSIVE NthZero(_, _, _)
NthZero(h, i, x) ==
    IF i = 0 \/ h.node[x].right_child = NULL THEN x ELSE NthZero(h, i - 1, h.node[x].right_child)

ZeroBits(h) == h.zero_freq_exp + (IF h.zero_freq_rem = 0 THEN 0 ELSE 1)

RECURSIVE PathTo(_, _)
PathTo(h, x) ==
    IF x = h.root_node THEN << >>
    ELSE Append(PathTo(h, h.node[x].parent), IF SideOf(h, x) = "right_child" THEN 1 ELSE 0)

(* fgk_encode_data, before it updates the tree: the bits in the order in   *)
(* which fgk_get_encoded_bit returns them.                                 *)
CodeOf(h, s) ==
    LET where == FindNthZero(h, s, h.remaining_zeros)
        k == ZeroBits(h)
    IN  IF h.node[s].weight # 0 THEN PathTo(h, s)
        ELSE PathTo(h, h.remaining_zeros) \o [i \in 1 .. k |-> (where \div 2 ^ (k - i)) % 2]

(* fgk_decode_bit: done tells that a symbol is complete. *)
DecodeBit(h, b) ==
    LET n == h.node
        next == IF b = 1 THEN n[h.decode_ptr].right_child ELSE n[h.decode_ptr].left_child
    IN  IF n[h.decode_ptr].weight = 0
        THEN [h |-> [h EXCEPT !.coded_bits[h.coded_depth] = b, !.coded_depth = @ + 1],
              done |-> h.coded_depth + 1 >= ZeroBits(h)]
        ELSE [h |-> [h EXCEPT !.decode_ptr = next],
              done |-> n[next].left_child = NULL /\ (n[next].weight # 0 \/ h.zero_freq_count = 1)]

(* fgk_decode_data, before it updates the tree.  With no bits received,    *)
(* coded_bits[0] is what an earlier symbol left there.                     *)
DecodedSymbol(h) ==
    LET top == IF h.coded_depth > 0 THEN h.coded_depth - 1 ELSE 0
        index == FoldLeft(LAMBDA v, i : (v * 2) + h.coded_bits[i], 0, [i \in 1 .. top + 1 |-> i - 1])
    IN  IF h.node[h.decode_ptr].weight # 0 THEN h.decode_ptr ELSE NthZero(h, index, h.remaining_zeros)

AfterDecoding(h, s) ==
    LET restart(g) == [g EXCEPT !.decode_ptr = g.root_node]
    IN  restart(UpdateTree([h EXCEPT !.coded_depth = 0], s))

-----------------------------------------------------------------------------
(* xd3_encode_fgk: the bits of a whole section, and the tree after it. *)
EncodeFgk(h, data) ==
    FoldLeft(LAMBDA r, s : [h |-> UpdateTree(r.h, s), bits |-> r.bits \o CodeOf(r.h, s)],
             [h |-> h, bits |-> << >>], data)

(* The loop of xd3_decode_fgk: bits are taken until n symbols are there;   *)
(* "short" stands for "secondary decoder end of input".                    *)
RECURSIVE DecodeFgk(_, _, _, _)
DecodeFgk(h, bits, n, sofar) ==
    IF Len(sofar) = n THEN [h |-> h, rest |-> bits, data |-> sofar, ret |-> "ok"]
    ELSE IF bits = << >> THEN [h |-> h, rest |-> bits, data |-> sofar, ret |-> "short"]
    ELSE LET r == DecodeBit(h, Head(bits))
             s == DecodedSymbol(r.h)
         IN  IF ~ r.done THEN DecodeFgk(r.h, Tail(bits), n, sofar)
             ELSE DecodeFgk(AfterDecoding(r.h, s), Tail(bits), n, Append(sofar, s))
=============================================================================
