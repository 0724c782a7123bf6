--------------------------- MODULE Storage_proofs ---------------------------
(***************************************************************************)
(* What the operations of the chunk cache and of the chunk store preserve. *)
(* These are lemmas on the operators of ChunkCache and Storage, for the    *)
(* proofs of the modules that build a state machine from them; at the end, *)
(* lemmas about how the chunks stored are classified.                      *)
(***************************************************************************)
EXTENDS Storage, FiniteSetTheorems, SequenceTheorems, WellFoundedInduction, TLAPS

(* Numbers.                                                                *)

\* Every set of natural numbers that is not empty has a least element.
LEMMA LeastNat ==
  ASSUME NEW T, T \subseteq Nat, T # {}
  PROVE  \E x \in T : \A y \in T : x <= y
<1>1. PICK x \in T : \A y \in T : ~ (<<y, x>> \in OpToRel(<, Nat))
  BY NatLessThanWellFounded, WFMin
<1>2. \A y \in T : <<y, x>> \in OpToRel(<, Nat) <=> y < x
  BY DEF OpToRel
<1>3. \A y \in T : ~ (y < x)
  BY <1>1, <1>2, Zenon
<1> QED
  BY <1>3

\* A number below the modulus is its own remainder.
LEMMA SmallRemainder ==
  ASSUME NEW s \in Nat \ {0}, NEW m \in 0..s - 1
  PROVE  m % s = m
OBVIOUS

\* Two representations with remainders in range have the same remainder.
LEMMA SameRemainder ==
  ASSUME NEW n \in Nat \ {0}, NEW p \in Int, NEW q \in Int,
         NEW r \in 0..n - 1, NEW s \in 0..n - 1, p * n + r = q * n + s
  PROVE  r = s
<1>1. (p - q) * n = s - r
  OBVIOUS
<1>2. CASE p - q >= 1
  <2>1. (p - q) * n >= n
    BY <1>2
  <2> QED
    BY <1>1, <2>1
<1>3. CASE p - q <= -1
  <2>1. (q - p) * n >= n
    BY <1>3
  <2>2. (q - p) * n = r - s
    BY <1>1
  <2> QED
    BY <2>1, <2>2
<1>4. CASE p - q = 0
  BY <1>1, <1>4
<1> QED
  BY <1>2, <1>3, <1>4

\* The remainder of a sum does not change when an addend is reduced first.
LEMMA ModSum ==
  ASSUME NEW n \in Nat \ {0}, NEW a \in Int, NEW b \in Int
  PROVE  ((a % n) + b) % n = (a + b) % n
<1> DEFINE x == a % n
           y == (x + b) % n
           z == (a + b) % n
           p == a \div n
           q == (x + b) \div n
           r == (a + b) \div n
<1>0. \A i \in Int : i % n \in 0..n - 1 /\ i \div n \in Int /\ i = (i \div n) * n + (i % n)
  OBVIOUS
<1>1. x \in 0..n - 1 /\ p \in Int /\ a = p * n + x
  BY <1>0
<1>2. x + b \in Int /\ a + b \in Int
  BY <1>1
<1>3. y \in 0..n - 1 /\ q \in Int /\ x + b = q * n + y
  BY <1>0, <1>2
<1>4. z \in 0..n - 1 /\ r \in Int /\ a + b = r * n + z
  BY <1>0, <1>2
<1> HIDE DEF x, y, z, p, q, r
<1>5. p * n + (q * n + y) = r * n + z
  BY <1>1, <1>3, <1>4
<1>6. p * n + q * n = (p + q) * n
  BY <1>1, <1>3
<1>7. (p + q) * n + y = r * n + z
  <2>1. p * n \in Int /\ q * n \in Int
    BY <1>1, <1>3
  <2> QED
    BY <1>1, <1>3, <1>4, <1>5, <1>6, <2>1
<1>8. y = z
  <2>1. p + q \in Int
    BY <1>1, <1>3
  <2> QED
    BY <1>3, <1>4, <1>7, <2>1, SameRemainder
<1> QED
  BY <1>8 DEF x, y, z

\* What is taken off a counter modulo s and put back leaves it as it was.
LEMMA TakeAndPutBack ==
  ASSUME NEW s \in Nat \ {0}, NEW m \in 0..s - 1, NEW l \in Int
  PROVE  (((m - l) % s) + l) % s = m
<1>1. m - l \in Int /\ (m - l) + l = m
  OBVIOUS
<1>2. (((m - l) % s) + l) % s = ((m - l) + l) % s
  BY <1>1, ModSum
<1> QED
  BY <1>1, <1>2, SmallRemainder
-----------------------------------------------------------------------------
(* The total length of a sequence of chunks.                               *)

\* f is the sequence of the sums of the first lengths, up to the n-th.
IsSum(f, cs, n) ==
  f = [k \in 0..n |-> IF k = 0 THEN 0 ELSE f[k - 1] + Len(cs[k])]

\* The sums of the first lengths exist for every number of chunks ...
LEMMA SumExists ==
  ASSUME NEW cs \in Seq(Seq(Nat)), NEW n \in 0..Len(cs)
  PROVE  \E f : IsSum(f, cs, n) /\ f \in [0..n -> Nat]
<1> DEFINE Ok(k) == \E f : IsSum(f, cs, k) /\ f \in [0..k -> Nat]
           T == {k \in 0..Len(cs) : ~Ok(k)}
<1>0. Len(cs) \in Nat
  OBVIOUS
<1> HIDE DEF Ok
<1> SUFFICES ASSUME T # {} PROVE FALSE
  BY DEF Ok
<1>1. PICK k \in T : \A j \in T : k <= j
  <2>1. T \subseteq Nat
    BY <1>0
  <2> QED
    BY <2>1, LeastNat
<1>2. k \in 0..Len(cs) /\ ~Ok(k)
  BY <1>1
<1>3. k # 0
  <2>1. Ok(0)
    <3> DEFINE f == [i \in 0..0 |-> 0]
    <3>1. IsSum(f, cs, 0) /\ f \in [0..0 -> Nat]
      BY DEF IsSum
    <3> QED
      BY <3>1 DEF Ok
  <2> QED
    BY <1>2, <2>1
<1>4. k - 1 \in 0..Len(cs) /\ Ok(k - 1)
  BY <1>0, <1>1, <1>2, <1>3
<1>5. PICK f : IsSum(f, cs, k - 1) /\ f \in [0..k - 1 -> Nat]
  BY <1>4 DEF Ok
<1> DEFINE g == [i \in 0..k |-> IF i = k THEN f[k - 1] + Len(cs[k]) ELSE f[i]]
<1>6. Len(cs[k]) \in Nat
  <2>1. cs[k] \in Seq(Nat)
    BY <1>0, <1>2, <1>3
  <2> QED
    BY <2>1
<1>7. g \in [0..k -> Nat]
  BY <1>2, <1>3, <1>5, <1>6
<1>8. \A i \in 0..k - 1 : f[i] = IF i = 0 THEN 0 ELSE f[i - 1] + Len(cs[i])
  BY <1>5 DEF IsSum
<1>9. \A i \in 0..k : g[i] = IF i = 0 THEN 0 ELSE g[i - 1] + Len(cs[i])
  <2> SUFFICES ASSUME NEW i \in 0..k
               PROVE  g[i] = IF i = 0 THEN 0 ELSE g[i - 1] + Len(cs[i])
    OBVIOUS
  <2>1. CASE i = k
    <3>1. g[k - 1] = f[k - 1] /\ g[k] = f[k - 1] + Len(cs[k])
      BY <1>2, <1>3
    <3> QED
      BY <1>3, <2>1, <3>1
  <2>2. CASE i # k
    <3>1. i \in 0..k - 1 /\ g[i] = f[i]
      BY <1>2, <2>2
    <3>2. i # 0 => g[i - 1] = f[i - 1]
      BY <1>2, <3>1
    <3> QED
      BY <1>8, <3>1, <3>2
  <2> QED
    BY <2>1, <2>2
<1>10. IsSum(g, cs, k)
  <2> HIDE DEF g
  <2>1. DOMAIN g = 0..k /\ g = [i \in 0..k |-> g[i]]
    BY <1>7
  <2> QED
    BY <1>9, <2>1 DEF IsSum
<1> QED
  BY <1>2, <1>7, <1>10 DEF Ok

\* ... and are determined by the chunks.
LEMMA SumUnique ==
  ASSUME NEW cs, NEW n \in Nat, NEW f, NEW g, IsSum(f, cs, n), IsSum(g, cs, n)
  PROVE  f = g
<1> DEFINE T == {k \in 0..n : f[k] # g[k]}
<1>1. /\ \A k \in 0..n : f[k] = IF k = 0 THEN 0 ELSE f[k - 1] + Len(cs[k])
      /\ \A k \in 0..n : g[k] = IF k = 0 THEN 0 ELSE g[k - 1] + Len(cs[k])
  BY DEF IsSum
<1>2. T = {}
  <2> SUFFICES ASSUME T # {} PROVE FALSE
    OBVIOUS
  <2>1. PICK k \in T : \A j \in T : k <= j
    <3>1. T \subseteq Nat
      OBVIOUS
    <3> QED
      BY <3>1, LeastNat
  <2>2. k # 0
    BY <1>1, <2>1
  <2>3. f[k - 1] = g[k - 1]
    BY <2>1, <2>2
  <2> QED
    BY <1>1, <2>1, <2>2, <2>3
<1>3. \A k \in 0..n : f[k] = g[k]
  BY <1>2
<1>4. /\ f = [k \in 0..n |-> f[k]]
      /\ g = [k \in 0..n |-> g[k]]
  BY <1>1 DEF IsSum
<1> QED
  BY <1>3, <1>4

\* TotalLen is what its recursion says.
LEMMA TotalLenIs ==
  ASSUME NEW cs \in Seq(Seq(Nat)), NEW f, IsSum(f, cs, Len(cs))
  PROVE  TotalLen(cs) = f[Len(cs)]
<1> DEFINE g == CHOOSE h : IsSum(h, cs, Len(cs))
<1>1. IsSum(g, cs, Len(cs))
  OBVIOUS
<1>2. g = f
  BY <1>1, SumUnique
<1>3. TotalLen(cs) = g[Len(cs)]
  BY DEF TotalLen, IsSum
<1> QED
  BY <1>2, <1>3

\* A total length is a natural number.
LEMMA TotalLenType ==
  ASSUME NEW cs \in Seq(Seq(Nat))
  PROVE  TotalLen(cs) \in Nat
<1>1. PICK f : IsSum(f, cs, Len(cs)) /\ f \in [0..Len(cs) -> Nat]
  BY SumExists
<1> QED
  BY <1>1, TotalLenIs

\* One more chunk adds its length.
LEMMA TotalLenAppend ==
  ASSUME NEW cs \in Seq(Seq(Nat)), NEW c \in Seq(Nat)
  PROVE  TotalLen(Append(cs, c)) = TotalLen(cs) + Len(c)
<1> DEFINE n  == Len(cs)
           cc == Append(cs, c)
<1>1. cc \in Seq(Seq(Nat)) /\ Len(cc) = n + 1 /\ n \in Nat /\ cc[n + 1] = c
      /\ \A k \in 1..n : cc[k] = cs[k]
  OBVIOUS
<1> HIDE DEF cc
<1>2. PICK f : IsSum(f, cc, n + 1) /\ f \in [0..n + 1 -> Nat]
  <2>1. n + 1 \in 0..Len(cc)
    BY <1>1
  <2> QED
    BY <1>1, <2>1, SumExists
<1>3. \A k \in 0..n + 1 : f[k] = IF k = 0 THEN 0 ELSE f[k - 1] + Len(cc[k])
  BY <1>2 DEF IsSum
<1> DEFINE g == [k \in 0..n |-> f[k]]
<1>4. IsSum(g, cs, n)
  <2>1. \A k \in 0..n : g[k] = IF k = 0 THEN 0 ELSE g[k - 1] + Len(cs[k])
    <3> SUFFICES ASSUME NEW k \in 0..n
                 PROVE  g[k] = IF k = 0 THEN 0 ELSE g[k - 1] + Len(cs[k])
      OBVIOUS
    <3>1. g[k] = f[k] /\ (k # 0 => g[k - 1] = f[k - 1] /\ cc[k] = cs[k])
      BY <1>1
    <3> QED
      BY <1>1, <1>3, <3>1
  <2>2. g = [k \in 0..n |-> g[k]]
    OBVIOUS
  <2> HIDE DEF g
  <2> QED
    BY <2>1, <2>2 DEF IsSum
<1>5. TotalLen(cs) = g[n] /\ TotalLen(cc) = f[n + 1]
  BY <1>1, <1>2, <1>4, TotalLenIs
<1>6. f[n + 1] = f[n] + Len(c)
  <2>1. n + 1 \in 0..n + 1 /\ n + 1 # 0 /\ (n + 1) - 1 = n
    BY <1>1
  <2> QED
    BY <1>1, <1>3, <2>1
<1> QED
  BY <1>1, <1>5, <1>6 DEF cc

\* No chunks have no length.
LEMMA TotalLenEmpty == TotalLen(<<>>) = 0
<1> DEFINE f == [k \in 0..0 |-> 0]
<1>1. IsSum(f, <<>>, 0)
  BY DEF IsSum
<1> QED
  BY <1>1, TotalLenIs
-----------------------------------------------------------------------------
(* The cache.                                                              *)

Nodes == [id : Nat, chunk : Seq(Nat)]

Caches == [lru : Seq(Nodes), map : SUBSET Nat, mem : 0..SizeT - 1,
           crashed : BOOLEAN]

IdsOf(lru) == {lru[i].id : i \in 1..Len(lru)}

\* What get and add preserve: map_ has exactly the ids of the list, no id has
\* two nodes, and the counter is below the limit once anything is cached.
CacheOK(c) ==
  /\ c \in Caches
  /\ c.map = IdsOf(c.lru)
  /\ \A i, j \in 1..Len(c.lru) : c.lru[i].id = c.lru[j].id => i = j
  /\ c.lru = <<>> => c.mem = 0
  /\ c.lru # <<>> => c.mem < MaxMemoryUsage

\* A cache starts in order.
LEMMA EmptyCacheOK == CacheOK(EmptyCache)
BY CacheAssumption DEF CacheOK, EmptyCache, Caches, IdsOf

\* A list made from nodes of another has no further ids.
LEMMA IdsIncluded ==
  ASSUME NEW p, NEW q, \A i \in 1..Len(p) : \E j \in 1..Len(q) : p[i] = q[j]
  PROVE  IdsOf(p) \subseteq IdsOf(q)
<1> SUFFICES ASSUME NEW x \in IdsOf(p) PROVE x \in IdsOf(q)
  OBVIOUS
<1>1. PICK i \in 1..Len(p) : x = p[i].id
  BY DEF IdsOf
<1>2. PICK j \in 1..Len(q) : p[i] = q[j]
  OBVIOUS
<1> QED
  BY <1>1, <1>2 DEF IdsOf

\* Min picks the least element.
LEMMA MinIsLeast ==
  ASSUME NEW T, T \subseteq Nat, T # {}
  PROVE  Min(T) \in T /\ \A y \in T : Min(T) <= y
BY LeastNat DEF Min

\* map_ leads to a node with the id that was asked for.
LEMMA NodeOfCached ==
  ASSUME NEW c, CacheOK(c), NEW id \in c.map
  PROVE  NodeOf(c, id) \in 1..Len(c.lru) /\ c.lru[NodeOf(c, id)].id = id
<1> DEFINE I == {i \in 1..Len(c.lru) : c.lru[i].id = id}
<1>1. I # {} /\ I \subseteq Nat
  BY DEF CacheOK, IdsOf
<1>2. NodeOf(c, id) = Min(I)
  BY <1>1 DEF NodeOf, SelectInSeq
<1>3. Min(I) \in I
  BY <1>1, MinIsLeast
<1> QED
  BY <1>2, <1>3

\* ... and to no other.
LEMMA NodeOfUnique ==
  ASSUME NEW c, CacheOK(c), NEW i \in 1..Len(c.lru)
  PROVE  c.lru[i].id \in c.map /\ NodeOf(c, c.lru[i].id) = i
<1>1. c.lru[i].id \in c.map
  BY DEF CacheOK, IdsOf
<1> QED
  BY <1>1, NodeOfCached DEF CacheOK

\* The sequence l without its k-th element, and x in front.
Moved(l, k, x) == <<x>> \o RemoveAt(l, k)

\* Where the elements of a sequence are when one has been moved to the front.
LEMMA MoveToFront ==
  ASSUME NEW S, NEW l \in Seq(S), NEW k \in 1..Len(l), NEW x \in S
  PROVE  /\ Moved(l, k, x) \in Seq(S) /\ Len(Moved(l, k, x)) = Len(l)
         /\ Moved(l, k, x)[1] = x
         /\ \A i \in 2..k : Moved(l, k, x)[i] = l[i - 1]
         /\ \A i \in k + 1..Len(l) : Moved(l, k, x)[i] = l[i]
<1> DEFINE r == RemoveAt(l, k)
           m == Moved(l, k, x)
<1>1. Len(l) \in Nat
  OBVIOUS
<1>2. /\ r \in Seq(S) /\ Len(r) = Len(l) - 1
      /\ \A i \in 1..k - 1 : r[i] = l[i]
      /\ \A i \in k..Len(l) - 1 : r[i] = l[i + 1]
  <2> DEFINE p == SubSeq(l, 1, k - 1)
             q == SubSeq(l, k + 1, Len(l))
  <2>1. p \in Seq(S) /\ Len(p) = k - 1 /\ \A i \in 1..k - 1 : p[i] = l[i]
    BY <1>1
  <2>2. /\ q \in Seq(S) /\ Len(q) = Len(l) - k
        /\ \A i \in 1..Len(l) - k : q[i] = l[k + i]
    BY <1>1
  <2>3. r = p \o q
    BY DEF RemoveAt
  <2> HIDE DEF p, q, r
  <2>4. r \in Seq(S) /\ Len(r) = Len(l) - 1
    BY <1>1, <2>1, <2>2, <2>3
  <2>5. \A i \in 1..k - 1 : r[i] = l[i]
    BY <1>1, <2>1, <2>2, <2>3
  <2>6. ASSUME NEW i \in k..Len(l) - 1 PROVE r[i] = l[i + 1]
    <3>1. r[i] = q[i - (k - 1)]
      BY <1>1, <2>1, <2>2, <2>3
    <3>2. i - (k - 1) \in 1..Len(l) - k /\ k + (i - (k - 1)) = i + 1
      BY <1>1
    <3> QED
      BY <2>2, <3>1, <3>2
  <2> QED
    BY <2>4, <2>5, <2>6
<1>0. m = <<x>> \o r
  BY DEF Moved
<1> HIDE DEF r, m
<1>3. /\ m \in Seq(S) /\ Len(m) = Len(l)
      /\ m[1] = x
      /\ \A i \in 2..Len(l) : m[i] = r[i - 1]
  <2>1. /\ <<x>> \o r \in Seq(S) /\ Len(<<x>> \o r) = Len(l)
        /\ (<<x>> \o r)[1] = x
        /\ \A i \in 2..Len(l) : (<<x>> \o r)[i] = r[i - 1]
    BY <1>1, <1>2
  <2> QED
    BY ONLY <1>0, <2>1
<1>4. \A i \in 2..k : m[i] = l[i - 1]
  BY <1>1, <1>2, <1>3
<1>5. \A i \in k + 1..Len(l) : m[i] = l[i]
  BY <1>1, <1>2, <1>3
<1> QED
  BY <1>3, <1>4, <1>5 DEF m

\* The same for the nodes of a cache.
LEMMA MoveNodeToFront ==
  ASSUME NEW l, NEW k, NEW x, l \in Seq(Nodes), k \in 1..Len(l), x \in Nodes
  PROVE  /\ Moved(l, k, x) \in Seq(Nodes) /\ Len(Moved(l, k, x)) = Len(l)
         /\ Moved(l, k, x)[1] = x
         /\ \A i \in 2..k : Moved(l, k, x)[i] = l[i - 1]
         /\ \A i \in k + 1..Len(l) : Moved(l, k, x)[i] = l[i]
<1>1. /\ Moved(l, k, x) \in Seq(Nodes) /\ Len(Moved(l, k, x)) = Len(l)
      /\ Moved(l, k, x)[1] = x
  BY MoveToFront
<1>2. ASSUME NEW i \in 2..k PROVE Moved(l, k, x)[i] = l[i - 1]
  BY MoveToFront
<1>3. ASSUME NEW i \in k + 1..Len(l) PROVE Moved(l, k, x)[i] = l[i]
  BY MoveToFront
<1> QED
  BY <1>1, <1>2, <1>3

\* Where get leaves the nodes: the one that was hit first, the ones before it
\* one further back, the others where they were.
LEMMA GetMoves ==
  ASSUME NEW c, CacheOK(c), NEW id \in c.map
  PROVE  LET d == CacheGet(c, id)
             k == NodeOf(c, id)
         IN /\ d \in Caches
            /\ d.map = c.map /\ d.mem = c.mem /\ d.crashed = c.crashed
            /\ Len(d.lru) = Len(c.lru)
            /\ d.lru[1] = c.lru[k]
            /\ \A i \in 2..k : d.lru[i] = c.lru[i - 1]
            /\ \A i \in k + 1..Len(c.lru) : d.lru[i] = c.lru[i]
<1> DEFINE d == CacheGet(c, id)
           k == NodeOf(c, id)
           l == c.lru
           x == l[k]
           m == Moved(l, k, x)
<1>1. k \in 1..Len(l) /\ l \in Seq(Nodes) /\ c \in Caches
  BY NodeOfCached DEF CacheOK, Caches
<1>2. d = [c EXCEPT !.lru = m]
  BY DEF CacheGet, Cached, Moved
<1> HIDE DEF d, k, l
<1>3. x \in Nodes
  BY <1>1
<1> HIDE DEF x
<1>4. /\ m \in Seq(Nodes) /\ Len(m) = Len(l)
      /\ m[1] = x
      /\ \A i \in 2..k : m[i] = l[i - 1]
      /\ \A i \in k + 1..Len(l) : m[i] = l[i]
  <2>1. l \in Seq(Nodes) /\ k \in 1..Len(l) /\ x \in Nodes
    BY <1>1, <1>3
  <2>2. /\ Moved(l, k, x) \in Seq(Nodes) /\ Len(Moved(l, k, x)) = Len(l)
        /\ Moved(l, k, x)[1] = x
        /\ \A i \in 2..k : Moved(l, k, x)[i] = l[i - 1]
        /\ \A i \in k + 1..Len(l) : Moved(l, k, x)[i] = l[i]
    BY <2>1, MoveNodeToFront
  <2> QED
    BY <2>2
<1> HIDE DEF m
<1>5. /\ d \in Caches /\ d.lru = m
      /\ d.map = c.map /\ d.mem = c.mem /\ d.crashed = c.crashed
  BY <1>1, <1>2, <1>4 DEF Caches
<1> QED
  BY <1>4, <1>5 DEF d, k, l, x

\* get reorders the nodes: every node of the list comes from one of the old.
LEMMA GetPermutes ==
  ASSUME NEW c, CacheOK(c), NEW id \in c.map
  PROVE  LET d == CacheGet(c, id) IN
         /\ \A i \in 1..Len(d.lru) : \E j \in 1..Len(c.lru) : d.lru[i] = c.lru[j]
         /\ \A j \in 1..Len(c.lru) : \E i \in 1..Len(d.lru) : d.lru[i] = c.lru[j]
<1> DEFINE d == CacheGet(c, id)
           k == NodeOf(c, id)
<1>1. /\ Len(d.lru) = Len(c.lru)
      /\ d.lru[1] = c.lru[k]
      /\ \A i \in 2..k : d.lru[i] = c.lru[i - 1]
      /\ \A i \in k + 1..Len(c.lru) : d.lru[i] = c.lru[i]
  BY GetMoves
<1>2. k \in 1..Len(c.lru) /\ Len(c.lru) \in Nat
  BY NodeOfCached DEF CacheOK, Caches
<1> HIDE DEF d, k
<1>3. ASSUME NEW i \in 1..Len(c.lru) PROVE \E j \in 1..Len(c.lru) : d.lru[i] = c.lru[j]
  <2>1. CASE i = 1
    BY <1>1, <1>2, <2>1
  <2>2. CASE i \in 2..k
    <3>1. i - 1 \in 1..Len(c.lru)
      BY <1>2, <2>2
    <3> QED
      BY <1>1, <2>2, <3>1
  <2>3. CASE i \in k + 1..Len(c.lru)
    BY <1>1, <2>3
  <2> QED
    BY <1>2, <2>1, <2>2, <2>3
<1>4. ASSUME NEW j \in 1..Len(c.lru) PROVE \E i \in 1..Len(c.lru) : d.lru[i] = c.lru[j]
  <2>1. CASE j = k
    BY <1>1, <1>2, <2>1
  <2>2. CASE j \in 1..k - 1
    <3>1. j + 1 \in 2..k /\ j + 1 \in 1..Len(c.lru) /\ (j + 1) - 1 = j
      BY <1>2, <2>2
    <3> QED
      BY <1>1, <3>1
  <2>3. CASE j \in k + 1..Len(c.lru)
    BY <1>1, <2>3
  <2> QED
    BY <1>2, <2>1, <2>2, <2>3
<1> QED
  BY <1>1, <1>3, <1>4 DEF d

\* get preserves the cache.
LEMMA GetOK ==
  ASSUME NEW c, CacheOK(c), NEW id \in c.map
  PROVE  CacheOK(CacheGet(c, id))
<1> DEFINE d == CacheGet(c, id)
           k == NodeOf(c, id)
<1>1. /\ d \in Caches
      /\ d.map = c.map /\ d.mem = c.mem /\ d.crashed = c.crashed
      /\ Len(d.lru) = Len(c.lru)
      /\ d.lru[1] = c.lru[k]
      /\ \A i \in 2..k : d.lru[i] = c.lru[i - 1]
      /\ \A i \in k + 1..Len(c.lru) : d.lru[i] = c.lru[i]
  BY GetMoves
<1>2. /\ k \in 1..Len(c.lru) /\ Len(c.lru) \in Nat
      /\ c.lru \in Seq(Nodes) /\ c.map = IdsOf(c.lru)
      /\ \A i, j \in 1..Len(c.lru) : c.lru[i].id = c.lru[j].id => i = j
      /\ c.lru # <<>> => c.mem < MaxMemoryUsage
  BY NodeOfCached DEF CacheOK, Caches
<1>3. /\ \A i \in 1..Len(d.lru) : \E j \in 1..Len(c.lru) : d.lru[i] = c.lru[j]
      /\ \A j \in 1..Len(c.lru) : \E i \in 1..Len(d.lru) : d.lru[i] = c.lru[j]
  BY GetPermutes
<1> HIDE DEF d, k
<1>4. d.map = IdsOf(d.lru)
  <2>1. IdsOf(d.lru) \subseteq IdsOf(c.lru)
    BY <1>3, IdsIncluded
  <2>2. IdsOf(c.lru) \subseteq IdsOf(d.lru)
    <3>1. \A j \in 1..Len(c.lru) : \E i \in 1..Len(d.lru) : c.lru[j] = d.lru[i]
      BY <1>3
    <3> QED
      BY <3>1, IdsIncluded
  <2> QED
    BY <1>1, <1>2, <2>1, <2>2
<1> DEFINE from(i) == IF i = 1 THEN k ELSE IF i <= k THEN i - 1 ELSE i
<1>5. \A i \in 1..Len(c.lru) : from(i) \in 1..Len(c.lru) /\ d.lru[i] = c.lru[from(i)]
  BY <1>1, <1>2
<1>6. \A i, j \in 1..Len(c.lru) : from(i) = from(j) => i = j
  BY <1>2
<1> HIDE DEF from
<1>7. \A i, j \in 1..Len(d.lru) : d.lru[i].id = d.lru[j].id => i = j
  <2> SUFFICES ASSUME NEW i \in 1..Len(c.lru), NEW j \in 1..Len(c.lru),
                      d.lru[i].id = d.lru[j].id
               PROVE  i = j
    BY <1>1
  <2>1. c.lru[from(i)].id = c.lru[from(j)].id
    BY <1>5
  <2>2. from(i) = from(j)
    BY <1>2, <1>5, <2>1
  <2> QED
    BY <1>6, <2>2
<1>8. d.lru # <<>> /\ c.lru # <<>>
  BY <1>1, <1>2
<1> QED
  BY <1>1, <1>2, <1>4, <1>7, <1>8 DEF CacheOK, d

\* The eviction loop takes at most one turn: the length of the chunk that comes
\* in goes off the counter and comes back on, which is then below the limit as
\* it was before.  It needs no turn, and a node to evict, for a chunk that fits.
LEMMA AtMostOneVictim ==
  ASSUME NEW c, CacheOK(c), NEW len \in Nat
  PROVE  /\ \A k \in Evictions(c, len) : k \in {0, 1} /\ k <= Len(c.lru)
         /\ c.lru # <<>> => Evictions(c, len) # {}
         /\ len < MaxMemoryUsage => Evictions(c, len) # {}
<1>1. /\ SizeT \in Nat \ {0} /\ MaxMemoryUsage \in 0..SizeT - 1
      /\ c.mem \in 0..SizeT - 1 /\ c.lru \in Seq(Nodes) /\ Len(c.lru) \in Nat
  BY CacheAssumption DEF CacheOK, Caches
<1>2. (MemAfter(c, len, 1) + len) % SizeT = c.mem
  <2>1. 1 * len = len
    OBVIOUS
  <2>2. len \in Int
    OBVIOUS
  <2>3. (((c.mem - len) % SizeT) + len) % SizeT = c.mem
    BY <1>1, <2>2, TakeAndPutBack
  <2> QED
    BY <2>1, <2>3 DEF MemAfter
<1>3. c.lru # <<>> => ~NeedsRoom(c, len, 1)
  <2>1. c.lru # <<>> => c.mem < MaxMemoryUsage
    BY DEF CacheOK
  <2> QED
    BY <1>1, <1>2, <2>1 DEF NeedsRoom
<1>4. \A k \in Evictions(c, len) : k \in {0, 1} /\ k <= Len(c.lru)
  <2> SUFFICES ASSUME NEW k \in Evictions(c, len)
               PROVE  k \in {0, 1} /\ k <= Len(c.lru)
    OBVIOUS
  <2>1. k \in 0..Len(c.lru) /\ \A j \in 0..k - 1 : NeedsRoom(c, len, j)
    BY DEF Evictions
  <2>2. k >= 2 => 1 \in 0..k - 1 /\ c.lru # <<>>
    BY <1>1, <2>1
  <2> QED
    BY <1>1, <1>3, <2>1, <2>2
<1>5. ~NeedsRoom(c, len, 0) => 0 \in Evictions(c, len)
  BY <1>1 DEF Evictions
<1>6. ASSUME c.lru # <<>> PROVE Evictions(c, len) # {}
  <2>1. CASE NeedsRoom(c, len, 0)
    <3>1. 1 \in 0..Len(c.lru) /\ \A j \in 0..1 - 1 : j = 0
      BY <1>1, <1>6
    <3>2. 1 \in Evictions(c, len)
      BY <1>3, <1>6, <2>1, <3>1 DEF Evictions
    <3> QED
      BY <3>2
  <2> QED
    BY <1>5, <2>1
<1>7. ASSUME len < MaxMemoryUsage PROVE Evictions(c, len) # {}
  <2>1. CASE c.lru = <<>>
    <3>1. c.mem = 0
      BY <2>1 DEF CacheOK
    <3>2. MemAfter(c, len, 0) = 0
      BY <1>1, <3>1 DEF MemAfter
    <3>3. (0 + len) % SizeT = len
      BY <1>1, <1>7
    <3>4. ~NeedsRoom(c, len, 0)
      BY <1>1, <1>7, <3>2, <3>3 DEF NeedsRoom
    <3> QED
      BY <1>5, <3>4
  <2> QED
    BY <1>6, <2>1
<1> QED
  BY <1>4, <1>6, <1>7

\* What add does when there is room: the new node comes first, at most one node
\* goes, from the tail, and its id goes from map_.
LEMMA AddMoves ==
  ASSUME NEW c, CacheOK(c), NEW id \in Nat \ c.map, NEW chunk \in Seq(Nat),
         Evictions(c, Len(chunk)) # {}
  PROVE  LET d == CacheAdd(c, id, chunk) IN
         \E k \in Evictions(c, Len(chunk)) :
           /\ k \in {0, 1} /\ k <= Len(c.lru)
           /\ d \in Caches /\ d.crashed = c.crashed
           /\ Len(d.lru) = Len(c.lru) - k + 1
           /\ d.lru[1] = [id |-> id, chunk |-> chunk]
           /\ \A i \in 2..Len(d.lru) : d.lru[i] = c.lru[i - 1]
           /\ d.map = IdsOf(d.lru)
           /\ d.mem < MaxMemoryUsage
           /\ d.mem = IF k = 0 THEN (c.mem + Len(chunk)) % SizeT ELSE c.mem
<1> DEFINE d    == CacheAdd(c, id, chunk)
           len  == Len(chunk)
           k    == CHOOSE j \in Evictions(c, len) : TRUE
           l    == c.lru
           kept == SubSeq(l, 1, Len(l) - k)
           gone == {l[i].id : i \in Len(kept) + 1..Len(l)}
           node == [id |-> id, chunk |-> chunk]
           m    == <<node>> \o kept
           mem  == (MemAfter(c, len, k) + len) % SizeT
<1>1. k \in Evictions(c, len) /\ len \in Nat
  OBVIOUS
<1>2. k \in {0, 1} /\ k <= Len(l)
  BY <1>1, AtMostOneVictim
<1>3. d = [c EXCEPT !.lru = m, !.map = (@ \ gone) \cup {id}, !.mem = mem]
  BY DEF CacheAdd
<1>4. /\ l \in Seq(Nodes) /\ c \in Caches /\ Len(l) \in Nat /\ node \in Nodes
      /\ c.map = IdsOf(l) /\ c.map \subseteq Nat /\ c.mem \in 0..SizeT - 1
      /\ \A i, j \in 1..Len(l) : l[i].id = l[j].id => i = j
      /\ SizeT \in Nat \ {0} /\ MaxMemoryUsage \in 0..SizeT - 1
      /\ l # <<>> => c.mem < MaxMemoryUsage
  BY CacheAssumption DEF CacheOK, Caches, Nodes
<1>5. mem \in 0..SizeT - 1 /\ mem < MaxMemoryUsage
  <2>1. ~NeedsRoom(c, len, k)
    BY <1>1 DEF Evictions
  <2>2. MemAfter(c, len, k) \in 0..SizeT - 1
    <3>1. k * len \in Int
      <4>1. 0 * len = 0 /\ 1 * len = len
        BY <1>1
      <4> HIDE DEF k
      <4> QED
        BY <1>1, <1>2, <4>1
    <3>2. c.mem - k * len \in Int
      BY <1>4, <3>1
    <3> QED
      BY <1>4, <3>2 DEF MemAfter
  <2>3. MemAfter(c, len, k) + len \in Int
    BY <1>1, <1>4, <2>2
  <2>4. mem \in 0..SizeT - 1
    BY <1>4, <2>3
  <2> QED
    BY <1>4, <2>1, <2>4 DEF NeedsRoom
<1>6. mem = IF k = 0 THEN (c.mem + len) % SizeT ELSE c.mem
  <2>1. CASE k = 0
    <3>1. 0 * len = 0 /\ c.mem - 0 = c.mem
      BY <1>1, <1>4
    <3>2. c.mem % SizeT = c.mem
      BY <1>4, SmallRemainder
    <3>3. MemAfter(c, len, 0) = c.mem
      BY <3>1, <3>2 DEF MemAfter
    <3> HIDE DEF k
    <3> QED
      BY <2>1, <3>3
  <2>2. CASE k = 1
    <3>1. 1 * len = len
      BY <1>1
    <3>2. len \in Int
      BY <1>1
    <3>3. (((c.mem - len) % SizeT) + len) % SizeT = c.mem
      BY <1>4, <3>2, TakeAndPutBack
    <3>4. MemAfter(c, len, 1) = (c.mem - len) % SizeT
      BY <3>1 DEF MemAfter
    <3> HIDE DEF k
    <3> QED
      BY <2>2, <3>3, <3>4
  <2> QED
    BY <1>2, <2>1, <2>2
<1> HIDE DEF d, len, k, l, mem
<1>7. /\ kept \in Seq(Nodes) /\ Len(kept) = Len(l) - k
      /\ \A i \in 1..Len(l) - k : kept[i] = l[i]
  BY <1>2, <1>4
<1> HIDE DEF kept, node
<1>8. /\ m \in Seq(Nodes) /\ Len(m) = Len(l) - k + 1 /\ m[1] = node
      /\ \A i \in 2..Len(m) : m[i] = l[i - 1]
  <2>1. /\ m \in Seq(Nodes) /\ Len(m) = Len(kept) + 1 /\ m[1] = node
        /\ \A i \in 2..Len(m) : m[i] = kept[i - 1]
    BY <1>4, <1>7
  <2>2. Len(l) - k \in Nat
    BY <1>2, <1>4
  <2> HIDE DEF m
  <2>3. \A i \in 2..Len(m) : m[i] = l[i - 1]
    <3> SUFFICES ASSUME NEW i \in 2..Len(m) PROVE m[i] = l[i - 1]
      OBVIOUS
    <3>1. i - 1 \in 1..Len(l) - k
      BY <1>7, <2>1, <2>2
    <3> QED
      BY <1>7, <2>1, <3>1
  <2>4. Len(m) = Len(l) - k + 1
    BY <1>2, <1>4, <1>7, <2>1
  <2> QED
    BY <2>1, <2>3, <2>4
<1> HIDE DEF m
<1>9. (c.map \ gone) \cup {id} = IdsOf(m)
  <2>1. ASSUME NEW x \in IdsOf(m) PROVE x \in (c.map \ gone) \cup {id}
    <3>1. PICK i \in 1..Len(m) : x = m[i].id
      BY <2>1 DEF IdsOf
    <3>2. CASE i = 1
      BY <1>8, <3>1, <3>2 DEF node
    <3>3. CASE i # 1
      <4>1. i - 1 \in 1..Len(l) - k /\ i - 1 \in 1..Len(l) /\ x = l[i - 1].id
        <5>1. i - 1 \in 1..Len(l) - k /\ i - 1 \in 1..Len(l) /\ i \in 2..Len(m)
          BY <1>2, <1>4, <1>8, <3>1, <3>3
        <5> QED
          BY <1>8, <3>1, <5>1
      <4>2. x \notin gone
        <5> SUFFICES ASSUME NEW j \in Len(kept) + 1..Len(l), x = l[j].id PROVE FALSE
          OBVIOUS
        <5>1. j \in 1..Len(l) /\ j > Len(l) - k
          BY <1>2, <1>4, <1>7
        <5>2. i - 1 = j
          BY <1>4, <4>1, <5>1
        <5> QED
          BY <1>2, <1>4, <4>1, <5>1, <5>2
      <4>3. x \in c.map
        BY <1>4, <4>1 DEF IdsOf
      <4> QED
        BY <4>2, <4>3
    <3> QED
      BY <3>2, <3>3
  <2>2. ASSUME NEW x \in (c.map \ gone) \cup {id} PROVE x \in IdsOf(m)
    <3>1. CASE x = id
      <4>1. 1 \in 1..Len(m) /\ m[1].id = x
        BY <1>2, <1>4, <1>8, <3>1 DEF node
      <4> QED
        BY <4>1 DEF IdsOf
    <3>2. CASE x \in c.map \ gone
      <4>1. PICK j \in 1..Len(l) : x = l[j].id
        BY <1>4, <3>2 DEF IdsOf
      <4>2. j \in 1..Len(l) - k
        BY <1>2, <1>4, <1>7, <3>2, <4>1
      <4>3. j + 1 \in 1..Len(m) /\ j + 1 \in 2..Len(m) /\ (j + 1) - 1 = j
        BY <1>2, <1>4, <1>8, <4>2
      <4>4. m[j + 1] = l[j]
        BY <1>8, <4>3
      <4> QED
        BY <4>1, <4>3, <4>4 DEF IdsOf
    <3> QED
      BY <2>2, <3>1, <3>2
  <2> QED
    BY <2>1, <2>2
<1>10. (c.map \ gone) \cup {id} \in SUBSET Nat
  BY <1>4
<1> HIDE DEF gone
<1>11. /\ d \in Caches /\ d.crashed = c.crashed /\ d.lru = m
       /\ d.map = (c.map \ gone) \cup {id} /\ d.mem = mem
  BY <1>3, <1>4, <1>5, <1>8, <1>10 DEF Caches
<1>12. \A i \in 2..Len(d.lru) : d.lru[i] = c.lru[i - 1]
  BY <1>8, <1>11 DEF l
<1> QED
  BY <1>1, <1>2, <1>5, <1>6, <1>8, <1>9, <1>11, <1>12 DEF d, len, l, node

\* add preserves the cache, and crashes it only when it is empty and the chunk
\* is not below the limit.
LEMMA AddOK ==
  ASSUME NEW c, CacheOK(c), NEW id \in Nat \ c.map, NEW chunk \in Seq(Nat)
  PROVE  LET d == CacheAdd(c, id, chunk) IN
         /\ CacheOK(d)
         /\ \A i \in 1..Len(d.lru) : \/ d.lru[i] = [id |-> id, chunk |-> chunk]
                                     \/ \E j \in 1..Len(c.lru) : d.lru[i] = c.lru[j]
         /\ \/ d.crashed = c.crashed
            \/ d.crashed /\ c.lru = <<>> /\ d.lru = <<>> /\ Len(chunk) >= MaxMemoryUsage
<1> DEFINE d == CacheAdd(c, id, chunk)
           l == c.lru
<1>0. Len(chunk) \in Nat /\ l \in Seq(Nodes) /\ Len(l) \in Nat /\ MaxMemoryUsage \in Nat
      /\ c \in Caches /\ c.map = IdsOf(l)
      /\ \A i, j \in 1..Len(l) : l[i].id = l[j].id => i = j
  BY CacheAssumption DEF CacheOK, Caches
<1>1. CASE Evictions(c, Len(chunk)) = {}
  <2>1. d = [c EXCEPT !.crashed = TRUE]
    BY <1>1 DEF CacheAdd
  <2>2. c.lru = <<>> /\ Len(chunk) >= MaxMemoryUsage
    BY <1>0, <1>1, AtMostOneVictim
  <2> HIDE DEF d
  <2>3. /\ d \in Caches /\ d.lru = c.lru /\ d.map = c.map /\ d.mem = c.mem
        /\ d.crashed
    BY <1>0, <2>1 DEF Caches
  <2>4. CacheOK(d)
    BY <2>3 DEF CacheOK
  <2> QED
    BY <2>2, <2>3, <2>4 DEF d
<1>2. CASE Evictions(c, Len(chunk)) # {}
  <2>1. PICK k \in Evictions(c, Len(chunk)) :
           /\ k \in {0, 1} /\ k <= Len(l)
           /\ d \in Caches /\ d.crashed = c.crashed
           /\ Len(d.lru) = Len(l) - k + 1
           /\ d.lru[1] = [id |-> id, chunk |-> chunk]
           /\ \A i \in 2..Len(d.lru) : d.lru[i] = l[i - 1]
           /\ d.map = IdsOf(d.lru)
           /\ d.mem < MaxMemoryUsage
    BY <1>2, AddMoves
  <2> HIDE DEF d
  <2>2. \A i \in 2..Len(d.lru) : i - 1 \in 1..Len(l)
    <3>1. Len(d.lru) = (Len(l) - k) + 1 /\ k \in {0, 1} /\ Len(l) \in Nat
      BY <1>0, <2>1
    <3> QED
      BY <3>1
  <2>3. \A i \in 2..Len(d.lru) : d.lru[i].id # id
    <3> SUFFICES ASSUME NEW i \in 2..Len(d.lru) PROVE d.lru[i].id # id
      OBVIOUS
    <3>1. d.lru[i].id \in c.map
      <4>1. i - 1 \in 1..Len(l) /\ d.lru[i] = l[i - 1]
        BY <2>1, <2>2
      <4>2. l[i - 1].id \in IdsOf(l)
        BY <4>1 DEF IdsOf
      <4> QED
        BY <1>0, <4>1, <4>2
    <3> QED
      BY <3>1
  <2>4. \A i, j \in 1..Len(d.lru) : d.lru[i].id = d.lru[j].id => i = j
    <3> SUFFICES ASSUME NEW i \in 1..Len(d.lru), NEW j \in 1..Len(d.lru),
                        d.lru[i].id = d.lru[j].id
                 PROVE  i = j
      OBVIOUS
    <3>0. Len(d.lru) \in Nat
      BY <1>0, <2>1
    <3>1. CASE i = 1
      <4>1. d.lru[j].id = id
        BY <2>1, <3>1
      <4> QED
        BY <2>3, <3>0, <3>1, <4>1
    <3>2. CASE j = 1
      <4>1. d.lru[i].id = id
        BY <2>1, <3>2
      <4> QED
        BY <2>3, <3>0, <3>2, <4>1
    <3>3. CASE i # 1 /\ j # 1
      <4>1. i \in 2..Len(d.lru) /\ j \in 2..Len(d.lru)
        BY <3>0, <3>3
      <4>2. l[i - 1].id = l[j - 1].id
        BY <2>1, <4>1
      <4>3. i - 1 = j - 1
        BY <1>0, <2>2, <4>1, <4>2
      <4> QED
        BY <3>0, <4>3
    <3> QED
      BY <3>1, <3>2, <3>3
  <2>5. d.lru # <<>>
    BY <1>0, <2>1
  <2>6. CacheOK(d)
    BY <2>1, <2>4, <2>5 DEF CacheOK
  <2>7. ASSUME NEW i \in 1..Len(d.lru)
        PROVE  \/ d.lru[i] = [id |-> id, chunk |-> chunk]
               \/ \E j \in 1..Len(l) : d.lru[i] = l[j]
    <3>1. i = 1 \/ i \in 2..Len(d.lru)
      BY <1>0, <2>1
    <3> QED
      BY <2>1, <2>2, <3>1
  <2> QED
    BY <2>1, <2>6, <2>7 DEF d
<1> QED
  BY <1>1, <1>2
-----------------------------------------------------------------------------
(* The store.                                                              *)

ChunkMetas == [offset : Int, base : Nat, size : 0..Uint16 - 1,
               type : {BaseChunk, DeltaChunk, DuplicateChunk}]

Stores == [data : Seq(Nat), dpos : Nat, meta : Seq(ChunkMetas), mpos : Nat,
           cache : Caches]

\* The numbers of the records that have bytes of their own, counting from 0.
Owning(st) ==
  {n \in 0..Len(st.meta) - 1 : st.meta[n + 1].type # DuplicateChunk}

\* What every operation of the store preserves: both files stand at their end,
\* the bytes of a base or delta record are in the data file, and what the cache
\* holds for an id is what the store holds for it.
StoreOK(st) ==
  /\ st \in Stores
  /\ st.dpos = Len(st.data) /\ st.mpos = Len(st.meta)
  /\ \A n \in Owning(st) :
       /\ st.meta[n + 1].offset >= 0
       /\ st.meta[n + 1].offset + st.meta[n + 1].size <= Len(st.data)
  /\ CacheOK(st.cache)
  /\ \A i \in 1..Len(st.cache.lru) :
       /\ st.cache.lru[i].id \in Owning(st)
       /\ st.cache.lru[i].chunk = ChunkContent(st, st.cache.lru[i].id)

\* The store of a new compressor is in order.
LEMMA EmptyStoreOK == StoreOK(EmptyStore)
<1>1. EmptyStore \in Stores
  BY EmptyCacheOK DEF EmptyStore, Stores, CacheOK
<1>2. Owning(EmptyStore) = {}
  BY DEF Owning, EmptyStore
<1>3. EmptyStore.cache.lru = <<>>
  BY DEF EmptyStore, EmptyCache
<1> QED
  BY <1>1, <1>2, <1>3, EmptyCacheOK DEF StoreOK, EmptyStore

\* What is kept of a chunk is a prefix of it.
LEMMA KeptIs ==
  ASSUME NEW chunk \in Seq(Nat)
  PROVE  /\ Kept(chunk) \in Seq(Nat)
         /\ Len(Kept(chunk)) = Len(chunk) % Uint16
         /\ Len(chunk) % Uint16 \in 0..Uint16 - 1 /\ Len(chunk) % Uint16 <= Len(chunk)
         /\ \A i \in 1..Len(chunk) % Uint16 : Kept(chunk)[i] = chunk[i]
<1> DEFINE n == Len(chunk) % Uint16
<1>1. Len(chunk) \in Nat
  OBVIOUS
<1>2. n \in 0..Uint16 - 1 /\ n <= Len(chunk)
  BY <1>1, StorageAssumption
<1> HIDE DEF n
<1>3. /\ SubSeq(chunk, 1, n) \in Seq(Nat) /\ Len(SubSeq(chunk, 1, n)) = n
      /\ \A i \in 1..n : SubSeq(chunk, 1, n)[i] = chunk[i]
  BY <1>1, <1>2, StorageAssumption
<1> QED
  BY <1>2, <1>3 DEF Kept, n

\* fwrite at the end of a file appends.
LEMMA WriteAppends ==
  ASSUME NEW S, NEW f \in Seq(S), NEW s \in Seq(S)
  PROVE  FWrite(f, Len(f), s) = f \o s
<1> DEFINE a == Len(f)
           b == Len(s)
<1>1. a \in Nat /\ b \in Nat
  OBVIOUS
<1>2. Max({a, a + b}) = a + b
  <2>1. a + b \in {a, a + b} /\ \A y \in {a, a + b} : a + b >= y
    BY <1>1
  <2>2. \A x \in {a, a + b} : (\A y \in {a, a + b} : x >= y) => x = a + b
    BY <1>1
  <2> QED
    BY <2>1, <2>2 DEF Max
<1> DEFINE w == [i \in 1..a + b |-> IF i \in a + 1..a + b THEN s[i - a] ELSE f[i]]
<1>3. FWrite(f, a, s) = w
  BY <1>2 DEF FWrite
<1>4. /\ f \o s \in Seq(S) /\ Len(f \o s) = a + b
      /\ \A i \in 1..a + b : (f \o s)[i] = IF i <= a THEN f[i] ELSE s[i - a]
  BY ConcatProperties
<1>5. w \in Seq(S) /\ Len(w) = a + b
  <2>1. ASSUME NEW i \in 1..a + b PROVE w[i] \in S
    <3>1. i \in a + 1..a + b => i - a \in 1..b
      BY <1>1
    <3>2. i \notin a + 1..a + b => i \in 1..a
      BY <1>1
    <3> QED
      BY <3>1, <3>2, ElementOfSeq
  <2>2. w \in [1..a + b -> S] /\ a + b \in Nat
    BY <1>1, <2>1
  <2> QED
    BY <2>2, SeqDef
<1>6. \A i \in 1..a + b : w[i] = (f \o s)[i]
  BY <1>1, <1>4
<1> HIDE DEF w
<1> QED
  BY <1>3, <1>4, <1>5, <1>6, SeqEqual

\* The chunk of a record that owns its bytes.
LEMMA ContentIs ==
  ASSUME NEW st, StoreOK(st), NEW n \in Owning(st)
  PROVE  /\ st.meta[n + 1] \in ChunkMetas
         /\ ChunkContent(st, n) \in Seq(Nat)
         /\ Len(ChunkContent(st, n)) = st.meta[n + 1].size
         /\ \A i \in 1..st.meta[n + 1].size :
              ChunkContent(st, n)[i] = st.data[st.meta[n + 1].offset + i]
<1> DEFINE m == st.meta[n + 1]
           c == [i \in 1..m.size |-> st.data[m.offset + i]]
<1>1. /\ n \in Nat /\ n < Len(st.meta) /\ st.meta \in Seq(ChunkMetas)
      /\ n + 1 \in 1..Len(st.meta) /\ st.data \in Seq(Nat) /\ Len(st.data) \in Nat
  BY DEF StoreOK, Stores, Owning
<1>2. m \in ChunkMetas
  BY <1>1
<1>3. /\ m.offset \in Int /\ m.size \in Nat /\ m.offset >= 0
      /\ m.offset + m.size <= Len(st.data)
  BY <1>2, StorageAssumption DEF StoreOK, ChunkMetas
<1>4. ReadMeta(st, n) = m
  BY <1>1 DEF ReadMeta
<1> HIDE DEF m
<1>5. \A i \in 1..m.size : m.offset + i \in 1..Len(st.data)
  BY SMTT(30), <1>1, <1>3
<1>6. ChunkContent(st, n) = c
  BY <1>4, <1>5 DEF ChunkContent, FromFileStream
<1>7. c \in [1..m.size -> Nat]
  BY <1>1, <1>5
<1>8. c \in Seq(Nat) /\ Len(c) = m.size
  <2> HIDE DEF c
  <2> QED
    BY <1>3, <1>7, SeqDef
<1> QED
  BY <1>2, <1>6, <1>8 DEF m

\* A store that both files grow in keeps its chunks.
LEMMA GrowthKeeps ==
  ASSUME NEW st, StoreOK(st), NEW bytes \in Seq(Nat), NEW rec \in ChunkMetas,
         NEW after, after.data = st.data \o bytes, after.meta = Append(st.meta, rec),
         NEW n \in Owning(st)
  PROVE  /\ n \in Owning(after)
         /\ after.meta[n + 1] = st.meta[n + 1]
         /\ ChunkContent(after, n) = ChunkContent(st, n)
<1> DEFINE m == st.meta[n + 1]
<1>1. /\ n \in Nat /\ n < Len(st.meta) /\ st.meta \in Seq(ChunkMetas)
      /\ Len(st.meta) \in Nat
      /\ n + 1 \in 1..Len(st.meta) /\ st.data \in Seq(Nat) /\ Len(st.data) \in Nat
      /\ m.type # DuplicateChunk
  BY DEF StoreOK, Stores, Owning
<1>2. after.meta[n + 1] = m /\ Len(after.meta) = Len(st.meta) + 1
  BY <1>1
<1>3. m \in ChunkMetas
  BY <1>1
<1>4. /\ m.offset \in Int /\ m.size \in Nat /\ m.offset >= 0
      /\ m.offset + m.size <= Len(st.data)
  BY <1>3, StorageAssumption DEF StoreOK, ChunkMetas
<1>5. ReadMeta(st, n) = m /\ ReadMeta(after, n) = m
  BY <1>1, <1>2 DEF ReadMeta
<1>6. n \in Owning(after)
  BY <1>1, <1>2 DEF Owning
<1> HIDE DEF m
<1>7. Len(bytes) \in Nat /\ Len(after.data) = Len(st.data) + Len(bytes)
      /\ \A i \in 1..Len(st.data) : after.data[i] = st.data[i]
  BY <1>1
<1>8. \A i \in 1..m.size : /\ m.offset + i \in 1..Len(st.data)
                           /\ m.offset + i \in 1..Len(after.data)
                           /\ after.data[m.offset + i] = st.data[m.offset + i]
  <2> SUFFICES ASSUME NEW i \in 1..m.size
               PROVE  /\ m.offset + i \in 1..Len(st.data)
                      /\ m.offset + i \in 1..Len(after.data)
                      /\ after.data[m.offset + i] = st.data[m.offset + i]
    OBVIOUS
  <2>0. Len(st.data) \in Nat
    BY <1>1
  <2>1. m.offset + i \in 1..Len(st.data)
    BY <1>4, <2>0
  <2>2. m.offset + i \in 1..Len(after.data)
    BY <1>1, <1>7, <2>1
  <2> QED
    BY <1>7, <2>1, <2>2
<1>9. ChunkContent(after, n) = ChunkContent(st, n)
  BY <1>5, <1>8 DEF ChunkContent, FromFileStream
<1> QED
  BY <1>2, <1>6, <1>9 DEF m

\* Growth preserves the store, if the new record has its bytes where it says.
LEMMA GrowthOK ==
  ASSUME NEW st, StoreOK(st), NEW bytes \in Seq(Nat), NEW rec \in ChunkMetas,
         NEW after, after \in Stores,
         after.data = st.data \o bytes, after.meta = Append(st.meta, rec),
         after.dpos = Len(after.data), after.mpos = Len(after.meta),
         after.cache = st.cache,
         rec.type # DuplicateChunk =>
           rec.offset >= 0 /\ rec.offset + rec.size <= Len(after.data)
  PROVE  StoreOK(after)
<1>1. /\ st.meta \in Seq(ChunkMetas) /\ Len(st.meta) \in Nat
      /\ st.data \in Seq(Nat) /\ Len(st.data) \in Nat /\ Len(bytes) \in Nat
  BY DEF StoreOK, Stores
<1>2. /\ Len(after.meta) = Len(st.meta) + 1 /\ after.meta[Len(st.meta) + 1] = rec
      /\ Len(after.data) = Len(st.data) + Len(bytes)
  BY <1>1
<1>3. ASSUME NEW n \in Owning(after)
      PROVE  /\ after.meta[n + 1].offset >= 0
             /\ after.meta[n + 1].offset + after.meta[n + 1].size <= Len(after.data)
  <2>1. CASE n = Len(st.meta)
    BY <1>2, <2>1 DEF Owning
  <2>2. CASE n # Len(st.meta)
    <3>1. n \in 0..Len(st.meta) - 1 /\ after.meta[n + 1] = st.meta[n + 1]
      BY <1>1, <1>2, <2>2 DEF Owning
    <3>2. n \in Owning(st)
      BY <1>3, <3>1 DEF Owning
    <3>3. st.meta[n + 1] \in ChunkMetas
      BY <1>1, <3>1
    <3>4. /\ st.meta[n + 1].offset \in Int /\ st.meta[n + 1].size \in Int
          /\ st.meta[n + 1].offset >= 0
          /\ st.meta[n + 1].offset + st.meta[n + 1].size <= Len(st.data)
      BY <3>2, <3>3, StorageAssumption DEF StoreOK, ChunkMetas
    <3> QED
      BY SMTT(30), <1>1, <1>2, <3>1, <3>4
  <2> QED
    BY <2>1, <2>2
<1>4. ASSUME NEW i \in 1..Len(after.cache.lru)
      PROVE  /\ after.cache.lru[i].id \in Owning(after)
             /\ after.cache.lru[i].chunk = ChunkContent(after, after.cache.lru[i].id)
  <2> DEFINE n == st.cache.lru[i].id
  <2>1. n \in Owning(st) /\ st.cache.lru[i].chunk = ChunkContent(st, n)
    BY DEF StoreOK
  <2> HIDE DEF n
  <2>2. n \in Owning(after) /\ ChunkContent(after, n) = ChunkContent(st, n)
    BY <2>1, GrowthKeeps
  <2> QED
    BY <2>1, <2>2 DEF n
<1> QED
  BY <1>3, <1>4 DEF StoreOK

\* The record that follows a base or delta chunk's bytes.
PlainRecord(st, chunk, base, type) ==
  [offset |-> Len(st.data), base |-> base, size |-> Len(chunk) % Uint16,
   type |-> type]

\* What WriteBaseChunk and WriteDeltaChunk do.
WritePlainChunk(st, chunk, base, type) ==
  WriteMeta(WriteData(st, chunk), ChunkMeta(st.dpos, base, Len(chunk), type))

\* Writing a base or a delta chunk: the bytes and the record go to the ends of
\* the files, and the record gives back what is kept of the chunk.
LEMMA WritePlain ==
  ASSUME NEW st, StoreOK(st), NEW chunk \in Seq(Nat), NEW base \in Nat,
         NEW type \in {BaseChunk, DeltaChunk}
  PROVE  LET after == WritePlainChunk(st, chunk, base, type) IN
         /\ after.data = st.data \o chunk
         /\ PlainRecord(st, chunk, base, type) \in ChunkMetas
         /\ after.meta = Append(st.meta, PlainRecord(st, chunk, base, type))
         /\ after.cache = st.cache
         /\ StoreOK(after)
         /\ Len(st.meta) \in Owning(after)
         /\ ChunkContent(after, Len(st.meta)) = Kept(chunk)
<1> DEFINE after == WritePlainChunk(st, chunk, base, type)
           rec   == PlainRecord(st, chunk, base, type)
<1>1. /\ st \in Stores /\ st.dpos = Len(st.data) /\ st.mpos = Len(st.meta)
      /\ st.meta \in Seq(ChunkMetas) /\ Len(st.meta) \in Nat
      /\ st.data \in Seq(Nat) /\ Len(st.data) \in Nat /\ Len(chunk) \in Nat
  BY DEF StoreOK, Stores
<1>2. Len(chunk) % Uint16 \in 0..Uint16 - 1 /\ Len(chunk) % Uint16 <= Len(chunk)
  BY KeptIs
<1>3. rec \in ChunkMetas /\ rec.type \in {BaseChunk, DeltaChunk}
      /\ rec.offset = Len(st.data) /\ rec.size = Len(chunk) % Uint16
  BY <1>1, <1>2 DEF PlainRecord, ChunkMetas
<1>4. rec = ChunkMeta(st.dpos, base, Len(chunk), type)
  BY <1>1 DEF PlainRecord, ChunkMeta
<1> HIDE DEF after, rec
<1>5. WriteData(st, chunk) =
        [st EXCEPT !.data = st.data \o chunk, !.dpos = Len(st.data) + Len(chunk)]
  BY <1>1, WriteAppends DEF WriteData, Stores
<1>6. after = [data |-> st.data \o chunk, dpos |-> Len(st.data) + Len(chunk),
               meta |-> st.meta \o <<rec>>, mpos |-> Len(st.meta) + 1,
               cache |-> st.cache]
  <2>1. <<rec>> \in Seq(ChunkMetas)
    BY <1>3
  <2>2. FWrite(st.meta, Len(st.meta), <<rec>>) = st.meta \o <<rec>>
    BY <1>1, <2>1, WriteAppends
  <2>3. after = WriteMeta(WriteData(st, chunk), rec)
    BY <1>4 DEF after, WritePlainChunk
  <2> QED
    BY <1>1, <1>5, <2>2, <2>3 DEF WriteMeta, Stores
<1>7. st.meta \o <<rec>> = Append(st.meta, rec)
  BY <1>1, <1>3
<1>8. /\ after.data = st.data \o chunk /\ after.meta = Append(st.meta, rec)
      /\ after.cache = st.cache
      /\ after.dpos = Len(st.data) + Len(chunk) /\ after.mpos = Len(st.meta) + 1
  BY <1>6, <1>7
<1>9. /\ Len(after.data) = Len(st.data) + Len(chunk)
      /\ Len(after.meta) = Len(st.meta) + 1 /\ after.meta[Len(st.meta) + 1] = rec
      /\ after.data \in Seq(Nat) /\ after.meta \in Seq(ChunkMetas)
  <2>1. Len(after.data) = Len(st.data) + Len(chunk) /\ after.data \in Seq(Nat)
    <3>1. Len(st.data \o chunk) = Len(st.data) + Len(chunk) /\ st.data \o chunk \in Seq(Nat)
      BY <1>1
    <3> QED
      BY <1>8, <3>1
  <2>2. /\ Len(after.meta) = Len(st.meta) + 1 /\ after.meta[Len(st.meta) + 1] = rec
        /\ after.meta \in Seq(ChunkMetas)
    <3> DEFINE more == Append(st.meta, rec)
    <3>2. /\ Len(more) = Len(st.meta) + 1 /\ more[Len(st.meta) + 1] = rec
          /\ more \in Seq(ChunkMetas)
      BY <1>1, <1>3
    <3> HIDE DEF more
    <3>3. after.meta = more
      BY <1>8 DEF more
    <3> QED
      BY <3>2, <3>3
  <2> QED
    BY <2>1, <2>2
<1>10. after \in Stores
  BY <1>1, <1>6, <1>7, <1>9 DEF Stores
<1>11. rec.offset >= 0 /\ rec.offset + rec.size <= Len(after.data)
  BY <1>1, <1>2, <1>3, <1>9
<1>12. StoreOK(after)
  BY <1>3, <1>8, <1>9, <1>10, <1>11, GrowthOK
<1>13. Len(st.meta) \in Owning(after)
  BY <1>1, <1>3, <1>9 DEF Owning, BaseChunk, DeltaChunk, DuplicateChunk
<1>14. ChunkContent(after, Len(st.meta)) = Kept(chunk)
  <2> DEFINE c == ChunkContent(after, Len(st.meta))
             n == Len(chunk) % Uint16
  <2>1. /\ c \in Seq(Nat) /\ Len(c) = n
        /\ \A i \in 1..n : c[i] = after.data[Len(st.data) + i]
    <3> DEFINE m == Len(st.meta)
    <3> HIDE DEF m
    <3>1. m \in Owning(after)
      BY <1>13 DEF m
    <3>2. /\ ChunkContent(after, m) \in Seq(Nat)
          /\ Len(ChunkContent(after, m)) = after.meta[m + 1].size
          /\ \A i \in 1..after.meta[m + 1].size :
               ChunkContent(after, m)[i] = after.data[after.meta[m + 1].offset + i]
      BY <1>12, <3>1, ContentIs
    <3>3. after.meta[m + 1] = rec
      BY <1>9 DEF m
    <3> QED
      BY <1>3, <3>2, <3>3 DEF m
  <2>2. \A i \in 1..n : after.data[Len(st.data) + i] = chunk[i]
    <3>1. \A i \in 1..Len(chunk) : (st.data \o chunk)[Len(st.data) + i] = chunk[i]
      BY <1>1
    <3>2. \A i \in 1..n : i \in 1..Len(chunk)
      <4> HIDE DEF n
      <4> QED
        BY <1>1, <1>2 DEF n
    <3> QED
      BY <1>8, <3>1, <3>2
  <2>3. /\ Kept(chunk) \in Seq(Nat) /\ Len(Kept(chunk)) = n
        /\ \A i \in 1..n : Kept(chunk)[i] = chunk[i]
    BY KeptIs
  <2>4. \A i \in 1..n : c[i] = Kept(chunk)[i]
    BY <2>1, <2>2, <2>3
  <2> HIDE DEF c
  <2>5. c = Kept(chunk)
    BY <2>1, <2>3, <2>4, SeqEqual
  <2> QED
    BY <2>5 DEF c
<1> QED
  BY <1>3, <1>8, <1>12, <1>13, <1>14 DEF after, rec

\* Writing a duplicate: a record and no bytes.
LEMMA WriteDuplicateOK ==
  ASSUME NEW st, StoreOK(st), NEW chunk \in Seq(Nat), NEW base \in Nat
  PROVE  LET after == WriteDuplicateChunk(st, chunk, base) IN
         \E rec \in ChunkMetas :
           /\ rec.type = DuplicateChunk /\ rec.base = base
           /\ after.meta = Append(st.meta, rec)
           /\ after.data = st.data /\ after.data = st.data \o <<>>
           /\ after.cache = st.cache
           /\ StoreOK(after)
<1> DEFINE after == WriteDuplicateChunk(st, chunk, base)
           bit   == (base \div sizeof_ChunkMeta) % 2
           rec   == ChunkMeta(ReadMeta(st, bit).offset, base, Len(chunk), DuplicateChunk)
<1>1. /\ st \in Stores /\ st.dpos = Len(st.data) /\ st.mpos = Len(st.meta)
      /\ st.meta \in Seq(ChunkMetas) /\ Len(st.meta) \in Nat
      /\ st.data \in Seq(Nat) /\ Len(st.data) \in Nat /\ Len(chunk) \in Nat
  BY DEF StoreOK, Stores
<1>2. ReadMeta(st, bit).offset \in Int
  <2>1. bit \in Nat
    <3>1. base \div 16 \in Int
      OBVIOUS
    <3> QED
      BY <3>1 DEF sizeof_ChunkMeta
  <2>2. bit < Len(st.meta) => st.meta[bit + 1] \in ChunkMetas
    BY <1>1, <2>1
  <2> HIDE DEF bit
  <2>3. CASE bit < Len(st.meta)
    BY <2>2, <2>3 DEF ReadMeta, ChunkMetas
  <2>4. CASE ~(bit < Len(st.meta))
    BY <2>4 DEF ReadMeta, ChunkMeta, Uninitialized
  <2> QED
    BY <2>3, <2>4
<1> HIDE DEF bit
<1>3. Len(chunk) % Uint16 \in 0..Uint16 - 1
  BY KeptIs
<1>4. rec \in ChunkMetas /\ rec.type = DuplicateChunk /\ rec.base = base
  BY <1>2, <1>3 DEF ChunkMeta, ChunkMetas
<1>5. after = WriteMeta([st EXCEPT !.mpos = Len(st.meta)], rec)
  BY DEF WriteDuplicateChunk, bit
<1> HIDE DEF after, rec
<1>6. after = [data |-> st.data, dpos |-> st.dpos, meta |-> st.meta \o <<rec>>,
               mpos |-> Len(st.meta) + 1, cache |-> st.cache]
  <2>1. <<rec>> \in Seq(ChunkMetas)
    BY <1>4
  <2>2. FWrite(st.meta, Len(st.meta), <<rec>>) = st.meta \o <<rec>>
    BY <1>1, <2>1, WriteAppends
  <2> QED
    BY <1>1, <1>5, <2>2 DEF WriteMeta, Stores
<1>7. st.meta \o <<rec>> = Append(st.meta, rec) /\ st.data = st.data \o <<>>
  BY <1>1, <1>4
<1>8. after.meta = Append(st.meta, rec) /\ after.data = st.data
      /\ after.cache = st.cache /\ after.dpos = st.dpos /\ after.mpos = Len(st.meta) + 1
  BY <1>6, <1>7
<1>9. Len(after.meta) = Len(st.meta) + 1 /\ after.meta \in Seq(ChunkMetas)
  BY <1>1, <1>4, <1>8
<1>10. after \in Stores
  BY <1>1, <1>6, <1>7, <1>9 DEF Stores
<1>11. StoreOK(after)
  <2>1. after.data = st.data \o <<>> /\ <<>> \in Seq(Nat)
    BY <1>7, <1>8
  <2> QED
    BY <1>1, <1>4, <1>8, <1>9, <1>10, <2>1, GrowthOK
<1> QED
  BY <1>4, <1>7, <1>8, <1>11 DEF after

\* What a chunk reads as depends on the files only.
LEMMA ContentOfFiles ==
  ASSUME NEW st, NEW after, after.data = st.data, after.meta = st.meta
  PROVE  /\ Owning(after) = Owning(st)
         /\ \A n : ChunkContent(after, n) = ChunkContent(st, n)
BY DEF Owning, ChunkContent, FromFileStream, ReadMeta

\* Fetching a base chunk changes the cache alone, whether it is found there or
\* read from the files, and crashes it only for a chunk that is not below the
\* limit.
LEMMA FetchOK ==
  ASSUME NEW st, StoreOK(st), NEW id \in Owning(st),
         NEW after, after = GetDeltaEncodedChunk(st, id)
  PROVE  /\ after.data = st.data /\ after.meta = st.meta
         /\ StoreOK(after)
         /\ \/ after.cache.crashed = st.cache.crashed
            \/ Len(ChunkContent(st, id)) >= MaxMemoryUsage
<1>1. /\ st \in Stores /\ st.dpos = Len(st.data) /\ st.mpos = Len(st.meta)
      /\ CacheOK(st.cache) /\ id \in Nat
  BY DEF StoreOK, Stores, Owning
<1> DEFINE chunk == ChunkContent(st, id)
           cache == IF Cached(st.cache, id) THEN CacheGet(st.cache, id)
                    ELSE CacheAdd(st.cache, id, chunk)
<1>2. after = [st EXCEPT !.cache = cache]
  BY <1>1 DEF GetDeltaEncodedChunk, AfterGetChunkContent, SeekEnd, Stores
<1>3. chunk \in Seq(Nat)
  BY ContentIs
<1> HIDE DEF chunk
<1>4. /\ CacheOK(cache)
      /\ \A i \in 1..Len(cache.lru) :
           \/ cache.lru[i] = [id |-> id, chunk |-> chunk]
           \/ \E j \in 1..Len(st.cache.lru) : cache.lru[i] = st.cache.lru[j]
      /\ \/ cache.crashed = st.cache.crashed
         \/ Len(chunk) >= MaxMemoryUsage
  <2>1. CASE id \in st.cache.map
    <3>1. cache = CacheGet(st.cache, id)
      BY <2>1 DEF Cached
    <3> HIDE DEF cache
    <3>2. CacheOK(cache)
      BY <1>1, <2>1, <3>1, GetOK
    <3>3. cache.crashed = st.cache.crashed
      BY <1>1, <2>1, <3>1, GetMoves
    <3>4. \A i \in 1..Len(cache.lru) :
            \E j \in 1..Len(st.cache.lru) : cache.lru[i] = st.cache.lru[j]
      BY <1>1, <2>1, <3>1, GetPermutes
    <3> QED
      BY <3>2, <3>3, <3>4
  <2>2. CASE id \notin st.cache.map
    <3>1. cache = CacheAdd(st.cache, id, chunk)
      BY <2>2 DEF Cached
    <3>2. id \in Nat \ st.cache.map
      BY <1>1, <2>2
    <3> HIDE DEF cache
    <3> QED
      BY SMTT(30), <1>1, <1>3, <3>1, <3>2, AddOK
  <2> QED
    BY <2>1, <2>2
<1> HIDE DEF cache
<1>5. /\ after.data = st.data /\ after.meta = st.meta /\ after.cache = cache
      /\ after.dpos = st.dpos /\ after.mpos = st.mpos /\ after \in Stores
  BY <1>1, <1>2, <1>4 DEF Stores, CacheOK
<1>6. /\ Owning(after) = Owning(st)
      /\ \A n : ChunkContent(after, n) = ChunkContent(st, n)
  BY <1>5, ContentOfFiles
<1>7. ASSUME NEW i \in 1..Len(cache.lru)
      PROVE  /\ cache.lru[i].id \in Owning(st)
             /\ cache.lru[i].chunk = ChunkContent(st, cache.lru[i].id)
  <2>1. CASE cache.lru[i] = [id |-> id, chunk |-> chunk]
    BY <2>1 DEF chunk
  <2>2. CASE \E j \in 1..Len(st.cache.lru) : cache.lru[i] = st.cache.lru[j]
    BY <2>2 DEF StoreOK
  <2> QED
    BY <1>4, <2>1, <2>2
<1>8. StoreOK(after)
  BY <1>1, <1>4, <1>5, <1>6, <1>7 DEF StoreOK
<1> QED
  BY <1>4, <1>5, <1>8 DEF chunk

\* In a store that is in order a lookup in the cache finds the stored chunk.
LEMMA CachedIsStored ==
  ASSUME NEW st, StoreOK(st), NEW id \in st.cache.map
  PROVE  /\ id \in Owning(st)
         /\ CachedChunk(st.cache, id) = ChunkContent(st, id)
<1>1. CacheOK(st.cache)
  BY DEF StoreOK
<1>2. /\ NodeOf(st.cache, id) \in 1..Len(st.cache.lru)
      /\ st.cache.lru[NodeOf(st.cache, id)].id = id
  BY <1>1, NodeOfCached
<1> QED
  BY <1>2 DEF StoreOK, CachedChunk

\* Every record with bytes of its own gives back what is kept of its chunk.
Faithful(st, s) == \A n \in Owning(st) : ChunkContent(st, n) = Kept(s[n + 1])

\* One more record that gives back its chunk leaves every record doing so.
LEMMA GrowthFaithful ==
  ASSUME NEW st, StoreOK(st), NEW bytes \in Seq(Nat), NEW rec \in ChunkMetas,
         NEW after, after.data = st.data \o bytes, after.meta = Append(st.meta, rec),
         NEW s, Faithful(st, s),
         rec.type # DuplicateChunk =>
           ChunkContent(after, Len(st.meta)) = Kept(s[Len(st.meta) + 1])
  PROVE  Faithful(after, s)
<1> SUFFICES ASSUME NEW n \in Owning(after)
             PROVE  ChunkContent(after, n) = Kept(s[n + 1])
  BY DEF Faithful
<1>1. st.meta \in Seq(ChunkMetas) /\ Len(st.meta) \in Nat
  BY DEF StoreOK, Stores
<1>2. /\ Len(after.meta) = Len(st.meta) + 1 /\ after.meta[Len(st.meta) + 1] = rec
      /\ \A i \in 1..Len(st.meta) : after.meta[i] = st.meta[i]
  BY <1>1
<1>3. n \in 0..Len(after.meta) - 1 /\ after.meta[n + 1].type # DuplicateChunk
  BY DEF Owning
<1>4. CASE n = Len(st.meta)
  BY <1>2, <1>3, <1>4
<1>5. CASE n # Len(st.meta)
  <2>1. n \in 0..Len(st.meta) - 1 /\ after.meta[n + 1] = st.meta[n + 1]
    BY <1>1, <1>2, <1>3, <1>5
  <2>2. n \in Owning(st)
    BY <1>3, <2>1 DEF Owning
  <2>3. ChunkContent(after, n) = ChunkContent(st, n)
    BY <2>2, GrowthKeeps
  <2> QED
    BY <2>2, <2>3 DEF Faithful
<1> QED
  BY <1>4, <1>5

\* What appending a chunk to the store amounts to: a record of the given class,
\* the given bytes, and a store that is in order and gives back its chunks.
Appended(st, after, s, type, base, bytes) ==
  /\ \E rec \in ChunkMetas : /\ after.meta = Append(st.meta, rec)
                             /\ rec.type = type /\ rec.base = base
  /\ after.data = st.data \o bytes
  /\ StoreOK(after)
  /\ Faithful(after, s)

\* Writing a base or a delta chunk appends it, and does not touch the cache.
LEMMA PlainAppended ==
  ASSUME NEW st, StoreOK(st), NEW s, Faithful(st, s),
         NEW chunk \in Seq(Nat), s[Len(st.meta) + 1] = chunk,
         NEW base \in Nat, NEW type \in {BaseChunk, DeltaChunk}
  PROVE  LET after == WritePlainChunk(st, chunk, base, type) IN
         Appended(st, after, s, type, base, chunk) /\ after.cache = st.cache
<1>0. LET new == WritePlainChunk(st, chunk, base, type)
          r   == PlainRecord(st, chunk, base, type)
      IN /\ new.data = st.data \o chunk
         /\ r \in ChunkMetas
         /\ new.meta = Append(st.meta, r)
         /\ new.cache = st.cache
         /\ StoreOK(new)
         /\ Len(st.meta) \in Owning(new)
         /\ ChunkContent(new, Len(st.meta)) = Kept(chunk)
  BY ZenonT(60), WritePlain
<1> DEFINE after == WritePlainChunk(st, chunk, base, type)
           rec   == PlainRecord(st, chunk, base, type)
<1>1. /\ after.data = st.data \o chunk
      /\ rec \in ChunkMetas
      /\ after.meta = Append(st.meta, rec)
      /\ after.cache = st.cache
      /\ StoreOK(after)
      /\ Len(st.meta) \in Owning(after)
      /\ ChunkContent(after, Len(st.meta)) = Kept(chunk)
  BY <1>0
<1>2. rec.type = type /\ rec.base = base
  BY DEF PlainRecord
<1> HIDE DEF after, rec
<1>3. Faithful(after, s)
  <2>1. rec.type # DuplicateChunk =>
          ChunkContent(after, Len(st.meta)) = Kept(s[Len(st.meta) + 1])
    BY <1>1
  <2> QED
    BY <1>1, <2>1, GrowthFaithful
<1> QED
  BY <1>1, <1>2, <1>3 DEF Appended, after

\* Writing a duplicate appends a record without bytes.
LEMMA DuplicateAppended ==
  ASSUME NEW st, StoreOK(st), NEW s, Faithful(st, s),
         NEW chunk \in Seq(Nat), NEW base \in Nat
  PROVE  LET after == WriteDuplicateChunk(st, chunk, base) IN
         /\ Appended(st, after, s, DuplicateChunk, base, <<>>)
         /\ after.cache = st.cache /\ after.data = st.data
<1> DEFINE after == WriteDuplicateChunk(st, chunk, base)
<1>1. \E rec \in ChunkMetas :
        /\ rec.type = DuplicateChunk /\ rec.base = base
        /\ after.meta = Append(st.meta, rec)
        /\ after.data = st.data /\ after.data = st.data \o <<>>
        /\ after.cache = st.cache
        /\ StoreOK(after)
  BY WriteDuplicateOK
<1> HIDE DEF after
<1>2. PICK rec \in ChunkMetas :
        /\ rec.type = DuplicateChunk /\ rec.base = base
        /\ after.meta = Append(st.meta, rec)
        /\ after.data = st.data /\ after.data = st.data \o <<>>
        /\ after.cache = st.cache
        /\ StoreOK(after)
  BY <1>1
<1>3. Faithful(after, s)
  <2>1. <<>> \in Seq(Nat)
    OBVIOUS
  <2>2. rec.type # DuplicateChunk =>
          ChunkContent(after, Len(st.meta)) = Kept(s[Len(st.meta) + 1])
    BY <1>2
  <2> QED
    BY <1>2, <2>1, <2>2, GrowthFaithful
<1> QED
  BY <1>2, <1>3 DEF Appended, after

\* Fetching a base chunk and writing a delta chunk appends the delta chunk.
LEMMA DeltaAppended ==
  ASSUME NEW st, StoreOK(st), NEW s, Faithful(st, s),
         NEW chunk \in Seq(Nat), s[Len(st.meta) + 1] = chunk,
         NEW base \in Owning(st)
  PROVE  LET after == WriteDeltaChunk(GetDeltaEncodedChunk(st, base), chunk, base) IN
         /\ Appended(st, after, s, DeltaChunk, base, chunk)
         /\ \/ after.cache.crashed = st.cache.crashed
            \/ Len(ChunkContent(st, base)) >= MaxMemoryUsage
<1> DEFINE mid   == GetDeltaEncodedChunk(st, base)
           after == WritePlainChunk(mid, chunk, base, DeltaChunk)
<1>1. /\ mid.data = st.data /\ mid.meta = st.meta /\ StoreOK(mid)
      /\ \/ mid.cache.crashed = st.cache.crashed
         \/ Len(ChunkContent(st, base)) >= MaxMemoryUsage
  BY FetchOK
<1> HIDE DEF mid
<1>2. Faithful(mid, s)
  <2>1. Owning(mid) = Owning(st) /\ \A n : ChunkContent(mid, n) = ChunkContent(st, n)
    BY <1>1, ContentOfFiles
  <2> QED
    BY <2>1 DEF Faithful
<1>3. base \in Nat /\ DeltaChunk \in {BaseChunk, DeltaChunk}
  BY <1>1 DEF Owning
<1>4. s[Len(mid.meta) + 1] = chunk
  BY <1>1
<1>5. StoreOK(mid)
  BY <1>1
<1>6. Appended(mid, after, s, DeltaChunk, base, chunk) /\ after.cache = mid.cache
  BY <1>2, <1>3, <1>4, <1>5, PlainAppended
<1> HIDE DEF after
<1>7. Appended(st, after, s, DeltaChunk, base, chunk)
  BY <1>1, <1>6 DEF Appended
<1>8. after.cache.crashed = st.cache.crashed \/ Len(ChunkContent(st, base)) >= MaxMemoryUsage
  BY <1>1, <1>6
<1>9. after = WriteDeltaChunk(GetDeltaEncodedChunk(st, base), chunk, base)
  BY DEF after, mid, WriteDeltaChunk, WritePlainChunk
<1> QED
  BY <1>7, <1>8, <1>9

\* One more record adds one to the number of the records of its type.
LEMMA CountAppend ==
  ASSUME NEW meta \in Seq(ChunkMetas), NEW rec \in ChunkMetas, NEW t
  PROVE  LET Of(m) == {i \in 1..Len(m) : m[i].type = t} IN
         /\ Cardinality(Of(meta)) \in Nat
         /\ Cardinality(Of(Append(meta, rec))) =
              Cardinality(Of(meta)) + (IF rec.type = t THEN 1 ELSE 0)
<1> DEFINE Of(m) == {i \in 1..Len(m) : m[i].type = t}
           more == Append(meta, rec)
           n == Len(meta)
<1>1. n \in Nat /\ Len(more) = n + 1 /\ more[n + 1] = rec
      /\ \A i \in 1..n : more[i] = meta[i]
  OBVIOUS
<1> HIDE DEF more, n
<1>2. IsFiniteSet(Of(meta)) /\ Cardinality(Of(meta)) \in Nat
  <2>1. IsFiniteSet(1..n)
    <3>1. 1 \in Int /\ n \in Int
      BY <1>1
    <3> QED
      BY <3>1, FS_Interval
  <2>2. Of(meta) \in SUBSET (1..n)
    BY DEF n
  <2> QED
    BY <2>1, <2>2, FS_Subset, FS_CardinalityType
<1>3. Of(more) = Of(meta) \cup (IF rec.type = t THEN {n + 1} ELSE {})
  BY <1>1 DEF n
<1>4. n + 1 \notin Of(meta)
  BY <1>1 DEF n
<1>5. Cardinality(Of(more)) = Cardinality(Of(meta)) + (IF rec.type = t THEN 1 ELSE 0)
  <2> HIDE DEF Of
  <2>1. CASE rec.type = t
    BY <1>2, <1>3, <1>4, <2>1, FS_AddElement
  <2>2. CASE rec.type # t
    BY <1>2, <1>3, <2>2
  <2> QED
    BY <2>1, <2>2
<1> QED
  BY <1>2, <1>5 DEF more
-----------------------------------------------------------------------------
(***************************************************************************)
(* The classification of chunks, of which both compressors are instances:  *)
(* chunks s[1], s[2], ... with ids 0, 1, ..., the type k[n] and the base   *)
(* b[n] of chunk n, and the pairs sim that the index matches.  Classes are *)
(* decided for a first part of the chunks and never change afterwards, so  *)
(* what is decided for a part is not disturbed by what happens to the rest.*)
(***************************************************************************)

\* No earlier chunk has the content of chunk n.
FirstOfIts(s, n) == \A m \in 0..n - 1 : s[m + 1] # s[n + 1]

\* Of the first d chunks, the duplicates are those whose content came before,
\* and their base is the first chunk with that content.
DedupedTo(s, k, b, d) ==
  \A n \in 0..d - 1 :
    /\ k[n] = DuplicateChunk <=> ~FirstOfIts(s, n)
    /\ k[n] = DuplicateChunk =>
         /\ b[n] \in 0..n - 1
         /\ s[b[n] + 1] = s[n + 1]
         /\ FirstOfIts(s, b[n])

\* m maps the contents of the first d chunks to the first chunk with each.
MapFor(s, m, d) ==
  /\ \A n \in 0..d - 1 : s[n + 1] \in DOMAIN m
  /\ \A c \in DOMAIN m : /\ m[c] \in 0..d - 1
                         /\ s[m[c] + 1] = c
                         /\ FirstOfIts(s, m[c])

\* The first j chunks are classified; a delta chunk has an earlier and similar
\* base chunk, a base chunk has none and is its own base.
MatchedTo(sim, s, k, b, j) ==
  \A n \in 0..j - 1 :
    /\ k[n] \in {BaseChunk, DeltaChunk, DuplicateChunk}
    /\ k[n] = DeltaChunk =>
         /\ b[n] \in 0..n - 1
         /\ k[b[n]] = BaseChunk
         /\ <<s[n + 1], s[b[n] + 1]>> \in sim
    /\ k[n] = BaseChunk =>
         /\ b[n] = n
         /\ \A m \in 0..n - 1 :
              k[m] = BaseChunk => <<s[n + 1], s[m + 1]>> \notin sim

\* The index has the base chunks among the first j chunks, and nothing else.
IndexFor(s, k, index, j) ==
  index = {[feature |-> s[n + 1], id |-> n] : n \in {i \in 0..j - 1 : k[i] = BaseChunk}}
-----------------------------------------------------------------------------
\* The duplicates stay as they are when the chunks they concern do.
LEMMA DedupedKept ==
  ASSUME NEW s, NEW k, NEW b, NEW d \in Nat, DedupedTo(s, k, b, d),
         NEW s2, NEW k2, NEW b2,
         \A n \in 0..d - 1 :
           /\ s2[n + 1] = s[n + 1]
           /\ k2[n] = DuplicateChunk <=> k[n] = DuplicateChunk
           /\ k[n] = DuplicateChunk => b2[n] = b[n]
  PROVE  DedupedTo(s2, k2, b2, d)
<1>1. \A n \in 0..d - 1 : FirstOfIts(s2, n) <=> FirstOfIts(s, n)
  BY DEF FirstOfIts
<1> SUFFICES ASSUME NEW n \in 0..d - 1
             PROVE  /\ k2[n] = DuplicateChunk <=> ~FirstOfIts(s2, n)
                    /\ k2[n] = DuplicateChunk =>
                         /\ b2[n] \in 0..n - 1
                         /\ s2[b2[n] + 1] = s2[n + 1]
                         /\ FirstOfIts(s2, b2[n])
  BY DEF DedupedTo
<1>2. k2[n] = DuplicateChunk <=> ~FirstOfIts(s2, n)
  BY <1>1 DEF DedupedTo
<1>3. ASSUME k2[n] = DuplicateChunk
      PROVE  /\ b2[n] \in 0..n - 1
             /\ s2[b2[n] + 1] = s2[n + 1]
             /\ FirstOfIts(s2, b2[n])
  <2>1. /\ k[n] = DuplicateChunk /\ b2[n] = b[n]
        /\ b[n] \in 0..n - 1 /\ s[b[n] + 1] = s[n + 1] /\ FirstOfIts(s, b[n])
    BY <1>3 DEF DedupedTo
  <2>2. b[n] \in 0..d - 1
    BY <2>1
  <2> QED
    BY <1>1, <2>1, <2>2
<1> QED
  BY <1>2, <1>3

\* The map stays right when the chunks it knows do.
LEMMA MapKept ==
  ASSUME NEW s, NEW m, NEW d \in Nat, MapFor(s, m, d), NEW s2,
         \A n \in 0..d - 1 : s2[n + 1] = s[n + 1]
  PROVE  MapFor(s2, m, d)
<1>1. \A n \in 0..d - 1 : FirstOfIts(s2, n) <=> FirstOfIts(s, n)
  BY DEF FirstOfIts
<1> QED
  BY <1>1 DEF MapFor

\* The matches stay as they are when the chunks they concern do.
LEMMA MatchedKept ==
  ASSUME NEW sim, NEW s, NEW k, NEW b, NEW j \in Nat, MatchedTo(sim, s, k, b, j),
         NEW s2, NEW k2, NEW b2,
         \A n \in 0..j - 1 : s2[n + 1] = s[n + 1] /\ k2[n] = k[n] /\ b2[n] = b[n]
  PROVE  MatchedTo(sim, s2, k2, b2, j)
<1> SUFFICES ASSUME NEW n \in 0..j - 1
             PROVE  /\ k2[n] \in {BaseChunk, DeltaChunk, DuplicateChunk}
                    /\ k2[n] = DeltaChunk =>
                         /\ b2[n] \in 0..n - 1
                         /\ k2[b2[n]] = BaseChunk
                         /\ <<s2[n + 1], s2[b2[n] + 1]>> \in sim
                    /\ k2[n] = BaseChunk =>
                         /\ b2[n] = n
                         /\ \A m \in 0..n - 1 :
                              k2[m] = BaseChunk => <<s2[n + 1], s2[m + 1]>> \notin sim
  BY DEF MatchedTo
<1>1. s2[n + 1] = s[n + 1] /\ k2[n] = k[n] /\ b2[n] = b[n]
  OBVIOUS
<1>2. k2[n] \in {BaseChunk, DeltaChunk, DuplicateChunk}
  BY <1>1 DEF MatchedTo
<1>3. ASSUME k2[n] = DeltaChunk
      PROVE  /\ b2[n] \in 0..n - 1
             /\ k2[b2[n]] = BaseChunk
             /\ <<s2[n + 1], s2[b2[n] + 1]>> \in sim
  <2>1. /\ b[n] \in 0..n - 1 /\ k[b[n]] = BaseChunk
        /\ <<s[n + 1], s[b[n] + 1]>> \in sim
    BY <1>1, <1>3 DEF MatchedTo
  <2>2. b[n] \in 0..j - 1
    BY <2>1
  <2> QED
    BY <1>1, <2>1, <2>2
<1>4. ASSUME k2[n] = BaseChunk
      PROVE  /\ b2[n] = n
             /\ \A m \in 0..n - 1 :
                  k2[m] = BaseChunk => <<s2[n + 1], s2[m + 1]>> \notin sim
  <2>1. /\ b[n] = n
        /\ \A m \in 0..n - 1 : k[m] = BaseChunk => <<s[n + 1], s[m + 1]>> \notin sim
    BY <1>1, <1>4 DEF MatchedTo
  <2>2. \A m \in 0..n - 1 : m \in 0..j - 1
    OBVIOUS
  <2> QED
    BY <1>1, <2>1, <2>2
<1> QED
  BY <1>2, <1>3, <1>4

\* The index stays right when the chunks it knows do.
LEMMA IndexKept ==
  ASSUME NEW s, NEW k, NEW index, NEW j \in Nat, IndexFor(s, k, index, j),
         NEW s2, NEW k2,
         \A n \in 0..j - 1 : s2[n + 1] = s[n + 1] /\ k2[n] = k[n]
  PROVE  IndexFor(s2, k2, index, j)
<1>1. {i \in 0..j - 1 : k2[i] = BaseChunk} = {i \in 0..j - 1 : k[i] = BaseChunk}
  OBVIOUS
<1> QED
  BY <1>1 DEF IndexFor

\* A chunk that is classified next, as the rules ask, and nothing else.
LEMMA MatchedNext ==
  ASSUME NEW sim, NEW s, NEW k, NEW b, NEW j \in Nat, MatchedTo(sim, s, k, b, j),
         k[j] \in {BaseChunk, DeltaChunk, DuplicateChunk},
         k[j] = DeltaChunk => /\ b[j] \in 0..j - 1
                              /\ k[b[j]] = BaseChunk
                              /\ <<s[j + 1], s[b[j] + 1]>> \in sim,
         k[j] = BaseChunk => /\ b[j] = j
                             /\ \A m \in 0..j - 1 :
                                  k[m] = BaseChunk => <<s[j + 1], s[m + 1]>> \notin sim
  PROVE  MatchedTo(sim, s, k, b, j + 1)
<1>1. \A n \in 0..(j + 1) - 1 : n \in 0..j - 1 \/ n = j
  OBVIOUS
<1> QED
  BY <1>1 DEF MatchedTo

\* The index after one more chunk.
LEMMA IndexNext ==
  ASSUME NEW s, NEW k, NEW index, NEW j \in Nat, IndexFor(s, k, index, j),
         NEW more, more = IF k[j] = BaseChunk
                            THEN index \cup {[feature |-> s[j + 1], id |-> j]}
                            ELSE index
  PROVE  IndexFor(s, k, more, j + 1)
<1> DEFINE Bases(i) == {n \in 0..i - 1 : k[n] = BaseChunk}
           e(n) == [feature |-> s[n + 1], id |-> n]
<1>1. index = {e(n) : n \in Bases(j)}
  BY DEF IndexFor
<1>2. Bases(j + 1) = IF k[j] = BaseChunk THEN Bases(j) \cup {j} ELSE Bases(j)
  OBVIOUS
<1> HIDE DEF Bases, e
<1>3. {e(n) : n \in Bases(j + 1)} = IF k[j] = BaseChunk THEN index \cup {e(j)} ELSE index
  BY <1>1, <1>2
<1>4. more = {e(n) : n \in Bases(j + 1)}
  BY <1>3 DEF e
<1> QED
  BY <1>4 DEF IndexFor, Bases, e

\* The entries of the index are the base chunks entered, under their contents.
LEMMA IndexEntries ==
  ASSUME NEW s, NEW k, NEW index, NEW j \in Nat, IndexFor(s, k, index, j)
  PROVE  /\ \A x \in index : /\ x.id \in 0..j - 1 /\ k[x.id] = BaseChunk
                             /\ x.feature = s[x.id + 1]
         /\ \A n \in 0..j - 1 :
              k[n] = BaseChunk => \E x \in index : x.id = n /\ x.feature = s[n + 1]
<1> DEFINE e(n) == [feature |-> s[n + 1], id |-> n]
           bases == {n \in 0..j - 1 : k[n] = BaseChunk}
<1>1. \A x : x \in index <=> \E n \in bases : x = e(n)
  BY DEF IndexFor
<1>2. \A n : e(n).feature = s[n + 1] /\ e(n).id = n
  OBVIOUS
<1>3. \A n : n \in bases <=> n \in 0..j - 1 /\ k[n] = BaseChunk
  OBVIOUS
<1> HIDE DEF e, bases
<1> QED
  BY <1>1, <1>2, <1>3
=============================================================================
