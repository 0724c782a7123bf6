-------------------------- MODULE RabinCDC_proofs --------------------------
(***************************************************************************)
(* Proofs about RabinCDC, for every file, every window, every polynomial   *)
(* and every mask: the digest is that of the bytes in the window, a chunk  *)
(* ends where content alone decides, and what is lost is bounded.          *)
(***************************************************************************)
EXTENDS RabinCDC, SequenceTheorems, FiniteSetTheorems, WellFoundedInduction, TLAPS

\* Every set of natural numbers that is not empty has a least element.
LEMMA LeastNat ==
  ASSUME NEW T, T \subseteq Nat, T # {}
  PROVE  \E x \in T : \A y \in T : x <= y
<1>1. PICK x \in T : \A y \in T : ~ (<<y, x>> \in OpToRel(<, Nat))
  BY NatLessThanWellFounded, WFMin
<1>2. \A y \in T : <<y, x>> \in OpToRel(<, Nat) <=> y < x
  BY DEF OpToRel
<1>3. \A y \in T : ~ (y < x)
  BY <1>1, <1>2, Zenon
<1> QED
  BY <1>3
-----------------------------------------------------------------------------
(* Polynomials over GF(2), as sets of exponents.                           *)

\* Polynomials of degree below n.
Below(n) == SUBSET (0..n - 1)

\* A polynomial that is not zero has a degree.
LEMMA DegIs ==
  ASSUME NEW n \in Nat, NEW p \in Below(n), p # {}
  PROVE  /\ deg(p) \in p /\ deg(p) \in 0..n - 1
         /\ \A e \in p : e <= deg(p)
<1> DEFINE T == {(n - 1) - e : e \in p}
<1>1. \A e \in p : e \in Nat /\ e <= n - 1
  BY DEF Below
<1>2. T \subseteq Nat /\ T # {}
  BY <1>1
<1> HIDE DEF T
<1>3. PICK t \in T : \A u \in T : t <= u
  BY <1>2, LeastNat
<1>4. PICK m \in p : t = (n - 1) - m
  BY DEF T
<1>5. \A e \in p : m >= e
  <2> SUFFICES ASSUME NEW e \in p PROVE m >= e
    OBVIOUS
  <2>1. (n - 1) - e \in T
    BY DEF T
  <2>2. t <= (n - 1) - e
    BY <1>3, <2>1
  <2> QED
    BY <1>1, <1>4, <2>2
<1>6. Max(p) \in p /\ \A e \in p : Max(p) >= e
  BY <1>5 DEF Max
<1>7. deg(p) = Max(p)
  BY DEF deg
<1> QED
  BY <1>1, <1>6, <1>7

\* The degree of the polynomial.
d == deg(Polynomial)

LEMMA PolynomialDegree ==
  /\ d \in Nat /\ d >= ByteBits /\ ByteBits \in Nat \ {0}
  /\ d \in Polynomial /\ Polynomial \in Below(d + 1)
<1>1. PICK m \in Polynomial : m >= ByteBits /\ \A e \in Polynomial : e <= m
  BY RabinAssumption
<1>2. m \in Nat /\ ByteBits \in Nat \ {0} /\ Polynomial \subseteq Nat
  BY RabinAssumption
<1>3. Polynomial \in Below(m + 1) /\ m + 1 \in Nat /\ Polynomial # {}
  BY <1>1, <1>2 DEF Below
<1>4. /\ deg(Polynomial) \in Polynomial /\ deg(Polynomial) \in Nat
      /\ \A e \in Polynomial : e <= deg(Polynomial)
  BY <1>3, DegIs
<1>5. d = m
  BY <1>1, <1>2, <1>4 DEF d
<1> QED
  BY <1>1, <1>2, <1>3, <1>5

\* Exclusive or, exponent by exponent.
LEMMA Xor ==
  ASSUME NEW x, NEW y
  PROVE  \A e : e \in SymDiff(x, y) <=> (e \in x <=> e \notin y)
BY DEF SymDiff

LEMMA XorLaws ==
  ASSUME NEW x, NEW y, NEW z
  PROVE  /\ SymDiff(x, y) = SymDiff(y, x)
         /\ SymDiff(SymDiff(x, y), z) = SymDiff(x, SymDiff(y, z))
         /\ SymDiff(x, x) = {} /\ SymDiff(x, {}) = x
         /\ SymDiff(x, SymDiff(x, y)) = y
         /\ x \cap y = {} => SymDiff(x, y) = x \cup y
BY DEF SymDiff

\* Polynomials of degree below n are closed under it.
LEMMA XorBelow ==
  ASSUME NEW n \in Nat, NEW x \in Below(n), NEW y \in Below(n)
  PROVE  SymDiff(x, y) \in Below(n)
BY DEF SymDiff, Below

\* A shift adds to the degree, and distributes over exclusive or.
LEMMA ShiftIs ==
  ASSUME NEW k \in Nat, NEW n \in Nat, NEW x \in Below(n)
  PROVE  /\ ShiftLeft(x, k) \in Below(n + k)
         /\ \A e : e \in ShiftLeft(x, k) <=> e \in Nat /\ e >= k /\ e - k \in x
<1>1. \A e \in x : e \in Nat /\ e <= n - 1
  BY DEF Below
<1>2. ShiftLeft(x, k) \in Below(n + k)
  BY <1>1 DEF ShiftLeft, Below
<1>3. ASSUME NEW e
      PROVE  e \in ShiftLeft(x, k) <=> e \in Nat /\ e >= k /\ e - k \in x
  <2>1. ASSUME e \in ShiftLeft(x, k) PROVE e \in Nat /\ e >= k /\ e - k \in x
    <3>1. PICK u \in x : e = u + k
      BY <2>1 DEF ShiftLeft
    <3> QED
      BY <1>1, <3>1
  <2>2. ASSUME e \in Nat, e - k \in x PROVE e \in ShiftLeft(x, k)
    <3>1. e = (e - k) + k
      BY <2>2
    <3> QED
      BY <2>2, <3>1 DEF ShiftLeft
  <2> QED
    BY <2>1, <2>2
<1> QED
  BY <1>2, <1>3

LEMMA ShiftXor ==
  ASSUME NEW k \in Nat, NEW n \in Nat, NEW x \in Below(n), NEW y \in Below(n)
  PROVE  ShiftLeft(SymDiff(x, y), k) = SymDiff(ShiftLeft(x, k), ShiftLeft(y, k))
<1>1. SymDiff(x, y) \in Below(n)
  BY XorBelow
<1>2. \A e : e \in ShiftLeft(SymDiff(x, y), k)
               <=> e \in Nat /\ e >= k /\ e - k \in SymDiff(x, y)
  BY <1>1, ShiftIs
<1>3. \A e : e \in ShiftLeft(x, k) <=> e \in Nat /\ e >= k /\ e - k \in x
  BY ShiftIs
<1>4. \A e : e \in ShiftLeft(y, k) <=> e \in Nat /\ e >= k /\ e - k \in y
  BY ShiftIs
<1>5. \A e : e \in ShiftLeft(SymDiff(x, y), k)
               <=> e \in SymDiff(ShiftLeft(x, k), ShiftLeft(y, k))
  BY <1>2, <1>3, <1>4, Xor
<1> QED
  BY <1>5
-----------------------------------------------------------------------------
(* The remainder of a division by the polynomial.                          *)

\* One step of the loop of mod, on a polynomial of degree n or below.
Cancel(x, n) == IF n \in x THEN SymDiff(x, ShiftLeft(Polynomial, n - d)) ELSE x

LEMMA CancelBelow ==
  ASSUME NEW n \in Nat, n >= d, NEW x \in Below(n + 1)
  PROVE  Cancel(x, n) \in Below(n)
<1>0. d \in Nat /\ d \in Polynomial /\ Polynomial \in Below(d + 1)
  BY PolynomialDegree
<1> DEFINE P == ShiftLeft(Polynomial, n - d)
<1>1. P \in Below(n + 1) /\ n \in P
  <2> DEFINE k == n - d
             l == d + 1
  <2>1. k \in Nat /\ l \in Nat /\ l + k = n + 1 /\ n - k = d /\ n >= k
    BY <1>0
  <2>2. Polynomial \in Below(l)
    BY <1>0
  <2> HIDE DEF k, l
  <2>3. /\ ShiftLeft(Polynomial, k) \in Below(l + k)
        /\ \A e : e \in ShiftLeft(Polynomial, k) <=> e \in Nat /\ e >= k /\ e - k \in Polynomial
    BY <2>1, <2>2, ShiftIs
  <2>4. n \in ShiftLeft(Polynomial, k)
    BY <1>0, <2>1, <2>3
  <2> QED
    BY <2>1, <2>3, <2>4 DEF k
<1> HIDE DEF P
<1>2. CASE n \in x
  <2>1. SymDiff(x, P) \in Below(n + 1) /\ n \notin SymDiff(x, P)
    BY <1>1, <1>2, XorBelow, Xor
  <2>2. SymDiff(x, P) \in Below(n)
    BY <2>1 DEF Below
  <2> QED
    BY <1>2, <2>2 DEF Cancel, P
<1>3. CASE n \notin x
  BY <1>3 DEF Cancel, Below
<1> QED
  BY <1>2, <1>3

LEMMA CancelXor ==
  ASSUME NEW n \in Nat, n >= d, NEW x \in Below(n + 1), NEW y \in Below(n + 1)
  PROVE  Cancel(SymDiff(x, y), n) = SymDiff(Cancel(x, n), Cancel(y, n))
<1> DEFINE P == ShiftLeft(Polynomial, n - d)
<1> HIDE DEF P
<1>1. Cancel(x, n) = IF n \in x THEN SymDiff(x, P) ELSE x
  BY DEF Cancel, P
<1>2. Cancel(y, n) = IF n \in y THEN SymDiff(y, P) ELSE y
  BY DEF Cancel, P
<1>3. Cancel(SymDiff(x, y), n)
        = IF n \in SymDiff(x, y) THEN SymDiff(SymDiff(x, y), P) ELSE SymDiff(x, y)
  BY DEF Cancel, P
<1>4. n \in SymDiff(x, y) <=> (n \in x <=> n \notin y)
  BY Xor
<1> QED
  BY <1>1, <1>2, <1>3, <1>4 DEF SymDiff

\* What the recursive definition of mod asks of a function on the words below n.
IsMod(f, n) ==
  f = [x \in Below(n) |->
         IF deg(x) < d THEN x
         ELSE f[SymDiff(x, ShiftLeft(Polynomial, deg(x) - d))]]

\* Where the degree of a word is n, the loop cancels n; where it is less, it
\* does what it does for the words below n.
LEMMA DegCases ==
  ASSUME NEW n \in Nat, NEW x \in Below(n + 1)
  PROVE  /\ n \in x => deg(x) = n
         /\ n \notin x => x \in Below(n) /\ deg(x) < n
<1>0. \A e \in x : e \in Nat /\ e <= n
  BY DEF Below
<1>1. ASSUME n \in x PROVE deg(x) = n
  <2>1. deg(x) \in x /\ \A e \in x : e <= deg(x)
    BY <1>1, DegIs
  <2>2. deg(x) \in Nat /\ deg(x) <= n /\ n <= deg(x)
    BY <1>0, <1>1, <2>1
  <2> QED
    BY <2>2
<1>2. ASSUME n \notin x PROVE x \in Below(n) /\ deg(x) < n
  <2>1. x \in Below(n)
    BY <1>0, <1>2 DEF Below
  <2>2. CASE x = {}
    BY <2>1, <2>2 DEF deg
  <2>3. CASE x # {}
    BY <2>1, <2>3, DegIs
  <2> QED
    BY <2>1, <2>2, <2>3
<1> QED
  BY <1>1, <1>2

\* There is such a function for the words below every n: the function for the
\* words below n, applied after the loop has cancelled n, is one for n + 1.
LEMMA ModExists ==
  ASSUME NEW n \in Nat PROVE \E f : IsMod(f, n)
<1> DEFINE Bad == {m \in Nat : ~ \E f : IsMod(f, m)}
           Value(f, x, m) == IF deg(x) < d THEN x
                             ELSE f[SymDiff(x, ShiftLeft(Polynomial, deg(x) - d))]
<1>0. d \in Nat
  BY PolynomialDegree
<1>1. \E f : IsMod(f, 0)
  <2>1. \A x \in Below(0) : deg(x) < d
    BY <1>0 DEF Below, deg
  <2> DEFINE f == [x \in Below(0) |-> x]
  <2>2. f = [x \in Below(0) |->
               IF deg(x) < d THEN x
               ELSE f[SymDiff(x, ShiftLeft(Polynomial, deg(x) - d))]]
    BY <2>1
  <2>3. IsMod(f, 0)
    BY <2>2 DEF IsMod
  <2> QED
    BY <2>3
<1>2. ASSUME NEW m \in Nat, \E f : IsMod(f, m) PROVE \E f : IsMod(f, m + 1)
  <2>1. PICK f : IsMod(f, m)
    BY <1>2
  <2> DEFINE g == [x \in Below(m + 1) |->
                     IF m \in x THEN IF m < d THEN x ELSE f[Cancel(x, m)]
                     ELSE f[x]]
  <2>2. \A x \in Below(m) : x \in Below(m + 1) /\ g[x] = f[x]
    BY DEF Below
  <2>3. ASSUME NEW x \in Below(m + 1)
        PROVE  g[x] = IF deg(x) < d THEN x
                      ELSE g[SymDiff(x, ShiftLeft(Polynomial, deg(x) - d))]
    <3> DEFINE y == SymDiff(x, ShiftLeft(Polynomial, deg(x) - d))
    <3>1. CASE m \in x /\ m < d
      <4>1. deg(x) = m
        BY <3>1, DegCases
      <4> QED
        BY <3>1, <4>1
    <3>2. CASE m \in x /\ ~(m < d)
      <4>1. deg(x) = m
        BY <3>2, DegCases
      <4>2. y = Cancel(x, m) /\ y \in Below(m)
        <5>1. m >= d
          BY <1>0, <3>2
        <5> QED
          BY <3>2, <4>1, <5>1, CancelBelow DEF Cancel
      <4>3. g[x] = f[y]
        BY <3>2, <4>2
      <4>4. g[y] = f[y]
        BY <2>2, <4>2
      <4> HIDE DEF g
      <4> QED
        BY <3>2, <4>1, <4>3, <4>4
    <3>3. CASE m \notin x
      <4>1. x \in Below(m) /\ deg(x) < m
        BY <3>3, DegCases
      <4>2. g[x] = f[x]
        BY <2>2, <4>1
      <4>3. f[x] = IF deg(x) < d THEN x ELSE f[y]
        BY <2>1, <4>1 DEF IsMod
      <4>4. CASE deg(x) < d
        BY <4>2, <4>3, <4>4
      <4>5. CASE ~(deg(x) < d)
        <5>1. x # {}
          BY <1>0, <4>5 DEF deg
        <5>2. deg(x) \in x /\ deg(x) \in 0..m - 1 /\ \A e \in x : e <= deg(x)
          BY <4>1, <5>1, DegIs
        <5>3. deg(x) \in Nat /\ deg(x) >= d /\ x \in Below(deg(x) + 1)
          BY <1>0, <4>5, <4>1, <5>2 DEF Below
        <5>4. y \in Below(deg(x))
          BY <5>2, <5>3, CancelBelow DEF Cancel
        <5>5. y \in Below(m)
          BY <5>2, <5>4 DEF Below
        <5>6. g[y] = f[y]
          BY <2>2, <5>5
        <5> HIDE DEF g
        <5> QED
          BY <4>2, <4>3, <4>5, <5>6
      <4> QED
        BY <4>4, <4>5
    <3> QED
      BY <3>1, <3>2, <3>3
  <2>4. g = [x \in Below(m + 1) |->
               IF deg(x) < d THEN x
               ELSE g[SymDiff(x, ShiftLeft(Polynomial, deg(x) - d))]]
    BY <2>3
  <2> HIDE DEF g
  <2>5. IsMod(g, m + 1)
    BY <2>4 DEF IsMod
  <2> QED
    BY <2>5
<1>3. Bad = {}
  <2> SUFFICES ASSUME Bad # {} PROVE FALSE
    OBVIOUS
  <2>1. Bad \subseteq Nat
    OBVIOUS
  <2>2. PICK m \in Bad : \A k \in Bad : m <= k
    BY <2>1, LeastNat
  <2>3. m # 0 /\ m \in Nat
    BY <1>1, <2>2
  <2>4. m - 1 \in Nat /\ (m - 1) + 1 = m /\ ~(m <= m - 1)
    BY <2>3
  <2>5. m - 1 \notin Bad
    BY <2>2, <2>4
  <2>6. \E f : IsMod(f, m - 1)
    BY <2>4, <2>5
  <2>7. \E f : IsMod(f, m)
    BY <1>2, <2>4, <2>6
  <2> QED
    BY <2>2, <2>7
<1> QED
  BY <1>3

\* The words that mod is given are those below d + ByteBits.
LEMMA WordsAre == Words = Below(d + ByteBits) /\ d + ByteBits \in Nat
BY PolynomialDegree DEF Words, Below, d

\* A word below the degree is its own remainder; a bit at the degree or above
\* can be cancelled first.
LEMMA ModIs ==
  /\ \A x \in Below(d) : mod[x] = x
  /\ \A n \in d..d + ByteBits - 1 : \A x \in Below(n + 1) : mod[x] = mod[Cancel(x, n)]
<1>0. d \in Nat /\ ByteBits \in Nat \ {0} /\ Words = Below(d + ByteBits)
      /\ d + ByteBits \in Nat
  BY PolynomialDegree, WordsAre
<1>1. \A x \in Words :
        mod[x] = IF deg(x) < d THEN x
                 ELSE mod[SymDiff(x, ShiftLeft(Polynomial, deg(x) - d))]
  <2> DEFINE IsM(f) == f = [x \in Words |->
                 IF deg(x) < deg(Polynomial) THEN x
                 ELSE f[SymDiff(x, ShiftLeft(Polynomial, deg(x) - deg(Polynomial)))]]
  <2>1. PICK f : IsMod(f, d + ByteBits)
    BY <1>0, ModExists
  <2>2. IsM(f)
    BY <1>0, <2>1 DEF IsMod, d
  <2>3. mod = CHOOSE m : IsM(m)
    BY DEF mod
  <2> HIDE DEF IsM
  <2>4. IsM(mod)
    BY <2>2, <2>3
  <2> QED
    BY <2>4 DEF IsM, d
<1>2. ASSUME NEW x \in Below(d) PROVE mod[x] = x
  <2>1. x \in Words
    BY <1>0 DEF Below
  <2>2. deg(x) < d
    <3>1. CASE x = {}
      BY <1>0, <3>1 DEF deg
    <3>2. CASE x # {}
      BY <1>0, <3>2, DegIs
    <3> QED
      BY <3>1, <3>2
  <2> QED
    BY <1>1, <2>1, <2>2
<1>3. ASSUME NEW n \in d..d + ByteBits - 1, NEW x \in Below(n + 1)
      PROVE  mod[x] = mod[Cancel(x, n)]
  <2>1. CASE n \notin x
    BY <2>1 DEF Cancel
  <2>2. CASE n \in x
    <3>1. deg(x) = n /\ n \in Nat /\ ~(n < d)
      BY <1>0, <2>2, DegCases
    <3>2. x \in Words
      BY <1>0 DEF Below
    <3> QED
      BY <1>1, <2>2, <3>1, <3>2 DEF Cancel
  <2> QED
    BY <2>1, <2>2
<1> QED
  BY <1>2, <1>3

\* The remainder has a degree below that of the polynomial, and the remainder of
\* a sum is the sum of the remainders.
LEMMA ModLinear ==
  ASSUME NEW n \in 0..d + ByteBits
  PROVE  \A x, y \in Below(n) :
           /\ mod[x] \in Below(d)
           /\ mod[SymDiff(x, y)] = SymDiff(mod[x], mod[y])
<1> DEFINE Linear(m) == \A x, y \in Below(m) :
                          /\ mod[x] \in Below(d)
                          /\ mod[SymDiff(x, y)] = SymDiff(mod[x], mod[y])
           Bad == {m \in 0..d + ByteBits : ~Linear(m)}
<1>0. d \in Nat /\ ByteBits \in Nat \ {0} /\ d + ByteBits \in Nat
  BY PolynomialDegree
<1>1. ASSUME NEW m \in 0..d PROVE Linear(m)
  <2> SUFFICES ASSUME NEW x \in Below(m), NEW y \in Below(m)
               PROVE  /\ mod[x] \in Below(d)
                      /\ mod[SymDiff(x, y)] = SymDiff(mod[x], mod[y])
    OBVIOUS
  <2>1. x \in Below(d) /\ y \in Below(d)
    BY <1>0 DEF Below
  <2>2. SymDiff(x, y) \in Below(d)
    BY <1>0, <2>1, XorBelow
  <2> QED
    BY <2>1, <2>2, ModIs
<1>2. ASSUME NEW m \in d..d + ByteBits - 1, Linear(m) PROVE Linear(m + 1)
  <2> SUFFICES ASSUME NEW x \in Below(m + 1), NEW y \in Below(m + 1)
               PROVE  /\ mod[x] \in Below(d)
                      /\ mod[SymDiff(x, y)] = SymDiff(mod[x], mod[y])
    OBVIOUS
  <2>0. m \in Nat /\ m >= d /\ m + 1 \in Nat
    BY <1>0
  <2>1. SymDiff(x, y) \in Below(m + 1)
    BY <2>0, XorBelow
  <2>2. Cancel(x, m) \in Below(m) /\ Cancel(y, m) \in Below(m)
    BY <2>0, CancelBelow
  <2>3. /\ mod[x] = mod[Cancel(x, m)] /\ mod[y] = mod[Cancel(y, m)]
        /\ mod[SymDiff(x, y)] = mod[Cancel(SymDiff(x, y), m)]
    BY <2>1, ModIs
  <2>4. Cancel(SymDiff(x, y), m) = SymDiff(Cancel(x, m), Cancel(y, m))
    BY <2>0, CancelXor
  <2>5. /\ mod[Cancel(x, m)] \in Below(d)
        /\ mod[SymDiff(Cancel(x, m), Cancel(y, m))]
             = SymDiff(mod[Cancel(x, m)], mod[Cancel(y, m)])
    BY <1>2, <2>2
  <2> QED
    BY <2>3, <2>4, <2>5
<1> HIDE DEF Linear
<1>3. Bad = {}
  <2> SUFFICES ASSUME Bad # {} PROVE FALSE
    OBVIOUS
  <2>1. Bad \subseteq Nat
    BY <1>0
  <2>2. PICK m \in Bad : \A k \in Bad : m <= k
    BY <2>1, LeastNat
  <2>3. m \in 0..d + ByteBits /\ ~Linear(m)
    BY <2>2
  <2>4. m > d /\ m - 1 \in d..d + ByteBits - 1 /\ (m - 1) + 1 = m /\ ~(m <= m - 1)
        /\ m - 1 \in 0..d + ByteBits
    BY <1>0, <1>1, <2>3
  <2>5. Linear(m - 1)
    BY <2>2, <2>4
  <2> QED
    BY <1>2, <2>3, <2>4, <2>5
<1> QED
  BY <1>3 DEF Linear
-----------------------------------------------------------------------------
(* Appending a byte, and the two tables.                                   *)

\* A byte is a polynomial below ByteBits.
LEMMA BytesAre == AllBytes = Below(ByteBits) /\ Zero \in AllBytes /\ One \in AllBytes
BY PolynomialDegree DEF AllBytes, Below, Zero, One

\* What is appended to stands above the byte.
LEMMA AppendIs ==
  ASSUME NEW h \in Below(d), NEW b \in AllBytes
  PROVE  /\ ShiftLeft(h, ByteBits) \in Below(d + ByteBits)
         /\ b \in Below(d + ByteBits)
         /\ ShiftLeft(h, ByteBits) \cup b = SymDiff(ShiftLeft(h, ByteBits), b)
         /\ append_byte(h, b) = SymDiff(mod[ShiftLeft(h, ByteBits)], mod[b])
         /\ append_byte(h, b) \in Below(d)
<1>0. d \in Nat /\ ByteBits \in Nat \ {0} /\ d + ByteBits \in Nat
      /\ d + ByteBits \in 0..d + ByteBits
  BY PolynomialDegree
<1> DEFINE s == ShiftLeft(h, ByteBits)
<1>1. s \in Below(d + ByteBits) /\ \A e \in s : e >= ByteBits
  BY <1>0, ShiftIs
<1>2. b \in Below(d + ByteBits) /\ \A e \in b : e < ByteBits /\ e \in Nat
  BY <1>0, BytesAre DEF Below
<1> HIDE DEF s
<1>3. s \cap b = {}
  BY <1>0, <1>1, <1>2 DEF Below
<1>4. s \cup b = SymDiff(s, b)
  BY <1>3, XorLaws
<1>5. SymDiff(s, b) \in Below(d + ByteBits)
  BY <1>0, <1>1, <1>2, XorBelow
<1>6. mod[SymDiff(s, b)] = SymDiff(mod[s], mod[b]) /\ mod[SymDiff(s, b)] \in Below(d)
  BY <1>0, <1>1, <1>2, <1>5, ModLinear
<1> QED
  BY <1>1, <1>2, <1>4, <1>6 DEF append_byte, s

\* append_byte is linear in the hash and the byte together.
LEMMA AppendXor ==
  ASSUME NEW g \in Below(d), NEW h \in Below(d), NEW a \in AllBytes, NEW b \in AllBytes
  PROVE  append_byte(SymDiff(g, h), SymDiff(a, b))
           = SymDiff(append_byte(g, a), append_byte(h, b))
<1>0. d \in Nat /\ ByteBits \in Nat \ {0} /\ d + ByteBits \in Nat
      /\ d + ByteBits \in 0..d + ByteBits
  BY PolynomialDegree
<1>1. SymDiff(g, h) \in Below(d) /\ SymDiff(a, b) \in AllBytes
  BY <1>0, XorBelow, BytesAre
<1> DEFINE s == ShiftLeft(g, ByteBits)
           t == ShiftLeft(h, ByteBits)
<1>2. ShiftLeft(SymDiff(g, h), ByteBits) = SymDiff(s, t)
  BY <1>0, ShiftXor
<1>3. /\ s \in Below(d + ByteBits) /\ t \in Below(d + ByteBits)
      /\ a \in Below(d + ByteBits) /\ b \in Below(d + ByteBits)
      /\ append_byte(g, a) = SymDiff(mod[s], mod[a])
      /\ append_byte(h, b) = SymDiff(mod[t], mod[b])
  BY AppendIs
<1>4. append_byte(SymDiff(g, h), SymDiff(a, b))
        = SymDiff(mod[SymDiff(s, t)], mod[SymDiff(a, b)])
  BY <1>1, <1>2, AppendIs
<1> HIDE DEF s, t
<1>5. /\ mod[SymDiff(s, t)] = SymDiff(mod[s], mod[t])
      /\ mod[SymDiff(a, b)] = SymDiff(mod[a], mod[b])
  BY <1>0, <1>3, ModLinear
<1>6. \A p, q, r, u : SymDiff(SymDiff(p, q), SymDiff(r, u)) = SymDiff(SymDiff(p, r), SymDiff(q, u))
  BY DEF SymDiff
<1> QED
  BY <1>3, <1>4, <1>5, <1>6

\* Appending a byte of zeros to nothing leaves nothing.
LEMMA AppendZero == append_byte({}, Zero) = {}
<1>1. ShiftLeft({}, ByteBits) \cup Zero = {}
  BY DEF ShiftLeft, Zero
<1>2. {} \in Below(d)
  BY DEF Below
<1> QED
  BY <1>1, <1>2, ModIs DEF append_byte

\* With mod_table, rabin_append cancels what a byte more shifts above the degree
\* in one step: it is append_byte.
LEMMA RabinAppendIs ==
  ASSUME NEW digest \in Below(d), NEW b \in AllBytes
  PROVE  rabin_append(digest, b) = append_byte(digest, b)
<1>0. d \in Nat /\ ByteBits \in Nat \ {0} /\ d + ByteBits \in Nat /\ d >= ByteBits
      /\ d + ByteBits \in 0..d + ByteBits /\ d - ByteBits \in Nat
  BY PolynomialDegree
<1> DEFINE shift == d - ByteBits
           index == {e - shift : e \in {x \in digest : x >= shift}}
           top == ShiftLeft(index, d)
           s == ShiftLeft(digest, ByteBits)
           low == SymDiff(SymDiff(s, top), b)
<1>1. \A e \in digest : e \in Nat /\ e <= d - 1
  BY <1>0 DEF Below
<1>2. /\ index \in Below(ByteBits)
      /\ \A e \in Nat : e \in index <=> e + shift \in digest
  <2>1. ASSUME NEW e \in index PROVE e \in 0..ByteBits - 1
    <3>1. PICK x \in digest : x >= shift /\ e = x - shift
      BY <2>1
    <3> QED
      BY <1>0, <1>1, <3>1
  <2>2. ASSUME NEW e \in Nat PROVE e \in index <=> e + shift \in digest
    <3>1. ASSUME e \in index PROVE e + shift \in digest
      <4>1. PICK x \in digest : x >= shift /\ e = x - shift
        BY <3>1
      <4>2. e + shift = x
        BY <1>0, <1>1, <4>1
      <4> QED
        BY <4>2
    <3>2. ASSUME e + shift \in digest PROVE e \in index
      <4>1. e + shift >= shift /\ e = (e + shift) - shift
        BY <1>0
      <4> QED
        BY <3>2, <4>1
    <3> QED
      BY <3>1, <3>2
  <2> QED
    BY <2>1, <2>2 DEF Below
<1>3. index \in AllBytes
  BY <1>2, BytesAre
<1> HIDE DEF index
<1>4. /\ top \in Below(d + ByteBits)
      /\ \A e : e \in top <=> e \in Nat /\ e >= d /\ e - d \in index
  <2>1. ByteBits + d = d + ByteBits
    BY <1>0
  <2> QED
    BY <1>0, <1>2, <2>1, ShiftIs
<1>5. /\ s \in Below(d + ByteBits)
      /\ \A e : e \in s <=> e \in Nat /\ e >= ByteBits /\ e - ByteBits \in digest
  BY <1>0, ShiftIs
<1> HIDE DEF top, s
<1>6. \A e \in Nat : e >= d => (e \in s <=> e \in top)
  <2> SUFFICES ASSUME NEW e \in Nat, e >= d PROVE e \in s <=> e \in top
    OBVIOUS
  <2>1. e >= ByteBits /\ e - d \in Nat /\ (e - d) + shift = e - ByteBits
    BY <1>0
  <2> QED
    BY <1>2, <1>4, <1>5, <2>1
<1>7. b \in Below(ByteBits) /\ b \in Below(d) /\ b \in Below(d + ByteBits)
  BY <1>0, BytesAre DEF Below
<1>8. low \in Below(d)
  <2>1. SymDiff(s, top) \in Below(d + ByteBits)
    BY <1>0, <1>4, <1>5, XorBelow
  <2>2. \A e \in SymDiff(s, top) : e \in Nat /\ e < d
    BY <1>0, <1>6, <2>1, Xor DEF Below
  <2>3. SymDiff(s, top) \in Below(d)
    BY <1>0, <2>2 DEF Below
  <2> QED
    BY <1>0, <1>7, <2>3, XorBelow
<1>9. s \cup b = SymDiff(low, top)
  <2>1. s \cup b = SymDiff(s, b)
    BY AppendIs DEF s
  <2> HIDE DEF low
  <2>2. \A p, q, r : SymDiff(p, r) = SymDiff(SymDiff(SymDiff(p, q), r), q)
    BY DEF SymDiff
  <2> QED
    BY <2>1, <2>2 DEF low
<1>10. top \in Below(d + ByteBits) /\ mod[top] \in Below(d)
  BY <1>0, <1>4, ModLinear
<1>11. append_byte(digest, b) = SymDiff(low, mod[top])
  <2>1. low \in Below(d + ByteBits)
    BY <1>0, <1>8 DEF Below
  <2> HIDE DEF low
  <2>2. mod[SymDiff(low, top)] = SymDiff(mod[low], mod[top])
    BY <1>0, <1>10, <2>1, ModLinear
  <2>3. mod[low] = low
    BY <1>8, ModIs
  <2> QED
    BY <1>9, <2>2, <2>3 DEF append_byte, s, low
<1>12. mod_table[index] = SymDiff(mod[top], top)
  <2>1. mod_table[index] = mod[top] \cup top
    BY <1>3 DEF mod_table, top, d
  <2>2. mod[top] \cap top = {}
    BY <1>0, <1>4, <1>10 DEF Below
  <2> QED
    BY <2>1, <2>2, XorLaws
<1>13. rabin_append(digest, b) = SymDiff(s \cup b, mod_table[index])
  BY DEF rabin_append, s, index, d
<1>14. SymDiff(SymDiff(low, top), SymDiff(mod[top], top)) = SymDiff(low, mod[top])
  <2> HIDE DEF low
  <2>1. \A p, q, r : SymDiff(SymDiff(p, q), SymDiff(r, q)) = SymDiff(p, r)
    BY DEF SymDiff
  <2> QED
    BY <2>1
<1> QED
  BY <1>9, <1>11, <1>12, <1>13, <1>14
-----------------------------------------------------------------------------
(* Remainders of sequences of bytes.                                       *)

\* A loop over n steps has its values after every step: step[m] is what its
\* m-th iteration does.
LEMMA LoopExists ==
  ASSUME NEW S, NEW base \in S, NEW n \in Nat, NEW step \in [1..n -> [S -> S]]
  PROVE  \E f \in [0..n -> S] : f[0] = base /\ \A m \in 1..n : f[m] = step[m][f[m - 1]]
<1> DEFINE Runs(k) == \E f \in [0..k -> S] :
                        f[0] = base /\ \A m \in 1..k : f[m] = step[m][f[m - 1]]
           Bad == {k \in 0..n : ~Runs(k)}
<1>1. Runs(0)
  <2> DEFINE f == [k \in 0..0 |-> base]
  <2>1. f \in [0..0 -> S] /\ f[0] = base /\ \A m \in 1..0 : f[m] = step[m][f[m - 1]]
    OBVIOUS
  <2> QED
    BY <2>1
<1>2. ASSUME NEW k \in 0..n - 1, Runs(k) PROVE Runs(k + 1)
  <2>1. PICK f \in [0..k -> S] : f[0] = base /\ \A m \in 1..k : f[m] = step[m][f[m - 1]]
    BY <1>2
  <2> DEFINE g == [m \in 0..k + 1 |-> IF m = k + 1 THEN step[k + 1][f[k]] ELSE f[m]]
  <2>2. k + 1 \in 1..n /\ k \in 0..k /\ f[k] \in S /\ step[k + 1][f[k]] \in S
    BY <2>1
  <2>3. /\ \A m \in 0..k : g[m] = f[m]
        /\ g[k + 1] = step[k + 1][f[k]]
        /\ g \in [0..k + 1 -> S]
    BY <2>1, <2>2
  <2> HIDE DEF g
  <2>4. ASSUME NEW m \in 1..k + 1 PROVE g[m] = step[m][g[m - 1]]
    <3>1. CASE m = k + 1
      <4>1. m - 1 = k
        BY <3>1
      <4> QED
        BY <2>2, <2>3, <3>1, <4>1
    <3>2. CASE m # k + 1
      <4>1. m \in 1..k /\ m \in 0..k /\ m - 1 \in 0..k
        BY <3>2
      <4> QED
        BY <2>1, <2>3, <4>1
    <3> QED
      BY <3>1, <3>2
  <2>5. g[0] = base
    BY <2>1, <2>3
  <2> QED
    BY <2>3, <2>4, <2>5
<1> HIDE DEF Runs
<1>3. Bad = {}
  <2> SUFFICES ASSUME Bad # {} PROVE FALSE
    OBVIOUS
  <2>1. Bad \subseteq Nat
    OBVIOUS
  <2>2. PICK k \in Bad : \A j \in Bad : k <= j
    BY <2>1, LeastNat
  <2>3. k \in 0..n /\ ~Runs(k) /\ k # 0
    BY <1>1, <2>2
  <2>4. k - 1 \in 0..n - 1 /\ k - 1 \in 0..n /\ (k - 1) + 1 = k /\ ~(k <= k - 1)
    BY <2>3
  <2>5. Runs(k - 1)
    BY <2>2, <2>4
  <2> QED
    BY <1>2, <2>3, <2>4, <2>5
<1>4. Runs(n)
  BY <1>3
<1> QED
  BY <1>4 DEF Runs

\* The remainders of the first bytes, of ever more of them.
IsHash(h, bytes) ==
  /\ h \in [0..Len(bytes) -> Below(d)]
  /\ h[0] = {}
  /\ \A n \in 1..Len(bytes) : h[n] = append_byte(h[n - 1], bytes[n])

LEMMA RemainderIs ==
  ASSUME NEW bytes \in Seq(AllBytes)
  PROVE  \E h : IsHash(h, bytes) /\ Remainder(bytes) = h[Len(bytes)]
<1> DEFINE L == Len(bytes)
           step == [n \in 1..L |-> [g \in Below(d) |-> append_byte(g, bytes[n])]]
           IsH(h) == h = [n \in 0..L |-> IF n = 0 THEN {} ELSE append_byte(h[n - 1], bytes[n])]
<1>1. L \in Nat /\ \A n \in 1..L : bytes[n] \in AllBytes
  OBVIOUS
<1>2. {} \in Below(d)
  BY DEF Below
<1>3. step \in [1..L -> [Below(d) -> Below(d)]]
  BY <1>1, AppendIs
<1>4. PICK h \in [0..L -> Below(d)] :
        h[0] = {} /\ \A n \in 1..L : h[n] = step[n][h[n - 1]]
  <2> DEFINE B == Below(d)
             base == {}
  <2>1. L \in Nat /\ base \in B /\ step \in [1..L -> [B -> B]]
    BY <1>1, <1>2, <1>3
  <2> HIDE DEF step, L, B, base
  <2>2. \E h \in [0..L -> B] : h[0] = base /\ \A n \in 1..L : h[n] = step[n][h[n - 1]]
    BY <2>1, LoopExists
  <2> QED
    BY <2>2 DEF B, base
<1> HIDE DEF L
<1>5. ASSUME NEW n \in 1..L PROVE h[n] = append_byte(h[n - 1], bytes[n])
  <2>1. n - 1 \in 0..L
    BY <1>1
  <2>2. h[n - 1] \in Below(d)
    BY <1>4, <2>1
  <2> QED
    BY <1>4, <2>2
<1> HIDE DEF step
<1>6. IsH(h)
  <2>1. \A n \in 0..L : n = 0 \/ n \in 1..L
    BY <1>1
  <2>2. \A n \in 0..L : h[n] = IF n = 0 THEN {} ELSE append_byte(h[n - 1], bytes[n])
    BY <1>1, <1>4, <1>5, <2>1
  <2> QED
    BY <1>4, <2>2
<1> DEFINE hash == CHOOSE g : IsH(g)
<1>7. Remainder(bytes) = hash[L]
  BY DEF Remainder, L
<1> HIDE DEF IsH
<1>8. IsH(hash)
  BY <1>6
<1> HIDE DEF hash
<1>9. /\ DOMAIN hash = 0..L
      /\ \A n \in 0..L : hash[n] = IF n = 0 THEN {} ELSE append_byte(hash[n - 1], bytes[n])
  BY <1>8 DEF IsH
<1>10. hash[0] = {} /\ \A n \in 1..L : hash[n] = append_byte(hash[n - 1], bytes[n])
  <2>1. 0 \in 0..L /\ \A n \in 1..L : n \in 0..L /\ n # 0
    BY <1>1
  <2> QED
    BY <1>9, <2>1
<1>11. \A n \in 0..L : hash[n] \in Below(d)
  <2> DEFINE Bad == {n \in 0..L : hash[n] \notin Below(d)}
  <2> SUFFICES ASSUME Bad # {} PROVE FALSE
    OBVIOUS
  <2>1. Bad \subseteq Nat
    BY <1>1
  <2>2. PICK n \in Bad : \A m \in Bad : n <= m
    BY <2>1, LeastNat
  <2>3. n \in 0..L /\ hash[n] \notin Below(d) /\ n # 0
    BY <1>2, <1>10, <2>2
  <2>4. n - 1 \in 0..L /\ n \in 1..L /\ ~(n <= n - 1)
    BY <1>1, <2>3
  <2>5. hash[n - 1] \in Below(d)
    BY <2>2, <2>4
  <2>6. append_byte(hash[n - 1], bytes[n]) \in Below(d)
    BY <1>1, <2>4, <2>5, AppendIs
  <2> QED
    BY <1>10, <2>3, <2>4, <2>6
<1>12. IsHash(hash, bytes)
  <2>1. hash \in [0..L -> Below(d)]
    <3>1. hash = [n \in 0..L |-> hash[n]]
      BY <1>8 DEF IsH
    <3> QED
      BY <1>11, <3>1
  <2> QED
    BY <1>10, <2>1 DEF IsHash, L
<1> QED
  BY <1>7, <1>12 DEF L

\* A statement about the first n bytes holds for all, if it holds for none and
\* for one more.
LEMMA Prefixes ==
  ASSUME NEW L \in Nat, NEW Good \in [0..L -> BOOLEAN], Good[0],
         \A n \in 1..L : Good[n - 1] => Good[n]
  PROVE  \A n \in 0..L : Good[n]
<1> DEFINE Bad == {n \in 0..L : ~Good[n]}
<1> SUFFICES ASSUME Bad # {} PROVE FALSE
  OBVIOUS
<1>1. Bad \subseteq Nat
  OBVIOUS
<1>2. PICK n \in Bad : \A m \in Bad : n <= m
  BY <1>1, LeastNat
<1>3. n \in 0..L /\ ~Good[n] /\ n # 0
  BY <1>2
<1>4. n - 1 \in 0..L /\ n \in 1..L /\ ~(n <= n - 1)
  BY <1>3
<1>5. Good[n - 1]
  BY <1>2, <1>4
<1> QED
  BY <1>3, <1>4, <1>5

LEMMA RemainderType ==
  ASSUME NEW bytes \in Seq(AllBytes) PROVE Remainder(bytes) \in Below(d)
<1>1. PICK h : IsHash(h, bytes) /\ Remainder(bytes) = h[Len(bytes)]
  BY RemainderIs
<1>2. Len(bytes) \in 0..Len(bytes)
  OBVIOUS
<1> QED
  BY <1>1, <1>2 DEF IsHash

\* The remainder of a sum is the sum of the remainders.
LEMMA RemainderXor ==
  ASSUME NEW s \in Seq(AllBytes), NEW t \in Seq(AllBytes), NEW u \in Seq(AllBytes),
         Len(t) = Len(s), Len(u) = Len(s),
         \A i \in 1..Len(s) : u[i] = SymDiff(s[i], t[i])
  PROVE  Remainder(u) = SymDiff(Remainder(s), Remainder(t))
<1> DEFINE L == Len(s)
<1>1. PICK f : IsHash(f, s) /\ Remainder(s) = f[L]
  BY RemainderIs
<1>2. PICK g : IsHash(g, t) /\ Remainder(t) = g[L]
  BY RemainderIs
<1>3. PICK h : IsHash(h, u) /\ Remainder(u) = h[L]
  BY RemainderIs
<1>0. L \in Nat /\ \A i \in 1..L : s[i] \in AllBytes /\ t[i] \in AllBytes
  OBVIOUS
<1> DEFINE Good == [n \in 0..L |-> h[n] = SymDiff(f[n], g[n])]
<1>4. Good[0]
  <2>1. f[0] = {} /\ g[0] = {} /\ h[0] = {}
    BY <1>1, <1>2, <1>3 DEF IsHash
  <2>2. h[0] = SymDiff(f[0], g[0])
    BY <2>1, XorLaws
  <2>3. 0 \in 0..L
    BY <1>0
  <2>4. Good[0] = (h[0] = SymDiff(f[0], g[0]))
    BY <2>3, Zenon
  <2> QED
    BY <2>2, <2>4
<1>5. ASSUME NEW n \in 1..L, Good[n - 1] PROVE Good[n]
  <2>1. n - 1 \in 0..L /\ n \in 0..L
    BY <1>0
  <2>2. h[n - 1] = SymDiff(f[n - 1], g[n - 1])
    BY <1>5, <2>1
  <2>3. f[n - 1] \in Below(d) /\ g[n - 1] \in Below(d)
    BY <1>1, <1>2, <2>1 DEF IsHash
  <2>4. /\ f[n] = append_byte(f[n - 1], s[n]) /\ g[n] = append_byte(g[n - 1], t[n])
        /\ h[n] = append_byte(h[n - 1], u[n])
    BY <1>1, <1>2, <1>3 DEF IsHash
  <2>5. h[n] = SymDiff(f[n], g[n])
    BY <1>0, <2>2, <2>3, <2>4, AppendXor
  <2> QED
    BY <2>1, <2>5
<1>6. Good \in [0..L -> BOOLEAN]
  OBVIOUS
<1>7. L \in 0..L
  BY <1>0
<1>8. Good[L]
  <2> HIDE DEF Good, L
  <2> QED
    BY <1>0, <1>4, <1>5, <1>6, <1>7, Prefixes
<1> QED
  BY <1>1, <1>2, <1>3, <1>7, <1>8

\* Bytes of zeros leave no remainder.
LEMMA RemainderZeros ==
  ASSUME NEW s \in Seq(AllBytes), \A i \in 1..Len(s) : s[i] = Zero
  PROVE  Remainder(s) = {}
<1> DEFINE L == Len(s)
<1>1. PICK f : IsHash(f, s) /\ Remainder(s) = f[L]
  BY RemainderIs
<1>0. L \in Nat /\ L \in 0..L
  OBVIOUS
<1> DEFINE Good == [n \in 0..L |-> f[n] = {}]
<1>2. Good[0] /\ Good \in [0..L -> BOOLEAN]
  BY <1>0, <1>1 DEF IsHash
<1>3. ASSUME NEW n \in 1..L, Good[n - 1] PROVE Good[n]
  <2>1. n - 1 \in 0..L /\ n \in 0..L
    BY <1>0
  <2>2. f[n] = append_byte({}, Zero)
    BY <1>1, <1>3, <2>1 DEF IsHash
  <2> QED
    BY <2>1, <2>2, AppendZero
<1>4. Good[L]
  <2> HIDE DEF Good, L
  <2> QED
    BY <1>0, <1>2, <1>3, Prefixes
<1> QED
  BY <1>0, <1>1, <1>4

\* A byte of zeros in front has no part in the remainder.
LEMMA RemainderDropZero ==
  ASSUME NEW s \in Seq(AllBytes), NEW t \in Seq(AllBytes),
         Len(s) = Len(t) + 1, s[1] = Zero, \A i \in 1..Len(t) : s[i + 1] = t[i]
  PROVE  Remainder(s) = Remainder(t)
<1> DEFINE L == Len(t)
<1>1. PICK f : IsHash(f, s) /\ Remainder(s) = f[L + 1]
  BY RemainderIs
<1>2. PICK g : IsHash(g, t) /\ Remainder(t) = g[L]
  BY RemainderIs
<1>0. L \in Nat /\ L \in 0..L
  OBVIOUS
<1> DEFINE Good == [n \in 0..L |-> f[n + 1] = g[n]]
<1>3. Good[0] /\ Good \in [0..L -> BOOLEAN]
  <2>1. 1 \in 1..Len(s) /\ 1 - 1 = 0
    BY <1>0
  <2>2. f[1] = append_byte(f[1 - 1], s[1])
    BY <1>1, <2>1 DEF IsHash
  <2>3. f[0] = {} /\ g[0] = {}
    BY <1>1, <1>2 DEF IsHash
  <2>4. f[1] = append_byte({}, Zero)
    BY <2>1, <2>2, <2>3
  <2>5. f[1] = g[0]
    BY <2>3, <2>4, AppendZero
  <2>6. 0 \in 0..L /\ 0 + 1 = 1
    BY <1>0
  <2>7. Good[0]
    BY <2>5, <2>6
  <2> QED
    BY <2>7
<1>4. ASSUME NEW n \in 1..L, Good[n - 1] PROVE Good[n]
  <2>1. n - 1 \in 0..L /\ n \in 0..L /\ (n - 1) + 1 = n /\ n + 1 \in 1..Len(s) /\ (n + 1) - 1 = n
    BY <1>0
  <2>2. f[n] = g[n - 1]
    BY <1>4, <2>1
  <2>3. f[n + 1] = append_byte(f[n], s[n + 1]) /\ g[n] = append_byte(g[n - 1], t[n])
    BY <1>1, <1>2, <2>1 DEF IsHash
  <2>4. f[n + 1] = g[n]
    BY <2>2, <2>3
  <2> QED
    BY <2>1, <2>4
<1>5. Good[L]
  <2> HIDE DEF Good, L
  <2> QED
    BY <1>0, <1>3, <1>4, Prefixes
<1> QED
  BY <1>0, <1>1, <1>2, <1>5

\* A byte behind is appended to the remainder.
LEMMA RemainderAppend ==
  ASSUME NEW s \in Seq(AllBytes), NEW t \in Seq(AllBytes), NEW b,
         Len(t) = Len(s) + 1, t[Len(t)] = b, \A i \in 1..Len(s) : t[i] = s[i]
  PROVE  Remainder(t) = append_byte(Remainder(s), b)
<1> DEFINE L == Len(s)
<1>1. PICK f : IsHash(f, s) /\ Remainder(s) = f[L]
  BY RemainderIs
<1>2. PICK g : IsHash(g, t) /\ Remainder(t) = g[L + 1]
  BY RemainderIs
<1>0. L \in Nat /\ L \in 0..L
  OBVIOUS
<1> DEFINE Good == [n \in 0..L |-> f[n] = g[n]]
<1>3. Good[0] /\ Good \in [0..L -> BOOLEAN]
  <2>1. f[0] = {} /\ g[0] = {} /\ 0 \in 0..L
    BY <1>0, <1>1, <1>2 DEF IsHash
  <2>2. Good[0]
    BY <2>1
  <2> QED
    BY <2>2
<1>4. ASSUME NEW n \in 1..L, Good[n - 1] PROVE Good[n]
  <2>1. n - 1 \in 0..L /\ n \in 0..L /\ n \in 1..Len(t)
    BY <1>0
  <2>2. f[n - 1] = g[n - 1]
    BY <1>4, <2>1
  <2>3. f[n] = append_byte(f[n - 1], s[n]) /\ g[n] = append_byte(g[n - 1], t[n])
    BY <1>1, <1>2, <2>1 DEF IsHash
  <2>4. f[n] = g[n]
    BY <2>2, <2>3
  <2> QED
    BY <2>1, <2>4
<1>5. Good[L]
  <2> HIDE DEF Good, L
  <2> QED
    BY <1>0, <1>3, <1>4, Prefixes
<1>6. g[L + 1] = append_byte(g[L], b)
  <2>1. L + 1 \in 1..Len(t) /\ (L + 1) - 1 = L /\ L + 1 = Len(t)
    BY <1>0
  <2> QED
    BY <1>2, <2>1 DEF IsHash
<1> QED
  BY <1>0, <1>1, <1>2, <1>5, <1>6

\* Taking the oldest byte of a window out of the remainder, with out_table, and
\* appending a byte gives the remainder of the window one byte on.
LEMMA RemainderSlides ==
  ASSUME NEW w \in Seq(AllBytes), NEW v \in Seq(AllBytes), NEW b \in AllBytes,
         Len(w) = WINSIZE, Len(v) = WINSIZE,
         v[WINSIZE] = b, \A i \in 1..WINSIZE - 1 : v[i] = w[i + 1]
  PROVE  /\ out_table[w[1]] \in Below(d)
         /\ append_byte(SymDiff(Remainder(w), out_table[w[1]]), b) = Remainder(v)
<1>0. WINSIZE \in Nat \ {0} /\ Zero \in AllBytes /\ Zero = {}
  BY RabinAssumption, BytesAre DEF Zero
<1>1. w[1] \in AllBytes /\ \A i \in 1..WINSIZE : w[i] \in AllBytes
  BY <1>0
<1> DEFINE o == <<w[1]>> \o [i \in 1..WINSIZE - 1 |-> Zero]
           z == [i \in 1..WINSIZE |-> IF i = 1 THEN Zero ELSE w[i]]
           y == [i \in 1..WINSIZE + 1 |-> IF i = 1 THEN Zero
                                          ELSE IF i = WINSIZE + 1 THEN b ELSE w[i]]
<1>2. /\ o \in Seq(AllBytes) /\ Len(o) = WINSIZE
      /\ o[1] = w[1] /\ \A i \in 2..WINSIZE : o[i] = Zero
  <2> DEFINE q == [i \in 1..WINSIZE - 1 |-> Zero]
             p == <<w[1]>>
  <2>1. q \in Seq(AllBytes) /\ Len(q) = WINSIZE - 1 /\ \A i \in 1..WINSIZE - 1 : q[i] = Zero
    BY <1>0
  <2>2. p \in Seq(AllBytes) /\ Len(p) = 1 /\ p[1] = w[1]
    BY <1>1
  <2> HIDE DEF p, q
  <2> DEFINE r == p \o q
  <2>a. /\ r \in Seq(AllBytes) /\ Len(r) = Len(p) + Len(q)
        /\ \A i \in 1..Len(p) + Len(q) : r[i] = IF i <= Len(p) THEN p[i] ELSE q[i - Len(p)]
    <3>1. p \in Seq(AllBytes) /\ q \in Seq(AllBytes)
      BY <2>1, <2>2
    <3> QED
      BY <3>1, ConcatProperties, Zenon
  <2> HIDE DEF r
  <2>3. /\ r \in Seq(AllBytes) /\ Len(r) = 1 + (WINSIZE - 1)
        /\ r[1] = w[1]
        /\ \A i \in 2..WINSIZE : r[i] = q[i - 1]
    BY <1>0, <2>1, <2>2, <2>a
  <2>4. \A i \in 2..WINSIZE : i - 1 \in 1..WINSIZE - 1
    BY <1>0
  <2>5. 1 + (WINSIZE - 1) = WINSIZE
    BY <1>0
  <2> QED
    BY <2>1, <2>3, <2>4, <2>5 DEF r, p, q
<1>3. /\ z \in Seq(AllBytes) /\ Len(z) = WINSIZE
      /\ \A i \in 1..WINSIZE : z[i] = SymDiff(w[i], o[i])
  <2>1. z \in Seq(AllBytes) /\ Len(z) = WINSIZE
    BY <1>0, <1>1
  <2>2. ASSUME NEW i \in 1..WINSIZE PROVE z[i] = SymDiff(w[i], o[i])
    <3> HIDE DEF o
    <3>1. CASE i = 1
      BY <1>0, <1>2, <3>1, XorLaws
    <3>2. CASE i # 1
      <4>1. i \in 2..WINSIZE
        BY <1>0, <3>2
      <4>2. o[i] = {} /\ z[i] = w[i]
        BY <1>0, <1>2, <3>2, <4>1
      <4> QED
        BY <4>2, XorLaws
    <3> QED
      BY <3>1, <3>2
  <2> QED
    BY <2>1, <2>2
<1>4. /\ y \in Seq(AllBytes) /\ Len(y) = WINSIZE + 1 /\ y[1] = Zero /\ y[WINSIZE + 1] = b
      /\ \A i \in 1..WINSIZE : y[i] = z[i]
      /\ \A i \in 1..WINSIZE : y[i + 1] = v[i]
  <2>1. y \in Seq(AllBytes) /\ Len(y) = WINSIZE + 1 /\ y[1] = Zero /\ y[WINSIZE + 1] = b
    BY <1>0, <1>1
  <2>2. \A i \in 1..WINSIZE : y[i] = z[i]
    BY <1>0
  <2>3. ASSUME NEW i \in 1..WINSIZE PROVE y[i + 1] = v[i]
    <3>1. CASE i = WINSIZE
      BY <1>0, <2>1, <3>1
    <3>2. CASE i # WINSIZE
      <4>1. i \in 1..WINSIZE - 1 /\ i + 1 \in 1..WINSIZE + 1 /\ i + 1 # 1 /\ i + 1 # WINSIZE + 1
        BY <1>0, <3>2
      <4> QED
        BY <4>1
    <3> QED
      BY <3>1, <3>2
  <2> QED
    BY <2>1, <2>2, <2>3
<1>5. out_table[w[1]] = Remainder(o)
  BY <1>1 DEF out_table
<1> HIDE DEF o, z, y
<1>6. Remainder(z) = SymDiff(Remainder(w), Remainder(o))
  BY SMTT(30), <1>2, <1>3, RemainderXor
<1>7. Remainder(y) = append_byte(Remainder(z), b)
  BY SMTT(30), <1>3, <1>4, RemainderAppend
<1>8. Remainder(y) = Remainder(v)
  BY <1>4, RemainderDropZero
<1>9. Remainder(o) \in Below(d)
  BY <1>2, RemainderType
<1> QED
  BY <1>5, <1>6, <1>7, <1>8, <1>9
-----------------------------------------------------------------------------
(* The window.                                                             *)

Contexts == [window : [0..WINSIZE - 1 -> AllBytes], wpos : 0..WINSIZE - 1,
             digest : Below(d)]

\* A context whose digest is the remainder of its window.
Sound(ctx) == ctx \in Contexts /\ ctx.digest = Remainder(WindowBytes(ctx))

\* Around the ring.
LEMMA Around ==
  ASSUME NEW p \in 0..WINSIZE - 1, NEW k \in 0..WINSIZE
  PROVE  (p + k) % WINSIZE = IF p + k < WINSIZE THEN p + k ELSE p + k - WINSIZE
<1>1. WINSIZE \in Nat \ {0}
  BY RabinAssumption
<1>2. CASE p + k < WINSIZE
  BY <1>1, <1>2
<1>3. CASE ~(p + k < WINSIZE)
  <2> DEFINE r == p + k - WINSIZE
  <2>1. r \in 0..WINSIZE - 1 /\ p + k = r + WINSIZE
    BY <1>1, <1>3
  <2>2. (r + WINSIZE) % WINSIZE = r
    BY <1>1, <2>1
  <2> QED
    BY <1>3, <2>1, <2>2
<1> QED
  BY <1>2, <1>3

LEMMA WindowIs ==
  ASSUME NEW ctx \in Contexts
  PROVE  /\ WindowBytes(ctx) \in Seq(AllBytes) /\ Len(WindowBytes(ctx)) = WINSIZE
         /\ WindowBytes(ctx)[1] = ctx.window[ctx.wpos]
         /\ \A i \in 1..WINSIZE :
              /\ (ctx.wpos + i - 1) % WINSIZE \in 0..WINSIZE - 1
              /\ WindowBytes(ctx)[i] = ctx.window[(ctx.wpos + i - 1) % WINSIZE]
<1>0. WINSIZE \in Nat \ {0} /\ ctx.wpos \in 0..WINSIZE - 1
      /\ ctx.window \in [0..WINSIZE - 1 -> AllBytes]
  BY RabinAssumption DEF Contexts
<1>1. \A i \in 1..WINSIZE : (ctx.wpos + i - 1) % WINSIZE \in 0..WINSIZE - 1
  BY <1>0
<1>2. \A i \in 1..WINSIZE : WindowBytes(ctx)[i] = ctx.window[(ctx.wpos + i - 1) % WINSIZE]
  BY DEF WindowBytes
<1>3. WindowBytes(ctx) \in [1..WINSIZE -> AllBytes]
  BY <1>0, <1>1 DEF WindowBytes
<1>4. WindowBytes(ctx) \in Seq(AllBytes) /\ Len(WindowBytes(ctx)) = WINSIZE
  BY <1>0, <1>3
<1>5. WindowBytes(ctx)[1] = ctx.window[ctx.wpos]
  <2>1. (ctx.wpos + 1 - 1) % WINSIZE = ctx.wpos /\ 1 \in 1..WINSIZE
    BY <1>0
  <2> QED
    BY <1>2, <2>1
<1> QED
  BY <1>1, <1>2, <1>4, <1>5

\* rabin_slide moves the window on by a byte, and keeps its digest.
LEMMA SlideIs ==
  ASSUME NEW ctx, Sound(ctx), NEW b \in AllBytes
  PROVE  /\ Sound(rabin_slide(ctx, b))
         /\ WindowBytes(rabin_slide(ctx, b))[WINSIZE] = b
         /\ \A i \in 1..WINSIZE - 1 :
              WindowBytes(rabin_slide(ctx, b))[i] = WindowBytes(ctx)[i + 1]
<1> DEFINE p == ctx.wpos
           next == rabin_slide(ctx, b)
           out == out_table[ctx.window[p]]
           w == WindowBytes(ctx)
           v == WindowBytes(next)
<1>0. /\ WINSIZE \in Nat \ {0} /\ p \in 0..WINSIZE - 1 /\ d \in Nat
      /\ ctx.window \in [0..WINSIZE - 1 -> AllBytes] /\ ctx.digest \in Below(d)
      /\ ctx.digest = Remainder(w) /\ ctx \in Contexts
  BY RabinAssumption, PolynomialDegree DEF Contexts, Sound
<1>1. /\ next.window = [ctx.window EXCEPT ![p] = b]
      /\ next.wpos = (p + 1) % WINSIZE
      /\ next.digest = rabin_append(SymDiff(ctx.digest, out), b)
      /\ next = [window |-> next.window, wpos |-> next.wpos, digest |-> next.digest]
  BY DEF rabin_slide
<1>2. next.window \in [0..WINSIZE - 1 -> AllBytes] /\ next.wpos \in 0..WINSIZE - 1
  BY <1>0, <1>1
<1>3. out \in Below(d)
  <2>1. ctx.window[p] \in AllBytes
    BY <1>0
  <2>2. out = Remainder(<<ctx.window[p]>> \o [i \in 1..WINSIZE - 1 |-> Zero])
    BY <2>1 DEF out_table
  <2> DEFINE q == [i \in 1..WINSIZE - 1 |-> Zero]
             e == <<ctx.window[p]>>
  <2>3. q \in Seq(AllBytes) /\ e \in Seq(AllBytes)
    BY <1>0, <2>1, BytesAre
  <2> HIDE DEF q, e
  <2>4. e \o q \in Seq(AllBytes)
    BY <2>3, ConcatProperties
  <2> QED
    BY <2>2, <2>4, RemainderType DEF q, e
<1>4. /\ SymDiff(ctx.digest, out) \in Below(d)
      /\ next.digest = append_byte(SymDiff(ctx.digest, out), b)
      /\ next.digest \in Below(d)
  <2>1. SymDiff(ctx.digest, out) \in Below(d)
    BY <1>0, <1>3, XorBelow
  <2> QED
    BY <1>1, <2>1, RabinAppendIs, AppendIs
<1>5. next \in Contexts
  BY <1>1, <1>2, <1>4 DEF Contexts
<1>6. /\ w \in Seq(AllBytes) /\ Len(w) = WINSIZE /\ w[1] = ctx.window[p]
      /\ \A i \in 1..WINSIZE : w[i] = ctx.window[(p + i - 1) % WINSIZE]
  BY <1>0, WindowIs
<1>7. /\ v \in Seq(AllBytes) /\ Len(v) = WINSIZE
      /\ \A i \in 1..WINSIZE : v[i] = next.window[(next.wpos + i - 1) % WINSIZE]
  BY <1>5, WindowIs
<1> HIDE DEF next, w, v
<1>8. ASSUME NEW i \in 1..WINSIZE
      PROVE  (next.wpos + i - 1) % WINSIZE = IF p + i < WINSIZE THEN p + i ELSE p + i - WINSIZE
  <2>1. p + 1 \in Nat /\ i - 1 \in 0..WINSIZE - 1 /\ 1 \in 0..WINSIZE
    BY <1>0
  <2>2. next.wpos = IF p + 1 < WINSIZE THEN p + 1 ELSE p + 1 - WINSIZE
    BY <1>0, <1>1, <2>1, Around
  <2> DEFINE n == next.wpos
             k == i - 1
  <2>3. n \in 0..WINSIZE - 1 /\ k \in 0..WINSIZE
    BY <1>0, <1>2, <2>1
  <2> HIDE DEF n, k
  <2>4. (n + k) % WINSIZE = IF n + k < WINSIZE THEN n + k ELSE n + k - WINSIZE
    BY <2>3, Around
  <2>5. n + i - 1 = n + k
    BY <2>3 DEF k
  <2>6. CASE p + 1 < WINSIZE
    <3>1. n = p + 1 /\ n + k = p + i
      BY <1>0, <2>2, <2>6 DEF n, k
    <3> DEFINE m == n + k
               l == p + i
    <3>2. m = l /\ l \in Int /\ p + i - WINSIZE = l - WINSIZE /\ n + k - WINSIZE = m - WINSIZE
      BY SMTT(30), <1>0, <2>3, <3>1
    <3>3. m % WINSIZE = IF m < WINSIZE THEN m ELSE m - WINSIZE
      BY <2>4, <3>2
    <3>4. n + i - 1 = m
      BY <2>5
    <3> HIDE DEF m, l
    <3>5. (n + i - 1) % WINSIZE = IF l < WINSIZE THEN l ELSE l - WINSIZE
      BY <3>2, <3>3, <3>4
    <3>6. (n + i - 1) % WINSIZE = IF p + i < WINSIZE THEN p + i ELSE p + i - WINSIZE
      BY <3>2, <3>5 DEF l
    <3> QED
      BY <3>6 DEF n
  <2>7. CASE ~(p + 1 < WINSIZE)
    <3>1. n = 0 /\ n + k = i - 1 /\ p = WINSIZE - 1
      BY <1>0, <2>2, <2>7 DEF n, k
    <3>2. (n + i - 1) % WINSIZE = i - 1
      BY <1>0, <2>4, <2>5, <3>1
    <3>3. ~(p + i < WINSIZE) /\ p + i - WINSIZE = i - 1
      BY <1>0, <3>1
    <3> QED
      BY <3>2, <3>3 DEF n
  <2> QED
    BY <2>6, <2>7
<1>9. v[WINSIZE] = b
  <2>1. WINSIZE \in 1..WINSIZE
    BY <1>0
  <2>2. (next.wpos + WINSIZE - 1) % WINSIZE = p
    BY <1>0, <1>8, <2>1
  <2> QED
    BY <1>0, <1>1, <1>7, <2>1, <2>2
<1>10. ASSUME NEW i \in 1..WINSIZE - 1 PROVE v[i] = w[i + 1]
  <2> DEFINE at == IF p + i < WINSIZE THEN p + i ELSE p + i - WINSIZE
  <2>1. i \in 1..WINSIZE /\ i + 1 \in 1..WINSIZE /\ i \in 0..WINSIZE
        /\ at # p /\ at \in 0..WINSIZE - 1 /\ p + (i + 1) - 1 = p + i
    BY SMTT(30), <1>0
  <2>2. (next.wpos + i - 1) % WINSIZE = at
    BY <1>8, <2>1
  <2>3. (p + i) % WINSIZE = at
    BY <1>0, <2>1, Around
  <2> HIDE DEF at
  <2>4. w[i + 1] = ctx.window[at]
    BY <1>6, <2>1, <2>3
  <2>5. v[i] = next.window[at]
    BY <1>7, <2>1, <2>2
  <2> QED
    BY <1>0, <1>1, <2>1, <2>4, <2>5
<1>11. next.digest = Remainder(v)
  <2>1. out = out_table[w[1]]
    BY <1>6
  <2>2. append_byte(SymDiff(Remainder(w), out_table[w[1]]), b) = Remainder(v)
    BY <1>6, <1>7, <1>9, <1>10, RemainderSlides
  <2> QED
    BY <1>0, <1>4, <2>1, <2>2
<1> QED
  BY <1>5, <1>9, <1>10, <1>11 DEF Sound, next, w, v

\* The context after a reset: a window of zeros, into which a 1 has been slid.
LEMMA ResetIs ==
  /\ Sound(rabin_reset)
  /\ WindowBytes(rabin_reset)[WINSIZE] = One
  /\ \A i \in 1..WINSIZE - 1 : WindowBytes(rabin_reset)[i] = Zero
<1> DEFINE zero == [window |-> [i \in 0..WINSIZE - 1 |-> Zero], wpos |-> 0, digest |-> {}]
<1>0. WINSIZE \in Nat \ {0} /\ Zero \in AllBytes /\ One \in AllBytes /\ {} \in Below(d)
  BY RabinAssumption, BytesAre DEF Below
<1>1. zero \in Contexts
  BY <1>0 DEF Contexts
<1>2. /\ WindowBytes(zero) \in Seq(AllBytes) /\ Len(WindowBytes(zero)) = WINSIZE
      /\ \A i \in 1..WINSIZE : WindowBytes(zero)[i] = Zero
  <2>1. /\ WindowBytes(zero) \in Seq(AllBytes) /\ Len(WindowBytes(zero)) = WINSIZE
        /\ \A i \in 1..WINSIZE :
             /\ (zero.wpos + i - 1) % WINSIZE \in 0..WINSIZE - 1
             /\ WindowBytes(zero)[i] = zero.window[(zero.wpos + i - 1) % WINSIZE]
    BY <1>1, WindowIs
  <2>2. \A k \in 0..WINSIZE - 1 : zero.window[k] = Zero
    OBVIOUS
  <2> QED
    BY <2>1, <2>2
<1>3. Sound(zero)
  <2>1. zero.digest = {}
    OBVIOUS
  <2> HIDE DEF zero
  <2>2. Remainder(WindowBytes(zero)) = {}
    BY <1>2, RemainderZeros
  <2> QED
    BY <1>1, <2>1, <2>2 DEF Sound
<1>4. rabin_reset = rabin_slide(zero, One)
  BY DEF rabin_reset
<1> HIDE DEF zero
<1>5. /\ Sound(rabin_slide(zero, One))
      /\ WindowBytes(rabin_slide(zero, One))[WINSIZE] = One
      /\ \A i \in 1..WINSIZE - 1 :
           WindowBytes(rabin_slide(zero, One))[i] = WindowBytes(zero)[i + 1]
  BY <1>0, <1>3, SlideIs
<1>6. \A i \in 1..WINSIZE - 1 : i + 1 \in 1..WINSIZE
  BY <1>0
<1> QED
  BY <1>2, <1>4, <1>5, <1>6

\* The contexts after the first bytes, of ever more of them.
IsSlide(f, ctx, bytes) ==
  /\ f \in [0..Len(bytes) -> Contexts]
  /\ f[0] = ctx
  /\ \A n \in 0..Len(bytes) : Sound(f[n])
  /\ \A n \in 1..Len(bytes) : f[n] = rabin_slide(f[n - 1], bytes[n])

LEMMA SlideAllIs ==
  ASSUME NEW ctx, Sound(ctx), NEW bytes \in Seq(AllBytes)
  PROVE  \E f : IsSlide(f, ctx, bytes) /\ SlideAll(ctx, bytes) = f[Len(bytes)]
<1> DEFINE L == Len(bytes)
           S == {c \in Contexts : Sound(c)}
           step == [n \in 1..L |-> [c \in S |-> rabin_slide(c, bytes[n])]]
           IsS(f) == f = [n \in 0..L |-> IF n = 0 THEN ctx ELSE rabin_slide(f[n - 1], bytes[n])]
<1>1. L \in Nat /\ \A n \in 1..L : bytes[n] \in AllBytes
  OBVIOUS
<1>2. ctx \in S /\ \A c : c \in S <=> Sound(c)
  BY DEF Sound
<1>3. \A c \in S, b \in AllBytes : rabin_slide(c, b) \in S
  BY <1>2, SlideIs
<1> HIDE DEF S
<1>4. step \in [1..L -> [S -> S]]
  BY <1>1, <1>3
<1>5. PICK f \in [0..L -> S] : f[0] = ctx /\ \A n \in 1..L : f[n] = step[n][f[n - 1]]
  <2>1. L \in Nat /\ ctx \in S /\ step \in [1..L -> [S -> S]]
    BY <1>1, <1>2, <1>4
  <2> HIDE DEF step, L
  <2> QED
    BY <2>1, LoopExists
<1> HIDE DEF L
<1>6. ASSUME NEW n \in 1..L PROVE f[n] = rabin_slide(f[n - 1], bytes[n])
  <2>1. n - 1 \in 0..L
    BY <1>1
  <2>2. f[n - 1] \in S
    BY <1>5, <2>1
  <2> QED
    BY <1>5, <2>2
<1> HIDE DEF step
<1>7. IsS(f)
  <2>1. \A n \in 0..L : n = 0 \/ n \in 1..L
    BY <1>1
  <2>2. \A n \in 0..L : f[n] = IF n = 0 THEN ctx ELSE rabin_slide(f[n - 1], bytes[n])
    BY <1>1, <1>5, <1>6, <2>1
  <2> QED
    BY <1>5, <2>2
<1> DEFINE after == CHOOSE g : IsS(g)
<1>8. SlideAll(ctx, bytes) = after[L]
  BY DEF SlideAll, L
<1> HIDE DEF IsS
<1>9. IsS(after)
  BY <1>7
<1> HIDE DEF after
<1>10. /\ DOMAIN after = 0..L
       /\ \A n \in 0..L : after[n] = IF n = 0 THEN ctx ELSE rabin_slide(after[n - 1], bytes[n])
  BY <1>9 DEF IsS
<1>11. after[0] = ctx /\ \A n \in 1..L : after[n] = rabin_slide(after[n - 1], bytes[n])
  <2>1. 0 \in 0..L /\ \A n \in 1..L : n \in 0..L /\ n # 0
    BY <1>1
  <2> QED
    BY <1>10, <2>1
<1>12. \A n \in 0..L : after[n] \in S
  <2> DEFINE Good == [n \in 0..L |-> after[n] \in S]
  <2>1. 0 \in 0..L
    BY <1>1
  <2>2. Good[0] /\ Good \in [0..L -> BOOLEAN]
    <3>1. after[0] \in S
      BY <1>2, <1>11
    <3>2. Good[0] = (after[0] \in S)
      BY <2>1, Zenon
    <3>3. Good \in [0..L -> BOOLEAN]
      OBVIOUS
    <3> HIDE DEF Good
    <3> QED
      BY <3>1, <3>2, <3>3
  <2>3. ASSUME NEW n \in 1..L, Good[n - 1] PROVE Good[n]
    <3>1. n - 1 \in 0..L /\ n \in 0..L
      BY <1>1
    <3>2. after[n - 1] \in S
      BY <2>3, <3>1
    <3> QED
      BY <1>1, <1>3, <1>11, <3>1, <3>2
  <2>4. \A n \in 0..L : Good[n]
    <3> HIDE DEF Good
    <3> QED
      BY <1>1, <2>2, <2>3, Prefixes
  <2> QED
    BY <2>4
<1>13. IsSlide(after, ctx, bytes)
  <2>1. after \in [0..L -> S]
    <3>1. after = [n \in 0..L |-> after[n]]
      BY <1>9 DEF IsS
    <3> QED
      BY <1>12, <3>1
  <2>2. after \in [0..L -> Contexts]
    BY <2>1 DEF S
  <2>3. \A n \in 0..L : Sound(after[n])
    BY <1>2, <1>12
  <2> QED
    BY <1>11, <2>2, <2>3 DEF IsSlide, L
<1> QED
  BY <1>8, <1>13 DEF L

\* What has passed through the window when bytes were slid in after a reset.
Passed(bytes) == [i \in 1..WINSIZE |-> Zero] \o <<One>> \o bytes

LEMMA PassedIs ==
  ASSUME NEW bytes \in Seq(AllBytes)
  PROVE  /\ Passed(bytes) \in Seq(AllBytes)
         /\ Len(Passed(bytes)) = WINSIZE + 1 + Len(bytes)
         /\ \A i \in 1..WINSIZE : Passed(bytes)[i] = Zero
         /\ Passed(bytes)[WINSIZE + 1] = One
         /\ \A i \in 1..Len(bytes) : Passed(bytes)[WINSIZE + 1 + i] = bytes[i]
<1> DEFINE p == [i \in 1..WINSIZE |-> Zero]
           q == <<One>>
           r == p \o q
           s == r \o bytes
<1>0. WINSIZE \in Nat \ {0} /\ Zero \in AllBytes /\ One \in AllBytes
  BY RabinAssumption, BytesAre
<1>1. p \in Seq(AllBytes) /\ Len(p) = WINSIZE /\ \A i \in 1..WINSIZE : p[i] = Zero
  BY <1>0
<1>2. q \in Seq(AllBytes) /\ Len(q) = 1 /\ q[1] = One
  BY <1>0
<1> HIDE DEF p, q
<1>3. /\ r \in Seq(AllBytes) /\ Len(r) = Len(p) + Len(q)
      /\ \A i \in 1..Len(p) + Len(q) : r[i] = IF i <= Len(p) THEN p[i] ELSE q[i - Len(p)]
  BY <1>1, <1>2, ConcatProperties
<1> HIDE DEF r
<1>4. /\ s \in Seq(AllBytes) /\ Len(s) = Len(r) + Len(bytes)
      /\ \A i \in 1..Len(r) + Len(bytes) :
           s[i] = IF i <= Len(r) THEN r[i] ELSE bytes[i - Len(r)]
  <2>1. r \in Seq(AllBytes)
    BY <1>3
  <2> QED
    BY <2>1, ConcatProperties
<1>5. s = Passed(bytes)
  BY DEF s, r, p, q, Passed
<1> HIDE DEF s
<1>6. Len(r) = WINSIZE + 1 /\ r[WINSIZE + 1] = One /\ \A i \in 1..WINSIZE : r[i] = Zero
  <2>1. WINSIZE + 1 \in 1..Len(p) + Len(q) /\ WINSIZE + 1 - WINSIZE = 1 /\ ~(WINSIZE + 1 <= WINSIZE)
    BY <1>0, <1>1, <1>2
  <2>2. r[WINSIZE + 1] = One
    BY <1>0, <1>1, <1>2, <1>3, <2>1
  <2>3. \A i \in 1..WINSIZE : r[i] = Zero
    BY <1>0, <1>1, <1>2, <1>3
  <2> QED
    BY <1>1, <1>2, <1>3, <2>2, <2>3
<1>7. Len(bytes) \in Nat
  OBVIOUS
<1>8. ASSUME NEW i \in 1..Len(bytes) PROVE s[WINSIZE + 1 + i] = bytes[i]
  <2> DEFINE k == WINSIZE + 1 + i
  <2>1. k \in 1..Len(r) + Len(bytes) /\ ~(k <= Len(r)) /\ k - Len(r) = i
    BY <1>0, <1>6, <1>7
  <2> HIDE DEF k
  <2>2. s[k] = bytes[i]
    BY <1>4, <2>1
  <2> QED
    BY <2>2 DEF k
<1>9. s[WINSIZE + 1] = One /\ \A i \in 1..WINSIZE : s[i] = Zero
  BY <1>0, <1>4, <1>6, <1>7
<1>10. Len(s) = WINSIZE + 1 + Len(bytes)
  BY <1>0, <1>4, <1>6, <1>7
<1> QED
  BY <1>4, <1>5, <1>8, <1>9, <1>10

\* Sliding bytes in after a reset leaves the last of them in the window, and the
\* remainder of the window in the digest.
LEMMA SlideAllWindow ==
  ASSUME NEW bytes \in Seq(AllBytes)
  PROVE  /\ Sound(SlideAll(rabin_reset, bytes))
         /\ WindowBytes(SlideAll(rabin_reset, bytes))
              = SubSeq(Passed(bytes), Len(Passed(bytes)) - WINSIZE + 1, Len(Passed(bytes)))
<1> DEFINE L == Len(bytes)
           T == Passed(bytes)
<1>0. WINSIZE \in Nat \ {0} /\ L \in Nat
  BY RabinAssumption
<1>1. PICK f : IsSlide(f, rabin_reset, bytes) /\ SlideAll(rabin_reset, bytes) = f[L]
  BY ResetIs, SlideAllIs
<1>2. /\ T \in Seq(AllBytes) /\ Len(T) = WINSIZE + 1 + L
      /\ \A i \in 1..WINSIZE : T[i] = Zero
      /\ T[WINSIZE + 1] = One
      /\ \A i \in 1..L : T[WINSIZE + 1 + i] = bytes[i]
  BY PassedIs
<1> HIDE DEF T
<1> DEFINE Shows(n) == \A i \in 1..WINSIZE : WindowBytes(f[n])[i] = T[n + 1 + i]
           Good == [n \in 0..L |-> Shows(n)]
<1>3. Shows(0)
  <2> SUFFICES ASSUME NEW i \in 1..WINSIZE PROVE WindowBytes(f[0])[i] = T[0 + 1 + i]
    OBVIOUS
  <2>1. f[0] = rabin_reset
    BY <1>1 DEF IsSlide
  <2>2. CASE i = WINSIZE
    <3>1. 0 + 1 + i = WINSIZE + 1
      BY <1>0, <2>2
    <3> QED
      BY <1>2, <2>1, <2>2, <3>1, ResetIs
  <2>3. CASE i # WINSIZE
    <3>1. 0 + 1 + i \in 1..WINSIZE /\ i \in 1..WINSIZE - 1
      BY <1>0, <2>3
    <3> QED
      BY <1>2, <2>1, <3>1, ResetIs
  <2> QED
    BY <2>2, <2>3
<1>4. ASSUME NEW n \in 1..L, Shows(n - 1) PROVE Shows(n)
  <2> SUFFICES ASSUME NEW i \in 1..WINSIZE PROVE WindowBytes(f[n])[i] = T[n + 1 + i]
    OBVIOUS
  <2>1. n - 1 \in 0..L
    BY <1>0
  <2>2. Sound(f[n - 1]) /\ f[n] = rabin_slide(f[n - 1], bytes[n]) /\ bytes[n] \in AllBytes
    BY <1>1, <2>1 DEF IsSlide
  <2>3. /\ WindowBytes(f[n])[WINSIZE] = bytes[n]
        /\ \A k \in 1..WINSIZE - 1 : WindowBytes(f[n])[k] = WindowBytes(f[n - 1])[k + 1]
    BY <2>2, SlideIs
  <2>4. CASE i = WINSIZE
    <3>1. n + 1 + i = WINSIZE + 1 + n
      BY <1>0, <2>4
    <3>2. T[WINSIZE + 1 + n] = bytes[n]
      BY <1>2
    <3> QED
      BY <2>3, <2>4, <3>1, <3>2
  <2>5. CASE i # WINSIZE
    <3>1. i \in 1..WINSIZE - 1 /\ i + 1 \in 1..WINSIZE /\ (n - 1) + 1 + (i + 1) = n + 1 + i
      BY <1>0, <2>5
    <3>2. WindowBytes(f[n - 1])[i + 1] = T[(n - 1) + 1 + (i + 1)]
      BY <1>4, <3>1
    <3> QED
      BY <2>3, <3>1, <3>2
  <2> QED
    BY <2>4, <2>5
<1>5. Shows(L)
  <2> HIDE DEF Shows
  <2>1. Good[0] /\ Good \in [0..L -> BOOLEAN]
    BY <1>0, <1>3 DEF Shows
  <2>2. ASSUME NEW n \in 1..L, Good[n - 1] PROVE Good[n]
    <3>1. n - 1 \in 0..L /\ n \in 0..L
      BY <1>0
    <3> QED
      BY <1>4, <2>2, <3>1
  <2> HIDE DEF Good, L
  <2>3. \A n \in 0..L : Good[n]
    BY <1>0, <2>1, <2>2, Prefixes
  <2>4. L \in 0..L
    BY <1>0
  <2> QED
    BY <2>3, <2>4 DEF Good
<1>6. Sound(f[L]) /\ f[L] \in Contexts
  <2>1. L \in 0..L
    BY <1>0
  <2> QED
    BY <1>1, <2>1 DEF IsSlide, Sound
<1> DEFINE w == WindowBytes(f[L])
           x == SubSeq(T, Len(T) - WINSIZE + 1, Len(T))
<1>7. w \in Seq(AllBytes) /\ Len(w) = WINSIZE
  BY <1>6, WindowIs
<1>8. /\ x \in Seq(AllBytes) /\ Len(x) = WINSIZE
      /\ \A i \in 1..WINSIZE : x[i] = T[L + 1 + i]
  <2> DEFINE lo == Len(T) - WINSIZE + 1
             hi == Len(T)
  <2>1. lo = L + 2 /\ hi = WINSIZE + 1 + L /\ lo \in 1..hi + 1 /\ hi \in Nat
    BY <1>0, <1>2
  <2>2. \A i \in lo..hi : i \in 1..Len(T)
    BY <1>0, <1>2, <2>1
  <2> HIDE DEF lo, hi
  <2>3. /\ SubSeq(T, lo, hi) \in Seq(AllBytes)
        /\ Len(SubSeq(T, lo, hi)) = hi - lo + 1
        /\ \A i \in 1..hi - lo + 1 : SubSeq(T, lo, hi)[i] = T[lo + i - 1]
    BY <1>0, <1>2, <2>1, <2>2
  <2>4. hi - lo + 1 = WINSIZE /\ \A i \in 1..WINSIZE : lo + i - 1 = L + 1 + i
    BY <1>0, <2>1
  <2> QED
    BY <2>3, <2>4 DEF lo, hi
<1> HIDE DEF w, x
<1>9. \A i \in 1..WINSIZE : w[i] = x[i]
  BY <1>5, <1>8 DEF w
<1>10. w = x
  BY <1>7, <1>8, <1>9, SeqEqual
<1> QED
  BY <1>1, <1>6, <1>10 DEF w, x, T
-----------------------------------------------------------------------------
(* The chunks of a file.                                                   *)

ChunkRefs == [off : Nat, len : Nat, id : Nat]

Splits == [content : Seq(Byte), chunks : Seq(ChunkRefs)]

RabinTypeOK ==
  /\ file \in Seq(Byte)
  /\ live \in BOOLEAN /\ looping \in BOOLEAN /\ faulted \in BOOLEAN
  /\ file_read_ptr \in Nat
  /\ remaining_file_len \in Nat
  /\ next_chunk_id_ \in Nat
  /\ chunks \in Seq(ChunkRefs)
  /\ split \in Seq(Splits)

\* GetNextChunk starts with the context of a reset.
FreshWindow == looping => rabin = rabin_reset

\* While bytes are left of a mapped file, the pointer is behind the last chunk,
\* and the next chunk gets the id that follows.
PointerAfterChunks ==
  /\ looping /\ live /\ remaining_file_len > 0 => file_read_ptr = Covered(chunks)
  /\ chunks # <<>> => next_chunk_id_ = (chunks[Len(chunks)].id + 1) % IdSpace

\* A file that cannot be mapped has no bytes and no chunks.
Unmapped == ~live => file = <<>> /\ (looping => chunks = <<>>)

\* A length that is not that of the rest of a mapped file is that of the tail
\* that the file before has lost.
StaleLength ==
  remaining_file_len > 0 /\ ~(looping /\ live) =>
    /\ remaining_file_len > MinChunkSize
    /\ split # <<>>
    /\ Covered(split[Len(split)].chunks) < Len(split[Len(split)].content)

\* Memory outside the file is only read through a pointer into an unmapped file.
FaultsWhenStale == faulted => looping /\ ~live /\ remaining_file_len > 0

\* The inductive invariant.
RabinInv ==
  /\ RabinTypeOK
  /\ FreshWindow
  /\ PointerAfterChunks
  /\ Tiles
  /\ Unmapped
  /\ StaleLength
  /\ FaultsWhenStale
  /\ LosesOnlyTail

\* Chunks cover a number of bytes.
LEMMA CoveredNat ==
  ASSUME NEW cs \in Seq(ChunkRefs) PROVE Covered(cs) \in Nat
<1>1. CASE cs = <<>>
  BY <1>1 DEF Covered
<1>2. CASE cs # <<>>
  <2>1. Len(cs) \in 1..Len(cs)
    BY <1>2
  <2>2. cs[Len(cs)] \in ChunkRefs
    BY <2>1
  <2>3. cs[Len(cs)].off \in Nat /\ cs[Len(cs)].len \in Nat
    BY <2>2 DEF ChunkRefs
  <2> QED
    BY <1>2, <2>3 DEF Covered
<1> QED
  BY <1>1, <1>2

\* A chunk that begins where the others end extends the tiling by its length.
LEMMA AppendTiles ==
  ASSUME NEW cs \in Seq(ChunkRefs), Contiguous(cs),
         NEW c \in ChunkRefs, c.len > 0, c.off = Covered(cs),
         cs # <<>> => c.id = (cs[Len(cs)].id + 1) % IdSpace
  PROVE  /\ Append(cs, c) \in Seq(ChunkRefs)
         /\ Contiguous(Append(cs, c))
         /\ Covered(Append(cs, c)) = Covered(cs) + c.len
<1>1. /\ Append(cs, c) \in Seq(ChunkRefs)
      /\ Len(Append(cs, c)) = Len(cs) + 1
      /\ Append(cs, c)[Len(cs) + 1] = c
      /\ \A i \in 1..Len(cs) : Append(cs, c)[i] = cs[i]
      /\ Len(cs) \in Nat
  OBVIOUS
<1>2. Covered(Append(cs, c)) = Covered(cs) + c.len
  <2> DEFINE all == Append(cs, c)
  <2>1. all \in Seq(ChunkRefs) /\ Len(all) = Len(cs) + 1 /\ all[Len(cs) + 1] = c
    BY <1>1
  <2> HIDE DEF all
  <2>2. all # <<>>
    BY <1>1, <2>1
  <2>3. all[Len(all)] = c
    BY <2>1
  <2>4. Covered(all) = c.off + c.len
    BY <2>2, <2>3 DEF Covered
  <2> QED
    BY <2>4 DEF all
<1>3. ASSUME NEW i \in 1..Len(cs) + 1
      PROVE  /\ Append(cs, c)[i].len > 0
             /\ Append(cs, c)[i].off = IF i = 1 THEN 0
                  ELSE Append(cs, c)[i-1].off + Append(cs, c)[i-1].len
             /\ i > 1 => Append(cs, c)[i].id = (Append(cs, c)[i-1].id + 1) % IdSpace
  <2>1. CASE i \in 1..Len(cs)
    BY <1>1, <2>1 DEF Contiguous
  <2>2. CASE i = Len(cs) + 1 /\ cs = <<>>
    BY <1>1, <2>2 DEF Covered
  <2>3. CASE i = Len(cs) + 1 /\ cs # <<>>
    <3>1. i - 1 = Len(cs) /\ i > 1 /\ i - 1 \in 1..Len(cs)
      BY <1>1, <2>3
    <3> QED
      BY <1>1, <2>3, <3>1 DEF Covered
  <2> QED
    BY <1>3, <2>1, <2>2, <2>3, <1>1
<1> QED
  BY <1>1, <1>2, <1>3 DEF Contiguous

\* Returning a chunk at the pointer, of no more than what is left, keeps the
\* chunks in place and reads mapped memory.
LEMMA ReturnStep ==
  ASSUME RabinInv, looping, live, ~faulted, NEW size \in 1..remaining_file_len,
         Read(size), ReturnChunk(size)
  PROVE  /\ chunks' \in Seq(ChunkRefs) /\ Contiguous(chunks')
         /\ Covered(chunks') = Covered(chunks) + size
         /\ chunks' # <<>>
         /\ next_chunk_id_' \in Nat
         /\ next_chunk_id_' = (chunks'[Len(chunks')].id + 1) % IdSpace
         /\ faulted' = FALSE
         /\ file_read_ptr = Covered(chunks) /\ file_read_ptr \in Nat
         /\ Covered(chunks) + remaining_file_len = Len(file)
<1>1. /\ chunks \in Seq(ChunkRefs) /\ remaining_file_len \in Nat
      /\ next_chunk_id_ \in Nat /\ live \in BOOLEAN /\ file_read_ptr \in Nat
      /\ file \in Seq(Byte)
  BY DEF RabinInv, RabinTypeOK
<1>2. file_read_ptr = Covered(chunks)
  BY <1>1 DEF RabinInv, PointerAfterChunks
<1>3. Covered(chunks) + remaining_file_len = Len(file) /\ Contiguous(chunks)
  BY <1>2 DEF RabinInv, Tiles
<1> DEFINE c == [off |-> file_read_ptr, len |-> size, id |-> next_chunk_id_]
<1>4. c \in ChunkRefs /\ c.len > 0 /\ c.off = Covered(chunks)
  BY <1>1, <1>2 DEF ChunkRefs
<1>5. chunks # <<>> => c.id = (chunks[Len(chunks)].id + 1) % IdSpace
  BY DEF RabinInv, PointerAfterChunks
<1>6. chunks' = Append(chunks, c) /\ next_chunk_id_' = (c.id + 1) % IdSpace
  BY DEF ReturnChunk
<1>7. /\ chunks' \in Seq(ChunkRefs) /\ Contiguous(chunks')
      /\ Covered(chunks') = Covered(chunks) + size
  <2> HIDE DEF c
  <2>1. /\ Append(chunks, c) \in Seq(ChunkRefs) /\ Contiguous(Append(chunks, c))
        /\ Covered(Append(chunks, c)) = Covered(chunks) + c.len
    BY <1>1, <1>3, <1>4, <1>5, AppendTiles
  <2>2. c.len = size
    BY DEF c
  <2> QED
    BY <1>6, <2>1, <2>2
<1>8. Len(chunks') = Len(chunks) + 1 /\ chunks'[Len(chunks')] = c /\ chunks' # <<>>
  BY <1>1, <1>4, <1>6
<1>9. next_chunk_id_' \in Nat
  BY <1>1, <1>6, ChunkerAssumption
<1>10. faulted' = FALSE
  <2>1. file_read_ptr + size <= Len(file) /\ file_read_ptr + size \in Nat
    BY <1>1, <1>2, <1>3
  <2>2. ~(file_read_ptr + size > Len(file))
    BY <1>1, <2>1
  <2> QED
    BY <2>2 DEF Read
<1> QED
  BY <1>1, <1>2, <1>3, <1>6, <1>7, <1>8, <1>9, <1>10

\* The loop of GetNextChunk ends a chunk within the rest of the file, and if it
\* ends none, the rest is shorter than MaxChunkSize.
LEMMA StopsBound ==
  ASSUME RabinTypeOK
  PROVE  /\ Stops \subseteq 1..remaining_file_len
         /\ Stops = {} /\ remaining_file_len > MinChunkSize
              => remaining_file_len \in MinChunkSize + 1..MaxChunkSize - 1
<1>0. remaining_file_len \in Nat /\ MinChunkSize \in Nat /\ MaxChunkSize \in Nat
  BY ChunkerAssumption DEF RabinTypeOK
<1>1. Stops \subseteq 1..remaining_file_len
  BY DEF Stops
<1>2. ASSUME Stops = {}, remaining_file_len > MinChunkSize, remaining_file_len >= MaxChunkSize
      PROVE  FALSE
  <2>1. remaining_file_len \in 1..remaining_file_len
    BY <1>0, <1>2
  <2> QED
    BY <1>2, <2>1 DEF Stops
<1> QED
  BY <1>0, <1>1, <1>2

\* Leaving a file of which as much is lost as the tail may have.
LEMMA LeaveStep ==
  ASSUME RabinInv, ReturnNull,
         Len(file) - Covered(chunks) # 0
           => Len(file) - Covered(chunks) \in MinChunkSize + 1..MaxChunkSize - 1
  PROVE  /\ LosesOnlyTail'
         /\ split' \in Seq(Splits) /\ split' # <<>>
         /\ split'[Len(split')] = [content |-> file, chunks |-> chunks]
         /\ looping' = FALSE /\ UNCHANGED <<file, live, next_chunk_id_, chunks>>
<1> DEFINE s == [content |-> file, chunks |-> chunks]
           Lost(t) == Len(t.content) - Covered(t.chunks)
           TailOK(t) == Lost(t) # 0 => Lost(t) \in MinChunkSize + 1..MaxChunkSize - 1
<1>1. split \in Seq(Splits) /\ s \in Splits
  BY DEF RabinInv, RabinTypeOK, Splits
<1>2. split' = Append(split, s) /\ looping' = FALSE
      /\ UNCHANGED <<file, live, next_chunk_id_, chunks>>
  BY DEF ReturnNull
<1>3. TailOK(s)
  OBVIOUS
<1>4. \A k \in 1..Len(split) : TailOK(split[k])
  BY DEF RabinInv, LosesOnlyTail
<1> HIDE DEF s
<1>5. /\ Len(split') = Len(split) + 1 /\ split'[Len(split) + 1] = s
      /\ \A k \in 1..Len(split) : split'[k] = split[k]
      /\ Len(split) \in Nat /\ split' \in Seq(Splits) /\ split' # <<>>
  BY <1>1, <1>2
<1> HIDE DEF TailOK
<1>6. ASSUME NEW k \in 1..Len(split') PROVE TailOK(split'[k])
  <2>1. CASE k \in 1..Len(split)
    BY <1>4, <1>5, <2>1
  <2>2. CASE k = Len(split) + 1
    BY <1>3, <1>5, <2>2
  <2> QED
    BY <1>5, <2>1, <2>2
<1>7. LosesOnlyTail'
  BY <1>6 DEF LosesOnlyTail, TailOK, Covered
<1> QED
  BY <1>2, <1>5, <1>7 DEF s

\* The invariant holds initially ...
LEMMA RabinInit == Init => RabinInv
<1> SUFFICES ASSUME Init PROVE RabinInv
  OBVIOUS
<1>1. /\ file = <<>> /\ live = FALSE /\ looping = FALSE /\ faulted = FALSE
      /\ file_read_ptr = 0 /\ remaining_file_len = 0 /\ next_chunk_id_ = 0
      /\ chunks = <<>> /\ split = <<>>
  BY DEF Init, ChunkerInit
<1>2. RabinTypeOK
  <2>1. <<>> \in Seq(Byte) /\ <<>> \in Seq(ChunkRefs) /\ <<>> \in Seq(Splits)
    OBVIOUS
  <2>2. FALSE \in BOOLEAN /\ 0 \in Nat
    OBVIOUS
  <2> QED
    BY <1>1, <2>1, <2>2 DEF RabinTypeOK
<1>3. FreshWindow /\ PointerAfterChunks /\ Unmapped /\ StaleLength /\ FaultsWhenStale
  <2>1. ~(remaining_file_len > 0)
    BY <1>1
  <2> QED
    BY <1>1, <2>1 DEF FreshWindow, PointerAfterChunks, Unmapped, StaleLength, FaultsWhenStale
<1>4. Tiles
  BY <1>1 DEF Tiles, Contiguous
<1>5. LosesOnlyTail
  <2>1. Len(split) = 0
    BY <1>1
  <2> QED
    BY <2>1 DEF LosesOnlyTail
<1> QED
  BY <1>2, <1>3, <1>4, <1>5 DEF RabinInv

\* ... and every step keeps it.
LEMMA RabinStep == RabinInv /\ [Next]_vars => RabinInv'
<1> SUFFICES ASSUME RabinInv, [Next]_vars PROVE RabinInv'
  OBVIOUS
<1>t. RabinTypeOK /\ faulted \in BOOLEAN /\ remaining_file_len \in Nat /\ live \in BOOLEAN
      /\ looping \in BOOLEAN /\ chunks \in Seq(ChunkRefs) /\ Len(chunks) \in Nat
      /\ Covered(chunks) \in Nat
  BY CoveredNat DEF RabinInv, RabinTypeOK
<1>c. MinChunkSize \in Nat /\ MaxChunkSize \in Nat \ {0}
  BY ChunkerAssumption
<1>1. ASSUME ~faulted, NEW f \in Inputs, ReinitWithFile(f) PROVE RabinInv'
  <2>1. f \in Seq(Byte) /\ Len(f) \in Nat
    BY ChunkerAssumption
  <2>2. /\ looping' = TRUE /\ file' = f /\ live' = (f # <<>>) /\ chunks' = <<>>
        /\ file_read_ptr' = IF f = <<>> THEN file_read_ptr ELSE 0
        /\ remaining_file_len' = IF f = <<>> THEN remaining_file_len ELSE Len(f)
        /\ UNCHANGED <<next_chunk_id_, faulted, split>> /\ ~looping /\ rabin' = rabin_reset
    BY <1>1 DEF ReinitWithFile, MapFile
  <2>3. RabinTypeOK'
    BY <1>t, <2>1, <2>2 DEF RabinTypeOK
  <2>4. Covered(chunks') = 0 /\ Contiguous(chunks')
    BY <2>2 DEF Covered, Contiguous
  <2>5. FreshWindow' /\ Unmapped' /\ FaultsWhenStale'
    BY <1>1, <2>2 DEF FreshWindow, Unmapped, FaultsWhenStale, rabin_reset, rabin_slide
  <2>6. PointerAfterChunks'
    <3>1. live' => file_read_ptr' = 0
      BY <2>2
    <3>2. live' => file_read_ptr' = Covered(chunks')
      BY <2>4, <3>1
    <3> QED
      BY <2>2, <3>2 DEF PointerAfterChunks, Covered
  <2>7. Tiles'
    <3>1. live' => Covered(chunks') + remaining_file_len' = Len(file')
      <4>1. ASSUME live' PROVE Covered(chunks') + remaining_file_len' = Len(file')
        <5>1. remaining_file_len' = Len(f) /\ file' = f
          BY <2>2, <4>1
        <5> QED
          BY <2>1, <2>4, <5>1
      <4> QED
        BY <4>1
    <3> QED
      BY <2>4, <3>1 DEF Tiles, Contiguous, Covered
  <2>8. StaleLength'
    <3>1. CASE f = <<>>
      <4>1. remaining_file_len' = remaining_file_len /\ split' = split
        BY <2>2, <3>1
      <4>2. StaleLength
        BY DEF RabinInv
      <4> QED
        BY <2>2, <4>1, <4>2 DEF StaleLength, Covered
    <3>2. CASE f # <<>>
      BY <2>2, <3>2 DEF StaleLength
    <3> QED
      BY <3>1, <3>2
  <2>9. LosesOnlyTail'
    BY <2>2 DEF RabinInv, LosesOnlyTail, Covered
  <2> QED
    BY <2>3, <2>5, <2>6, <2>7, <2>8, <2>9 DEF RabinInv
<1>2. ASSUME ~faulted, EndOfFile, UNCHANGED rabin PROVE RabinInv'
  <2>1. /\ looping /\ remaining_file_len = 0 /\ ReturnNull
        /\ UNCHANGED <<file_read_ptr, remaining_file_len, faulted>>
    BY <1>2 DEF EndOfFile
  <2>2. Len(file) - Covered(chunks) = 0
    <3>1. CASE live
      <4>1. Covered(chunks) + 0 = Len(file)
        BY <2>1, <3>1 DEF RabinInv, Tiles
      <4> QED
        BY <1>t, <4>1
    <3>2. CASE ~live
      <4>1. file = <<>> /\ chunks = <<>>
        BY <2>1, <3>2 DEF RabinInv, Unmapped
      <4>2. Covered(chunks) = 0 /\ Len(file) = 0
        BY <4>1 DEF Covered
      <4> QED
        BY <4>2
    <3> QED
      BY <3>1, <3>2
  <2>3. /\ LosesOnlyTail' /\ split' \in Seq(Splits)
        /\ looping' = FALSE /\ UNCHANGED <<file, live, next_chunk_id_, chunks>>
    BY <2>1, <2>2, LeaveStep
  <2>4. RabinTypeOK'
    BY <1>t, <2>1, <2>3 DEF RabinTypeOK
  <2>5. FreshWindow' /\ PointerAfterChunks' /\ Unmapped' /\ StaleLength' /\ FaultsWhenStale'
    <3>1. ~(remaining_file_len' > 0) /\ ~faulted'
      BY <1>2, <2>1
    <3>2. Unmapped'
      BY <2>3 DEF RabinInv, Unmapped
    <3>3. PointerAfterChunks'
      BY <2>3, <3>1 DEF RabinInv, PointerAfterChunks
    <3> QED
      BY <2>3, <3>1, <3>2, <3>3 DEF FreshWindow, StaleLength, FaultsWhenStale
  <2>6. Tiles'
    BY <2>3 DEF RabinInv, Tiles, Contiguous
  <2> QED
    BY <2>3, <2>4, <2>5, <2>6 DEF RabinInv
<1>3. ASSUME ~faulted, ShortChunk, UNCHANGED rabin PROVE RabinInv'
  <2>1. /\ looping /\ remaining_file_len \in 1..MinChunkSize
        /\ remaining_file_len' = 0 /\ file_read_ptr' = file_read_ptr
        /\ Read(remaining_file_len) /\ ReturnChunk(remaining_file_len)
    BY <1>3 DEF ShortChunk
  <2>2. remaining_file_len \in 1..remaining_file_len /\ ~(remaining_file_len > MinChunkSize)
    BY <1>c, <2>1
  <2>3. UNCHANGED <<file, live, looping, split>>
    BY <2>1 DEF ReturnChunk
  <2>a. live
    BY <1>t, <2>1, <2>2 DEF RabinInv, StaleLength
  <2>4. /\ chunks' \in Seq(ChunkRefs) /\ Contiguous(chunks')
        /\ Covered(chunks') = Covered(chunks) + remaining_file_len
        /\ next_chunk_id_' \in Nat
        /\ next_chunk_id_' = (chunks'[Len(chunks')].id + 1) % IdSpace
        /\ faulted' = FALSE
        /\ Covered(chunks) + remaining_file_len = Len(file)
    BY <1>3, <2>1, <2>2, <2>a, ReturnStep
  <2>5. RabinTypeOK'
    BY <1>t, <2>1, <2>3, <2>4 DEF RabinTypeOK
  <2>6. PointerAfterChunks' /\ Unmapped' /\ StaleLength' /\ FaultsWhenStale'
    BY <2>1, <2>3, <2>4, <2>a DEF PointerAfterChunks, Unmapped, StaleLength, FaultsWhenStale
  <2>7. FreshWindow'
    BY <1>3, <2>3 DEF RabinInv, FreshWindow
  <2>8. Tiles'
    <3>1. Covered(chunks') + remaining_file_len' = Len(file')
      BY <1>t, <2>1, <2>3, <2>4
    <3> QED
      BY <2>4, <3>1 DEF Tiles, Contiguous, Covered
  <2>9. LosesOnlyTail'
    BY <2>3 DEF RabinInv, LosesOnlyTail, Covered
  <2> QED
    BY <2>5, <2>6, <2>7, <2>8, <2>9 DEF RabinInv
<1>4. ASSUME ~faulted, CutChunk PROVE RabinInv'
  <2>1. PICK size \in Stops :
          /\ Read(size) /\ ReturnChunk(size)
          /\ file_read_ptr' = file_read_ptr + size
          /\ remaining_file_len' = remaining_file_len - size
    BY <1>4 DEF CutChunk
  <2>2. looping /\ live /\ rabin' = rabin_reset
    BY <1>4 DEF CutChunk
  <2>3. size \in 1..remaining_file_len
    BY <1>t, <2>1, StopsBound
  <2>4. UNCHANGED <<file, live, looping, split>>
    BY <2>1 DEF ReturnChunk
  <2>5. /\ chunks' \in Seq(ChunkRefs) /\ Contiguous(chunks')
        /\ Covered(chunks') = Covered(chunks) + size
        /\ next_chunk_id_' \in Nat
        /\ next_chunk_id_' = (chunks'[Len(chunks')].id + 1) % IdSpace
        /\ faulted' = FALSE
        /\ file_read_ptr = Covered(chunks) /\ file_read_ptr \in Nat
        /\ Covered(chunks) + remaining_file_len = Len(file)
    BY <1>4, <2>1, <2>2, <2>3, ReturnStep
  <2>6. RabinTypeOK'
    <3>1. /\ remaining_file_len' \in Nat /\ file_read_ptr' \in Nat
          /\ faulted' \in BOOLEAN
      <4>1. file_read_ptr \in Nat /\ size \in Nat /\ remaining_file_len - size \in Nat
        BY <1>t, <2>3, <2>5
      <4>2. file_read_ptr' \in Nat
        BY <2>1, <4>1
      <4>3. remaining_file_len' \in Nat
        BY <2>1, <4>1
      <4> QED
        BY <2>5, <4>2, <4>3
    <3> QED
      BY <1>t, <2>4, <2>5, <3>1 DEF RabinTypeOK
  <2>7. PointerAfterChunks'
    BY <2>1, <2>5 DEF PointerAfterChunks, Covered
  <2>8. Unmapped' /\ StaleLength' /\ FaultsWhenStale' /\ FreshWindow'
    BY <2>2, <2>4, <2>5 DEF Unmapped, StaleLength, FaultsWhenStale, FreshWindow,
       rabin_reset, rabin_slide
  <2>9. Tiles'
    <3>1. Covered(chunks') + remaining_file_len' = Len(file')
      BY SMTT(30), <1>t, <2>1, <2>3, <2>4, <2>5
    <3> QED
      BY <2>5, <3>1 DEF Tiles, Contiguous, Covered
  <2>10. LosesOnlyTail'
    BY <2>4 DEF RabinInv, LosesOnlyTail, Covered
  <2> QED
    BY <2>6, <2>7, <2>8, <2>9, <2>10 DEF RabinInv
<1>5. ASSUME ~faulted, LoseTail PROVE RabinInv'
  <2>1. /\ looping /\ live /\ remaining_file_len > MinChunkSize /\ Stops = {}
        /\ Read(remaining_file_len) /\ ReturnNull
        /\ file_read_ptr' = file_read_ptr + remaining_file_len
        /\ remaining_file_len' = remaining_file_len
    BY <1>5 DEF LoseTail
  <2>2. remaining_file_len \in MinChunkSize + 1..MaxChunkSize - 1 /\ remaining_file_len > 0
    BY <1>t, <1>c, <2>1, StopsBound
  <2>3. /\ Covered(chunks) + remaining_file_len = Len(file)
        /\ file_read_ptr = Covered(chunks)
    BY <2>1, <2>2 DEF RabinInv, Tiles, PointerAfterChunks
  <2>4. Len(file) - Covered(chunks) = remaining_file_len /\ Covered(chunks) < Len(file)
        /\ file_read_ptr' \in Nat
    BY <1>t, <2>1, <2>2, <2>3
  <2>5. /\ LosesOnlyTail' /\ split' \in Seq(Splits) /\ split' # <<>>
        /\ split'[Len(split')] = [content |-> file, chunks |-> chunks]
        /\ looping' = FALSE /\ UNCHANGED <<file, live, next_chunk_id_, chunks>>
    BY <2>1, <2>2, <2>4, LeaveStep
  <2>6. faulted' = FALSE
    <3>1. ~(file_read_ptr + remaining_file_len > Len(file))
      BY <1>t, <2>3
    <3> QED
      BY <1>5, <2>1, <3>1 DEF Read
  <2>7. RabinTypeOK'
    BY <1>t, <2>1, <2>4, <2>5, <2>6 DEF RabinTypeOK
  <2>8. FreshWindow' /\ Unmapped' /\ FaultsWhenStale'
    BY <2>1, <2>5, <2>6 DEF FreshWindow, Unmapped, FaultsWhenStale
  <2>9. PointerAfterChunks'
    BY <2>5 DEF RabinInv, PointerAfterChunks
  <2>10. StaleLength'
    <3> DEFINE s == split'[Len(split')]
    <3>1. s.content = file /\ s.chunks = chunks
      BY <2>5
    <3>2. Covered(s.chunks) < Len(s.content)
      BY <2>4, <3>1
    <3> QED
      BY <2>1, <2>5, <3>2 DEF StaleLength, Covered
  <2>11. Tiles'
    BY <2>5 DEF RabinInv, Tiles, Contiguous
  <2> QED
    BY <2>5, <2>7, <2>8, <2>9, <2>10, <2>11 DEF RabinInv
<1>6. ASSUME ~faulted, StaleRead PROVE RabinInv'
  <2>1. /\ looping /\ ~live /\ remaining_file_len > MinChunkSize /\ faulted' = TRUE
        /\ UNCHANGED <<file, live, file_read_ptr, remaining_file_len, next_chunk_id_,
                       looping, chunks, split, rabin>>
    BY <1>6 DEF StaleRead, Read
  <2>2. RabinTypeOK'
    <3>1. faulted' \in BOOLEAN
      BY <2>1
    <3> QED
      BY <1>t, <2>1, <3>1 DEF RabinTypeOK
  <2>3. FaultsWhenStale'
    BY <1>t, <1>c, <2>1 DEF FaultsWhenStale
  <2>4. FreshWindow' /\ PointerAfterChunks' /\ Unmapped'
    BY <2>1 DEF RabinInv, FreshWindow, PointerAfterChunks, Unmapped, Covered,
       rabin_reset, rabin_slide
  <2>5. Tiles' /\ StaleLength' /\ LosesOnlyTail'
    BY <2>1 DEF RabinInv, Tiles, Contiguous, StaleLength, LosesOnlyTail, Covered
  <2> QED
    BY <2>2, <2>3, <2>4, <2>5 DEF RabinInv
<1>7. CASE UNCHANGED vars
  <2>1. UNCHANGED <<file, live, file_read_ptr, remaining_file_len, next_chunk_id_,
                    looping, chunks, faulted, split, rabin>>
    BY <1>7 DEF vars, fileVars
  <2>2. RabinTypeOK' /\ FaultsWhenStale'
    BY <2>1 DEF RabinInv, RabinTypeOK, FaultsWhenStale
  <2>4. FreshWindow' /\ PointerAfterChunks' /\ Unmapped'
    BY <2>1 DEF RabinInv, FreshWindow, PointerAfterChunks, Unmapped, Covered,
       rabin_reset, rabin_slide
  <2>5. Tiles' /\ StaleLength' /\ LosesOnlyTail'
    BY <2>1 DEF RabinInv, Tiles, Contiguous, StaleLength, LosesOnlyTail, Covered
  <2> QED
    BY <2>2, <2>4, <2>5 DEF RabinInv
<1> QED
  BY <1>1, <1>2, <1>3, <1>4, <1>5, <1>6, <1>7 DEF Next

\* The inductive invariant holds always.
LEMMA RabinInvariant == Spec => []RabinInv
BY RabinInit, RabinStep, PTL DEF Spec

\* Of a file RabinCDC loses at most a tail of more than MinChunkSize and less than
\* MaxChunkSize bytes, when the loop of GetNextChunk runs to the end of the file,
\* and it reads memory outside the file only where the length it kept of such a
\* tail is taken for that of a file that cannot be mapped.
THEOREM RabinLossContained == Spec => []LossContained
<1>1. RabinInv => LossContained
  <2> SUFFICES ASSUME RabinInv PROVE LossContained
    OBVIOUS
  <2>1. LosesOnlyTail
    BY DEF RabinInv
  <2>2. FaultsOnlyAfterLoss
    <3> SUFFICES ASSUME faulted
                 PROVE  /\ file = <<>> /\ split # <<>>
                        /\ \E k \in 1..Len(split) :
                             /\ Covered(split[k].chunks) < Len(split[k].content)
                             /\ \A j \in k + 1..Len(split) : split[j].content = <<>>
      BY DEF FaultsOnlyAfterLoss
    <3>1. looping /\ ~live /\ remaining_file_len > 0
      BY DEF RabinInv, FaultsWhenStale
    <3>2. file = <<>>
      BY <3>1 DEF RabinInv, Unmapped
    <3>3. /\ split # <<>>
          /\ Covered(split[Len(split)].chunks) < Len(split[Len(split)].content)
      BY <3>1 DEF RabinInv, StaleLength
    <3>4. split \in Seq(Splits)
      BY DEF RabinInv, RabinTypeOK
    <3>5. Len(split) \in 1..Len(split)
      BY <3>3, <3>4
    <3>6. \A j \in Len(split) + 1..Len(split) : split[j].content = <<>>
      BY <3>5
    <3> QED
      BY <3>2, <3>3, <3>5, <3>6
  <2> QED
    BY <2>1, <2>2 DEF LossContained
<1> QED
  BY <1>1, RabinInvariant, PTL

\* The digest that GetNextChunk looks at is the remainder of the last WINSIZE
\* bytes of the chunk, of the 1 that the reset slides in and of the zeros before:
\* out_table takes a byte out as if it had never been there, mod_table reduces as
\* mod does, and neither the chunks nor the files before leave anything behind.
THEOREM RabinDigest == Spec => []DigestOfWindow
<1>1. RabinInv => DigestOfWindow
  <2> SUFFICES ASSUME RabinInv, looping, live, NEW size \in 0..remaining_file_len
               PROVE  /\ Slid(size).digest = Remainder(Reference(size))
                      /\ WindowBytes(Slid(size)) = Reference(size)
    BY DEF DigestOfWindow
  <2> DEFINE bytes == BytesRead(size)
  <2>1. rabin = rabin_reset /\ file \in Seq(AllBytes)
    BY StopMaskAssumption DEF RabinInv, FreshWindow, RabinTypeOK
  <2>2. bytes \in Seq(AllBytes)
    <3>1. file_read_ptr \in Nat /\ size \in Nat
      BY DEF RabinInv, RabinTypeOK
    <3> QED
      BY <2>1, <3>1 DEF BytesRead
  <2>3. Slid(size) = SlideAll(rabin_reset, bytes)
    BY <2>1 DEF Slid
  <2>4. Reference(size)
          = SubSeq(Passed(bytes), Len(Passed(bytes)) - WINSIZE + 1, Len(Passed(bytes)))
    BY DEF Reference, Passed
  <2> HIDE DEF bytes
  <2>5. /\ Sound(SlideAll(rabin_reset, bytes))
        /\ WindowBytes(SlideAll(rabin_reset, bytes)) = Reference(size)
    BY <2>2, <2>4, SlideAllWindow
  <2> QED
    BY <2>3, <2>5 DEF Sound
<1> QED
  BY <1>1, RabinInvariant, PTL
-----------------------------------------------------------------------------
(* Where chunks end.                                                       *)

\* What follows the first off bytes of s.
After(s, off) == SubSeq(s, off + 1, Len(s))

\* The sizes at which a chunk may be cut off r, and how its size follows from r
\* alone.
StopsIn(r) ==
  {size \in 1..Len(r) :
     \/ size >= MinChunkSize
        /\ SlideAll(rabin_reset, SubSeq(r, 1, size)).digest \cap StopMask = {}
     \/ size >= MaxChunkSize}

SizeFor(r, size) ==
  IF Len(r) <= MinChunkSize THEN size = Len(r)
  ELSE size \in StopsIn(r) /\ \A other \in StopsIn(r) : size <= other

\* No chunk is cut off r: there is nothing left, or the loop runs to the end.
NoCut(r) == Len(r) = 0 \/ (Len(r) > MinChunkSize /\ StopsIn(r) = {})

\* Every chunk is cut off what follows its first byte.
CutByContent(content, cs) ==
  \A i \in 1..Len(cs) :
    /\ cs[i].off + cs[i].len <= Len(content)
    /\ SizeFor(After(content, cs[i].off), cs[i].len)

\* A file that was split into chunks.
WellSplit(s) ==
  /\ s.content \in Seq(Byte) /\ s.chunks \in Seq(ChunkRefs)
  /\ Contiguous(s.chunks) /\ Covered(s.chunks) <= Len(s.content)
  /\ CutByContent(s.content, s.chunks)
  /\ NoCut(After(s.content, Covered(s.chunks)))

\* The invariant: the file in hand and the files before are split by content.
ContentInv ==
  /\ CutByContent(file, chunks)
  /\ \A k \in 1..Len(split) : WellSplit(split[k])

\* What follows some bytes, and what follows more of them.
LEMMA AfterIs ==
  ASSUME NEW s \in Seq(Byte), NEW off \in 0..Len(s)
  PROVE  /\ After(s, off) \in Seq(Byte) /\ Len(After(s, off)) = Len(s) - off
         /\ \A i \in 1..Len(s) - off : After(s, off)[i] = s[off + i]
BY DEF After

LEMMA AfterAfter ==
  ASSUME NEW s \in Seq(Byte), NEW a \in Nat, NEW b \in Nat, a + b <= Len(s)
  PROVE  After(After(s, a), b) = After(s, a + b)
<1>1. a \in 0..Len(s) /\ a + b \in 0..Len(s) /\ Len(s) \in Nat
  OBVIOUS
<1>2. /\ After(s, a) \in Seq(Byte) /\ Len(After(s, a)) = Len(s) - a
      /\ \A i \in 1..Len(s) - a : After(s, a)[i] = s[a + i]
  BY <1>1, AfterIs
<1>3. /\ After(s, a + b) \in Seq(Byte) /\ Len(After(s, a + b)) = Len(s) - (a + b)
      /\ \A i \in 1..Len(s) - (a + b) : After(s, a + b)[i] = s[(a + b) + i]
  BY <1>1, AfterIs
<1> DEFINE r == After(s, a)
<1>4. r \in Seq(Byte) /\ b \in 0..Len(r)
  BY <1>1, <1>2
<1> HIDE DEF r
<1>5. /\ After(r, b) \in Seq(Byte) /\ Len(After(r, b)) = Len(r) - b
      /\ \A i \in 1..Len(r) - b : After(r, b)[i] = r[b + i]
  BY <1>4, AfterIs
<1>6. Len(r) - b = Len(s) - (a + b)
  BY <1>1, <1>2 DEF r
<1>7. ASSUME NEW i \in 1..Len(r) - b
      PROVE  After(r, b)[i] = After(s, a + b)[i]
  <2>1. i \in 1..Len(s) - (a + b) /\ b + i \in 1..Len(s) - a /\ a + (b + i) = (a + b) + i
    BY <1>1, <1>6
  <2>2. r[b + i] = s[a + (b + i)]
    BY <1>2, <2>1 DEF r
  <2>3. After(s, a + b)[i] = s[(a + b) + i]
    BY <1>3, <2>1
  <2> QED
    BY <1>5, <2>1, <2>2, <2>3
<1>8. Len(After(r, b)) = Len(After(s, a + b))
  BY <1>3, <1>5, <1>6
<1>9. \A i \in 1..Len(After(r, b)) : After(r, b)[i] = After(s, a + b)[i]
  BY <1>5, <1>7
<1>10. After(r, b) = After(s, a + b)
  BY <1>3, <1>5, <1>8, <1>9, SeqEqual
<1> QED
  BY <1>10 DEF r

\* The first bytes of what follows are bytes in the middle.
LEMMA MiddleIs ==
  ASSUME NEW s \in Seq(Byte), NEW a \in Nat, NEW size \in Nat, a + size <= Len(s)
  PROVE  SubSeq(After(s, a), 1, size) = SubSeq(s, a + 1, a + size)
<1>1. a \in 0..Len(s) /\ Len(s) \in Nat
  OBVIOUS
<1>2. /\ After(s, a) \in Seq(Byte) /\ Len(After(s, a)) = Len(s) - a
      /\ \A i \in 1..Len(s) - a : After(s, a)[i] = s[a + i]
  BY <1>1, AfterIs
<1> DEFINE r == After(s, a)
           x == SubSeq(r, 1, size)
           y == SubSeq(s, a + 1, a + size)
<1>3. r \in Seq(Byte) /\ size <= Len(r) /\ Len(r) \in Nat
  BY <1>1, <1>2
<1>4. y \in Seq(Byte) /\ Len(y) = size /\ \A i \in 1..size : y[i] = s[a + i]
  BY <1>1
<1> HIDE DEF r
<1>5. x \in Seq(Byte) /\ Len(x) = size /\ \A i \in 1..size : x[i] = r[i]
  BY <1>3
<1>6. \A i \in 1..size : i \in 1..Len(s) - a
  BY <1>1
<1>7. \A i \in 1..size : x[i] = y[i]
  BY <1>2, <1>4, <1>5, <1>6 DEF r
<1> HIDE DEF x, y
<1>8. x = y
  BY <1>4, <1>5, <1>7, SeqEqual
<1> QED
  BY <1>8 DEF x, y, r

\* What follows decides the size, and whether there is a chunk.
LEMMA SizeUnique ==
  ASSUME NEW r \in Seq(Byte), NEW a \in Nat, NEW b \in Nat,
         SizeFor(r, a), SizeFor(r, b)
  PROVE  a = b
<1>1. CASE Len(r) <= MinChunkSize
  BY <1>1 DEF SizeFor
<1>2. CASE ~(Len(r) <= MinChunkSize)
  <2>1. a \in StopsIn(r) /\ b \in StopsIn(r) /\ a <= b /\ b <= a
    BY <1>2 DEF SizeFor
  <2> QED
    BY <2>1
<1> QED
  BY <1>1, <1>2

LEMMA CutOrNot ==
  ASSUME NEW r \in Seq(Byte), NEW size, SizeFor(r, size), NoCut(r), Len(r) > 0
  PROVE  FALSE
<1>1. Len(r) > MinChunkSize /\ StopsIn(r) = {}
  BY DEF NoCut
<1>2. ~(Len(r) <= MinChunkSize)
  BY <1>1, ChunkerAssumption
<1> QED
  BY <1>1, <1>2 DEF SizeFor
-----------------------------------------------------------------------------
\* Where the chunks of a file that was split begin.
Off(s, i) == Covered(SubSeq(s.chunks, 1, i))

LEMMA OffIs ==
  ASSUME NEW s, WellSplit(s)
  PROVE  /\ Len(s.chunks) \in Nat /\ Len(s.content) \in Nat
         /\ Off(s, Len(s.chunks)) = Covered(s.chunks) /\ Covered(s.chunks) \in 0..Len(s.content)
         /\ \A i \in 0..Len(s.chunks) - 1 :
              /\ s.chunks[i + 1] \in ChunkRefs /\ s.chunks[i + 1].len > 0
              /\ Off(s, i) = s.chunks[i + 1].off
              /\ Off(s, i + 1) = Off(s, i) + s.chunks[i + 1].len
              /\ Off(s, i) \in Nat /\ Off(s, i + 1) <= Len(s.content)
              /\ SizeFor(After(s.content, Off(s, i)), s.chunks[i + 1].len)
<1> DEFINE cs == s.chunks
           n == Len(cs)
<1>1. /\ cs \in Seq(ChunkRefs) /\ Contiguous(cs) /\ Covered(cs) <= Len(s.content)
      /\ CutByContent(s.content, cs) /\ s.content \in Seq(Byte)
  BY DEF WellSplit
<1> HIDE DEF cs
<1>2. n \in Nat /\ Len(s.content) \in Nat
  BY <1>1
<1>3. SubSeq(cs, 1, n) = cs
  <2>1. SubSeq(cs, 1, n) \in Seq(ChunkRefs) /\ Len(SubSeq(cs, 1, n)) = n
        /\ \A i \in 1..n : SubSeq(cs, 1, n)[i] = cs[i]
    BY <1>1, <1>2
  <2> QED
    BY <1>1, <2>1, SeqEqual
<1>4. ASSUME NEW i \in 1..n
      PROVE  Covered(SubSeq(cs, 1, i)) = cs[i].off + cs[i].len
  <2> DEFINE p == SubSeq(cs, 1, i)
  <2>1. p \in Seq(ChunkRefs) /\ Len(p) = i /\ p[i] = cs[i]
    BY <1>1, <1>2
  <2> HIDE DEF p
  <2>2. p # <<>>
    BY <1>2, <2>1
  <2>3. Covered(p) = cs[i].off + cs[i].len
    BY <2>1, <2>2 DEF Covered
  <2> QED
    BY <2>3 DEF p
<1>5. Covered(SubSeq(cs, 1, 0)) = 0
  <2>1. SubSeq(cs, 1, 0) = <<>>
    BY <1>1
  <2> QED
    BY <2>1 DEF Covered
<1>6. ASSUME NEW i \in 0..n - 1
      PROVE  /\ cs[i + 1] \in ChunkRefs /\ cs[i + 1].len > 0
             /\ Off(s, i) = cs[i + 1].off
             /\ Off(s, i + 1) = Off(s, i) + cs[i + 1].len
             /\ Off(s, i) \in Nat /\ Off(s, i + 1) <= Len(s.content)
             /\ SizeFor(After(s.content, Off(s, i)), cs[i + 1].len)
  <2>1. i + 1 \in 1..n /\ (i + 1 = 1 <=> i = 0) /\ (i # 0 => i \in 1..n) /\ (i + 1) - 1 = i
    BY <1>2
  <2>2. cs[i + 1] \in ChunkRefs
    BY <1>1, <2>1
  <2>3. cs[i + 1].len > 0 /\ cs[i + 1].off = IF i = 0 THEN 0 ELSE cs[i].off + cs[i].len
    BY <1>1, <2>1 DEF Contiguous
  <2>4. Off(s, i) = cs[i + 1].off
    BY <1>4, <1>5, <2>1, <2>3 DEF Off, cs
  <2>5. Off(s, i + 1) = cs[i + 1].off + cs[i + 1].len
    BY <1>4, <2>1 DEF Off, cs
  <2>6. /\ cs[i + 1].off + cs[i + 1].len <= Len(s.content)
        /\ SizeFor(After(s.content, cs[i + 1].off), cs[i + 1].len)
    BY <1>1, <2>1 DEF CutByContent
  <2> QED
    BY <2>2, <2>3, <2>4, <2>5, <2>6 DEF ChunkRefs
<1>7. Off(s, n) = Covered(cs) /\ Covered(cs) \in 0..Len(s.content)
  <2>1. Covered(cs) \in Nat
    BY <1>1, CoveredNat
  <2>2. Off(s, n) = Covered(cs)
    BY <1>3 DEF Off, cs
  <2> QED
    BY <1>1, <1>2, <2>1, <2>2
<1> QED
  BY <1>2, <1>6, <1>7 DEF cs

\* The rest of a file after some of its chunks: after the last, what no chunk is
\* cut off, and otherwise what decides the next chunk and the rest after that.
LEMMA RestIs ==
  ASSUME NEW s, WellSplit(s), NEW i \in 0..Len(s.chunks)
  PROVE  /\ Rest(s, i) \in Seq(Byte)
         /\ i = Len(s.chunks) => NoCut(Rest(s, i))
         /\ i < Len(s.chunks) =>
              /\ Len(Rest(s, i)) > 0
              /\ s.chunks[i + 1].len \in Nat
              /\ SizeFor(Rest(s, i), s.chunks[i + 1].len)
              /\ Rest(s, i + 1) = After(Rest(s, i), s.chunks[i + 1].len)
<1> DEFINE n == Len(s.chunks)
           off == Off(s, i)
           c == s.content
           size == s.chunks[i + 1].len
<1>1. /\ n \in Nat /\ Len(c) \in Nat /\ Off(s, n) = Covered(s.chunks) /\ c \in Seq(Byte)
      /\ Covered(s.chunks) \in 0..Len(c) /\ NoCut(After(c, Covered(s.chunks)))
      /\ \A m \in 0..n - 1 :
           /\ s.chunks[m + 1] \in ChunkRefs /\ s.chunks[m + 1].len > 0
           /\ Off(s, m) = s.chunks[m + 1].off
           /\ Off(s, m + 1) = Off(s, m) + s.chunks[m + 1].len
           /\ Off(s, m) \in Nat /\ Off(s, m + 1) <= Len(c)
           /\ SizeFor(After(c, Off(s, m)), s.chunks[m + 1].len)
  BY OffIs DEF WellSplit
<1>2. \A m : Rest(s, m) = After(c, Off(s, m))
  BY DEF Rest, After, Off
<1>3. CASE i = n
  <2>1. After(c, Covered(s.chunks)) \in Seq(Byte)
    BY <1>1, AfterIs
  <2>2. Rest(s, i) = After(c, Covered(s.chunks))
    BY <1>1, <1>2, <1>3
  <2> QED
    BY <1>1, <1>3, <2>1, <2>2
<1>4. CASE i < n
  <2>1. i \in 0..n - 1
    BY <1>1, <1>4
  <2>2. /\ s.chunks[i + 1] \in ChunkRefs /\ size > 0
        /\ Off(s, i + 1) = off + size
        /\ off \in Nat /\ Off(s, i + 1) <= Len(c)
        /\ SizeFor(After(c, off), size)
    BY <1>1, <2>1
  <2>3. size \in Nat
    BY <2>2 DEF ChunkRefs
  <2> HIDE DEF off, size, n
  <2>4. off \in 0..Len(c) /\ off + size <= Len(c) /\ Len(c) - off > 0
    BY <1>1, <2>2, <2>3
  <2>5. After(c, off) \in Seq(Byte) /\ Len(After(c, off)) = Len(c) - off
    BY <1>1, <2>4, AfterIs
  <2>6. After(After(c, off), size) = After(c, off + size)
    BY <1>1, <2>2, <2>3, <2>4, AfterAfter
  <2>7. Rest(s, i) = After(c, off) /\ Rest(s, i + 1) = After(c, off + size)
    BY <1>2, <2>2 DEF off
  <2> QED
    BY <1>1, <1>4, <2>2, <2>3, <2>4, <2>5, <2>6, <2>7 DEF size, n
<1> QED
  BY <1>1, <1>3, <1>4

\* Files with the same rest are split in the same way from there on.
LEMMA SameRest ==
  ASSUME NEW s, WellSplit(s), NEW t, WellSplit(t),
         NEW i \in 0..Len(s.chunks), NEW j \in 0..Len(t.chunks),
         Rest(s, i) = Rest(t, j)
  PROVE  \A k \in 0..Len(s.chunks) - i :
           j + k <= Len(t.chunks) /\ Rest(s, i + k) = Rest(t, j + k)
<1> DEFINE n == Len(s.chunks)
           m == Len(t.chunks)
           Same(k) == j + k <= m /\ Rest(s, i + k) = Rest(t, j + k)
           Bad == {k \in 0..n - i : ~Same(k)}
<1>1. n \in Nat /\ m \in Nat /\ i \in Nat /\ j \in Nat /\ i <= n /\ j <= m
  BY OffIs
<1>2. Same(0)
  <2>1. i + 0 = i /\ j + 0 = j
    BY <1>1
  <2> QED
    BY <1>1, <2>1
<1> HIDE DEF n, m
<1>3. ASSUME NEW k \in 0..n - i, k + 1 \in 0..n - i, Same(k)
      PROVE  Same(k + 1)
  <2>1. /\ i + k \in 0..n /\ i + k < n /\ i + (k + 1) = (i + k) + 1
        /\ j + k \in 0..m /\ j + (k + 1) = (j + k) + 1
    BY <1>1, <1>3
  <2> DEFINE a == i + k
             b == j + k
  <2>2. Rest(s, a) = Rest(t, b) /\ a \in 0..n /\ a < n /\ b \in 0..m
    BY <1>3, <2>1
  <2> HIDE DEF a, b
  <2>3. /\ Len(Rest(s, a)) > 0 /\ s.chunks[a + 1].len \in Nat
        /\ SizeFor(Rest(s, a), s.chunks[a + 1].len) /\ Rest(s, a) \in Seq(Byte)
        /\ Rest(s, a + 1) = After(Rest(s, a), s.chunks[a + 1].len)
    BY <2>2, RestIs DEF n
  <2>4. b < m
    <3>1. b = m => NoCut(Rest(t, b))
      BY <2>2, RestIs DEF m
    <3>2. ~NoCut(Rest(s, a))
      BY <2>3, CutOrNot
    <3> QED
      BY <1>1, <2>2, <3>1, <3>2
  <2>5. /\ t.chunks[b + 1].len \in Nat
        /\ SizeFor(Rest(t, b), t.chunks[b + 1].len)
        /\ Rest(t, b + 1) = After(Rest(t, b), t.chunks[b + 1].len)
    BY <2>2, <2>4, RestIs DEF m
  <2>6. s.chunks[a + 1].len = t.chunks[b + 1].len
    BY <2>2, <2>3, <2>5, SizeUnique
  <2>7. Rest(s, a + 1) = Rest(t, b + 1) /\ b + 1 <= m
    BY <1>1, <2>2, <2>3, <2>4, <2>5, <2>6
  <2> QED
    BY <2>1, <2>7 DEF a, b
<1> HIDE DEF Same
<1>4. Bad = {}
  <2> SUFFICES ASSUME Bad # {} PROVE FALSE
    OBVIOUS
  <2>1. Bad \subseteq Nat
    BY <1>1
  <2>2. PICK k \in Bad : \A x \in Bad : k <= x
    BY <2>1, LeastNat
  <2>3. k # 0 /\ k \in 0..n - i /\ ~Same(k)
    BY <1>2, <2>2
  <2>4. k - 1 \in 0..n - i /\ (k - 1) + 1 = k /\ ~(k <= k - 1)
    BY <1>1, <2>3
  <2>5. Same(k - 1)
    BY <2>2, <2>4
  <2> QED
    BY <1>3, <2>3, <2>4, <2>5
<1>5. \A k \in 0..n - i : Same(k)
  BY <1>4
<1> QED
  BY <1>5 DEF Same, n, m

\* ... so that the sizes of their chunks are the same.
LEMMA SameSizes ==
  ASSUME NEW s, WellSplit(s), NEW t, WellSplit(t),
         NEW i \in 0..Len(s.chunks), NEW j \in 0..Len(t.chunks),
         Rest(s, i) = Rest(t, j)
  PROVE  RestSizes(s, i) = RestSizes(t, j)
<1> DEFINE n == Len(s.chunks)
           m == Len(t.chunks)
<1>1. n \in Nat /\ m \in Nat /\ i \in Nat /\ j \in Nat /\ i <= n /\ j <= m
  BY OffIs
<1>2. \A k \in 0..n - i : j + k <= m /\ Rest(s, i + k) = Rest(t, j + k)
  BY SameRest
<1> HIDE DEF n, m
<1>3. n - i = m - j
  <2>1. n - i \in 0..n - i /\ i + (n - i) = n
    BY <1>1
  <2>2. j + (n - i) <= m /\ Rest(s, n) = Rest(t, j + (n - i))
    BY <1>2, <2>1
  <2>3. n \in 0..n /\ j + (n - i) \in 0..m
    BY <1>1, <2>2
  <2>4. NoCut(Rest(s, n))
    BY <2>3, RestIs DEF n
  <2> DEFINE b == j + (n - i)
  <2>5. b \in 0..m /\ NoCut(Rest(t, b))
    BY <2>2, <2>3, <2>4
  <2> HIDE DEF b
  <2>6. ~(b < m)
    <3>1. b < m => /\ Len(Rest(t, b)) > 0 /\ Rest(t, b) \in Seq(Byte)
                   /\ SizeFor(Rest(t, b), t.chunks[b + 1].len)
      BY <2>5, RestIs DEF m
    <3> QED
      BY <2>5, <3>1, CutOrNot
  <2> QED
    BY <1>1, <2>5, <2>6 DEF b
<1>4. ASSUME NEW k \in 1..n - i
      PROVE  s.chunks[i + k].len = t.chunks[j + k].len
  <2> DEFINE a == i + (k - 1)
             b == j + (k - 1)
  <2>1. k - 1 \in 0..n - i /\ a \in 0..n /\ a < n /\ b \in 0..m /\ b < m
        /\ a + 1 = i + k /\ b + 1 = j + k
    BY <1>1, <1>3
  <2>2. Rest(s, a) = Rest(t, b)
    BY <1>2, <2>1
  <2> HIDE DEF a, b
  <2>3. /\ s.chunks[a + 1].len \in Nat /\ Rest(s, a) \in Seq(Byte)
        /\ SizeFor(Rest(s, a), s.chunks[a + 1].len)
    BY <2>1, RestIs DEF n
  <2>4. t.chunks[b + 1].len \in Nat /\ SizeFor(Rest(t, b), t.chunks[b + 1].len)
    BY <2>1, RestIs DEF m
  <2>5. s.chunks[a + 1].len = t.chunks[b + 1].len
    BY <2>2, <2>3, <2>4, SizeUnique
  <2> QED
    BY <2>1, <2>5
<1>5. [k \in 1..n - i |-> s.chunks[i + k].len] = [k \in 1..m - j |-> t.chunks[j + k].len]
  BY <1>3, <1>4
<1> QED
  BY <1>5 DEF RestSizes, n, m

\* While bytes are left of a mapped file they are the ones that follow the
\* pointer.
LEMMA LeftIs ==
  ASSUME RabinInv, looping, live, remaining_file_len > 0
  PROVE  /\ file \in Seq(Byte) /\ file_read_ptr \in Nat /\ remaining_file_len \in Nat
         /\ file_read_ptr + remaining_file_len = Len(file)
         /\ file_read_ptr = Covered(chunks)
         /\ After(file, file_read_ptr) \in Seq(Byte)
         /\ Len(After(file, file_read_ptr)) = remaining_file_len
<1>1. /\ file \in Seq(Byte) /\ file_read_ptr \in Nat /\ remaining_file_len \in Nat
      /\ Len(file) \in Nat
  BY DEF RabinInv, RabinTypeOK
<1>2. file_read_ptr = Covered(chunks)
  BY DEF RabinInv, PointerAfterChunks
<1>3. Covered(chunks) + remaining_file_len = Len(file)
  BY DEF RabinInv, Tiles
<1>4. file_read_ptr + remaining_file_len = Len(file) /\ file_read_ptr \in 0..Len(file)
  BY <1>1, <1>2, <1>3
<1>5. /\ After(file, file_read_ptr) \in Seq(Byte)
      /\ Len(After(file, file_read_ptr)) = Len(file) - file_read_ptr
  BY <1>1, <1>4, AfterIs
<1> QED
  BY <1>1, <1>2, <1>4, <1>5

\* The loop of GetNextChunk decides by what is left alone, since it starts with
\* the context of a reset.
LEMMA StopsAre ==
  ASSUME RabinInv, looping, live, remaining_file_len > 0
  PROVE  Stops = StopsIn(After(file, file_read_ptr))
<1> DEFINE r == After(file, file_read_ptr)
<1>1. /\ file \in Seq(Byte) /\ file_read_ptr \in Nat /\ remaining_file_len \in Nat
      /\ file_read_ptr + remaining_file_len = Len(file)
      /\ r \in Seq(Byte) /\ Len(r) = remaining_file_len
  BY LeftIs
<1>2. rabin = rabin_reset
  BY DEF RabinInv, FreshWindow
<1>3. ASSUME NEW x \in 1..remaining_file_len
      PROVE  Slid(x) = SlideAll(rabin_reset, SubSeq(r, 1, x))
  <2>1. x \in Nat /\ file_read_ptr + x <= Len(file)
    BY <1>1
  <2>2. SubSeq(After(file, file_read_ptr), 1, x)
          = SubSeq(file, file_read_ptr + 1, file_read_ptr + x)
    BY <1>1, <2>1, MiddleIs
  <2>3. BytesRead(x) = SubSeq(r, 1, x)
    BY <2>1, <2>2 DEF BytesRead
  <2> QED
    BY <1>2, <2>3 DEF Slid
<1> HIDE DEF r
<1> DEFINE P(x) == Slid(x).digest \cap StopMask = {}
           Q(x) == SlideAll(rabin_reset, SubSeq(r, 1, x)).digest \cap StopMask = {}
<1>4. \A x \in 1..remaining_file_len : P(x) <=> Q(x)
  BY <1>3
<1>5. Stops = {size \in 1..remaining_file_len :
                 (size >= MinChunkSize /\ P(size)) \/ size >= MaxChunkSize}
  BY DEF Stops
<1>6. StopsIn(r) = {size \in 1..Len(r) :
                      (size >= MinChunkSize /\ Q(size)) \/ size >= MaxChunkSize}
  BY DEF StopsIn
<1> HIDE DEF P, Q
<1>7. Stops = StopsIn(r)
  BY <1>1, <1>4, <1>5, <1>6
<1> QED
  BY <1>7 DEF r

\* Returning a chunk of the size that the bytes left decide.
LEMMA ReturnByContent ==
  ASSUME RabinInv, CutByContent(file, chunks), looping, live,
         NEW size \in 1..remaining_file_len,
         SizeFor(After(file, file_read_ptr), size), ReturnChunk(size)
  PROVE  CutByContent(file', chunks')
<1> DEFINE c == [off |-> file_read_ptr, len |-> size, id |-> next_chunk_id_]
<1>1. /\ chunks \in Seq(ChunkRefs) /\ next_chunk_id_ \in Nat /\ remaining_file_len \in Nat
      /\ file_read_ptr \in Nat
  BY DEF RabinInv, RabinTypeOK
<1>2. file_read_ptr + remaining_file_len = Len(file) /\ file \in Seq(Byte)
  BY <1>1, LeftIs
<1>3. c \in ChunkRefs /\ c.off = file_read_ptr /\ c.len = size
  BY <1>1 DEF ChunkRefs
<1>4. chunks' = Append(chunks, c) /\ file' = file
  BY DEF ReturnChunk
<1>5. file_read_ptr + size <= Len(file)
  BY <1>1, <1>2
<1> HIDE DEF c
<1>6. /\ Len(chunks') = Len(chunks) + 1 /\ chunks'[Len(chunks) + 1] = c
      /\ \A i \in 1..Len(chunks) : chunks'[i] = chunks[i]
  BY <1>1, <1>3, <1>4
<1> SUFFICES ASSUME NEW i \in 1..Len(chunks')
             PROVE  /\ chunks'[i].off + chunks'[i].len <= Len(file)
                    /\ SizeFor(After(file, chunks'[i].off), chunks'[i].len)
  BY <1>4 DEF CutByContent
<1>7. CASE i \in 1..Len(chunks)
  BY <1>6, <1>7 DEF CutByContent
<1>8. CASE i = Len(chunks) + 1
  BY <1>3, <1>5, <1>6, <1>8
<1> QED
  BY <1>1, <1>6, <1>7, <1>8

\* What the invariant says of the next state.
LEMMA ContentNext ==
  ASSUME CutByContent(file', chunks'), \A k \in 1..Len(split') : WellSplit(split'[k])
  PROVE  ContentInv'
BY DEF ContentInv

\* Leaving a file of which no other chunk is cut.
LEMMA LeaveByContent ==
  ASSUME RabinInv, ContentInv, ReturnNull, Covered(chunks) <= Len(file),
         NoCut(After(file, Covered(chunks)))
  PROVE  ContentInv'
<1>0. CutByContent(file, chunks) /\ \A k \in 1..Len(split) : WellSplit(split[k])
  BY DEF ContentInv
<1> DEFINE s == [content |-> file, chunks |-> chunks]
<1>1. split' = Append(split, s) /\ file' = file /\ chunks' = chunks
  BY DEF ReturnNull
<1>2. file \in Seq(Byte) /\ chunks \in Seq(ChunkRefs) /\ Contiguous(chunks)
      /\ split \in Seq(Splits)
  BY DEF RabinInv, RabinTypeOK, Tiles
<1>3. s \in Splits /\ s.content = file /\ s.chunks = chunks
  BY <1>2 DEF Splits
<1> HIDE DEF s
<1>4. /\ Len(split') = Len(split) + 1 /\ split'[Len(split) + 1] = s
      /\ \A k \in 1..Len(split) : split'[k] = split[k]
      /\ Len(split) \in Nat
  BY <1>1, <1>2, <1>3
<1>5. WellSplit(s)
  BY <1>0, <1>2, <1>3 DEF WellSplit
<1>6. \A k \in 1..Len(split') : WellSplit(split'[k])
  <2>1. \A k \in 1..Len(split') : k \in 1..Len(split) \/ k = Len(split) + 1
    BY <1>4
  <2> QED
    BY <1>0, <1>4, <1>5, <2>1
<1>7. CutByContent(file', chunks')
  BY <1>0, <1>1
<1> QED
  BY <1>6, <1>7, ContentNext

\* The invariant holds initially ...
LEMMA ContentInit == Init => ContentInv
<1> SUFFICES ASSUME Init PROVE ContentInv
  OBVIOUS
<1>1. Len(chunks) = 0 /\ Len(split) = 0
  BY DEF Init, ChunkerInit
<1> QED
  BY <1>1 DEF ContentInv, CutByContent

\* ... and every step keeps it.
LEMMA ContentStep == RabinInv /\ ContentInv /\ [Next]_vars => ContentInv'
<1> SUFFICES ASSUME RabinInv, ContentInv, [Next]_vars PROVE ContentInv'
  OBVIOUS
<1>0. CutByContent(file, chunks) /\ \A k \in 1..Len(split) : WellSplit(split[k])
  BY DEF ContentInv
<1>t. /\ remaining_file_len \in Nat /\ live \in BOOLEAN /\ MinChunkSize \in Nat
      /\ file \in Seq(Byte) /\ Len(file) \in Nat /\ chunks \in Seq(ChunkRefs)
      /\ Covered(chunks) \in Nat
  BY ChunkerAssumption, CoveredNat DEF RabinInv, RabinTypeOK
<1>1. ASSUME CutByContent(file', chunks'), split' = split PROVE ContentInv'
  <2>1. \A k \in 1..Len(split') : WellSplit(split'[k])
    BY <1>0, <1>1
  <2> QED
    BY <1>1, <2>1, ContentNext
<1>2. ASSUME NEW f \in Inputs, ReinitWithFile(f) PROVE ContentInv'
  <2>1. Len(chunks') = 0 /\ split' = split
    BY <1>2 DEF ReinitWithFile, MapFile
  <2>2. CutByContent(file', chunks')
    BY <2>1 DEF CutByContent
  <2> QED
    BY <1>1, <2>1, <2>2
<1>3. CASE EndOfFile
  <2>1. looping /\ remaining_file_len = 0 /\ ReturnNull
    BY <1>3 DEF EndOfFile
  <2>2. Covered(chunks) = Len(file)
    <3>1. CASE live
      <4>1. Covered(chunks) + 0 = Len(file)
        BY <2>1, <3>1 DEF RabinInv, Tiles
      <4> QED
        BY <1>t, <4>1
    <3>2. CASE ~live
      <4>1. file = <<>> /\ chunks = <<>>
        BY <2>1, <3>2 DEF RabinInv, Unmapped
      <4> QED
        BY <4>1 DEF Covered
    <3> QED
      BY <1>t, <3>1, <3>2
  <2>3. Len(After(file, Covered(chunks))) = 0
    <3>1. Covered(chunks) \in 0..Len(file) /\ Len(file) - Covered(chunks) = 0
      BY <1>t, <2>2
    <3> QED
      BY <1>t, <3>1, AfterIs
  <2> QED
    BY <1>t, <2>1, <2>2, <2>3, LeaveByContent DEF NoCut
<1>4. CASE ShortChunk
  <2>1. /\ looping /\ remaining_file_len \in 1..MinChunkSize
        /\ ReturnChunk(remaining_file_len)
    BY <1>4 DEF ShortChunk
  <2>2. remaining_file_len \in 1..remaining_file_len /\ remaining_file_len > 0
        /\ remaining_file_len <= MinChunkSize
    BY <1>t, <2>1
  <2>3. live
    <3>1. ~(remaining_file_len > MinChunkSize)
      BY <1>t, <2>2
    <3> QED
      BY <2>2, <3>1 DEF RabinInv, StaleLength
  <2>4. SizeFor(After(file, file_read_ptr), remaining_file_len)
    BY <2>1, <2>2, <2>3, LeftIs DEF SizeFor
  <2>5. CutByContent(file', chunks')
    BY <1>0, <2>1, <2>2, <2>3, <2>4, ReturnByContent
  <2>6. split' = split
    BY <2>1 DEF ReturnChunk
  <2> QED
    BY <1>1, <2>5, <2>6
<1>5. CASE CutChunk
  <2>1. looping /\ live /\ remaining_file_len > MinChunkSize
    BY <1>5 DEF CutChunk
  <2>2. PICK size \in Stops : /\ \A other \in Stops : size <= other
                              /\ ReturnChunk(size)
    BY <1>5 DEF CutChunk
  <2>3. size \in 1..remaining_file_len
    BY <2>2, StopsBound DEF RabinInv
  <2>4. remaining_file_len > 0
    BY <1>t, <2>1
  <2>5. /\ Len(After(file, file_read_ptr)) = remaining_file_len
        /\ Stops = StopsIn(After(file, file_read_ptr))
    BY <2>1, <2>4, LeftIs, StopsAre
  <2>6. SizeFor(After(file, file_read_ptr), size)
    <3>1. ~(Len(After(file, file_read_ptr)) <= MinChunkSize)
      BY <1>t, <2>1, <2>5
    <3> QED
      BY <2>2, <2>5, <3>1 DEF SizeFor
  <2>7. CutByContent(file', chunks')
    BY <1>0, <2>1, <2>2, <2>3, <2>6, ReturnByContent
  <2>8. split' = split
    BY <2>2 DEF ReturnChunk
  <2> QED
    BY <1>1, <2>7, <2>8
<1>6. CASE LoseTail
  <2>1. /\ looping /\ live /\ remaining_file_len > MinChunkSize /\ Stops = {} /\ ReturnNull
    BY <1>6 DEF LoseTail
  <2>2. remaining_file_len > 0
    BY <1>t, <2>1
  <2>3. /\ Len(After(file, Covered(chunks))) = remaining_file_len
        /\ StopsIn(After(file, Covered(chunks))) = {}
        /\ Covered(chunks) + remaining_file_len = Len(file)
    BY <2>1, <2>2, LeftIs, StopsAre
  <2>4. Covered(chunks) <= Len(file) /\ NoCut(After(file, Covered(chunks)))
    BY <1>t, <2>1, <2>3 DEF NoCut
  <2> QED
    BY <2>1, <2>4, LeaveByContent
<1>7. CASE StaleRead
  <2>1. UNCHANGED <<file, chunks, split>>
    BY <1>7 DEF StaleRead
  <2> QED
    BY <1>0, <1>1, <2>1
<1>8. CASE UNCHANGED vars
  <2>1. UNCHANGED <<file, chunks, split>>
    BY <1>8 DEF vars, fileVars
  <2> QED
    BY <1>0, <1>1, <2>1
<1> QED
  BY <1>2, <1>3, <1>4, <1>5, <1>6, <1>7, <1>8 DEF Next

\* Where RabinCDC ends a chunk is decided by what follows the chunk before: the
\* same bytes are split in the same way in every file and at every offset, and
\* the tail that one of them loses the other loses too.
THEOREM RabinContentDefined == Spec => []ContentDefined
<1>1. ContentInv => ContentDefined
  <2> SUFFICES ASSUME ContentInv, NEW s \in {split[k] : k \in 1..Len(split)},
                      NEW t \in {split[k] : k \in 1..Len(split)},
                      NEW i \in 0..Len(s.chunks), NEW j \in 0..Len(t.chunks),
                      Rest(s, i) = Rest(t, j)
               PROVE  RestSizes(s, i) = RestSizes(t, j)
    BY DEF ContentDefined
  <2>1. WellSplit(s) /\ WellSplit(t)
    BY DEF ContentInv
  <2> QED
    BY <2>1, SameSizes
<1>2. Spec => []ContentInv
  BY RabinInvariant, ContentInit, ContentStep, PTL DEF Spec
<1> QED
  BY <1>1, <1>2, PTL
=============================================================================
