----------------------- MODULE Xd3AddressSync_proofs -----------------------
(***************************************************************************)
(* Proof that the decoder of copy addresses follows the encoder, for every *)
(* code table (s_near, s_same), every width of a byte, of a digit and of   *)
(* usize_t, and deltas of any length.                                      *)
(***************************************************************************)
EXTENDS Xd3AddressSync, WellFoundedInduction, TLAPS

\* Every set of natural numbers that is not empty has a least element.
LEMMA LeastNat ==
  ASSUME NEW T, T \subseteq Nat, T # {}
  PROVE  \E x \in T : \A y \in T : x <= y
<1>1. PICK x \in T : \A y \in T : ~ (<<y, x>> \in OpToRel(<, Nat))
  BY NatLessThanWellFounded, WFMin
<1>2. \A y \in T : <<y, x>> \in OpToRel(<, Nat) <=> y < x
  BY DEF OpToRel
<1>3. \A y \in T : ~ (y < x)
  BY <1>1, <1>2, Zenon
<1> QED
  BY <1>3

\* The lengths of source windows are numbers of type usize_t, the sizes of
\* instructions any numbers.
Sized == SourceLengths \subseteq 0 .. USize - 1 /\ Sizes \subseteq Nat

State == [cache : Cache, here : 0 .. USize - 1]
Entry == [kind : {"window"}, here : 0 .. USize - 1, was : State]
    \cup [kind : {"other"}, size : Nat, was : State]
    \cup [kind : {"copy"}, mode : Nat, val : Nat, size : Nat, addr : Nat, was : State]

\* The state of the encoder after entry k of the delta.
After(k) == IF k = Len(delta) THEN enc ELSE delta[k + 1].was

\* What a decoder in the state the encoder was in makes of entry x is the
\* state next, and it takes the address the copy was encoded from.
Leads(x, next) ==
    /\ x.kind = "window" => next = [cache |-> InitCache, here |-> x.here]
    /\ x.kind = "other" => next = [cache |-> x.was.cache, here |-> (x.was.here + x.size) % USize]
    /\ x.kind = "copy" =>
         /\ next = [cache |-> UpdateCache(x.was.cache, x.addr),
                     here |-> (x.was.here + x.size) % USize]
         /\ DecodeAddress(x.was.cache, x.was.here, x.mode, x.val) = x.addr

SyncTypeOK ==
    /\ enc \in State
    /\ dec \in State
    /\ delta \in Seq(Entry)
    /\ pos \in 0 .. Len(delta)

\* The decoder is where the encoder was when it wrote the next entry.
SyncInv ==
    /\ SyncTypeOK
    /\ \A k \in 1 .. Len(delta) : Leads(delta[k], After(k))
    /\ dec = After(pos)

\* FirstMode picks a member of any set of modes that has one.
LEMMA FirstModeIn ==
  ASSUME NEW S, S \subseteq Nat, S # {}
  PROVE  FirstMode(S) \in S
PROOF
  BY LeastNat DEF FirstMode

\* A cache stays a cache.
LEMMA UpdateCacheType ==
  ASSUME NEW c \in Cache, NEW addr \in Nat
  PROVE  UpdateCache(c, addr) \in Cache
PROOF
  <1>1. /\ c.near \in [0 .. s_near - 1 -> Nat]
        /\ c.next_slot \in Nat
        /\ c.same \in [0 .. SameSlots - 1 -> Nat]
    BY DEF Cache
  <1>2. s_near > 0 => (c.next_slot + 1) % s_near \in Nat
    BY <1>1, CacheAssumption
  <1>3. \A i : [c.near EXCEPT ![i] = addr] \in [0 .. s_near - 1 -> Nat]
    BY <1>1, Zenon
  <1>4. \A i : [c.same EXCEPT ![i] = addr] \in [0 .. SameSlots - 1 -> Nat]
    BY <1>1, Zenon
  <1>5. QED
    BY <1>1, <1>2, <1>3, <1>4, CacheAssumption DEF UpdateCache, Cache

\* The cache that every window starts with (xd3_init_cache) is a cache.
LEMMA InitCacheType == InitCache \in Cache
PROOF
  BY CacheAssumption DEF InitCache, Cache, SameSlots

\* The element of a set of numbers' image that is least belongs to it: of
\* the usable modes one sends the smallest value.
LEMMA LeastDistance ==
  ASSUME NEW S, S # {}, NEW d, \A m \in S : d[m] \in Nat
  PROVE  {m \in S : \A n \in S : d[m] <= d[n]} # {}
PROOF
  <1>1. PICK v \in {d[m] : m \in S} : \A w \in {d[m] : m \in S} : v <= w
    <2>1. {d[m] : m \in S} \subseteq Nat
      OBVIOUS
    <2>2. {d[m] : m \in S} # {}
      OBVIOUS
    <2>3. QED
      BY <2>1, <2>2, LeastNat
  <1>2. PICK m \in S : v = d[m]
    BY <1>1
  <1>3. \A n \in S : d[m] <= d[n]
    BY <1>1, <1>2
  <1>4. QED
    BY <1>2, <1>3

\* A number of type usize_t is stored as it is.
LEMMA SmallRemainder ==
  ASSUME NEW m \in 0 .. USize - 1
  PROVE  m % USize = m
PROOF
  BY CacheAssumption

\* Every sum is stored as a number of type usize_t.
LEMMA RemainderType ==
  ASSUME NEW n \in Nat
  PROVE  n % USize \in 0 .. USize - 1
PROOF
  BY CacheAssumption

\* The address a decoder with the same cache and position makes of what
\* xd3_encode_address sends is the one that was encoded.
LEMMA EncodeDecode ==
  ASSUME NEW c \in Cache, NEW here \in 0 .. USize - 1, NEW addr \in 0 .. here - 1
  PROVE  LET a == EncodeAddress(c, addr, here)
         IN  /\ a.mode \in Nat
             /\ a.val \in Nat
             /\ DecodeAddress(c, here, a.mode, a.val) = addr
PROOF
  <1> DEFINE d(m) == Distance(c, addr, here, m)
             usable == {m \in 0 .. SameStart - 1 : Usable(c, addr, m)}
             short == {m \in usable : d(m) < Radix}
             least == {m \in usable : \A n \in usable : d(m) <= d(n)}
             slot == addr % SameSlots
             sent(m) == [mode |-> m, val |-> d(m)]
             a == EncodeAddress(c, addr, here)
  <1>1. \A m \in usable : /\ m \in Nat
                           /\ d(m) \in Nat
                           /\ DecodeAddress(c, here, m, d(m)) = addr
    <2> SUFFICES ASSUME NEW m \in usable
                 PROVE  /\ m \in Nat
                        /\ d(m) \in Nat
                        /\ DecodeAddress(c, here, m, d(m)) = addr
      OBVIOUS
    <2>1. m \in 0 .. SameStart - 1 /\ SameStart \in Nat /\ SameStart = 2 + s_near
      BY CacheAssumption DEF SameStart
    <2>2. CASE m = 0
      BY <2>1, <2>2 DEF Distance, DecodeAddress
    <2>3. CASE m = 1
      <3>1. d(m) = here - addr /\ DecodeAddress(c, here, m, d(m)) = (here - d(m)) % USize
        BY <2>3 DEF Distance, DecodeAddress
      <3>2. d(m) \in Nat /\ here - d(m) = addr /\ addr \in 0 .. USize - 1
        <4> HIDE DEF d
        <4>1. QED BY <3>1, CacheAssumption
      <3>3. QED
        BY <2>1, <3>1, <3>2, SmallRemainder
    <2>4. CASE m \notin {0, 1}
      <3>1. m \in 2 .. SameStart - 1 /\ m - 2 \in 0 .. s_near - 1
        BY <2>1, <2>4, CacheAssumption
      <3>2. c.near[m - 2] \in Nat /\ addr >= c.near[m - 2]
        <4>1. c.near \in [0 .. s_near - 1 -> Nat]
          BY DEF Cache
        <4>2. Usable(c, addr, m)
          OBVIOUS
        <4>3. addr >= c.near[m - 2]
          BY <3>1, <4>2 DEF Usable
        <4>4. QED
          BY <3>1, <4>1, <4>3
      <3>3. d(m) = addr - c.near[m - 2]
        BY <3>1 DEF Distance
      <3>4. DecodeAddress(c, here, m, d(m)) = (c.near[m - 2] + d(m)) % USize
        BY <3>1 DEF DecodeAddress
      <3>5. d(m) \in Nat /\ c.near[m - 2] + d(m) = addr /\ addr \in 0 .. USize - 1
        <4> HIDE DEF d
        <4>1. QED BY <3>2, <3>3, CacheAssumption
      <3>6. QED
        BY <2>1, <3>4, <3>5, SmallRemainder
    <2>5. QED
      BY <2>2, <2>3, <2>4
  <1>2. usable # {}
    <2>1. 0 \in 0 .. SameStart - 1
      BY CacheAssumption DEF SameStart
    <2>2. QED
      BY <2>1 DEF Usable
  <1>3. CASE short # {}
    <2>1. FirstMode(short) \in short
      BY <1>1, <1>3, FirstModeIn
    <2>2. a = sent(FirstMode(short))
      BY <1>3 DEF EncodeAddress
    <2>3. QED
      BY <1>1, <2>1, <2>2
  <1>4. CASE short = {} /\ s_same > 0 /\ c.same[slot] = addr
    <2>1. a = [mode |-> SameStart + (slot \div Bytes), val |-> slot % Bytes]
      BY <1>4 DEF EncodeAddress
    <2>2. slot \in Nat /\ SameStart \in Nat /\ SameStart >= 2
      BY <1>4, CacheAssumption DEF SameStart, SameSlots
    <2>3. slot \div Bytes \in Nat /\ slot % Bytes \in Nat
      BY <2>2, CacheAssumption
    <2>4. (slot \div Bytes) * Bytes + (slot % Bytes) = slot
      <3> HIDE DEF slot
      <3>1. \A x \in Nat, b \in Nat \ {0} : (x \div b) * b + (x % b) = x
        BY Z3
      <3>2. QED
        BY <2>2, <3>1, CacheAssumption
    <2>5. DecodeAddress(c, here, a.mode, a.val) = c.same[(a.mode - SameStart) * Bytes + a.val]
      <3>1. a.mode \in Nat /\ a.mode >= SameStart
        BY <2>1, <2>2, <2>3
      <3>2. a.mode \notin {0, 1} /\ a.mode \notin 2 .. SameStart - 1
        BY <3>1, <2>2
      <3>3. QED
        BY <3>2 DEF DecodeAddress
    <2>6. a.mode - SameStart = slot \div Bytes
      BY <2>1, <2>2, <2>3
    <2>7. QED
      BY <1>4, <2>1, <2>2, <2>3, <2>4, <2>5, <2>6
  <1>5. CASE short = {} /\ ~ (s_same > 0 /\ c.same[slot] = addr)
    <2>1. least # {}
      <3> DEFINE f == [m \in usable |-> d(m)]
      <3>1. \A m \in usable : f[m] = d(m)
        OBVIOUS
      <3>2. {m \in usable : \A n \in usable : f[m] <= f[n]} # {}
        <4> HIDE DEF f, usable, d
        <4>1. \A m \in usable : f[m] \in Nat
          BY <1>1, <3>1
        <4>2. QED
          BY <1>2, <4>1, LeastDistance
      <3>3. QED
        BY <3>1, <3>2
    <2>2. FirstMode(least) \in least
      <3>1. least \subseteq Nat
        BY <1>1
      <3>2. QED
        BY <2>1, <3>1, FirstModeIn
    <2>3. a = sent(FirstMode(least))
      BY <1>5 DEF EncodeAddress
    <2>4. QED
      BY <1>1, <2>2, <2>3
  <1>6. QED
    BY <1>3, <1>4, <1>5

\* Appending an entry that leads from enc to the new state of the encoder
\* keeps the invariant; the decoder is not disturbed.
LEMMA AppendKeeps ==
  ASSUME SyncInv, NEW x \in Entry, NEW next \in State,
         x.was = enc, Leads(x, next),
         enc' = next, delta' = Append(delta, x), dec' = dec, pos' = pos
  PROVE  SyncInv'
PROOF
  <1>1. /\ delta \in Seq(Entry)
        /\ delta' \in Seq(Entry)
        /\ Len(delta') = Len(delta) + 1
        /\ Len(delta) \in Nat
        /\ \A k \in 1 .. Len(delta) : delta'[k] = delta[k]
        /\ delta'[Len(delta) + 1] = x
    BY DEF SyncInv, SyncTypeOK
  <1>2. pos \in 0 .. Len(delta)
    BY DEF SyncInv, SyncTypeOK
  <1>3. \A k \in 0 .. Len(delta) : After(k)' = After(k)
    <2> SUFFICES ASSUME NEW k \in 0 .. Len(delta)
                 PROVE  After(k)' = After(k)
      OBVIOUS
    <2>1. After(k)' = delta'[k + 1].was
      BY <1>1 DEF After
    <2>2. CASE k = Len(delta)
      BY <1>1, <2>1, <2>2 DEF After
    <2>3. CASE k # Len(delta)
      BY <1>1, <2>1, <2>3 DEF After
    <2>4. QED
      BY <2>2, <2>3
  <1>4. SyncTypeOK'
    BY <1>1, <1>2 DEF SyncInv, SyncTypeOK
  <1>5. \A k \in 1 .. Len(delta') : Leads(delta'[k], After(k)')
    <2> SUFFICES ASSUME NEW k \in 1 .. Len(delta')
                 PROVE  Leads(delta'[k], After(k)')
      OBVIOUS
    <2>1. CASE k = Len(delta) + 1
      <3>1. After(k)' = next
        BY <1>1, <2>1 DEF After
      <3>2. QED
        BY <1>1, <2>1, <3>1
    <2>2. CASE k \in 1 .. Len(delta)
      <3>1. Leads(delta[k], After(k))
        BY <2>2 DEF SyncInv
      <3>2. QED
        BY <1>1, <1>3, <2>2, <3>1
    <2>3. QED
      BY <1>1, <2>1, <2>2
  <1>6. dec' = After(pos)'
    BY <1>2, <1>3 DEF SyncInv
  <1>7. (\A k \in 1 .. Len(delta) : Leads(delta[k], After(k)))'
    BY <1>5 DEF Leads
  <1>8. QED
    BY <1>4, <1>6, <1>7 DEF SyncInv

\* Reading the next entry takes the decoder to where the encoder went.
LEMMA DecodeKeeps ==
  ASSUME SyncInv, DecodeEntry
  PROVE  SyncInv'
PROOF
  <1> DEFINE x == delta[pos + 1]
  <1>1. /\ pos \in Nat
        /\ pos + 1 \in 1 .. Len(delta)
        /\ Len(delta) \in Nat
        /\ x \in Entry
        /\ pos' = pos + 1
        /\ enc' = enc
        /\ delta' = delta
    BY DEF SyncInv, SyncTypeOK, DecodeEntry
  <1>2. dec = x.was
    BY <1>1 DEF SyncInv, After
  <1>3. Leads(x, After(pos + 1))
    BY <1>1 DEF SyncInv
  <1>4. dec' = After(pos + 1)
    <2>1. x.kind \in {"window", "other", "copy"}
      BY <1>1 DEF Entry
    <2>2. CASE x.kind = "window"
      <3>1. dec' = [cache |-> InitCache, here |-> x.here]
        BY <2>2 DEF DecodeEntry
      <3>2. QED
        BY <2>2, <3>1, <1>3 DEF Leads
    <2>3. CASE x.kind = "other"
      <3>1. dec' = [dec EXCEPT !.here = (@ + x.size) % USize]
        BY <2>3 DEF DecodeEntry
      <3>2. dec \in State
        BY DEF SyncInv, SyncTypeOK
      <3>3. dec' = [cache |-> dec.cache, here |-> (dec.here + x.size) % USize]
        BY <3>1, <3>2 DEF State
      <3>4. QED
        BY <2>3, <3>3, <1>2, <1>3 DEF Leads
    <2>4. CASE x.kind = "copy"
      <3>1. dec' = [cache |-> UpdateCache(dec.cache, DecodeAddress(dec.cache, dec.here, x.mode, x.val)),
                    here |-> (dec.here + x.size) % USize]
        BY <2>4 DEF DecodeEntry
      <3>2. QED
        BY <2>4, <3>1, <1>2, <1>3 DEF Leads
    <2>5. QED
      BY <2>1, <2>2, <2>3, <2>4
  <1>5. \A k \in 0 .. Len(delta) : After(k)' = After(k)
    BY <1>1 DEF After
  <1>6. After(pos + 1) \in State
    <2>1. CASE pos + 1 = Len(delta)
      BY <2>1 DEF After, SyncInv, SyncTypeOK
    <2>2. CASE pos + 1 # Len(delta)
      <3>1. delta[pos + 2] \in Entry
        BY <1>1, <2>2 DEF SyncInv, SyncTypeOK
      <3>2. delta[pos + 2].was \in State
        BY <3>1 DEF Entry
      <3>3. After(pos + 1) = delta[pos + 2].was
        BY <1>1, <2>2 DEF After
      <3>4. QED
        BY <3>2, <3>3
    <2>3. QED
      BY <2>1, <2>2
  <1>7. SyncTypeOK'
    BY <1>1, <1>4, <1>6 DEF SyncInv, SyncTypeOK
  <1>8. (\A k \in 1 .. Len(delta) : Leads(delta[k], After(k)))'
    <2>1. \A k \in 1 .. Len(delta) : Leads(delta[k], After(k)')
      BY <1>5, <1>1 DEF SyncInv
    <2>2. QED
      BY <1>1, <2>1 DEF Leads
  <1>9. After(pos)' = After(pos + 1)
    BY <1>1 DEF After
  <1>10. QED
    BY <1>4, <1>7, <1>8, <1>9 DEF SyncInv

\* The decoder follows the encoder: SyncInv is an invariant of Spec.
THEOREM DecoderFollows ==
  ASSUME Sized
  PROVE  Spec => []SyncInv
PROOF
  <1>1. Init => SyncInv
    <2> SUFFICES ASSUME Init PROVE SyncInv
      OBVIOUS
    <2>1. Start \in State
      BY InitCacheType, CacheAssumption DEF Start, State
    <2>2. SyncTypeOK
      BY <2>1 DEF Init, SyncTypeOK
    <2>3. Len(delta) = 0 /\ dec = After(pos)
      BY DEF Init, After
    <2>4. QED
      BY <2>2, <2>3 DEF SyncInv
  <1>2. SyncInv /\ [Next]_vars => SyncInv'
    <2> SUFFICES ASSUME SyncInv, [Next]_vars PROVE SyncInv'
      OBVIOUS
    <2>1. ASSUME NEW srclen \in SourceLengths, EncodeWindow(srclen) PROVE SyncInv'
      <3> DEFINE x == [kind |-> "window", here |-> srclen, was |-> enc]
                 next == [cache |-> InitCache, here |-> srclen]
      <3>1. srclen \in 0 .. USize - 1 /\ enc \in State
        BY Sized DEF Sized, SyncInv, SyncTypeOK
      <3>2. x \in Entry /\ next \in State
        BY <3>1, InitCacheType DEF Entry, State
      <3>3. x.was = enc /\ Leads(x, next)
        BY DEF Leads
      <3>4. enc' = next /\ delta' = Append(delta, x) /\ dec' = dec /\ pos' = pos
        BY <2>1 DEF EncodeWindow
      <3>5. QED
        <4> HIDE DEF x, next
        <4>1. QED BY <3>2, <3>3, <3>4, AppendKeeps
    <2>2. ASSUME NEW addr \in 0 .. enc.here - 1, NEW size \in Sizes, EncodeCopy(addr, size)
          PROVE  SyncInv'
      <3> DEFINE a == EncodeAddress(enc.cache, addr, enc.here)
                 x == [kind |-> "copy", mode |-> a.mode, val |-> a.val,
                       size |-> size, addr |-> addr, was |-> enc]
                 next == [cache |-> UpdateCache(enc.cache, addr), here |-> (enc.here + size) % USize]
      <3>1. /\ size \in Nat /\ enc \in State /\ enc.cache \in Cache
            /\ enc.here \in 0 .. USize - 1 /\ addr \in Nat
        BY Sized DEF Sized, SyncInv, SyncTypeOK, State
      <3> (enc.here + size) % USize \in 0 .. USize - 1
        <4>1. enc.here + size \in Nat
          BY <3>1, CacheAssumption
        <4>2. QED BY <4>1, RemainderType
      <3>2. /\ a.mode \in Nat
            /\ a.val \in Nat
            /\ DecodeAddress(enc.cache, enc.here, a.mode, a.val) = addr
        BY <3>1, EncodeDecode
      <3>3. UpdateCache(enc.cache, addr) \in Cache
        BY <3>1, UpdateCacheType
      <3>4. x \in Entry /\ next \in State
        <4> HIDE DEF a
        <4>1. QED BY <3>1, <3>2, <3>3 DEF Entry, State
      <3>5. x.was = enc /\ Leads(x, next)
        <4> HIDE DEF a
        <4>1. QED BY <3>2 DEF Leads
      <3>6. enc' = next /\ delta' = Append(delta, x) /\ dec' = dec /\ pos' = pos
        BY <2>2 DEF EncodeCopy
      <3>7. QED
        <4> HIDE DEF x, next
        <4>1. QED BY <3>4, <3>5, <3>6, AppendKeeps
    <2>3. ASSUME NEW size \in Sizes, EncodeOther(size) PROVE SyncInv'
      <3> DEFINE x == [kind |-> "other", size |-> size, was |-> enc]
                 next == [cache |-> enc.cache, here |-> (enc.here + size) % USize]
      <3>1. size \in Nat /\ enc \in State /\ enc.here \in 0 .. USize - 1
        BY Sized DEF Sized, SyncInv, SyncTypeOK, State
      <3> (enc.here + size) % USize \in 0 .. USize - 1
        <4>1. enc.here + size \in Nat
          BY <3>1, CacheAssumption
        <4>2. QED BY <4>1, RemainderType
      <3>2. x \in Entry /\ next \in State
        BY <3>1 DEF Entry, State
      <3>3. x.was = enc /\ Leads(x, next)
        BY DEF Leads
      <3>4. enc' = next /\ delta' = Append(delta, x) /\ dec' = dec /\ pos' = pos
        BY <2>3, <3>1 DEF EncodeOther, State
      <3>5. QED
        <4> HIDE DEF x, next
        <4>1. QED BY <3>2, <3>3, <3>4, AppendKeeps
    <2>4. CASE DecodeEntry
      BY <2>4, DecodeKeeps
    <2>5. CASE UNCHANGED vars
      BY <2>5 DEF vars, SyncInv, SyncTypeOK, After, Leads
    <2>6. QED
      BY <2>1, <2>2, <2>3, <2>4, <2>5 DEF Next
  <1>3. QED
    BY <1>1, <1>2, PTL DEF Spec

\* Every copy is decoded to the address it was encoded from, however far
\* the decoder lags behind and whatever modes were chosen.
THEOREM AddressesAgreeAlways ==
  ASSUME Sized
  PROVE  Spec => []AddressesAgree
PROOF
  <1>1. SyncInv => AddressesAgree
    <2> SUFFICES ASSUME SyncInv, pos < Len(delta), delta[pos + 1].kind = "copy"
                 PROVE  NextAddress = delta[pos + 1].addr
      BY DEF AddressesAgree
    <2>1. pos \in Nat /\ Len(delta) \in Nat /\ pos + 1 \in 1 .. Len(delta)
      BY DEF SyncInv, SyncTypeOK
    <2>2. dec = delta[pos + 1].was
      BY <2>1 DEF SyncInv, After
    <2>3. Leads(delta[pos + 1], After(pos + 1))
      BY <2>1 DEF SyncInv
    <2>4. QED
      BY <2>2, <2>3 DEF Leads, NextAddress
  <1>2. QED
    BY <1>1, DecoderFollows, PTL

\* A decoder that has read everything has the cache and the position of the
\* encoder.
THEOREM CachesMeetAlways ==
  ASSUME Sized
  PROVE  Spec => []CachesMeet
PROOF
  <1>1. SyncInv => CachesMeet
    BY DEF SyncInv, After, CachesMeet
  <1>2. QED
    BY <1>1, DecoderFollows, PTL
=============================================================================
