------------------------- MODULE FeatureIndex_proofs -------------------------
(***************************************************************************)
(* Proofs about both indexes of FeatureIndex and what is computed for      *)
(* them, for every set of chunks, every feature table and any number of    *)
(* chunks that are sought and become bases in any order.  The inductive    *)
(* invariant is ChoiceInv: the tables of Palantir's index hold the entries *)
(* of the base chunks and no others, and no two bases have an entry in     *)
(* common; the lists of the best-fit index hold the ids of the bases with  *)
(* the feature, and no two bases have MinMatch features in common.         *)
(***************************************************************************)
EXTENDS FeatureIndex, FiniteSetTheorems, WellFoundedInduction, TLAPS

\* Every set of natural numbers that is not empty has a least element.
LEMMA LeastNat ==
  ASSUME NEW T, T \subseteq Nat, T # {}
  PROVE  \E x \in T : \A y \in T : x <= y
<1>1. PICK x \in T : \A y \in T : ~ (<<y, x>> \in OpToRel(<, Nat))
  BY NatLessThanWellFounded, WFMin
<1>2. \A y \in T : <<y, x>> \in OpToRel(<, Nat) <=> y < x
  BY DEF OpToRel
<1>3. \A y \in T : ~ (y < x)
  BY <1>1, <1>2, Zenon
<1> QED
  BY <1>3

Levels == Len(Counts)

\* What every feature looks like: the super features of each level, and a float.
IsFeature(f) ==
  /\ DOMAIN f = 1..Levels + 1 /\ Len(f) = Levels + 1
  /\ \A k \in 1..Levels : f[k].kind = "sf" /\ DOMAIN f[k].v = 1..Counts[k]
  /\ f[Levels + 1].kind = "float" /\ f[Levels + 1].v \in Int

\* The tables of an index.
IsIndex(index) == index = [sf |-> index.sf, float |-> index.float]

\* The tables have the entries of the base chunks, and no others; no two base
\* chunks share an entry or have near floats.
LevelsOK ==
  /\ DOMAIN levels_ = 1..Levels
  /\ \A k \in 1..Levels :
       /\ IsIndex(levels_[k])
       /\ DOMAIN levels_[k].sf = 1..Counts[k]

EntriesOK ==
  /\ \A k \in 1..Levels : \A i \in 1..Counts[k] :
       /\ \A x \in DOMAIN levels_[k].sf[i] : \E b \in bases : x = b.feature[k].v[i]
       /\ \A b \in bases :
            /\ b.feature[k].v[i] \in DOMAIN levels_[k].sf[i]
            /\ levels_[k].sf[i][b.feature[k].v[i]] = b.id
  /\ \A x \in DOMAIN levels_[Levels].float : \E b \in bases : x = b.feature[Levels + 1].v
  /\ \A b \in bases :
       /\ b.feature[Levels + 1].v \in DOMAIN levels_[Levels].float
       /\ levels_[Levels].float[b.feature[Levels + 1].v] = b.id

BasesOK ==
  /\ \A b \in bases : IsFeature(b.feature)
  /\ \A b, c \in bases : Common(b.feature, c.feature) # {} => b = c

PalantirInv == LevelsOK /\ EntriesOK /\ BasesOK
-----------------------------------------------------------------------------
\* There is at least one level, and every level has a super feature.
LEMMA LevelsAre == /\ Levels \in Nat \ {0}
                   /\ \A k \in 1..Levels : Counts[k] \in Nat \ {0}
<1>1. Counts \in Seq(Nat \ {0}) /\ Counts # <<>>
  BY TablesAssumption, PalantirAssumption
<1> QED
  BY <1>1 DEF Levels

\* The share of zeros is a number.
LEMMA ZeroCalInt == ASSUME NEW c \in Chunks PROVE ZeroCal(c) \in Int
<1>1. c \in Seq(Nat) /\ Len(c) > 0 /\ ZeroSteps \in Nat /\ Len(c) \in Nat
  BY TablesAssumption
<1> DEFINE zeros == {n \in 1..Len(c) : c[n] = 0}
<1>2. IsFiniteSet(zeros)
  <2>1. IsFiniteSet(1..Len(c))
    BY <1>1, FS_Interval
  <2>2. zeros \subseteq 1..Len(c)
    OBVIOUS
  <2> QED
    BY <2>1, <2>2, FS_Subset
<1>3. Cardinality(zeros) \in Nat
  BY <1>2, FS_CardinalityType
<1>4. ZeroCal(c) = (Cardinality(zeros) * ZeroSteps) \div Len(c)
  BY DEF ZeroCal
<1> HIDE DEF zeros
<1>5. Cardinality(zeros) * ZeroSteps \in Nat
  BY <1>1, <1>3
<1> QED
  BY <1>1, <1>4, <1>5

\* PalantirFeature computes features of that shape.
LEMMA FeaturesAre == \A f \in Features : IsFeature(f)
<1> SUFFICES ASSUME NEW c \in Chunks PROVE IsFeature(PalantirFeature(c))
  BY DEF Features, Computed
<1> DEFINE sub == OdessSubfeatures(c)
           R(k) == [kind |-> "sf", v |-> Group(sub, Counts[k])]
           front == [k \in 1..Levels |-> R(k)]
           last == [kind |-> "float", v |-> ZeroCal(c)]
           S == {R(k) : k \in 1..Levels} \cup {last}
           f == PalantirFeature(c)
<1>1. f = Append(front, last)
  BY DEF PalantirFeature, Levels
<1>2. \A k \in 1..Levels : R(k).kind = "sf" /\ DOMAIN R(k).v = 1..Counts[k]
  BY DEF Group
<1>3. last.kind = "float" /\ last.v \in Int
  BY ZeroCalInt
<1>4. Levels \in Nat
  BY LevelsAre
<1> HIDE DEF R, last, f
<1>5. front \in Seq(S) /\ Len(front) = Levels /\ last \in S
      /\ \A k \in 1..Levels : front[k] = R(k)
  BY <1>4
<1> HIDE DEF front, S
<1>6. /\ f \in Seq(S) /\ Len(f) = Levels + 1 /\ DOMAIN f = 1..Levels + 1
      /\ f[Levels + 1] = last /\ \A k \in 1..Levels : f[k] = R(k)
  BY <1>1, <1>4, <1>5
<1>7. IsFeature(f)
  BY <1>2, <1>3, <1>6 DEF IsFeature
<1> QED
  BY <1>7 DEF f

\* Whether two features have a part in common does not depend on their order.
LEMMA CommonSymmetric ==
  ASSUME NEW f, NEW g
  PROVE  Common(f, g) = Common(g, f)
BY DEF Common, Near

\* What a part of a feature is looked up to.
Part(f, k) == GetBaseChunkID(levels_[LevelOf(k)], f[k])

\* Min is the least element.
LEMMA MinIs ==
  ASSUME NEW S, S \subseteq Int, NEW x \in S, \A y \in S : x <= y
  PROVE  Min(S) = x
<1>1. \A z \in S : (\A y \in S : z <= y) => z = x
  <2> SUFFICES ASSUME NEW z \in S, \A y \in S : z <= y PROVE z = x
    OBVIOUS
  <2>1. z <= x /\ x <= z /\ x \in Int /\ z \in Int
    OBVIOUS
  <2> QED
    BY <2>1
<1> QED
  BY <1>1 DEF Min

\* The least of two numbers, as LevelOf takes it.
LEMMA LevelIs ==
  /\ \A k \in 1..Levels : LevelOf(k) = k
  /\ LevelOf(Levels + 1) = Levels
<1>0. Levels \in Nat \ {0}
  BY LevelsAre
<1>2. ASSUME NEW k \in 1..Levels + 1, NEW m \in {k, Levels}, m <= k, m <= Levels
      PROVE  LevelOf(k) = m
  <2>1. {k, Levels} \subseteq Int /\ \A y \in {k, Levels} : m <= y
    BY <1>0, <1>2
  <2>2. Min({k, Levels}) = m
    BY <2>1, MinIs
  <2> QED
    BY <2>2 DEF LevelOf, Levels
<1>3. \A k \in 1..Levels : k \in 1..Levels + 1 /\ k <= k /\ k <= Levels
  BY <1>0
<1>4. Levels + 1 \in 1..Levels + 1 /\ Levels <= Levels + 1 /\ Levels <= Levels
  BY <1>0
<1>5. \A k \in 1..Levels : LevelOf(k) = k
  BY <1>2, <1>3
<1>6. LevelOf(Levels + 1) = Levels
  BY <1>2, <1>4
<1> QED
  BY <1>5, <1>6

\* A part of a feature is found if and only if some base has it in common, and
\* what is found is the id of such a base.
LEMMA PartIs ==
  ASSUME PalantirInv, NEW f, IsFeature(f), NEW k \in 1..Levels + 1
  PROVE  /\ \A b \in bases : k \in Common(f, b.feature) => Part(f, k) # {}
         /\ \A id \in Part(f, k) : \E b \in bases : b.id = id /\ k \in Common(f, b.feature)
<1>0. Levels \in Nat \ {0} /\ \A m \in 1..Levels : Counts[m] \in Nat \ {0}
  BY LevelsAre
<1>1. CASE k \in 1..Levels
  <2> DEFINE t == levels_[k].sf
             v == f[k].v
             hits == {i \in DOMAIN v : v[i] \in DOMAIN t[i]}
  <2>1. LevelOf(k) = k /\ f[k].kind = "sf" /\ DOMAIN v = 1..Counts[k]
    BY <1>1, LevelIs DEF IsFeature
  <2>2. Part(f, k) = {t[i][v[i]] : i \in {j \in hits : j = Min(hits)}}
    BY <2>1 DEF Part, GetBaseChunkID
  <2>3. \A b \in bases : k \in Common(f, b.feature) <=>
                          \E i \in 1..Counts[k] : v[i] = b.feature[k].v[i]
    BY <1>0, <1>1 DEF Common, Levels
  <2>4. /\ \A i \in 1..Counts[k] : \A x \in DOMAIN t[i] : \E b \in bases : x = b.feature[k].v[i]
        /\ \A i \in 1..Counts[k] : \A b \in bases :
             /\ b.feature[k].v[i] \in DOMAIN t[i]
             /\ t[i][b.feature[k].v[i]] = b.id
    BY <1>1 DEF PalantirInv, EntriesOK
  <2> HIDE DEF t, v
  <2>5. hits \subseteq Nat
    BY <1>0, <1>1, <2>1
  <2>6. hits # {} => Min(hits) \in hits
    <3>1. ASSUME hits # {} PROVE \E x \in hits : \A y \in hits : x <= y
      BY <2>5, <3>1, LeastNat
    <3> QED
      BY <3>1 DEF Min
  <2>7. ASSUME NEW b \in bases, k \in Common(f, b.feature) PROVE Part(f, k) # {}
    <3>1. hits # {}
      BY <2>1, <2>3, <2>4, <2>7
    <3> QED
      BY <2>2, <2>6, <3>1
  <2>8. ASSUME NEW id \in Part(f, k)
        PROVE  \E b \in bases : b.id = id /\ k \in Common(f, b.feature)
    <3>1. PICK i \in hits : id = t[i][v[i]]
      BY <2>2, <2>8
    <3>2. i \in 1..Counts[k] /\ v[i] \in DOMAIN t[i]
      BY <2>1
    <3>3. PICK b \in bases : v[i] = b.feature[k].v[i]
      BY <2>4, <3>2
    <3>4. id = b.id
      BY <2>4, <3>1, <3>2, <3>3
    <3> QED
      BY <2>3, <3>2, <3>3, <3>4
  <2> QED
    BY <2>7, <2>8
<1>2. CASE k = Levels + 1
  <2> DEFINE t == levels_[Levels].float
             v == f[k].v
  <2>1. LevelOf(k) = Levels /\ f[k].kind = "float"
    BY <1>2, LevelIs DEF IsFeature
  <2>2. Part(f, k) = {t[x] : x \in {y \in DOMAIN t : Near(y, v)}}
    BY <2>1 DEF Part, GetBaseChunkID
  <2>3. \A b \in bases : k \in Common(f, b.feature) <=> Near(v, b.feature[k].v)
    BY <1>0, <1>2 DEF Common, Levels
  <2>4. \A x : Near(x, v) <=> Near(v, x)
    BY DEF Near
  <2>5. /\ \A x \in DOMAIN t : \E b \in bases : x = b.feature[k].v
        /\ \A b \in bases : b.feature[k].v \in DOMAIN t /\ t[b.feature[k].v] = b.id
    BY <1>2 DEF PalantirInv, EntriesOK
  <2> HIDE DEF t, v
  <2>6. ASSUME NEW b \in bases, k \in Common(f, b.feature) PROVE Part(f, k) # {}
    BY <2>2, <2>3, <2>4, <2>5, <2>6
  <2>7. ASSUME NEW id \in Part(f, k)
        PROVE  \E b \in bases : b.id = id /\ k \in Common(f, b.feature)
    <3>1. PICK x \in DOMAIN t : Near(x, v) /\ id = t[x]
      BY <2>2, <2>7
    <3>2. PICK b \in bases : x = b.feature[k].v
      BY <2>5
    <3> QED
      BY <2>3, <2>4, <2>5, <3>1, <3>2
  <2> QED
    BY <2>6, <2>7
<1> QED
  BY <1>0, <1>1, <1>2

\* The parts found are those that some base has in common, and the ids found are
\* those of bases that have the least of them in common.
LEMMA LookupIs ==
  ASSUME PalantirInv, NEW f, IsFeature(f)
  PROVE  /\ Hits(f) = UNION {Common(f, b.feature) : b \in bases}
         /\ Hits(f) = {} => BaseChunkIDs(f) = {}
         /\ Hits(f) # {} =>
              /\ Min(Hits(f)) \in Hits(f)
              /\ BaseChunkIDs(f) # {}
              /\ \A id \in BaseChunkIDs(f) :
                   \E b \in bases : b.id = id /\ Min(Hits(f)) \in Common(f, b.feature)
<1>0. Levels \in Nat \ {0} /\ DOMAIN f = 1..Levels + 1
  BY LevelsAre DEF IsFeature
<1>1. Hits(f) = {k \in 1..Levels + 1 : Part(f, k) # {}}
  BY <1>0 DEF Hits, Part
<1>2. \A b \in bases : Common(f, b.feature) \subseteq 1..Levels + 1
  BY <1>0 DEF Common, Levels
<1>3. \A k \in 1..Levels + 1 : Part(f, k) # {} <=> \E b \in bases : k \in Common(f, b.feature)
  BY PartIs
<1>4. Hits(f) = UNION {Common(f, b.feature) : b \in bases}
  BY <1>1, <1>2, <1>3
<1>5. BaseChunkIDs(f) = UNION {Part(f, k) : k \in {j \in Hits(f) : j = Min(Hits(f))}}
  BY DEF BaseChunkIDs, Part
<1>6. ASSUME Hits(f) # {}
      PROVE  Min(Hits(f)) \in Hits(f) /\ BaseChunkIDs(f) = Part(f, Min(Hits(f)))
  <2>1. Hits(f) \subseteq Nat
    BY <1>0, <1>1
  <2>2. \E x \in Hits(f) : \A y \in Hits(f) : x <= y
    BY <1>6, <2>1, LeastNat
  <2>3. Min(Hits(f)) \in Hits(f)
    BY <2>2 DEF Min
  <2> QED
    BY <1>5, <2>3
<1>7. ASSUME Hits(f) # {}
      PROVE  /\ BaseChunkIDs(f) # {}
             /\ \A id \in BaseChunkIDs(f) :
                  \E b \in bases : b.id = id /\ Min(Hits(f)) \in Common(f, b.feature)
  <2> DEFINE m == Min(Hits(f))
  <2>1. m \in 1..Levels + 1 /\ Part(f, m) # {} /\ BaseChunkIDs(f) = Part(f, m)
    BY <1>1, <1>6, <1>7
  <2> HIDE DEF m
  <2>2. \A id \in Part(f, m) : \E b \in bases : b.id = id /\ m \in Common(f, b.feature)
    BY <2>1, PartIs
  <2> QED
    BY <2>1, <2>2 DEF m
<1>8. Hits(f) = {} => BaseChunkIDs(f) = {}
  BY <1>5
<1> QED
  BY <1>4, <1>6, <1>7, <1>8

\* A feature has its first super feature in common with itself.
LEMMA CommonWithItself ==
  ASSUME NEW f, IsFeature(f)
  PROVE  Common(f, f) # {}
<1>1. 1 \in 1..Len(Counts) /\ 1 \in 1..Counts[1]
  BY LevelsAre DEF Levels
<1> QED
  BY <1>1 DEF Common

\* What the invariant says of lookups.
LEMMA LookupsRight ==
  ASSUME PalantirInv
  PROVE  LookupAgrees /\ FindsItself
<1>1. ASSUME NEW f \in Features
      PROVE  LET similar == {b \in bases : Common(f, b.feature) # {}}
                 best    == Min(UNION {Common(f, b.feature) : b \in similar})
             IN IF similar = {} THEN BaseChunkIDs(f) = {}
                ELSE /\ BaseChunkIDs(f) # {}
                     /\ BaseChunkIDs(f) \subseteq
                          {b.id : b \in {c \in similar : best \in Common(f, c.feature)}}
  <2> DEFINE similar == {b \in bases : Common(f, b.feature) # {}}
             best    == Min(UNION {Common(f, b.feature) : b \in similar})
  <2>1. IsFeature(f)
    BY FeaturesAre
  <2>2. UNION {Common(f, b.feature) : b \in similar} = UNION {Common(f, b.feature) : b \in bases}
    OBVIOUS
  <2>3. best = Min(Hits(f)) /\ Hits(f) = UNION {Common(f, b.feature) : b \in bases}
    BY ZenonT(60), <2>1, <2>2, LookupIs
  <2>4. ASSUME similar = {} PROVE BaseChunkIDs(f) = {}
    BY <2>1, <2>3, <2>4, LookupIs
  <2>5. ASSUME similar # {}
        PROVE  /\ BaseChunkIDs(f) # {}
               /\ BaseChunkIDs(f) \subseteq
                    {b.id : b \in {c \in similar : best \in Common(f, c.feature)}}
    <3>1. Hits(f) # {}
      BY <2>3, <2>5
    <3>2. /\ BaseChunkIDs(f) # {}
          /\ \A id \in BaseChunkIDs(f) :
               \E b \in bases : b.id = id /\ Min(Hits(f)) \in Common(f, b.feature)
      BY <2>1, <3>1, LookupIs
    <3> HIDE DEF best
    <3>3. \A id \in BaseChunkIDs(f) :
            \E b \in {c \in similar : best \in Common(f, c.feature)} : b.id = id
      BY <2>3, <3>2
    <3>4. BaseChunkIDs(f) \subseteq
            {b.id : b \in {c \in similar : best \in Common(f, c.feature)}}
      BY <3>3
    <3> QED
      BY <3>2, <3>4
  <2> QED
    BY <2>4, <2>5
<1>2. ASSUME NEW b \in bases
      PROVE  BaseChunkIDs(b.feature) = {b.id}
  <2> DEFINE f == b.feature
  <2>1. IsFeature(f) /\ \A c \in bases : Common(f, c.feature) # {} => b = c
    BY DEF PalantirInv, BasesOK
  <2>2. Common(f, b.feature) # {}
    BY <2>1, CommonWithItself
  <2> HIDE DEF f
  <2>3. Hits(f) # {}
    BY <2>1, <2>2, LookupIs
  <2>4. /\ BaseChunkIDs(f) # {}
        /\ \A id \in BaseChunkIDs(f) :
             \E c \in bases : c.id = id /\ Min(Hits(f)) \in Common(f, c.feature)
    BY <2>1, <2>3, LookupIs
  <2>5. \A id \in BaseChunkIDs(f) : id = b.id
    BY <2>1, <2>4
  <2> QED
    BY <2>4, <2>5 DEF f
<1> QED
  BY <1>1, <1>2 DEF LookupAgrees, FindsItself

\* Entering a value in a table.
LEMMA EnteredIs ==
  ASSUME NEW t, NEW x, NEW id
  PROVE  /\ DOMAIN Put(t, x, id) = DOMAIN t \cup {x}
         /\ Put(t, x, id)[x] = id
         /\ \A y \in DOMAIN t : y # x => Put(t, x, id)[y] = t[y]
BY DEF Put

\* AddFeature for super features and for floats.
LEMMA SuperFeaturesEntered ==
  ASSUME NEW index, IsIndex(index), NEW f, f.kind = "sf", NEW id
  PROVE  /\ IsIndex(AddFeature(index, f, id))
         /\ DOMAIN AddFeature(index, f, id).sf = DOMAIN index.sf
         /\ \A i \in DOMAIN index.sf :
              AddFeature(index, f, id).sf[i] = Put(index.sf[i], f.v[i], id)
         /\ AddFeature(index, f, id).float = index.float
<1> DEFINE new == [i \in DOMAIN index.sf |-> Put(index.sf[i], f.v[i], id)]
           s == index.sf
           t == index.float
<1>1. index = [sf |-> s, float |-> t]
  BY DEF IsIndex
<1>2. AddFeature(index, f, id) = [index EXCEPT !.sf = new]
  BY DEF AddFeature
<1> HIDE DEF new, s, t
<1>3. AddFeature(index, f, id) = [sf |-> new, float |-> t]
  BY <1>1, <1>2
<1>4. /\ AddFeature(index, f, id).sf = new /\ AddFeature(index, f, id).float = t
      /\ IsIndex(AddFeature(index, f, id))
  BY <1>3 DEF IsIndex
<1> QED
  BY <1>4 DEF new, t

\* The same for the table of floats.
LEMMA FloatEntered ==
  ASSUME NEW index, IsIndex(index), NEW f, f.kind = "float", NEW id
  PROVE  /\ IsIndex(AddFeature(index, f, id))
         /\ AddFeature(index, f, id).sf = index.sf
         /\ AddFeature(index, f, id).float = Put(index.float, f.v, id)
<1> DEFINE new == Put(index.float, f.v, id)
           s == index.sf
           t == index.float
<1>1. index = [sf |-> s, float |-> t]
  BY DEF IsIndex
<1>2. AddFeature(index, f, id) = [index EXCEPT !.float = new]
  BY DEF AddFeature
<1> HIDE DEF new, s, t
<1>3. AddFeature(index, f, id) = [sf |-> s, float |-> new]
  BY <1>1, <1>2
<1>4. /\ AddFeature(index, f, id).sf = s /\ AddFeature(index, f, id).float = new
      /\ IsIndex(AddFeature(index, f, id))
  BY <1>3 DEF IsIndex
<1> QED
  BY <1>4 DEF new, s

\* The levels after a feature is entered.
LEMMA AddedIs ==
  ASSUME LevelsOK, NEW f, IsFeature(f), NEW id, levels_' = AddFeatures(f, id)
  PROVE  /\ LevelsOK'
         /\ \A k \in 1..Levels :
              /\ DOMAIN levels_'[k].sf = 1..Counts[k]
              /\ \A i \in 1..Counts[k] :
                   levels_'[k].sf[i] = Put(levels_[k].sf[i], f[k].v[i], id)
              /\ k # Levels => levels_'[k].float = levels_[k].float
         /\ levels_'[Levels].float = Put(levels_[Levels].float, f[Levels + 1].v, id)
<1> DEFINE entered == [k \in DOMAIN levels_ |-> AddFeature(levels_[k], f[k], id)]
<1>0. Levels \in Nat \ {0} /\ Levels \in 1..Levels /\ DOMAIN levels_ = 1..Levels
  BY LevelsAre DEF LevelsOK
<1>1. levels_' = [entered EXCEPT ![Levels] = AddFeature(@, f[Levels + 1], id)]
  BY DEF AddFeatures, IsFeature, Levels
<1>2. ASSUME NEW k \in 1..Levels
      PROVE  /\ IsIndex(entered[k])
             /\ DOMAIN entered[k].sf = 1..Counts[k]
             /\ \A i \in 1..Counts[k] :
                  entered[k].sf[i] = Put(levels_[k].sf[i], f[k].v[i], id)
             /\ entered[k].float = levels_[k].float
  <2> DEFINE index == levels_[k]
             g == f[k]
  <2>1. IsIndex(index) /\ DOMAIN index.sf = 1..Counts[k] /\ g.kind = "sf"
    BY DEF LevelsOK, IsFeature
  <2>2. entered[k] = AddFeature(index, g, id)
    BY <1>0
  <2> HIDE DEF index, g, entered
  <2>3. /\ IsIndex(AddFeature(index, g, id))
        /\ DOMAIN AddFeature(index, g, id).sf = DOMAIN index.sf
        /\ \A i \in DOMAIN index.sf :
             AddFeature(index, g, id).sf[i] = Put(index.sf[i], g.v[i], id)
        /\ AddFeature(index, g, id).float = index.float
    BY <2>1, SuperFeaturesEntered
  <2>4. /\ DOMAIN entered[k].sf = 1..Counts[k]
        /\ \A i \in 1..Counts[k] : entered[k].sf[i] = Put(index.sf[i], g.v[i], id)
    BY <2>1, <2>2, <2>3
  <2> QED
    BY <2>2, <2>3, <2>4 DEF index, g
<1>3. DOMAIN entered = 1..Levels
  BY <1>0
<1> DEFINE old == entered[Levels]
           g == f[Levels + 1]
           last == AddFeature(old, g, id)
<1>4. IsIndex(old) /\ g.kind = "float"
  BY <1>0, <1>2 DEF IsFeature
<1> HIDE DEF entered, old, g
<1>5. /\ IsIndex(last) /\ last.sf = old.sf /\ last.float = Put(old.float, g.v, id)
  BY <1>4, FloatEntered
<1>6. /\ DOMAIN levels_' = 1..Levels /\ levels_'[Levels] = last
      /\ \A k \in 1..Levels : k # Levels => levels_'[k] = entered[k]
  BY <1>0, <1>1, <1>3 DEF old, g
<1> HIDE DEF last
<1>7. ASSUME NEW k \in 1..Levels
      PROVE  /\ IsIndex(levels_'[k])
             /\ DOMAIN levels_'[k].sf = 1..Counts[k]
             /\ \A i \in 1..Counts[k] :
                  levels_'[k].sf[i] = Put(levels_[k].sf[i], f[k].v[i], id)
             /\ k # Levels => levels_'[k].float = levels_[k].float
  <2>1. CASE k # Levels
    BY <1>2, <1>6, <2>1
  <2>2. CASE k = Levels
    BY <1>2, <1>5, <1>6, <2>2 DEF old
  <2> QED
    BY <2>1, <2>2
<1>8. levels_'[Levels].float = Put(levels_[Levels].float, f[Levels + 1].v, id)
  <2>1. old.float = levels_[Levels].float
    BY <1>0, <1>2 DEF old
  <2> QED
    BY <1>5, <1>6, <2>1 DEF g
<1>9. LevelsOK'
  BY <1>6, <1>7 DEF LevelsOK, IsIndex
<1> QED
  BY <1>7, <1>8, <1>9

\* A chunk for which no base is found has nothing in common with any base.
LEMMA NothingInCommon ==
  ASSUME PalantirInv, NEW f, IsFeature(f), BaseChunkIDs(f) = {}
  PROVE  \A b \in bases : Common(f, b.feature) = {} /\ Common(b.feature, f) = {}
<1>1. Hits(f) = {} /\ Hits(f) = UNION {Common(f, b.feature) : b \in bases}
  BY LookupIs
<1> QED
  BY <1>1, CommonSymmetric

\* A chunk that becomes a base overwrites no entry ...
LEMMA AddBaseKeepsEntries ==
  ASSUME PalantirInv, NEW f, IsFeature(f), AddBase(f)
  PROVE  EntriesKept
<1>0. Levels \in Nat \ {0} /\ DOMAIN levels_ = 1..Levels
      /\ \A k \in 1..Levels : DOMAIN levels_[k].sf = 1..Counts[k]
  BY LevelsAre DEF PalantirInv, LevelsOK
<1>1. levels_' = AddFeatures(f, nextId) /\ BaseChunkIDs(f) = {}
  BY DEF AddBase
<1>2. \A b \in bases : Common(f, b.feature) = {}
  BY <1>1, NothingInCommon
<1>3. /\ \A k \in 1..Levels :
           /\ \A i \in 1..Counts[k] :
                levels_'[k].sf[i] = Put(levels_[k].sf[i], f[k].v[i], nextId)
           /\ k # Levels => levels_'[k].float = levels_[k].float
      /\ levels_'[Levels].float = Put(levels_[Levels].float, f[Levels + 1].v, nextId)
  BY <1>1, AddedIs DEF PalantirInv
<1>4. ASSUME NEW k \in 1..Levels, NEW i \in 1..Counts[k], NEW x \in DOMAIN levels_[k].sf[i]
      PROVE  x \in DOMAIN levels_'[k].sf[i] /\ levels_'[k].sf[i][x] = levels_[k].sf[i][x]
  <2>1. PICK b \in bases : x = b.feature[k].v[i]
    BY <1>4 DEF PalantirInv, EntriesOK
  <2>2. k \notin Common(f, b.feature)
    BY <1>2
  <2>3. f[k].v[i] # x
    BY <2>1, <2>2 DEF Common, Levels
  <2> DEFINE t == levels_[k].sf[i]
             v == f[k].v[i]
  <2>4. levels_'[k].sf[i] = Put(t, v, nextId) /\ x \in DOMAIN t /\ x # v
    BY <1>3, <2>3
  <2> HIDE DEF t, v
  <2>5. x \in DOMAIN Put(t, v, nextId) /\ Put(t, v, nextId)[x] = t[x]
    BY <2>4 DEF Put
  <2> QED
    BY <2>4, <2>5 DEF t
<1>5. ASSUME NEW k \in 1..Levels, NEW x \in DOMAIN levels_[k].float
      PROVE  x \in DOMAIN levels_'[k].float /\ levels_'[k].float[x] = levels_[k].float[x]
  <2>1. CASE k # Levels
    BY <1>3, <2>1
  <2>2. CASE k = Levels
    <3>1. PICK b \in bases : x = b.feature[Levels + 1].v
      BY <1>5, <2>2 DEF PalantirInv, EntriesOK
    <3>2. Levels + 1 \notin Common(f, b.feature)
      BY <1>2
    <3>3. ~Near(f[Levels + 1].v, x)
      BY <3>1, <3>2 DEF Common, Levels
    <3>4. f[Levels + 1].v # x
      <4>1. f[Levels + 1].v \in Int
        BY DEF IsFeature
      <4>2. Near(f[Levels + 1].v, f[Levels + 1].v)
        BY <4>1, ThresholdAssumption DEF Near
      <4> QED
        BY <3>3, <4>2
    <3> DEFINE t == levels_[Levels].float
               v == f[Levels + 1].v
    <3>5. levels_'[Levels].float = Put(t, v, nextId) /\ x \in DOMAIN t /\ v # x
      BY <1>3, <2>2, <3>4
    <3> HIDE DEF t, v
    <3>6. x \in DOMAIN Put(t, v, nextId) /\ Put(t, v, nextId)[x] = t[x]
      BY <3>5 DEF Put
    <3> QED
      BY <2>2, <3>5, <3>6 DEF t
  <2> QED
    BY <2>1, <2>2
<1>6. ASSUME NEW k \in DOMAIN levels_
      PROVE  /\ \A i \in DOMAIN levels_[k].sf : \A x \in DOMAIN levels_[k].sf[i] :
                  x \in DOMAIN levels_'[k].sf[i] /\ levels_'[k].sf[i][x] = levels_[k].sf[i][x]
             /\ \A x \in DOMAIN levels_[k].float :
                  x \in DOMAIN levels_'[k].float /\ levels_'[k].float[x] = levels_[k].float[x]
  <2>1. k \in 1..Levels /\ DOMAIN levels_[k].sf = 1..Counts[k]
    BY <1>0
  <2>2. ASSUME NEW i \in DOMAIN levels_[k].sf, NEW x \in DOMAIN levels_[k].sf[i]
        PROVE  x \in DOMAIN levels_'[k].sf[i] /\ levels_'[k].sf[i][x] = levels_[k].sf[i][x]
    <3>1. i \in 1..Counts[k]
      BY <2>1
    <3> QED
      BY <1>4, <2>1, <3>1
  <2> QED
    BY <1>5, <2>1, <2>2
<1> QED
  BY <1>6 DEF EntriesKept

\* ... and keeps the tables in order.
LEMMA AddBaseKeepsInv ==
  ASSUME PalantirInv, NEW f, IsFeature(f), AddBase(f)
  PROVE  PalantirInv'
<1> DEFINE new == [feature |-> f, id |-> nextId]
           g == f[Levels + 1].v
<1>0. Levels \in Nat \ {0} /\ DOMAIN levels_ = 1..Levels
      /\ \A k \in 1..Levels : DOMAIN levels_[k].sf = 1..Counts[k]
  BY LevelsAre DEF PalantirInv, LevelsOK
<1>1. levels_' = AddFeatures(f, nextId) /\ BaseChunkIDs(f) = {} /\ bases' = bases \cup {new}
  BY DEF AddBase
<1>2. \A b \in bases : Common(f, b.feature) = {} /\ Common(b.feature, f) = {}
  BY <1>1, NothingInCommon
<1>3. /\ LevelsOK'
      /\ \A k \in 1..Levels : \A i \in 1..Counts[k] :
           levels_'[k].sf[i] = Put(levels_[k].sf[i], f[k].v[i], nextId)
      /\ levels_'[Levels].float = Put(levels_[Levels].float, g, nextId)
  BY <1>1, AddedIs DEF PalantirInv
<1>4. /\ \A k \in 1..Levels : \A i \in 1..Counts[k] :
           /\ DOMAIN levels_'[k].sf[i] = DOMAIN levels_[k].sf[i] \cup {f[k].v[i]}
           /\ levels_'[k].sf[i][f[k].v[i]] = nextId
      /\ DOMAIN levels_'[Levels].float = DOMAIN levels_[Levels].float \cup {g}
      /\ levels_'[Levels].float[g] = nextId
  <2>1. ASSUME NEW t, NEW x
        PROVE  /\ DOMAIN Put(t, x, nextId) = DOMAIN t \cup {x}
               /\ Put(t, x, nextId)[x] = nextId
    BY DEF Put
  <2>2. ASSUME NEW k \in 1..Levels, NEW i \in 1..Counts[k]
        PROVE  /\ DOMAIN levels_'[k].sf[i] = DOMAIN levels_[k].sf[i] \cup {f[k].v[i]}
               /\ levels_'[k].sf[i][f[k].v[i]] = nextId
    <3>1. levels_'[k].sf[i] = Put(levels_[k].sf[i], f[k].v[i], nextId)
      BY <1>3
    <3> QED
      BY ZenonT(60), <2>1, <3>1
  <2>3. /\ DOMAIN levels_'[Levels].float = DOMAIN levels_[Levels].float \cup {g}
        /\ levels_'[Levels].float[g] = nextId
    <3> HIDE DEF g
    <3> QED
      BY ZenonT(60), <1>3, <2>1
  <2> QED
    BY <2>2, <2>3
<1>5. /\ \A k \in 1..Levels : \A i \in 1..Counts[k] : \A x \in DOMAIN levels_[k].sf[i] :
           levels_'[k].sf[i][x] = levels_[k].sf[i][x]
      /\ \A x \in DOMAIN levels_[Levels].float :
           levels_'[Levels].float[x] = levels_[Levels].float[x]
  <2>1. EntriesKept
    BY AddBaseKeepsEntries
  <2>2. Levels \in 1..Levels
    BY <1>0
  <2>3. ASSUME NEW k \in 1..Levels, NEW i \in 1..Counts[k], NEW x \in DOMAIN levels_[k].sf[i]
        PROVE  levels_'[k].sf[i][x] = levels_[k].sf[i][x]
    <3>1. k \in DOMAIN levels_ /\ i \in DOMAIN levels_[k].sf
      BY <1>0
    <3> QED
      BY <2>1, <3>1 DEF EntriesKept
  <2> QED
    BY <1>0, <2>1, <2>2, <2>3 DEF EntriesKept
<1>6. new.feature = f /\ new.id = nextId
  OBVIOUS
<1> HIDE DEF new, g
<1>7. ASSUME NEW k \in 1..Levels, NEW i \in 1..Counts[k]
      PROVE  /\ \A x \in DOMAIN levels_'[k].sf[i] : \E b \in bases' : x = b.feature[k].v[i]
             /\ \A b \in bases' :
                  /\ b.feature[k].v[i] \in DOMAIN levels_'[k].sf[i]
                  /\ levels_'[k].sf[i][b.feature[k].v[i]] = b.id
  <2>1. /\ \A x \in DOMAIN levels_[k].sf[i] : \E b \in bases : x = b.feature[k].v[i]
        /\ \A b \in bases :
             /\ b.feature[k].v[i] \in DOMAIN levels_[k].sf[i]
             /\ levels_[k].sf[i][b.feature[k].v[i]] = b.id
    BY DEF PalantirInv, EntriesOK
  <2>2. /\ DOMAIN levels_'[k].sf[i] = DOMAIN levels_[k].sf[i] \cup {f[k].v[i]}
        /\ levels_'[k].sf[i][f[k].v[i]] = nextId
        /\ \A x \in DOMAIN levels_[k].sf[i] : levels_'[k].sf[i][x] = levels_[k].sf[i][x]
    BY <1>4, <1>5
  <2> QED
    BY <1>1, <1>6, <2>1, <2>2
<1>8. /\ \A x \in DOMAIN levels_'[Levels].float : \E b \in bases' : x = b.feature[Levels + 1].v
      /\ \A b \in bases' :
           /\ b.feature[Levels + 1].v \in DOMAIN levels_'[Levels].float
           /\ levels_'[Levels].float[b.feature[Levels + 1].v] = b.id
  <2>1. /\ \A x \in DOMAIN levels_[Levels].float : \E b \in bases : x = b.feature[Levels + 1].v
        /\ \A b \in bases :
             /\ b.feature[Levels + 1].v \in DOMAIN levels_[Levels].float
             /\ levels_[Levels].float[b.feature[Levels + 1].v] = b.id
    BY DEF PalantirInv, EntriesOK
  <2>2. new.feature[Levels + 1].v = g
    BY <1>6 DEF g
  <2> QED
    BY <1>1, <1>4, <1>5, <1>6, <2>1, <2>2
<1>9. EntriesOK'
  BY <1>7, <1>8 DEF EntriesOK, Levels
<1>10. BasesOK'
  <2>1. /\ \A b \in bases : IsFeature(b.feature)
        /\ \A b, c \in bases : Common(b.feature, c.feature) # {} => b = c
    BY DEF PalantirInv, BasesOK
  <2>2. \A b \in bases' : IsFeature(b.feature)
    BY <1>1, <1>6, <2>1
  <2>3. \A b, c \in bases' : Common(b.feature, c.feature) # {} => b = c
    BY <1>1, <1>2, <1>6, <2>1
  <2> QED
    BY <2>2, <2>3 DEF BasesOK
<1> QED
  BY <1>3, <1>9, <1>10 DEF PalantirInv

-----------------------------------------------------------------------------
(* Sub features.                                                           *)

Words == 0..WordSize - 1
SubFeatures == [1..features_num -> Nat]

\* What the assumption says of the tables and of the chunks.
LEMMA TablesAre ==
  /\ WordSize \in Nat \ {0} /\ features_num \in Nat \ {0}
  /\ \A b \in Words : GEAR_TABLE[b] \in Nat
  /\ \A j \in 1..features_num : M[j] \in Nat /\ A[j] \in Nat
  /\ Chunks \subseteq Seq(Words)
<1>1. M \in Seq(Nat) /\ A \in Seq(Nat) /\ M # <<>> /\ Len(A) = Len(M)
  BY TablesAssumption
<1>2. features_num \in Nat \ {0} /\ \A j \in 1..features_num : M[j] \in Nat /\ A[j] \in Nat
  BY <1>1 DEF features_num
<1> QED
  BY <1>2, TablesAssumption DEF Words

\* A fingerprint is a word.
LEMMA RollIs ==
  ASSUME NEW f \in Words, NEW b \in Words
  PROVE  Roll(f, b) \in Words
<1>1. 2 * f + GEAR_TABLE[b] \in Nat /\ WordSize \in Nat \ {0}
  BY TablesAre DEF Words
<1> DEFINE x == 2 * f + GEAR_TABLE[b]
<1>2. Roll(f, b) = x % WordSize
  BY DEF Roll
<1> HIDE DEF x
<1> QED
  BY <1>1, <1>2 DEF Words, x

\* A transform is a number.
LEMMA TransformIs ==
  ASSUME NEW f \in Words, NEW j \in 1..features_num
  PROVE  Transform(f, j) \in Nat
<1>1. f \in Nat /\ M[j] \in Nat /\ A[j] \in Nat /\ WordSize \in Nat \ {0}
  BY TablesAre DEF Words
<1>2. M[j] * f \in Nat
  BY <1>1
<1> DEFINE x == M[j] * f + A[j]
<1>3. x \in Nat
  BY <1>1, <1>2
<1>4. Transform(f, j) = x % WordSize
  BY DEF Transform
<1> HIDE DEF x
<1> QED
  BY <1>1, <1>3, <1>4

\* What an iteration of the loop over the bytes does to the sub features.
LEMMA SampleIs ==
  ASSUME NEW s \in SubFeatures, NEW f \in Words
  PROVE  /\ Sample(s, f) \in SubFeatures
         /\ ~Sampled(f) => Sample(s, f) = s
         /\ Sampled(f) => \A j \in 1..features_num :
              Sample(s, f)[j] = IF s[j] >= Transform(f, j) \/ s[j] = 0
                                  THEN Transform(f, j) ELSE s[j]
<1>1. \A j \in 1..features_num : Transform(f, j) \in Nat /\ s[j] \in Nat
  BY TransformIs DEF SubFeatures
<1> QED
  BY <1>1 DEF Sample, TakeLeast, SubFeatures

\* A loop over n steps has its values after every step: step[m] is what its
\* m-th iteration does.
LEMMA LoopExists ==
  ASSUME NEW S, NEW base \in S, NEW n \in Nat, NEW step \in [1..n -> [S -> S]]
  PROVE  \E f \in [0..n -> S] : f[0] = base /\ \A m \in 1..n : f[m] = step[m][f[m - 1]]
<1> DEFINE Runs(k) == \E f \in [0..k -> S] :
                        f[0] = base /\ \A m \in 1..k : f[m] = step[m][f[m - 1]]
           Bad == {k \in 0..n : ~Runs(k)}
<1>1. Runs(0)
  <2> DEFINE f == [k \in 0..0 |-> base]
  <2>1. f \in [0..0 -> S] /\ f[0] = base /\ \A m \in 1..0 : f[m] = step[m][f[m - 1]]
    OBVIOUS
  <2> QED
    BY <2>1
<1>2. ASSUME NEW k \in 0..n - 1, Runs(k) PROVE Runs(k + 1)
  <2>1. PICK f \in [0..k -> S] : f[0] = base /\ \A m \in 1..k : f[m] = step[m][f[m - 1]]
    BY <1>2
  <2> DEFINE g == [m \in 0..k + 1 |-> IF m = k + 1 THEN step[k + 1][f[k]] ELSE f[m]]
  <2>2. k + 1 \in 1..n /\ k \in 0..k /\ f[k] \in S /\ step[k + 1][f[k]] \in S
    BY <2>1
  <2>3. /\ \A m \in 0..k : g[m] = f[m]
        /\ g[k + 1] = step[k + 1][f[k]]
        /\ g \in [0..k + 1 -> S]
    BY <2>1, <2>2
  <2> HIDE DEF g
  <2>4. ASSUME NEW m \in 1..k + 1 PROVE g[m] = step[m][g[m - 1]]
    <3>1. CASE m = k + 1
      <4>1. m - 1 = k
        BY <3>1
      <4> QED
        BY <2>2, <2>3, <3>1, <4>1
    <3>2. CASE m # k + 1
      <4>1. m \in 1..k /\ m \in 0..k /\ m - 1 \in 0..k
        BY <3>2
      <4> QED
        BY <2>1, <2>3, <4>1
    <3> QED
      BY <3>1, <3>2
  <2>5. g[0] = base
    BY <2>1, <2>3
  <2> QED
    BY <2>3, <2>4, <2>5
<1> HIDE DEF Runs
<1>3. Bad = {}
  <2> SUFFICES ASSUME Bad # {} PROVE FALSE
    OBVIOUS
  <2>1. Bad \subseteq Nat
    OBVIOUS
  <2>2. PICK k \in Bad : \A j \in Bad : k <= j
    BY <2>1, LeastNat
  <2>3. k \in 0..n /\ ~Runs(k) /\ k # 0
    BY <1>1, <2>2
  <2>4. k - 1 \in 0..n - 1 /\ k - 1 \in 0..n /\ (k - 1) + 1 = k /\ ~(k <= k - 1)
    BY <2>3
  <2>5. Runs(k - 1)
    BY <2>2, <2>4
  <2> QED
    BY <1>2, <2>3, <2>4, <2>5
<1>4. Runs(n)
  BY <1>3
<1> QED
  BY <1>4 DEF Runs

\* A statement about the first n bytes holds for all, if it holds for none and
\* for one more.
LEMMA AllPrefixes ==
  ASSUME NEW L \in Nat, NEW Good \in [0..L -> BOOLEAN], Good[0],
         \A n \in 1..L : Good[n - 1] => Good[n]
  PROVE  \A n \in 0..L : Good[n]
<1> DEFINE Bad == {n \in 0..L : ~Good[n]}
<1> SUFFICES ASSUME Bad # {} PROVE FALSE
  OBVIOUS
<1>1. Bad \subseteq Nat
  OBVIOUS
<1>2. PICK n \in Bad : \A m \in Bad : n <= m
  BY <1>1, LeastNat
<1>3. n \in 0..L /\ ~Good[n] /\ n # 0
  BY <1>2
<1>4. n - 1 \in 0..L /\ n \in 1..L /\ ~(n <= n - 1)
  BY <1>3
<1>5. Good[n - 1]
  BY <1>2, <1>4
<1> QED
  BY <1>3, <1>4, <1>5

\* The fingerprints of a chunk are those that the loop goes through ...
LEMMA FingerPrintsAre ==
  ASSUME NEW c \in Seq(Words)
  PROVE  /\ FingerPrints(c)[0] = 0
         /\ \A n \in 1..Len(c) : FingerPrints(c)[n] = Roll(FingerPrints(c)[n - 1], c[n])
         /\ \A n \in 0..Len(c) : FingerPrints(c)[n] \in Words
<1> DEFINE L == Len(c)
           step == [n \in 1..L |-> [g \in Words |-> Roll(g, c[n])]]
           IsF(h) == h = [n \in 0..L |-> IF n = 0 THEN 0 ELSE Roll(h[n - 1], c[n])]
<1>1. L \in Nat /\ \A n \in 1..L : c[n] \in Words
  OBVIOUS
<1>2. 0 \in Words
  BY TablesAre DEF Words
<1>3. step \in [1..L -> [Words -> Words]]
  BY <1>1, RollIs
<1>4. PICK h \in [0..L -> Words] :
        h[0] = 0 /\ \A n \in 1..L : h[n] = step[n][h[n - 1]]
  <2> DEFINE W == Words
             base == 0
  <2>1. L \in Nat /\ base \in W /\ step \in [1..L -> [W -> W]]
    BY <1>1, <1>2, <1>3
  <2> HIDE DEF step, L, W, base
  <2>2. \E h \in [0..L -> W] : h[0] = base /\ \A n \in 1..L : h[n] = step[n][h[n - 1]]
    BY <2>1, LoopExists
  <2> QED
    BY <2>2 DEF W, base
<1> HIDE DEF L
<1>5. ASSUME NEW n \in 1..L PROVE h[n] = Roll(h[n - 1], c[n])
  <2>1. n - 1 \in 0..L
    BY <1>1
  <2>2. h[n - 1] \in Words
    BY <1>4, <2>1
  <2> QED
    BY <1>4, <2>2
<1> HIDE DEF step
<1>6. IsF(h)
  <2>1. \A n \in 0..L : n = 0 \/ n \in 1..L
    BY <1>1
  <2>2. \A n \in 0..L : h[n] = IF n = 0 THEN 0 ELSE Roll(h[n - 1], c[n])
    BY <1>1, <1>4, <1>5, <2>1
  <2> QED
    BY <1>4, <2>2
<1> DEFINE f == CHOOSE g : IsF(g)
<1>7. FingerPrints(c) = f
  BY DEF FingerPrints, L
<1> HIDE DEF IsF
<1>8. IsF(f)
  BY <1>6
<1> HIDE DEF f
<1>9. \A n \in 0..L : f[n] = IF n = 0 THEN 0 ELSE Roll(f[n - 1], c[n])
  BY <1>8 DEF IsF
<1>10. f[0] = 0 /\ \A n \in 1..L : f[n] = Roll(f[n - 1], c[n])
  <2>1. 0 \in 0..L /\ \A n \in 1..L : n \in 0..L /\ n # 0
    BY <1>1
  <2> QED
    BY <1>9, <2>1
<1>11. \A n \in 0..L : f[n] \in Words
  <2> DEFINE Good == [n \in 0..L |-> f[n] \in Words]
  <2>1. Good[0]
    <3>1. 0 \in 0..L
      BY <1>1
    <3>2. Good[0] = (f[0] \in Words)
      BY <3>1, Zenon
    <3> QED
      BY <1>2, <1>10, <3>2
  <2>2. ASSUME NEW n \in 1..L, Good[n - 1] PROVE Good[n]
    <3>1. n - 1 \in 0..L /\ n \in 0..L
      BY <1>1
    <3>2. Roll(f[n - 1], c[n]) \in Words
      BY <1>1, <2>2, <3>1, RollIs
    <3> QED
      BY <1>10, <3>1, <3>2
  <2>3. Good \in [0..L -> BOOLEAN]
    OBVIOUS
  <2>4. \A n \in 0..L : Good[n]
    <3> HIDE DEF Good
    <3> QED
      BY <1>1, <2>1, <2>2, <2>3, AllPrefixes
  <2> QED
    BY <2>4
<1> QED
  BY <1>7, <1>10, <1>11 DEF L

\* ... and so are the sub features.
IsSub(s, c) ==
  /\ s[0] = [j \in 1..features_num |-> 0]
  /\ \A n \in 1..Len(c) : s[n] = Sample(s[n - 1], FingerPrints(c)[n])
  /\ \A n \in 0..Len(c) : s[n] \in SubFeatures

\* The loop over the bytes ends with the last of them.
LEMMA OdessIs ==
  ASSUME NEW c \in Seq(Words)
  PROVE  \E s : IsSub(s, c) /\ OdessSubfeatures(c) = s[Len(c)]
<1> DEFINE L == Len(c)
           fp == FingerPrints(c)
           none == [j \in 1..features_num |-> 0]
           step == [n \in 1..L |-> [g \in SubFeatures |-> Sample(g, fp[n])]]
           IsF(h) == h = [n \in 0..L |-> IF n = 0 THEN none ELSE Sample(h[n - 1], fp[n])]
<1>1. L \in Nat /\ \A n \in 1..L : fp[n] \in Words
  <2>1. \A n \in 0..Len(c) : fp[n] \in Words
    BY FingerPrintsAre
  <2> QED
    BY <2>1
<1>2. none \in SubFeatures
  BY DEF SubFeatures
<1> HIDE DEF fp
<1>3. step \in [1..L -> [SubFeatures -> SubFeatures]]
  BY <1>1, SampleIs
<1>4. PICK h \in [0..L -> SubFeatures] :
        h[0] = none /\ \A n \in 1..L : h[n] = step[n][h[n - 1]]
  <2> DEFINE W == SubFeatures
  <2>1. L \in Nat /\ none \in W /\ step \in [1..L -> [W -> W]]
    BY <1>1, <1>2, <1>3
  <2> HIDE DEF step, L, W, none
  <2>2. \E h \in [0..L -> W] : h[0] = none /\ \A n \in 1..L : h[n] = step[n][h[n - 1]]
    BY <2>1, LoopExists
  <2> QED
    BY <2>2 DEF W
<1> HIDE DEF L, none
<1>5. ASSUME NEW n \in 1..L PROVE h[n] = Sample(h[n - 1], fp[n])
  <2>1. n - 1 \in 0..L
    BY <1>1
  <2>2. h[n - 1] \in SubFeatures
    BY <1>4, <2>1
  <2> QED
    BY <1>4, <2>2
<1> HIDE DEF step
<1>6. IsF(h)
  <2>1. \A n \in 0..L : n = 0 \/ n \in 1..L
    BY <1>1
  <2>2. \A n \in 0..L : h[n] = IF n = 0 THEN none ELSE Sample(h[n - 1], fp[n])
    BY <1>1, <1>4, <1>5, <2>1
  <2> QED
    BY <1>4, <2>2
<1> DEFINE f == CHOOSE g : IsF(g)
<1>7. OdessSubfeatures(c) = f[L]
  BY DEF OdessSubfeatures, L, fp, none
<1> HIDE DEF IsF
<1>8. IsF(f)
  BY <1>6
<1> HIDE DEF f
<1>9. \A n \in 0..L : f[n] = IF n = 0 THEN none ELSE Sample(f[n - 1], fp[n])
  BY <1>8 DEF IsF
<1>10. f[0] = none /\ \A n \in 1..L : f[n] = Sample(f[n - 1], fp[n])
  <2>1. 0 \in 0..L /\ \A n \in 1..L : n \in 0..L /\ n # 0
    BY <1>1
  <2> QED
    BY <1>9, <2>1
<1>11. \A n \in 0..L : f[n] \in SubFeatures
  <2> DEFINE Good == [n \in 0..L |-> f[n] \in SubFeatures]
  <2>1. Good[0]
    <3>1. 0 \in 0..L
      BY <1>1
    <3>2. Good[0] = (f[0] \in SubFeatures)
      BY <3>1, Zenon
    <3> QED
      BY <1>2, <1>10, <3>2
  <2>2. ASSUME NEW n \in 1..L, Good[n - 1] PROVE Good[n]
    <3>1. n - 1 \in 0..L /\ n \in 0..L
      BY <1>1
    <3>2. Sample(f[n - 1], fp[n]) \in SubFeatures
      BY <1>1, <2>2, <3>1, SampleIs
    <3> QED
      BY <1>10, <3>1, <3>2
  <2>3. Good \in [0..L -> BOOLEAN]
    OBVIOUS
  <2>4. \A n \in 0..L : Good[n]
    <3> HIDE DEF Good
    <3> QED
      BY <1>1, <2>1, <2>2, <2>3, AllPrefixes
  <2> QED
    BY <2>4
<1>12. IsSub(f, c)
  BY <1>10, <1>11 DEF IsSub, L, fp, none
<1> QED
  BY <1>7, <1>12 DEF L
\* Where the fingerprint of the first n bytes is sampled, where the j-th transform
\* is zero there, and where it is sampled after that.
SamplesTo(c, n) == {m \in 1..n : Sampled(FingerPrints(c)[m])}
ZerosTo(c, j, n) == {m \in SamplesTo(c, n) : Transform(FingerPrints(c)[m], j) = 0}
SinceZero(c, j, n) == {m \in SamplesTo(c, n) : \A z \in ZerosTo(c, j, n) : m > z}

\* x is the least transform of those samples, and zero if there are none.
LeastOf(x, c, j, n) ==
  /\ SinceZero(c, j, n) = {} => x = 0
  /\ SinceZero(c, j, n) # {} =>
       /\ x # 0
       /\ \E m \in SinceZero(c, j, n) : x = Transform(FingerPrints(c)[m], j)
       /\ \A m \in SinceZero(c, j, n) : x <= Transform(FingerPrints(c)[m], j)

\* TakeLeast keeps the least, although zero stands for none.
LEMMA LeastStep ==
  ASSUME NEW c \in Seq(Words), NEW s, IsSub(s, c), NEW j \in 1..features_num,
         NEW n \in 1..Len(c), LeastOf(s[n - 1][j], c, j, n - 1)
  PROVE  LeastOf(s[n][j], c, j, n)
<1> DEFINE fp == FingerPrints(c)
           T(m) == Transform(fp[m], j)
           old == s[n - 1][j]
           new == s[n][j]
           since == SinceZero(c, j, n - 1)
<1>1. n \in Nat /\ n - 1 \in 0..Len(c) /\ n \in 0..Len(c) /\ Len(c) \in Nat
  OBVIOUS
<1>2. \A m \in 0..Len(c) : fp[m] \in Words /\ T(m) \in Nat
  BY FingerPrintsAre, TransformIs
<1>3. s[n - 1] \in SubFeatures /\ s[n] = Sample(s[n - 1], fp[n])
  BY <1>1 DEF IsSub
<1>4. old \in Nat
  BY <1>3 DEF SubFeatures
<1>5. ~Sampled(fp[n]) => new = old
  BY <1>1, <1>2, <1>3, SampleIs
<1>6. Sampled(fp[n]) => new = IF old >= T(n) \/ old = 0 THEN T(n) ELSE old
  <2> DEFINE t == s[n - 1]
             u == fp[n]
  <2>1. t \in SubFeatures /\ u \in Words
    BY <1>1, <1>2, <1>3
  <2> HIDE DEF t, u
  <2>2. Sampled(u) => Sample(t, u)[j] = IF t[j] >= Transform(u, j) \/ t[j] = 0
                                          THEN Transform(u, j) ELSE t[j]
    BY <2>1, SampleIs
  <2> QED
    BY <1>3, <2>2 DEF t, u
<1>7. SamplesTo(c, n) = SamplesTo(c, n - 1) \cup (IF Sampled(fp[n]) THEN {n} ELSE {})
  <2>1. 1..n = (1..n - 1) \cup {n}
    BY <1>1
  <2> QED
    BY <2>1 DEF SamplesTo
<1>8. SamplesTo(c, n - 1) \subseteq 1..n - 1
  BY DEF SamplesTo
<1>9. CASE ~Sampled(fp[n])
  <2>1. SamplesTo(c, n) = SamplesTo(c, n - 1)
    BY <1>7, <1>9
  <2>2. SinceZero(c, j, n) = since
    BY <2>1 DEF SinceZero, ZerosTo
  <2> QED
    BY <1>5, <1>9, <2>2 DEF LeastOf
<1>10. CASE Sampled(fp[n]) /\ T(n) = 0
  <2>1. new = 0
    BY <1>4, <1>6, <1>10
  <2>2. n \in ZerosTo(c, j, n)
    BY <1>7, <1>10 DEF ZerosTo
  <2>3. \A m \in SamplesTo(c, n) : ~(m > n)
    BY <1>1, <1>7, <1>8
  <2>4. SinceZero(c, j, n) = {}
    BY <2>2, <2>3 DEF SinceZero
  <2> QED
    BY <2>1, <2>4 DEF LeastOf
<1>11. CASE Sampled(fp[n]) /\ T(n) # 0
  <2>1. SamplesTo(c, n) = SamplesTo(c, n - 1) \cup {n}
    BY <1>7, <1>11
  <2>2. ZerosTo(c, j, n) = ZerosTo(c, j, n - 1) /\ ZerosTo(c, j, n) \subseteq 1..n - 1
    BY <1>8, <1>11, <2>1 DEF ZerosTo
  <2>3. \A z \in ZerosTo(c, j, n) : n > z
    BY <1>1, <2>2
  <2>4. SinceZero(c, j, n) = since \cup {n}
    BY <2>1, <2>2, <2>3 DEF SinceZero
  <2>5. T(n) \in Nat /\ \A m \in since : T(m) \in Nat
    BY <1>1, <1>2, <1>8 DEF SinceZero
  <2>6. /\ since = {} => old = 0
        /\ since # {} => /\ old # 0 /\ \E m \in since : old = T(m)
                         /\ \A m \in since : old <= T(m)
    BY DEF LeastOf
  <2> HIDE DEF T, since, old, new, fp
  <2>7. /\ new # 0
        /\ \E m \in since \cup {n} : new = T(m)
        /\ \A m \in since \cup {n} : new <= T(m)
    BY <1>4, <1>6, <1>11, <2>5, <2>6
  <2> QED
    BY <2>4, <2>7 DEF LeastOf, new, T, fp
<1> QED
  BY <1>9, <1>10, <1>11

\* The sub features of a chunk are the least transforms.
LEMMA SubIsLeast ==
  ASSUME NEW c \in Chunks
  PROVE  /\ OdessSubfeatures(c) \in SubFeatures
         /\ OdessSubfeatures(c) = [j \in 1..features_num |-> LeastTransform(c, j)]
<1>1. c \in Seq(Words)
  BY TablesAre
<1>2. PICK s : IsSub(s, c) /\ OdessSubfeatures(c) = s[Len(c)]
  BY <1>1, OdessIs
<1> DEFINE L == Len(c)
<1>3. L \in Nat /\ L \in 0..L
  BY <1>1
<1>4. s[L] \in SubFeatures
  BY <1>2, <1>3 DEF IsSub
<1>5. ASSUME NEW j \in 1..features_num PROVE s[L][j] = LeastTransform(c, j)
  <2> DEFINE Good == [n \in 0..L |-> LeastOf(s[n][j], c, j, n)]
  <2>1. Good[0]
    <3>1. 0 \in 0..L
      BY <1>3
    <3>2. Good[0] = LeastOf(s[0][j], c, j, 0)
      BY <3>1, Zenon
    <3>3. s[0] = [i \in 1..features_num |-> 0]
      BY <1>2 DEF IsSub
    <3>4. s[0][j] = 0
      BY <3>3
    <3>5. SinceZero(c, j, 0) = {}
      BY DEF SinceZero, SamplesTo
    <3> QED
      BY <3>2, <3>4, <3>5 DEF LeastOf
  <2>2. ASSUME NEW n \in 1..L, Good[n - 1] PROVE Good[n]
    <3>1. n - 1 \in 0..L /\ n \in 0..L
      BY <1>3
    <3>2. LeastOf(s[n - 1][j], c, j, n - 1)
      BY <2>2, <3>1
    <3>3. LeastOf(s[n][j], c, j, n)
      BY <1>1, <1>2, <3>2, LeastStep
    <3> QED
      BY <3>1, <3>3
  <2>3. Good \in [0..L -> BOOLEAN]
    BY DEF LeastOf
  <2>4. Good[L]
    <3> HIDE DEF Good, L
    <3> QED
      BY <1>3, <2>1, <2>2, <2>3, AllPrefixes
  <2>5. LeastOf(s[L][j], c, j, L)
    BY <1>3, <2>4
  <2> DEFINE T(n) == Transform(FingerPrints(c)[n], j)
             zeros == {n \in Samples(c) : T(n) = 0}
             since == {n \in Samples(c) : \A z \in zeros : n > z}
             S == {T(n) : n \in since}
             x == s[L][j]
  <2>6. LeastTransform(c, j) = IF since = {} THEN 0 ELSE Min(S)
    BY DEF LeastTransform
  <2>7. Samples(c) = SamplesTo(c, L)
    BY DEF Samples, SamplesTo
  <2>8. since = SinceZero(c, j, L)
    BY <2>7 DEF SinceZero, ZerosTo
  <2>9. ASSUME since # {} PROVE Min(S) = x
    <3>1. /\ \E m \in since : x = T(m)
          /\ \A m \in since : x <= T(m)
      BY <2>5, <2>8, <2>9 DEF LeastOf
    <3>2. \A m \in since : T(m) \in Nat
      <4>1. since \subseteq 0..Len(c)
        BY <1>1 DEF Samples
      <4> QED
        BY <1>1, <4>1, FingerPrintsAre, TransformIs
    <3> HIDE DEF T, since, x
    <3>3. S \subseteq Int /\ x \in S /\ \A y \in S : x <= y
      BY <3>1, <3>2
    <3> HIDE DEF S
    <3> QED
      BY <3>3, MinIs
  <2>10. since = {} => x = 0
    BY <2>5, <2>8 DEF LeastOf
  <2> QED
    BY <2>6, <2>9, <2>10
<1>6. s[L] = [j \in 1..features_num |-> LeastTransform(c, j)]
  BY <1>4, <1>5 DEF SubFeatures
<1> QED
  BY <1>2, <1>4, <1>6

\* What is computed of a chunk, and the reference, are the same.
LEMMA ComputedAre ==
  ASSUME NEW x \in Computed
  PROVE  /\ x.sub = x.least /\ x.sub \in SubFeatures
         /\ x.feature \in Features
         /\ \A k \in 1..Levels : x.feature[k].v = Group(x.sub, Counts[k])
<1>1. PICK c \in Chunks :
        x = [feature |-> PalantirFeature(c), sub |-> OdessSubfeatures(c),
             least |-> [j \in 1..features_num |-> LeastTransform(c, j)]]
  BY DEF Computed
<1>2. /\ x.sub = OdessSubfeatures(c) /\ x.feature = PalantirFeature(c)
      /\ x.least = [j \in 1..features_num |-> LeastTransform(c, j)]
  BY <1>1
<1>3. x.sub = x.least /\ x.sub \in SubFeatures /\ x.feature \in Features
  BY <1>2, SubIsLeast DEF Features
<1> DEFINE sub == OdessSubfeatures(c)
           R(k) == [kind |-> "sf", v |-> Group(sub, Counts[k])]
           front == [k \in 1..Levels |-> R(k)]
           last == [kind |-> "float", v |-> ZeroCal(c)]
           S == {R(k) : k \in 1..Levels} \cup {last}
           f == PalantirFeature(c)
<1>4. f = Append(front, last)
  BY DEF PalantirFeature, Levels
<1>5. Levels \in Nat /\ \A k \in 1..Levels : R(k).v = Group(sub, Counts[k])
  BY LevelsAre
<1> HIDE DEF R, last, f
<1>6. front \in Seq(S) /\ Len(front) = Levels /\ last \in S
      /\ \A k \in 1..Levels : front[k] = R(k)
  BY <1>5
<1> HIDE DEF front, S
<1>7. \A k \in 1..Levels : f[k] = R(k)
  BY <1>4, <1>5, <1>6
<1>8. \A k \in 1..Levels : f[k].v = Group(sub, Counts[k])
  BY <1>5, <1>7
<1> QED
  BY <1>2, <1>3, <1>8 DEF f

\* Two chunks with the same sub features in a group, all but the first, have the
\* same super feature: its hash does not read the rest of the first.
LEMMA GroupsAgree ==
  ASSUME NEW s \in SubFeatures, NEW t \in SubFeatures,
         NEW k \in 1..Levels, NEW i \in 1..Counts[k],
         \A j \in Hashed(k, i) : s[j] = t[j]
  PROVE  Group(s, Counts[k])[i] = Group(t, Counts[k])[i]
<1> DEFINE n == features_num \div Counts[k]
           a == (i - 1) * (2 * n) + 2
           b == i * (2 * n)
<1>1. Counts[k] \in Nat \ {0} /\ features_num % Counts[k] = 0 /\ features_num \in Nat
  <2>1. Counts \in Seq(Nat \ {0}) /\ \A m \in DOMAIN Counts : Len(M) % Counts[m] = 0
    BY TablesAssumption
  <2> QED
    BY <2>1, LevelsAre, TablesAre DEF features_num, Levels
<1>2. n \in Nat /\ n * Counts[k] = features_num
  <2> DEFINE q == Counts[k]
             r == features_num
  <2> HIDE DEF q, r
  <2>1. q \in Nat \ {0} /\ r \in Nat /\ r % q = 0
    BY <1>1 DEF q, r
  <2>2. (r \div q) \in Nat /\ r = q * (r \div q) + (r % q)
    BY <2>1
  <2>3. (r \div q) * q = r
    BY <2>1, <2>2
  <2> QED
    BY <2>2, <2>3 DEF q, r
<1> HIDE DEF n
<1>3. i \in Nat /\ i - 1 \in Nat /\ i <= Counts[k]
  BY <1>1
<1>4. (i - 1) * n \in Nat /\ i * n = (i - 1) * n + n /\ i * n <= features_num
  <2>1. i * n <= Counts[k] * n
    BY <1>1, <1>2, <1>3
  <2> QED
    BY <1>1, <1>2, <1>3, <2>1
<1>5. (i - 1) * (2 * n) = 2 * ((i - 1) * n) /\ i * (2 * n) = 2 * (i * n)
  BY <1>2, <1>3
<1> DEFINE lo == (i - 1) * n
           hi == i * n
<1>6. /\ lo \in Nat /\ hi \in Nat /\ hi = lo + n /\ hi <= features_num
      /\ a = 2 * lo + 2 /\ b = 2 * hi
  BY <1>2, <1>4, <1>5
<1>7. \A j \in lo + 2..hi : s[j] = t[j]
  BY DEF Hashed, n
<1> HIDE DEF lo, hi, a, b
<1>8. HashBuf(s) \in Seq(Nat) /\ HashBuf(t) \in Seq(Nat)
      /\ Len(HashBuf(s)) = 2 * features_num /\ Len(HashBuf(t)) = 2 * features_num
  <2>1. ASSUME NEW u \in SubFeatures
        PROVE  HashBuf(u) \in Seq(Nat) /\ Len(HashBuf(u)) = 2 * features_num
    <3>1. Len(u) = features_num /\ features_num \in Nat
      BY TablesAre DEF SubFeatures
    <3>2. ASSUME NEW m \in 1..2 * features_num, m % 2 = 1 PROVE u[(m + 1) \div 2] \in Nat
      <4>1. (m + 1) \div 2 \in 1..features_num
        BY <3>1
      <4> QED
        BY <4>1 DEF SubFeatures
    <3>3. \A m \in 1..2 * features_num :
            (IF m % 2 = 1 THEN u[(m + 1) \div 2] ELSE 0) \in Nat
      BY <3>2
    <3> QED
      BY <3>1, <3>3 DEF HashBuf
  <2> QED
    BY <2>1
<1>9. ASSUME NEW m \in a..b PROVE HashBuf(s)[m] = HashBuf(t)[m]
  <2>1. m \in 1..2 * features_num
    BY <1>1, <1>6
  <2>2. /\ HashBuf(s)[m] = IF m % 2 = 1 THEN s[(m + 1) \div 2] ELSE 0
        /\ HashBuf(t)[m] = IF m % 2 = 1 THEN t[(m + 1) \div 2] ELSE 0
    <3>1. Len(s) = features_num /\ Len(t) = features_num
      BY TablesAre DEF SubFeatures
    <3> QED
      BY <2>1, <3>1 DEF HashBuf
  <2>3. m % 2 = 1 => (m + 1) \div 2 \in lo + 2..hi
    BY <1>6, <2>1
  <2> QED
    BY <1>7, <2>2, <2>3
<1> DEFINE p == SubSeq(HashBuf(s), a, b)
           q == SubSeq(HashBuf(t), a, b)
<1>10. p = q
  <2>1. a \in Nat /\ a >= 1 /\ b \in Nat /\ b <= 2 * features_num
    BY <1>1, <1>6
  <2> DEFINE hs == HashBuf(s)
             ht == HashBuf(t)
             l == IF a <= b THEN b - a + 1 ELSE 0
  <2>2. hs \in Seq(Nat) /\ ht \in Seq(Nat) /\ b <= Len(hs) /\ b <= Len(ht)
    BY <1>8, <2>1
  <2>3. \A m \in 1..l : a + m - 1 \in a..b
    BY <2>1
  <2> HIDE DEF hs, ht
  <2>4. SubSeq(hs, a, b) = [m \in 1..l |-> hs[a + m - 1]]
        /\ SubSeq(ht, a, b) = [m \in 1..l |-> ht[a + m - 1]]
    BY <2>1, <2>2
  <2>5. \A m \in 1..l : hs[a + m - 1] = ht[a + m - 1]
    BY <1>9, <2>3 DEF hs, ht
  <2> HIDE DEF l
  <2>6. SubSeq(hs, a, b) = SubSeq(ht, a, b)
    BY <2>4, <2>5
  <2> QED
    BY <2>6 DEF hs, ht
<1>11. Group(s, Counts[k])[i] = HashValue(p) /\ Group(t, Counts[k])[i] = HashValue(q)
  BY DEF Group, n, a, b
<1> HIDE DEF p, q
<1> QED
  BY <1>10, <1>11

\* A chunk that agrees with a base on the least transforms of a group finds one.
LEMMA SimilarLookup ==
  ASSUME PalantirInv
  PROVE  SimilarFound
<1> SUFFICES ASSUME NEW b \in bases, NEW c \in Computed, NEW x \in Computed,
                    Agree(c, x), c.feature = b.feature
             PROVE  BaseChunkIDs(x.feature) # {}
  BY DEF SimilarFound, Similar
<1>1. DOMAIN Counts = 1..Levels
  BY TablesAssumption DEF Levels
<1>2. PICK k \in 1..Levels : \E i \in 1..Counts[k] : \A j \in Hashed(k, i) : c.least[j] = x.least[j]
  BY <1>1 DEF Agree
<1>3. PICK i \in 1..Counts[k] : \A j \in Hashed(k, i) : c.least[j] = x.least[j]
  BY <1>2
<1>4. /\ c.sub = c.least /\ x.sub = x.least /\ c.sub \in SubFeatures /\ x.sub \in SubFeatures
      /\ c.feature[k].v = Group(c.sub, Counts[k]) /\ x.feature[k].v = Group(x.sub, Counts[k])
      /\ x.feature \in Features
  BY ComputedAre
<1>5. x.feature[k].v[i] = b.feature[k].v[i]
  BY <1>3, <1>4, GroupsAgree
<1>6. Common(x.feature, b.feature) # {}
  BY <1>5 DEF Common, Levels
<1>9. IsFeature(x.feature)
  BY <1>4, FeaturesAre
<1>10. Hits(x.feature) = UNION {Common(x.feature, y.feature) : y \in bases}
  BY <1>9, LookupIs
<1>11. Hits(x.feature) # {}
  BY <1>6, <1>10
<1> QED
  BY <1>9, <1>11, LookupIs
-----------------------------------------------------------------------------
(* The best-fit index.                                                     *)

Matches(f, b) == BestFit!Shared(f, b.least)

\* The ids entered at position i for the feature x.
Listed(i, x) == IF x \in DOMAIN index_[i] THEN index_[i][x] ELSE <<>>

\* The ids of a list are those of the bases with the feature, each once.
ListOK(l, i, x, known, next) ==
  /\ l \in Seq(Nat) /\ Len(l) <= next
  /\ \A p, q \in 1..Len(l) : l[p] = l[q] => p = q
  /\ \A p \in 1..Len(l) : \E b \in known : b.id = l[p] /\ b.least[i] = x
  /\ \A b \in known : b.least[i] = x => \E p \in 1..Len(l) : b.id = l[p]

\* All lists are like that, ...
ListsOK ==
  /\ DOMAIN index_ = 1..features_num
  /\ \A i \in 1..features_num : \A x \in Nat :
       ListOK(Listed(i, x), i, x, bases, nextId)

\* ... the bases have different ids ...
BaseIdsOK ==
  /\ nextId \in Nat /\ nextId <= MaxChunks
  /\ \A b \in bases : b.id \in 0..nextId - 1 /\ b.least \in SubFeatures
  /\ \A b, c \in bases : b.id = c.id => b = c

\* ... and no two of them have MinMatch features in common.
BasesApart == \A b, c \in bases : b # c => Matches(b.least, c) < MinMatch

BestInv == ListsOK /\ BaseIdsOK /\ BasesApart

\* The cardinality that the best-fit index counts with is the usual one.
LEMMA CountIs ==
  ASSUME NEW S
  PROVE  BestFit!Cardinality(S) = Cardinality(S)
BY DEF BestFit!Cardinality, Cardinality

\* The number of features that two chunks have in common.
LEMMA SharedIs ==
  ASSUME NEW l, NEW m
  PROVE  /\ BestFit!Shared(l, m) \in 0..features_num
         /\ IsFiniteSet({i \in 1..features_num : l[i] = m[i]})
         /\ BestFit!Shared(l, m) = BestFit!Shared(m, l)
         /\ BestFit!Shared(l, l) = features_num
<1> DEFINE S == {i \in 1..features_num : l[i] = m[i]}
<1>1. features_num \in Nat \ {0}
  BY TablesAre
<1>2. IsFiniteSet(1..features_num) /\ Cardinality(1..features_num) = features_num
  BY <1>1, FS_Interval
<1>3. S \in SUBSET (1..features_num)
  OBVIOUS
<1>4. IsFiniteSet(S) /\ Cardinality(S) <= Cardinality(1..features_num)
  <2> HIDE DEF S
  <2> QED
    BY <1>2, <1>3, FS_Subset
<1>5. Cardinality(S) \in Nat
  BY <1>4, FS_CardinalityType
<1>6. \A u, v : BestFit!Shared(u, v) = Cardinality({i \in 1..features_num : u[i] = v[i]})
  BY CountIs DEF BestFit!Shared
<1>7. BestFit!Shared(l, m) = Cardinality(S) /\ BestFit!Shared(m, l) = Cardinality(S)
  <2>1. S = {i \in 1..features_num : m[i] = l[i]}
    OBVIOUS
  <2> QED
    BY <1>6, <2>1
<1>8. BestFit!Shared(l, l) = Cardinality(1..features_num)
  <2>1. {i \in 1..features_num : l[i] = l[i]} = 1..features_num
    OBVIOUS
  <2> QED
    BY <1>6, <2>1
<1> QED
  BY <1>1, <1>2, <1>4, <1>5, <1>7, <1>8

\* What the lists say of one feature.
LEMMA ListIs ==
  ASSUME BestInv, NEW i \in 1..features_num, NEW x \in Nat
  PROVE  ListOK(Listed(i, x), i, x, bases, nextId)
BY DEF BestInv, ListsOK

\* The loops of GetBaseChunkID count, for every base, the features that it has in
\* common with the chunk, and nothing else.
LEMMA MatchCountIs ==
  ASSUME BestInv, NEW f \in SubFeatures, NEW id
  PROVE  /\ \A b \in bases : b.id = id => BestFit!MatchCount(f, id) = Matches(f, b)
         /\ (\A b \in bases : b.id # id) => BestFit!MatchCount(f, id) = 0
<1> DEFINE Places == (1..features_num) \X (1..MaxChunks)
           List(i) == Listed(i, f[i])
           At == {at \in Places : at[2] <= Len(List(at[1])) /\ List(at[1])[at[2]] = id}
<1>1. BestFit!MatchCount(f, id) = Cardinality(At)
  <2>1. \A i : BestFit!Matched(f, i) = List(i)
    BY DEF BestFit!Matched, Listed
  <2> DEFINE Counted == {at \in Places : /\ at[2] <= Len(BestFit!Matched(f, at[1]))
                                        /\ BestFit!Matched(f, at[1])[at[2]] = id}
  <2>2. Counted = At
    BY <2>1
  <2>3. BestFit!MatchCount(f, id) = BestFit!Cardinality(Counted)
    BY DEF BestFit!MatchCount
  <2> QED
    BY <2>2, <2>3, CountIs
<1>2. \A i \in 1..features_num : ListOK(List(i), i, f[i], bases, nextId)
  <2> SUFFICES ASSUME NEW i \in 1..features_num
               PROVE  ListOK(List(i), i, f[i], bases, nextId)
    OBVIOUS
  <2>1. f[i] \in Nat
    BY DEF SubFeatures
  <2> QED
    BY <2>1, ListIs
<1> HIDE DEF List
<1>3. MaxChunks \in Nat /\ nextId \in Nat /\ nextId <= MaxChunks
  BY PalantirAssumption DEF BestInv, BaseIdsOK
<1>4. ASSUME NEW at \in At
      PROVE  /\ at[1] \in 1..features_num /\ at = <<at[1], at[2]>>
             /\ at[2] \in 1..Len(List(at[1]))
             /\ List(at[1])[at[2]] = id
  <2>1. at[1] \in 1..features_num /\ at[2] \in 1..MaxChunks /\ at = <<at[1], at[2]>>
    OBVIOUS
  <2>2. List(at[1]) \in Seq(Nat)
    BY <1>2, <2>1 DEF ListOK
  <2>3. at[2] <= Len(List(at[1])) /\ List(at[1])[at[2]] = id
    OBVIOUS
  <2>4. at[2] \in 1..Len(List(at[1]))
    BY <1>3, <2>1, <2>2, <2>3
  <2> QED
    BY <2>1, <2>3, <2>4
<1>5. ASSUME \A b \in bases : b.id # id PROVE BestFit!MatchCount(f, id) = 0
  <2>1. ASSUME NEW at \in At PROVE FALSE
    <3>1. \E b \in bases : b.id = List(at[1])[at[2]] /\ b.least[at[1]] = f[at[1]]
      BY <1>2, <1>4 DEF ListOK
    <3> QED
      BY <1>4, <1>5, <3>1
  <2>2. At = {}
    BY <2>1
  <2> HIDE DEF At
  <2> QED
    BY <1>1, <2>2, FS_EmptySet
<1>6. ASSUME NEW b \in bases, b.id = id PROVE BestFit!MatchCount(f, id) = Matches(f, b)
  <2> DEFINE S == {i \in 1..features_num : f[i] = b.least[i]}
             g == [at \in At |-> at[1]]
  <2>1. ASSUME NEW at \in At PROVE at[1] \in S
    <3>1. PICK c \in bases : c.id = List(at[1])[at[2]] /\ c.least[at[1]] = f[at[1]]
      BY <1>2, <1>4 DEF ListOK
    <3>2. c = b
      BY <1>4, <1>6, <3>1 DEF BestInv, BaseIdsOK
    <3> QED
      BY <1>4, <3>1, <3>2
  <2>2. ASSUME NEW at \in At, NEW o \in At, at[1] = o[1] PROVE at = o
    <3>1. at[2] \in 1..Len(List(at[1])) /\ o[2] \in 1..Len(List(at[1]))
          /\ List(at[1])[at[2]] = List(at[1])[o[2]]
          /\ at[1] \in 1..features_num
      BY <1>4, <2>2
    <3>2. at[2] = o[2]
      <4>1. \A p, q \in 1..Len(List(at[1])) : List(at[1])[p] = List(at[1])[q] => p = q
        BY <1>2, <3>1 DEF ListOK
      <4> QED
        BY <3>1, <4>1, Zenon
    <3>3. at = <<at[1], at[2]>> /\ o = <<o[1], o[2]>>
      BY <1>4
    <3> QED
      BY <2>2, <3>2, <3>3
  <2>3. ASSUME NEW i \in S PROVE \E at \in At : at[1] = i
    <3>1. i \in 1..features_num /\ b.least[i] = f[i]
      OBVIOUS
    <3>2. ListOK(List(i), i, f[i], bases, nextId)
      BY <1>2, <3>1
    <3>3. PICK p \in 1..Len(List(i)) : b.id = List(i)[p]
      BY <3>1, <3>2 DEF ListOK
    <3>4. List(i) \in Seq(Nat) /\ Len(List(i)) <= nextId
      BY <3>2 DEF ListOK
    <3>5. p \in 1..MaxChunks /\ p <= Len(List(i))
      BY <1>3, <3>3, <3>4
    <3> DEFINE at == <<i, p>>
    <3>6. at \in Places /\ at[1] = i /\ at[2] = p
      BY <3>1, <3>5
    <3> HIDE DEF at
    <3>7. at \in At
      BY <1>6, <3>3, <3>5, <3>6
    <3> QED
      BY <3>6, <3>7
  <2>4. IsFiniteSet(S) /\ Matches(f, b) = Cardinality(S)
    <3>1. IsFiniteSet({i \in 1..features_num : f[i] = b.least[i]})
      BY SharedIs
    <3>2. Matches(f, b) = BestFit!Cardinality(S)
      BY DEF Matches, BestFit!Shared
    <3> QED
      BY <3>1, <3>2, CountIs
  <2> HIDE DEF At, S
  <2>5. g \in Injection(At, S)
    BY <2>1, <2>2 DEF Injection, IsInjective
  <2>6. g \in Surjection(At, S)
    BY <2>1, <2>3 DEF Surjection
  <2> HIDE DEF g
  <2>7. Cardinality(At) = Cardinality(S)
    BY <2>4, <2>5, <2>6, FS_Injection
  <2> QED
    BY <1>1, <2>4, <2>7
<1> QED
  BY <1>5, <1>6

\* GetBaseChunkID finds the bases that have most features in common with the
\* chunk, and at least MinMatch.
LEMMA BestIs ==
  ASSUME BestInv, NEW f \in SubFeatures
  PROVE  BestFit!BaseChunkIDs(f) =
           {b.id : b \in {x \in bases : /\ Matches(f, x) >= MinMatch
                                        /\ \A y \in bases : Matches(f, y) <= Matches(f, x)}}
<1> DEFINE Count(id) == BestFit!MatchCount(f, id)
           Best(x) == /\ Matches(f, x) >= MinMatch
                      /\ \A y \in bases : Matches(f, y) <= Matches(f, x)
           Found == BestFit!BaseChunkIDs(f)
<1>1. \A id : (\A b \in bases : b.id = id => Count(id) = Matches(f, b))
              /\ ((\A b \in bases : b.id # id) => Count(id) = 0)
  BY MatchCountIs
<1>2. \A b \in bases : Matches(f, b) \in Nat /\ b.id \in 0..nextId - 1
  <2> SUFFICES ASSUME NEW b \in bases
               PROVE  Matches(f, b) \in Nat /\ b.id \in 0..nextId - 1
    OBVIOUS
  <2>1. Matches(f, b) \in 0..features_num /\ features_num \in Nat
    BY SharedIs, TablesAre DEF Matches
  <2>2. b.id \in 0..nextId - 1
    BY DEF BestInv, BaseIdsOK
  <2> QED
    BY <2>1, <2>2
<1>3. MinMatch \in Nat /\ MinMatch >= 1
  BY MatchAssumption, TablesAre
<1>4. Found = {id \in 0..nextId - 1 :
                 Count(id) >= MinMatch /\ \A other \in 0..nextId - 1 : Count(other) <= Count(id)}
  BY DEF BestFit!BaseChunkIDs
<1> HIDE DEF Count, Found
<1>5. ASSUME NEW id \in Found PROVE \E b \in bases : b.id = id /\ Best(b)
  <2>1. id \in 0..nextId - 1 /\ Count(id) >= MinMatch
        /\ \A other \in 0..nextId - 1 : Count(other) <= Count(id)
    BY <1>4
  <2>2. Count(id) # 0
    BY <1>3, <2>1
  <2>3. PICK b \in bases : b.id = id
    BY <1>1, <2>2
  <2>4. \A y \in bases : Count(y.id) = Matches(f, y)
    BY <1>1
  <2> QED
    BY <1>2, <2>1, <2>3, <2>4
<1>6. ASSUME NEW b \in bases, Best(b) PROVE b.id \in Found
  <2>1. Count(b.id) = Matches(f, b)
    BY <1>1
  <2>2. ASSUME NEW other \in 0..nextId - 1 PROVE Count(other) <= Count(b.id)
    <3>1. CASE \E y \in bases : y.id = other
      <4>1. PICK y \in bases : y.id = other
        BY <3>1
      <4>2. Count(other) = Matches(f, y)
        BY <1>1, <4>1
      <4> QED
        BY <1>6, <2>1, <4>2
    <3>2. CASE \A y \in bases : y.id # other
      <4>1. Count(other) = 0
        BY <1>1, <3>2
      <4> QED
        BY <1>2, <2>1, <4>1
    <3> QED
      BY <3>1, <3>2
  <2> QED
    BY <1>2, <1>4, <1>6, <2>1, <2>2
<1>7. Found = {b.id : b \in {x \in bases : Best(x)}}
  <2> HIDE DEF Best
  <2> QED
    BY <1>5, <1>6
<1> QED
  BY <1>7 DEF Found

\* If it finds none, no base has MinMatch of the features of the chunk.
LEMMA NoBest ==
  ASSUME BestInv, NEW f \in SubFeatures, BestFit!BaseChunkIDs(f) = {}, NEW b \in bases
  PROVE  Matches(f, b) < MinMatch
<1>0. features_num \in Nat /\ MinMatch \in Nat
      /\ \A y \in bases : Matches(f, y) \in 0..features_num
  <2>1. \A y \in bases : Matches(f, y) \in 0..features_num
    BY SharedIs DEF Matches
  <2> QED
    BY <2>1, TablesAre, MatchAssumption
<1> SUFFICES ASSUME Matches(f, b) >= MinMatch PROVE FALSE
  BY <1>0
<1> DEFINE T == {features_num - Matches(f, y) : y \in bases}
<1>1. T \subseteq Nat /\ T # {}
  BY <1>0
<1> HIDE DEF T
<1>2. PICK t \in T : \A u \in T : t <= u
  BY <1>1, LeastNat
<1>3. PICK x \in bases : t = features_num - Matches(f, x)
  BY DEF T
<1>4. \A y \in bases : Matches(f, y) <= Matches(f, x)
  <2> SUFFICES ASSUME NEW y \in bases PROVE Matches(f, y) <= Matches(f, x)
    OBVIOUS
  <2>1. features_num - Matches(f, y) \in T
    BY DEF T
  <2>2. t <= features_num - Matches(f, y)
    BY <1>2, <2>1
  <2> QED
    BY <1>0, <1>3, <2>2
<1>5. Matches(f, x) >= MinMatch
  BY <1>0, <1>4
<1>6. x.id \in BestFit!BaseChunkIDs(f)
  BY <1>4, <1>5, BestIs
<1> QED
  BY <1>6

\* What the invariant says of lookups in the best-fit index.
LEMMA BestLookup ==
  ASSUME BestInv
  PROVE  BestFit!LookupBestFit
<1>1. ASSUME NEW c \in Computed
      PROVE  BestFit!BaseChunkIDs(c.sub) =
               {b.id : b \in {x \in bases :
                  /\ BestFit!Shared(c.least, x.least) >= MinMatch
                  /\ \A y \in bases :
                       BestFit!Shared(c.least, y.least) <= BestFit!Shared(c.least, x.least)}}
  <2>1. c.sub = c.least /\ c.sub \in SubFeatures
    BY ComputedAre
  <2> QED
    BY <2>1, BestIs DEF Matches
<1>2. ASSUME NEW b \in bases, NEW c \in Computed, c.least = b.least
      PROVE  BestFit!BaseChunkIDs(c.sub) = {b.id}
  <2>1. c.sub = b.least /\ c.sub \in SubFeatures
    BY <1>2, ComputedAre
  <2> DEFINE f == c.sub
  <2>2. Matches(f, b) = features_num
    BY <2>1, SharedIs DEF Matches
  <2>3. \A y \in bases : Matches(f, y) \in 0..features_num
    BY SharedIs DEF Matches
  <2>4. \A y \in bases : y # b => Matches(f, y) < MinMatch
    BY <2>1 DEF BestInv, BasesApart
  <2>5. features_num \in Nat /\ MinMatch \in Nat /\ MinMatch <= features_num
    BY MatchAssumption, TablesAre
  <2> HIDE DEF f
  <2>6. \A x \in bases : (/\ Matches(f, x) >= MinMatch
                          /\ \A y \in bases : Matches(f, y) <= Matches(f, x)) <=> x = b
    BY <2>2, <2>3, <2>4, <2>5
  <2>7. BestFit!BaseChunkIDs(f) =
          {y.id : y \in {x \in bases : /\ Matches(f, x) >= MinMatch
                                       /\ \A y \in bases : Matches(f, y) <= Matches(f, x)}}
    BY <2>1, BestIs DEF f
  <2>8. BestFit!BaseChunkIDs(f) = {b.id}
    BY <2>6, <2>7
  <2> QED
    BY <2>8 DEF f
<1> QED
  BY <1>1, <1>2 DEF BestFit!LookupBestFit

\* AddFeature appends the id to the lists of the features of the chunk.
LEMMA ListedIs ==
  ASSUME DOMAIN index_ = 1..features_num, NEW f \in SubFeatures,
         index_' = BestFit!AddFeature(f, nextId)
  PROVE  /\ DOMAIN index_' = 1..features_num
         /\ \A i \in 1..features_num : \A x \in Nat :
              Listed(i, x)' = IF x = f[i] THEN Append(Listed(i, x), nextId) ELSE Listed(i, x)
<1>1. index_' = [i \in 1..features_num |->
                   [x \in DOMAIN index_[i] \cup {f[i]} |->
                      IF x = f[i] THEN Append(Listed(i, f[i]), nextId) ELSE index_[i][x]]]
  BY DEF BestFit!AddFeature, BestFit!Matched, Listed
<1>2. ASSUME NEW i \in 1..features_num, NEW x \in Nat
      PROVE  Listed(i, x)' = IF x = f[i] THEN Append(Listed(i, x), nextId) ELSE Listed(i, x)
  <2> DEFINE t == index_[i]
             u == index_'[i]
             more == Append(Listed(i, f[i]), nextId)
  <2>1. u = [y \in DOMAIN t \cup {f[i]} |-> IF y = f[i] THEN more ELSE t[y]]
    BY <1>1
  <2>2. Listed(i, x)' = IF x \in DOMAIN u THEN u[x] ELSE <<>>
    BY DEF Listed
  <2>3. Listed(i, x) = IF x \in DOMAIN t THEN t[x] ELSE <<>>
    BY DEF Listed
  <2> HIDE DEF t, u, more
  <2>4. Listed(i, x)' = IF x = f[i] THEN more ELSE Listed(i, x)
    BY <2>1, <2>2, <2>3
  <2> QED
    BY <2>4 DEF more
<1> QED
  BY <1>1, <1>2

\* A chunk that becomes a base keeps the lists in order.
LEMMA BestAdds ==
  ASSUME BestInv, NEW c \in Computed, BestFit!AddBase(c)
  PROVE  BestInv'
<1> DEFINE new == [least |-> c.least, id |-> nextId]
           f == c.least
<1>1. c.sub = f /\ f \in SubFeatures
  BY ComputedAre
<1>2. /\ nextId < MaxChunks /\ BestFit!BaseChunkIDs(f) = {}
      /\ index_' = BestFit!AddFeature(f, nextId)
      /\ nextId' = nextId + 1 /\ bases' = bases \cup {new}
  BY <1>1 DEF BestFit!AddBase
<1>3. new.least = f /\ new.id = nextId
  OBVIOUS
<1>4. nextId \in Nat /\ MaxChunks \in Nat
  BY PalantirAssumption DEF BestInv, BaseIdsOK
<1>5. \A b \in bases : b.id \in 0..nextId - 1 /\ b.id # nextId /\ b.least \in SubFeatures
  BY <1>4 DEF BestInv, BaseIdsOK
<1>6. \A b \in bases : Matches(f, b) < MinMatch /\ Matches(b.least, new) < MinMatch
  <2>1. \A b \in bases : Matches(f, b) < MinMatch
    BY <1>1, <1>2, NoBest
  <2>2. \A b \in bases : Matches(b.least, new) = Matches(f, b)
    BY <1>3, SharedIs DEF Matches
  <2> QED
    BY <2>1, <2>2
<1> HIDE DEF new
<1>7. BaseIdsOK'
  <2>1. nextId' \in Nat /\ nextId' <= MaxChunks
    BY <1>2, <1>4
  <2>2. \A b \in bases' : b.id \in 0..nextId' - 1 /\ b.least \in SubFeatures
    <3>1. \A k \in 0..nextId - 1 : k \in 0..nextId' - 1
      BY <1>2, <1>4
    <3>2. nextId \in 0..nextId' - 1
      BY <1>2, <1>4
    <3> QED
      BY <1>1, <1>2, <1>3, <1>5, <3>1, <3>2
  <2>3. \A b, d \in bases' : b.id = d.id => b = d
    <3>1. \A b, d \in bases : b.id = d.id => b = d
      BY DEF BestInv, BaseIdsOK
    <3> QED
      BY <1>2, <1>3, <1>5, <3>1
  <2> QED
    BY <2>1, <2>2, <2>3 DEF BaseIdsOK, SubFeatures, features_num
<1>8. BasesApart'
  <2>1. \A b, d \in bases : b # d => Matches(b.least, d) < MinMatch
    BY DEF BestInv, BasesApart
  <2>2. \A b, d \in bases' : b # d => Matches(b.least, d) < MinMatch
    BY <1>2, <1>3, <1>6, <2>1
  <2> QED
    BY <2>2 DEF BasesApart, Matches, BestFit!Shared, features_num
<1>9. ListsOK'
  <2>1. /\ DOMAIN index_' = 1..features_num
        /\ \A i \in 1..features_num : \A x \in Nat :
             Listed(i, x)' = IF x = f[i] THEN Append(Listed(i, x), nextId) ELSE Listed(i, x)
    BY <1>1, <1>2, ListedIs DEF BestInv, ListsOK
  <2>2. ASSUME NEW i \in 1..features_num, NEW x \in Nat
        PROVE  ListOK(Listed(i, x)', i, x, bases', nextId')
    <3> DEFINE l == Listed(i, x)
               m == Listed(i, x)'
    <3>1. ListOK(l, i, x, bases, nextId)
      BY ListIs
    <3>2. m = IF x = f[i] THEN Append(l, nextId) ELSE l
      BY <2>1
    <3> HIDE DEF l, m
    <3>3. l \in Seq(Nat) /\ Len(l) <= nextId /\ Len(l) \in Nat
      BY <3>1 DEF ListOK
    <3>4. ASSUME x # f[i] PROVE ListOK(m, i, x, bases', nextId')
      <4>1. m = l /\ new.least[i] # x
        BY <1>3, <3>2, <3>4
      <4>2. Len(l) <= nextId'
        BY <1>2, <1>4, <3>3
      <4>3. \A b \in bases' : b.least[i] = x => b \in bases
        BY <1>2, <4>1
      <4> QED
        BY <1>2, <3>1, <4>1, <4>2, <4>3 DEF ListOK
    <3>5. ASSUME x = f[i] PROVE ListOK(m, i, x, bases', nextId')
      <4>1. m = Append(l, nextId)
        BY <3>2, <3>5
      <4>2. /\ m \in Seq(Nat) /\ Len(m) = Len(l) + 1 /\ m[Len(l) + 1] = nextId
            /\ \A p \in 1..Len(l) : m[p] = l[p]
        BY <1>4, <3>3, <4>1
      <4>3. Len(m) <= nextId'
        BY <1>2, <1>4, <3>3, <4>2
      <4>4. \A p \in 1..Len(m) : p \in 1..Len(l) \/ p = Len(l) + 1
        BY <3>3, <4>2
      <4>5. \A p \in 1..Len(l) : l[p] # nextId /\ p \in 1..Len(m)
        <5> SUFFICES ASSUME NEW p \in 1..Len(l) PROVE l[p] # nextId /\ p \in 1..Len(m)
          OBVIOUS
        <5>1. \E b \in bases : b.id = l[p]
          BY <3>1 DEF ListOK
        <5>2. l[p] # nextId
          BY <1>5, <5>1
        <5> QED
          BY <3>3, <4>2, <5>2
      <4>6. \A p, q \in 1..Len(m) : m[p] = m[q] => p = q
        <5>1. \A p, q \in 1..Len(l) : l[p] = l[q] => p = q
          BY <3>1 DEF ListOK
        <5> QED
          BY <4>2, <4>4, <4>5, <5>1
      <4>7. ASSUME NEW p \in 1..Len(m)
            PROVE  \E b \in bases' : b.id = m[p] /\ b.least[i] = x
        <5>1. ASSUME p \in 1..Len(l)
              PROVE  \E b \in bases' : b.id = m[p] /\ b.least[i] = x
          <6>1. PICK b \in bases : b.id = l[p] /\ b.least[i] = x
            BY <3>1, <5>1 DEF ListOK
          <6> QED
            BY <1>2, <4>2, <5>1, <6>1
        <5>2. ASSUME p = Len(l) + 1
              PROVE  \E b \in bases' : b.id = m[p] /\ b.least[i] = x
          <6>1. new \in bases' /\ new.id = m[p] /\ new.least[i] = x
            BY <1>2, <1>3, <3>5, <4>2, <5>2
          <6> QED
            BY <6>1
        <5> QED
          BY <4>4, <5>1, <5>2
      <4>8. ASSUME NEW b \in bases', b.least[i] = x PROVE \E p \in 1..Len(m) : b.id = m[p]
        <5>1. ASSUME b \in bases PROVE \E p \in 1..Len(m) : b.id = m[p]
          <6>1. PICK p \in 1..Len(l) : b.id = l[p]
            BY <3>1, <4>8, <5>1 DEF ListOK
          <6> QED
            BY <4>2, <4>5, <6>1
        <5>2. Len(l) + 1 \in 1..Len(m) /\ new.id = m[Len(l) + 1]
          BY <1>3, <3>3, <4>2
        <5> QED
          BY <1>2, <5>1, <5>2
      <4> QED
        BY <4>2, <4>3, <4>6, <4>7, <4>8 DEF ListOK
    <3> QED
      BY <3>4, <3>5 DEF m
  <2> QED
    BY <2>1, <2>2 DEF ListsOK, features_num
<1> QED
  BY <1>7, <1>8, <1>9 DEF BestInv

\* Neither does another chunk disturb them: the invariant is about the lists and
\* the bases, and ids only grow.
LEMMA BestKeeps ==
  ASSUME BestInv, UNCHANGED <<index_, bases>>, nextId' = nextId \/ nextId' = nextId + 1,
         nextId' <= MaxChunks
  PROVE  BestInv'
<1>1. nextId \in Nat
  BY DEF BestInv, BaseIdsOK
<1>2. BaseIdsOK'
  <2>1. nextId' \in Nat /\ \A k \in 0..nextId - 1 : k \in 0..nextId' - 1
    BY <1>1
  <2>2. \A b \in bases' : b.id \in 0..nextId' - 1 /\ b.least \in SubFeatures
    BY <2>1 DEF BestInv, BaseIdsOK
  <2>3. \A b, c \in bases' : b.id = c.id => b = c
    BY DEF BestInv, BaseIdsOK
  <2> QED
    BY <2>1, <2>2, <2>3 DEF BaseIdsOK, SubFeatures, features_num
<1>3. BasesApart'
  BY DEF BestInv, BasesApart, Matches, BestFit!Shared, features_num
<1>4. ListsOK'
  <2>1. DOMAIN index_' = 1..features_num
    BY DEF BestInv, ListsOK
  <2>2. ASSUME NEW i \in 1..features_num, NEW x \in Nat
        PROVE  ListOK(Listed(i, x)', i, x, bases', nextId')
    <3>1. Listed(i, x)' = Listed(i, x) /\ bases' = bases
      BY DEF Listed
    <3> DEFINE l == Listed(i, x)
    <3>2. ListOK(l, i, x, bases, nextId)
      BY ListIs
    <3> HIDE DEF l
    <3>3. Len(l) <= nextId'
      <4>1. l \in Seq(Nat) /\ Len(l) <= nextId
        BY <3>2 DEF ListOK
      <4> QED
        BY <1>1, <4>1
    <3>4. ListOK(l, i, x, bases, nextId')
      BY <3>2, <3>3 DEF ListOK
    <3> QED
      BY <3>1, <3>4 DEF l
  <2> QED
    BY <2>1, <2>2 DEF ListsOK, features_num
<1> QED
  BY <1>2, <1>3, <1>4 DEF BestInv

\* An index without entries is in order.
LEMMA BestInit == BestFit!Init => BestInv
<1> SUFFICES ASSUME BestFit!Init PROVE BestInv
  OBVIOUS
<1>1. index_ = [i \in 1..features_num |-> << >>] /\ nextId = 0 /\ bases = {}
  BY DEF BestFit!Init
<1>2. BaseIdsOK /\ BasesApart
  BY <1>1, PalantirAssumption DEF BaseIdsOK, BasesApart
<1>3. ASSUME NEW i \in 1..features_num, NEW x PROVE Listed(i, x) = <<>>
  <2>1. index_[i] = << >>
    BY <1>1
  <2>2. DOMAIN index_[i] = {}
    BY <2>1
  <2> QED
    BY <2>2 DEF Listed
<1>4. ListsOK
  <2>1. DOMAIN index_ = 1..features_num
    BY <1>1
  <2>2. ASSUME NEW i \in 1..features_num, NEW x \in Nat
        PROVE  ListOK(Listed(i, x), i, x, bases, nextId)
    <3>1. \A u, v : ListOK(<<>>, u, v, {}, 0)
      BY DEF ListOK
    <3> QED
      BY <1>1, <1>3, <3>1
  <2> QED
    BY <2>1, <2>2 DEF ListsOK
<1> QED
  BY <1>2, <1>4 DEF BestInv
-----------------------------------------------------------------------------
\* The invariant of the index that the configuration selects.
ChoiceInv ==
  /\ feature_type \in {"palantir", "bestfit"}
  /\ feature_type = "palantir" => PalantirInv
  /\ feature_type = "bestfit" => BestInv

\* An index without entries is in order.
LEMMA InitInv == Init => PalantirInv
<1> SUFFICES ASSUME Init PROVE PalantirInv
  OBVIOUS
<1>0. Levels \in Nat \ {0} /\ DOMAIN Counts = 1..Levels
  <2>1. Counts \in Seq(Nat \ {0})
    BY TablesAssumption
  <2> QED
    BY <2>1, LevelsAre DEF Levels
<1>1. bases = {} /\ DOMAIN levels_ = 1..Levels
      /\ \A k \in 1..Levels : levels_[k] = EmptyIndex(Counts[k])
  BY <1>0 DEF Init
<1>2. ASSUME NEW k \in 1..Levels
      PROVE  /\ IsIndex(levels_[k]) /\ DOMAIN levels_[k].sf = 1..Counts[k]
             /\ \A i \in 1..Counts[k] : DOMAIN levels_[k].sf[i] = {}
             /\ DOMAIN levels_[k].float = {}
  <2>1. levels_[k] = [sf |-> [i \in 1..Counts[k] |-> << >>], float |-> << >>]
    BY <1>1 DEF EmptyIndex
  <2>2. levels_[k].sf = [i \in 1..Counts[k] |-> << >>] /\ levels_[k].float = << >>
    BY <2>1
  <2>3. DOMAIN << >> = {}
    OBVIOUS
  <2>4. IsIndex(levels_[k])
    BY <2>1, <2>2 DEF IsIndex
  <2> QED
    BY <2>2, <2>3, <2>4
<1>3. Levels \in 1..Levels
  BY <1>0
<1>4. LevelsOK
  BY <1>1, <1>2 DEF LevelsOK
<1>5. EntriesOK
  BY <1>1, <1>2, <1>3 DEF EntriesOK
<1> QED
  BY <1>1, <1>4, <1>5 DEF PalantirInv, BasesOK

\* The invariant is about the levels and the bases.
LEMMA SameInv ==
  ASSUME PalantirInv, UNCHANGED <<levels_, bases>>
  PROVE  PalantirInv'
<1>1. LevelsOK /\ EntriesOK /\ BasesOK
  BY DEF PalantirInv
<1>2. LevelsOK'
  BY <1>1 DEF LevelsOK, IsIndex
<1>3. EntriesOK'
  BY <1>1 DEF EntriesOK
<1>4. BasesOK'
  BY <1>1 DEF BasesOK
<1> QED
  BY <1>2, <1>3, <1>4 DEF PalantirInv

\* Every step of either index keeps the invariant, and the entries.
LEMMA ChoiceStep ==
  ASSUME ChoiceInv, [ChoiceNext]_choiceVars
  PROVE  ChoiceInv' /\ (levels_' # levels_ => EntriesKept)
<1>1. CASE feature_type = "palantir" /\ Next /\ UNCHANGED <<feature_type, index_>>
  <2>1. PalantirInv /\ feature_type' = "palantir"
    BY <1>1 DEF ChoiceInv
  <2>2. PICK f \in Features : AddDelta(f) \/ AddBase(f)
    BY <1>1 DEF Next
  <2>3. IsFeature(f)
    BY FeaturesAre
  <2>4. CASE AddBase(f)
    BY <2>1, <2>3, <2>4, AddBaseKeepsEntries, AddBaseKeepsInv DEF ChoiceInv
  <2>5. CASE AddDelta(f)
    <3>1. UNCHANGED <<levels_, bases>>
      BY <2>5 DEF AddDelta
    <3>2. PalantirInv'
      BY <2>1, <3>1, SameInv
    <3> QED
      BY <2>1, <3>1, <3>2 DEF ChoiceInv
  <2> QED
    BY <2>2, <2>4, <2>5
<1>2. CASE feature_type = "bestfit" /\ BestFit!Next /\ UNCHANGED <<feature_type, levels_>>
  <2>1. BestInv /\ feature_type' = "bestfit" /\ levels_' = levels_
    BY <1>2 DEF ChoiceInv
  <2>2. PICK c \in Computed : BestFit!AddDelta(c) \/ BestFit!AddBase(c)
    BY <1>2 DEF BestFit!Next
  <2>3. ASSUME BestFit!AddBase(c) PROVE BestInv'
    BY <2>1, <2>3, BestAdds
  <2>4. ASSUME BestFit!AddDelta(c) PROVE BestInv'
    <3>1. UNCHANGED <<index_, bases>> /\ nextId' = nextId + 1 /\ nextId < MaxChunks
      BY <2>4 DEF BestFit!AddDelta
    <3>2. nextId \in Nat /\ MaxChunks \in Nat
      BY <2>1, PalantirAssumption DEF BestInv, BaseIdsOK
    <3>3. nextId' <= MaxChunks
      BY <3>1, <3>2
    <3> QED
      BY <2>1, <3>1, <3>3, BestKeeps
  <2> QED
    BY <2>1, <2>2, <2>3, <2>4 DEF ChoiceInv
<1>3. CASE UNCHANGED choiceVars
  <2>1. UNCHANGED <<levels_, bases, feature_type>>
    BY <1>3 DEF choiceVars
  <2>2. PalantirInv => PalantirInv'
    BY <2>1, SameInv
  <2>3. BestInv => BestInv'
    <3>1. UNCHANGED <<index_, bases, nextId>>
      BY <1>3 DEF choiceVars
    <3>2. BestInv => nextId <= MaxChunks
      BY DEF BestInv, BaseIdsOK
    <3> QED
      BY <3>1, <3>2, BestKeeps
  <2> QED
    BY <2>1, <2>2, <2>3 DEF ChoiceInv
<1> QED
  BY <1>1, <1>2, <1>3 DEF ChoiceNext

\* The invariant holds throughout.
LEMMA ChoiceInvAlways == ChoiceSpec => []ChoiceInv
<1>1. ChoiceInit => ChoiceInv
  BY InitInv, BestInit DEF ChoiceInit, ChoiceInv
<1>2. ChoiceInv /\ [ChoiceNext]_choiceVars => ChoiceInv'
  BY ChoiceStep
<1> QED
  BY <1>1, <1>2, PTL DEF ChoiceSpec

\* No entry of Palantir's index is ever overwritten, although AddFeature would,
\* whatever features are computed.
THEOREM PalantirEntriesStay == ChoiceSpec => EntriesStay
<1>1. ChoiceInv /\ [ChoiceNext]_choiceVars =>
        [levels_' # levels_ => EntriesKept]_choiceVars
  BY ChoiceStep
<1> QED
  BY <1>1, ChoiceInvAlways, PTL DEF ChoiceSpec, EntriesStay

\* Palantir's index finds a base if and only if some base has a super feature in
\* the same place or a near float, on the best level there is one; and a chunk
\* with the features of a base finds that base and no other.
THEOREM PalantirFindsBases == ChoiceSpec => []PalantirLookup
<1>1. ChoiceInv => PalantirLookup
  BY LookupsRight DEF ChoiceInv, PalantirLookup
<1> QED
  BY <1>1, ChoiceInvAlways, PTL

\* With either index, chunks are found that agree in what they sample: in the
\* hash of a group of least transforms (PalantirFeature), or in MinMatch of them,
\* the best match first (BestFitIndex).
THEOREM SimilarAlwaysFound == ChoiceSpec => []SimilarIsFound
<1>1. ChoiceInv => SimilarIsFound
  BY SimilarLookup, BestLookup DEF ChoiceInv, SimilarIsFound, PalantirSimilar, BestFitLookup
<1> QED
  BY <1>1, ChoiceInvAlways, PTL
=============================================================================
