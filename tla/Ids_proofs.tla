----------------------------- MODULE Ids_proofs -----------------------------
(***************************************************************************)
(* Lemmas about ids, their order and the XOR distance, for ids of any      *)
(* length.                                                                 *)
(***************************************************************************)
EXTENDS Ids, FiniteSetTheorems, TLAPS

\* A non-empty set of bit positions has a greatest one: among the sets "those
\* of D from k on", a least one exists, and its k is it.
LEMMA GreatestBit ==
    ASSUME NEW D \in SUBSET BitIndex, D # {}
    PROVE  \E k \in D : \A j \in D : j <= k
<1> DEFINE From(k) == {j \in D : k <= j}
           Froms   == {From(k) : k \in D}
<1>1. IsFiniteSet(BitIndex)
  BY NoOfBitAssumption, FS_Interval DEF BitIndex
<1>2. Froms \subseteq FiniteSubsetsOf(BitIndex) /\ Froms # {}
  <2>1. \A k \in D : From(k) \in FiniteSubsetsOf(BitIndex)
    <3> SUFFICES ASSUME NEW k \in D PROVE From(k) \in FiniteSubsetsOf(BitIndex)
      OBVIOUS
    <3>1. From(k) \subseteq BitIndex
      OBVIOUS
    <3> QED  BY <1>1, <3>1, FS_Subset DEF FiniteSubsetsOf
  <2> QED  BY <2>1
<1>3. PICK X \in Froms : \A Y \in Froms : ~(<<Y, X>> \in StrictSubsetOrdering(BitIndex))
  <2>1. IsWellFoundedOn(StrictSubsetOrdering(BitIndex), FiniteSubsetsOf(BitIndex))
    BY FS_StrictSubsetOrderingWellFounded
  <2> HIDE DEF Froms
  <2> QED  BY <1>2, <2>1, WFMin
<1>4. PICK k \in D : X = From(k)
  OBVIOUS
<1>5. ASSUME NEW j \in D, ~(j <= k)
      PROVE  FALSE
  <2>1. j \in Int /\ k \in Int /\ k < j
    BY <1>5, NoOfBitAssumption DEF BitIndex
  <2>2. From(j) \subseteq From(k)
    <3> SUFFICES ASSUME NEW i \in D, j <= i PROVE k <= i
      OBVIOUS
    <3> i \in Int
      BY NoOfBitAssumption DEF BitIndex
    <3> QED  BY <2>1
  <2>3. k \in From(k) /\ k \notin From(j)
    BY <2>1
  <2>4. From(j) \in Froms
    OBVIOUS
  <2>5. <<From(j), From(k)>> \in StrictSubsetOrdering(BitIndex)
    <3>1. From(j) \in SUBSET BitIndex /\ From(k) \in SUBSET BitIndex
      OBVIOUS
    <3>2. From(j) # From(k)
      BY <2>3
    <3> QED  BY <2>2, <3>1, <3>2 DEF StrictSubsetOrdering
  <2> QED  BY <1>3, <1>4, <2>4, <2>5
<1> QED  BY <1>5

LEMMA BitsAreIntegers == \A i \in BitIndex : i \in Int
  BY NoOfBitAssumption DEF BitIndex

\* What the scan of find_k_bucket_index finds for two different ids.
LEMMA HighestDiffBitProperty ==
    ASSUME NEW a \in ID, NEW b \in ID, a # b
    PROVE  /\ HighestDiffBit(a, b) \in BitIndex
           /\ a[HighestDiffBit(a, b)] # b[HighestDiffBit(a, b)]
           /\ \A j \in BitIndex : j > HighestDiffBit(a, b) => a[j] = b[j]
<1> DEFINE D    == {i \in BitIndex : a[i] # b[i]}
           P(i) == /\ i # -1 => a[i] # b[i]
                   /\ \A j \in BitIndex : j > i => a[j] = b[j]
<1>1. D # {}
  BY DEF ID
<1>2. PICK k \in D : \A j \in D : j <= k
  BY <1>1, GreatestBit
<1>3. P(k) /\ k \in BitIndex \cup {-1}
  <2> SUFFICES ASSUME NEW j \in BitIndex, j > k PROVE a[j] = b[j]
    OBVIOUS
  <2> QED  BY <1>2, BitsAreIntegers
<1> DEFINE h == HighestDiffBit(a, b)
<1>4. P(h) /\ h \in BitIndex \cup {-1}
  BY <1>3 DEF HighestDiffBit
<1>5. h # -1
  <2> SUFFICES ASSUME h = -1 PROVE FALSE
    OBVIOUS
  <2>1. k > -1
    BY NoOfBitAssumption DEF BitIndex
  <2> QED  BY <1>4, <2>1
<1> QED  BY <1>4, <1>5

\* A peer other than the owner has a bucket.
LEMMA IndexInBounds ==
    ASSUME NEW a \in ID, NEW b \in ID, a # b
    PROVE  FindKBucketIndex(a, b) \in BitIndex
  BY HighestDiffBitProperty, NoOfBitAssumption DEF FindKBucketIndex, BitIndex

\* For the own id the scan finds nothing, and the index is one too large.
LEMMA OwnIndex ==
    ASSUME NEW a \in ID
    PROVE  FindKBucketIndex(a, a) = NoOfBit
<1> DEFINE P(i) == /\ i # -1 => a[i] # a[i]
                   /\ \A j \in BitIndex : j > i => a[j] = a[j]
<1>1. P(-1) /\ \A i \in BitIndex \cup {-1} : P(i) => i = -1
  OBVIOUS
<1> HIDE DEF P
<1>2. (CHOOSE i \in BitIndex \cup {-1} : P(i)) = -1
  BY <1>1
<1> USE DEF P
<1>3. HighestDiffBit(a, a) = CHOOSE i \in BitIndex \cup {-1} : P(i)
  BY DEF HighestDiffBit
<1> QED  BY <1>2, <1>3, NoOfBitAssumption DEF FindKBucketIndex

\* The index counts the leading bits in which two ids agree.
LEMMA IndexCountsPrefix ==
    ASSUME NEW a \in ID, NEW b \in ID
    PROVE  FindKBucketIndex(a, b)
               = Cardinality({k \in 1 .. NoOfBit :
                                \A l \in 1 .. k : a[NoOfBit - l] = b[NoOfBit - l]})
<1> DEFINE prefixes == {k \in 1 .. NoOfBit :
                          \A l \in 1 .. k : a[NoOfBit - l] = b[NoOfBit - l]}
           n == FindKBucketIndex(a, b)
<1>1. n \in Nat /\ prefixes = 1 .. n
  <2>1. CASE a = b
    BY <2>1, OwnIndex, NoOfBitAssumption
  <2>2. CASE a # b
    <3> DEFINE h == HighestDiffBit(a, b)
    <3>1. /\ h \in BitIndex /\ a[h] # b[h] /\ n = NoOfBit - 1 - h
          /\ \A j \in BitIndex : j > h => a[j] = b[j]
      BY <2>2, HighestDiffBitProperty DEF FindKBucketIndex
    <3> HIDE DEF h, n
    <3>2. n \in Nat /\ h \in Nat /\ h = NoOfBit - 1 - n /\ n < NoOfBit
      BY <3>1, NoOfBitAssumption DEF BitIndex
    <3>3. ASSUME NEW k \in 1 .. n PROVE k \in prefixes
      <4> SUFFICES ASSUME NEW l \in 1 .. k PROVE a[NoOfBit - l] = b[NoOfBit - l]
        BY <3>2, NoOfBitAssumption
      <4>1. NoOfBit - l \in BitIndex /\ NoOfBit - l > h
        BY <3>2, NoOfBitAssumption DEF BitIndex
      <4> QED  BY <3>1, <4>1
    <3>4. ASSUME NEW k \in prefixes PROVE k \in 1 .. n
      <4> SUFFICES ASSUME k > n PROVE FALSE
        BY <3>2, NoOfBitAssumption
      <4>1. n + 1 \in 1 .. k /\ NoOfBit - (n + 1) = h
        BY <3>2, NoOfBitAssumption
      <4> QED  BY <3>1, <4>1
    <3> QED  BY <3>2, <3>3, <3>4
  <2> QED  BY <2>1, <2>2
<1>2. Cardinality(1 .. n) = n
  BY <1>1, FS_Interval
<1> QED  BY <1>1, <1>2

\* Two peers are in one bucket when they first differ from the owner in the
\* same bit.
LEMMA SameIndex ==
    ASSUME NEW self \in ID, NEW a \in ID, NEW b \in ID, a # self, b # self,
           FindKBucketIndex(self, a) = FindKBucketIndex(self, b)
    PROVE  HighestDiffBit(self, a) = HighestDiffBit(self, b)
<1>1. HighestDiffBit(self, a) \in Int /\ HighestDiffBit(self, b) \in Int
  BY HighestDiffBitProperty, BitsAreIntegers
<1> QED  BY <1>1, NoOfBitAssumption DEF FindKBucketIndex

LEMMA XorIsId ==
    ASSUME NEW a \in ID, NEW b \in ID
    PROVE  Xor(a, b) \in ID
  BY DEF ID, Xor

LEMMA XorInjective ==
    ASSUME NEW t \in ID, NEW a \in ID, NEW b \in ID, a # b
    PROVE  Xor(t, a) # Xor(t, b)
<1>1. PICK i \in BitIndex : a[i] # b[i]
  BY DEF ID
<1>2. Xor(t, a)[i] # Xor(t, b)[i]
  BY <1>1 DEF ID, Xor
<1> QED  BY <1>2

LEMMA LessTotal ==
    ASSUME NEW a \in ID, NEW b \in ID, a # b
    PROVE  Less(a, b) \/ Less(b, a)
<1> DEFINE h == HighestDiffBit(a, b)
<1>1. h \in BitIndex /\ a[h] # b[h] /\ \A j \in BitIndex : j > h => a[j] = b[j]
  BY HighestDiffBitProperty
<1>2. a[h] \in {0, 1} /\ b[h] \in {0, 1}
  BY <1>1 DEF ID
<1> HIDE DEF h
<1>3. a[h] < b[h] \/ b[h] < a[h]
  BY <1>1, <1>2
<1> QED  BY <1>1, <1>3 DEF Less

LEMMA LessTransitive ==
    ASSUME NEW a \in ID, NEW b \in ID, NEW c \in ID, Less(a, b), Less(b, c)
    PROVE  Less(a, c)
<1>1. PICK i \in BitIndex : a[i] < b[i] /\ \A j \in BitIndex : j > i => a[j] = b[j]
  BY DEF Less
<1>2. PICK k \in BitIndex : b[k] < c[k] /\ \A j \in BitIndex : j > k => b[j] = c[j]
  BY DEF Less
<1>3. i \in Int /\ k \in Int
  BY BitsAreIntegers
<1>4. \A j \in BitIndex : a[j] \in Int /\ b[j] \in Int /\ c[j] \in Int /\ j \in Int
  BY BitsAreIntegers DEF ID
<1>5. CASE i < k
  BY <1>1, <1>2, <1>3, <1>4, <1>5 DEF Less
<1>6. CASE i = k
  BY <1>1, <1>2, <1>3, <1>4, <1>6 DEF Less
<1>7. CASE k < i
  BY <1>1, <1>2, <1>3, <1>4, <1>7 DEF Less
<1> QED  BY <1>3, <1>5, <1>6, <1>7

LEMMA LessIrreflexive ==
    ASSUME NEW a \in ID
    PROVE  ~Less(a, a)
  BY DEF ID, Less

\* The distance orders the ids strictly and totally.
LEMMA CloserOrder ==
    ASSUME NEW t \in ID
    PROVE  /\ \A a \in ID : ~Closer(t, a, a)
           /\ \A a, b \in ID : a # b => Closer(t, a, b) \/ Closer(t, b, a)
           /\ \A a, b, c \in ID : Closer(t, a, b) /\ Closer(t, b, c) => Closer(t, a, c)
<1>1. \A a \in ID : ~Closer(t, a, a)
  BY XorIsId, LessIrreflexive DEF Closer
<1>2. \A a, b \in ID : a # b => Closer(t, a, b) \/ Closer(t, b, a)
  BY XorIsId, XorInjective, LessTotal DEF Closer
<1>3. \A a, b, c \in ID : Closer(t, a, b) /\ Closer(t, b, c) => Closer(t, a, c)
  BY XorIsId, LessTransitive DEF Closer
<1> QED  BY <1>1, <1>2, <1>3

\* Nothing is nearer to an id than the id itself.
LEMMA SelfIsClosest ==
    ASSUME NEW t \in ID, NEW b \in ID, b # t
    PROVE  Closer(t, t, b)
<1> DEFINE h == HighestDiffBit(t, b)
<1>1. h \in BitIndex /\ t[h] # b[h] /\ \A j \in BitIndex : j > h => t[j] = b[j]
  BY HighestDiffBitProperty
<1> HIDE DEF h
<1>2. Xor(t, t)[h] < Xor(t, b)[h] /\ \A j \in BitIndex : j > h => Xor(t, t)[j] = Xor(t, b)[j]
  BY <1>1 DEF Xor
<1> QED  BY <1>1, <1>2 DEF Closer, Less

\* Of two peers, the one that shares the target's bucket is nearer to it.
LEMMA SameBucketIsCloser ==
    ASSUME NEW self \in ID, NEW t \in ID, NEW a \in ID, NEW b \in ID,
           t # self, a # self, b # self,
           FindKBucketIndex(self, a) = FindKBucketIndex(self, t),
           FindKBucketIndex(self, b) # FindKBucketIndex(self, t)
    PROVE  Closer(t, a, b)
<1> DEFINE h == HighestDiffBit(self, t)
           g == HighestDiffBit(self, b)
<1>1. /\ h \in BitIndex /\ self[h] # t[h]
      /\ \A j \in BitIndex : j > h => self[j] = t[j]
  BY HighestDiffBitProperty
<1>2. self[h] # a[h] /\ \A j \in BitIndex : j > h => self[j] = a[j]
  <2>1. HighestDiffBit(self, a) = h
    BY SameIndex
  <2> QED  BY <2>1, HighestDiffBitProperty
<1>3. /\ g \in BitIndex /\ self[g] # b[g]
      /\ \A j \in BitIndex : j > g => self[j] = b[j]
  BY HighestDiffBitProperty
<1>4. g # h
  BY DEF FindKBucketIndex
<1> HIDE DEF g, h
<1>5. \A j \in BitIndex : /\ self[j] \in {0, 1} /\ t[j] \in {0, 1}
                          /\ a[j] \in {0, 1} /\ b[j] \in {0, 1} /\ j \in Int
  BY BitsAreIntegers DEF ID
<1>6. a[h] = t[h]
  BY <1>1, <1>2, <1>5
<1>7. CASE g > h
  <2>1. t[g] = a[g] /\ t[g] # b[g]
    BY <1>1, <1>2, <1>3, <1>7
  <2>2. \A j \in BitIndex : j > g => t[j] = a[j] /\ t[j] = b[j]
    BY <1>1, <1>2, <1>3, <1>5, <1>7
  <2>3. Xor(t, a)[g] < Xor(t, b)[g]
    BY <1>3, <2>1 DEF Xor
  <2>4. \A j \in BitIndex : j > g => Xor(t, a)[j] = Xor(t, b)[j]
    BY <2>2 DEF Xor
  <2> QED  BY <1>3, <2>3, <2>4 DEF Closer, Less
<1>8. CASE h > g
  <2>1. t[h] # b[h]
    BY <1>1, <1>3, <1>8
  <2>2. \A j \in BitIndex : j > h => t[j] = a[j] /\ t[j] = b[j]
    BY <1>1, <1>2, <1>3, <1>5, <1>8
  <2>3. Xor(t, a)[h] < Xor(t, b)[h]
    BY <1>1, <1>6, <2>1 DEF Xor
  <2>4. \A j \in BitIndex : j > h => Xor(t, a)[j] = Xor(t, b)[j]
    BY <2>2 DEF Xor
  <2> QED  BY <1>1, <2>3, <2>4 DEF Closer, Less
<1> QED  BY <1>1, <1>3, <1>4, <1>5, <1>7, <1>8

\* An id with a longer common prefix with the target is nearer to it: what lets
\* find_node take "same bucket" for "nearer" (routing_table.cpp:79).
LEMMA LongerPrefixIsCloser ==
    ASSUME NEW t \in ID, NEW a \in ID, NEW b \in ID,
           FindKBucketIndex(t, a) > FindKBucketIndex(t, b)
    PROVE  Closer(t, a, b)
<1> DEFINE g == HighestDiffBit(t, b)
<1>1. b # t
  <2> SUFFICES ASSUME b = t PROVE FALSE
    OBVIOUS
  <2>1. FindKBucketIndex(t, b) = NoOfBit
    BY OwnIndex
  <2>2. a # t
    BY <2>1, OwnIndex, NoOfBitAssumption
  <2>3. FindKBucketIndex(t, a) \in 0 .. NoOfBit - 1
    BY <2>2, IndexInBounds DEF BitIndex
  <2> QED  BY <2>1, <2>3, NoOfBitAssumption
<1>2. g \in BitIndex /\ t[g] # b[g] /\ \A j \in BitIndex : j > g => t[j] = b[j]
  BY <1>1, HighestDiffBitProperty
<1>3. \A j \in BitIndex : j >= g => t[j] = a[j]
  <2>1. CASE a = t
    BY <2>1
  <2>2. CASE a # t
    <3> DEFINE h == HighestDiffBit(t, a)
    <3>1. h \in BitIndex /\ \A j \in BitIndex : j > h => t[j] = a[j]
      BY <2>2, HighestDiffBitProperty
    <3>2. NoOfBit - 1 - h > NoOfBit - 1 - g
      BY DEF FindKBucketIndex
    <3> HIDE DEF h, g
    <3>3. h < g
      BY <1>2, <3>1, <3>2, NoOfBitAssumption DEF BitIndex
    <3> QED  BY <1>2, <3>1, <3>3, BitsAreIntegers
  <2> QED  BY <2>1, <2>2
<1> HIDE DEF g
<1>4. g >= g /\ \A j \in BitIndex : j > g => j >= g
  BY <1>2, BitsAreIntegers
<1>5. Xor(t, a)[g] < Xor(t, b)[g]
  BY <1>2, <1>3, <1>4 DEF Xor
<1>6. \A j \in BitIndex : j > g => Xor(t, a)[j] = Xor(t, b)[j]
  BY <1>2, <1>3, <1>4 DEF Xor
<1> QED  BY <1>2, <1>5, <1>6 DEF Closer, Less

=============================================================================
