------------------------- MODULE RoutingTable_proofs -------------------------
(***************************************************************************)
(* The routing table of one peer, in every state it can reach, for ids of  *)
(* any length, any bucket size, any owner and any set of endpoints: its    *)
(* type, the shape of its buckets, what find_node answers, and that        *)
(* contacts stay.  The inductive invariant is TypeOK /\ BucketsWellFormed, *)
(* kept by insert_node and remove_node (KBuckets_proofs).                  *)
(***************************************************************************)
EXTENDS RoutingTable, KBuckets_proofs

Inv == TableOK(SelfId, table)

LEMMA InvMeans == Inv <=> TypeOK /\ BucketsWellFormed
  BY SelfIdAssumption DEF Inv, TableOK, TypeOK, BucketsWellFormed

LEMMA InitInv == Init => Inv
  BY EmptyTableOK, SelfIdAssumption DEF Init, Inv

LEMMA NextInv == Inv /\ [Next]_vars => Inv'
<1> SUFFICES ASSUME Inv, [Next]_vars PROVE Inv'
  OBVIOUS
<1>1. ASSUME NEW id \in Others, NEW ep \in Endpoint, HandleCommunication(id, ep)
      PROVE  Inv'
  BY <1>1, InsertNodeOK DEF HandleCommunication, Inv, Others, NotSelf
<1>2. ASSUME NEW id \in Others, RemoveNode(id)
      PROVE  Inv'
  BY <1>2, DropNodeOK DEF RemoveNode, Inv, Others, NotSelf
<1>3. CASE UNCHANGED vars
  BY <1>3 DEF vars, Inv
<1> QED  BY <1>1, <1>2, <1>3 DEF Next

LEMMA Invariance == Spec => []Inv
  BY InitInv, NextInv, PTL DEF Spec

\* The table always is one list of (id, endpoint) pairs per bit of the id,
\* whatever contacts arrive at it.
THEOREM TypeCorrect == Spec => []TypeOK
  BY InvMeans, Invariance, PTL

\* insert_node and remove_node keep every contact in the bucket of its common
\* prefix with the owner, every id once, and no bucket above its size.
THEOREM StaysWellFormed == Spec => []BucketsWellFormed
  BY InvMeans, Invariance, PTL

\* find_node answers with the nearest contacts, although it looks at a single
\* bucket whenever that bucket has two nodes or the target itself.
THEOREM ReturnsNearest == Spec => []FindNodeReturnsNearest
<1>1. Inv => FindNodeReturnsNearest
  BY FindNodeNearest DEF FindNodeReturnsNearest, Inv, Others, NotSelf
<1> QED  BY <1>1, Invariance, PTL

\* find_node answers with somebody as soon as anybody is known, and with one
\* endpoint per id: what store_file and the lookups rely on.
THEOREM Usable == Spec => []FindNodeUsable
<1>1. Inv => FindNodeUsable
  BY FindNodeSomebody DEF FindNodeUsable, Inv, Others, NotSelf
<1> QED  BY <1>1, Invariance, PTL

\* No step displaces a contact, reorders a bucket or changes the endpoint kept
\* for an id, except the removal of a contact.
THEOREM NoContactDisplaced == Spec => ContactsStay
<1> DEFINE Stays == \A i \in BitIndex :
                        \/ \E rest \in {<<>>} \cup {<<n>> : n \in Node} :
                               table'[i] = table[i] \o rest
                        \/ \E id \in Others : table' = DropNode(SelfId, table, id)
<1>1. Inv /\ [Next]_vars => [Stays]_table
  <2> SUFFICES ASSUME Inv, [Next]_vars, table' # table, NEW j \in BitIndex
               PROVE  \/ \E rest \in {<<>>} \cup {<<n>> : n \in Node} :
                             table'[j] = table[j] \o rest
                      \/ \E id \in Others : table' = DropNode(SelfId, table, id)
    OBVIOUS
  <2>1. table \in [BitIndex -> Seq(Node)]
    BY DEF Inv, TableOK, Table
  <2>2. ASSUME NEW id \in Others, NEW ep \in Endpoint, HandleCommunication(id, ep)
        PROVE  \E rest \in {<<>>} \cup {<<n>> : n \in Node} :
                   table'[j] = table[j] \o rest
    <3> DEFINE n == [id |-> id, ep |-> ep]
               i == FindKBucketIndex(SelfId, id)
    <3>1. n \in Node
      BY DEF Node, Others
    <3>2. table' = [table EXCEPT ![i] = Append(table[i], n)]
      BY <2>2 DEF HandleCommunication, InsertNode
    <3> HIDE DEF n, i
    <3>3. CASE j = i
      <4>1. table'[j] = table[j] \o <<n>>
        BY <2>1, <3>1, <3>2, <3>3, AppendIsConcat
      <4> QED  BY <3>1, <4>1
    <3>4. CASE j # i
      <4>1. table'[j] = table[j] \o <<>>
        BY <2>1, <3>2, <3>4, ConcatEmptySeq
      <4> QED  BY <4>1
    <3> QED  BY <3>3, <3>4
  <2>3. ASSUME NEW id \in Others, RemoveNode(id)
        PROVE  table' = DropNode(SelfId, table, id)
    BY <2>3 DEF RemoveNode
  <2> QED  BY <2>2, <2>3 DEF Next, vars
<1> QED  BY <1>1, Invariance, PTL DEF Spec, ContactsStay

\* find_k_bucket_index, on any two ids of one table or of its owner: the length of
\* the common prefix, and a bucket unless they are one id.
THEOREM IndexIsPrefix == Spec => []IndexIsCommonPrefix
<1>1. Inv => IndexIsCommonPrefix
  <2> SUFFICES ASSUME Inv, NEW a \in KnownIds, NEW b \in KnownIds
               PROVE  /\ FindKBucketIndex(a, b)
                             = Cardinality({k \in 1 .. NoOfBit :
                                   \A l \in 1 .. k : a[NoOfBit - l] = b[NoOfBit - l]})
                      /\ FindKBucketIndex(a, b) \in BitIndex <=> a # b
    BY DEF IndexIsCommonPrefix
  <2>1. KnownIds \subseteq ID
    BY Contacts, SelfIdAssumption DEF KnownIds, Inv, NotSelf
  <2>2. a = b => FindKBucketIndex(a, b) \notin BitIndex
    BY <2>1, OwnIndex, NoOfBitAssumption DEF BitIndex
  <2> QED  BY <2>1, <2>2, IndexCountsPrefix, IndexInBounds
<1> QED  BY <1>1, Invariance, PTL

-----------------------------------------------------------------------------
(***************************************************************************)
(* Ids as numbers, for any number of bits.                                 *)
(***************************************************************************)
\* Induction, for what can be said with a set: what 0 has, and the successor of
\* whatever has it, every number has.
LEMMA EveryNumber ==
    ASSUME NEW S, 0 \in S, \A n \in Nat : n \in S => n + 1 \in S
    PROVE  Nat \subseteq S
<1> DEFINE T == Nat \ S
           R == {pair \in Nat \X Nat : pair[1] < pair[2]}
<1>1. SUFFICES ASSUME T # {} PROVE FALSE
  OBVIOUS
<1>2. \A m, n \in Nat : <<m, n>> \in R <=> m < n
  OBVIOUS
<1>3. IsWellFoundedOn(R, Nat)
  BY NatLessThanWellFounded DEF OpToRel
<1> HIDE DEF R
<1>4. PICK n \in T : \A m \in T : <<m, n>> \notin R
  <2> HIDE DEF T
  <2>1. T \subseteq Nat /\ T # {}
    BY <1>1 DEF T
  <2> QED  BY <1>3, <2>1, WFMin
<1>5. n \in Nat /\ n # 0
  OBVIOUS
<1>6. n - 1 \in Nat /\ n - 1 < n /\ (n - 1) + 1 = n
  BY <1>5
<1>7. n - 1 \in T
  <2>1. n - 1 \in S => (n - 1) + 1 \in S
    BY <1>6
  <2> QED  BY <1>6, <2>1
<1>8. <<n - 1, n>> \in R
  BY <1>2, <1>5, <1>6
<1> QED  BY <1>4, <1>7, <1>8

\* ToUlong's equation has a solution, for any number of bits.
LEMMA ValueExists ==
    ASSUME NEW id \in ID, NEW n \in Nat
    PROVE  \E v : v = [k \in 0 .. n |-> IF k = 0 THEN 0
                                        ELSE 2 * v[k - 1] + id[NoOfBit - k]]
<1> DEFINE Is(v, m) == v = [k \in 0 .. m |-> IF k = 0 THEN 0
                                             ELSE 2 * v[k - 1] + id[NoOfBit - k]]
           S == {m \in Nat : \E v : Is(v, m)}
<1>1. 0 \in S
  <2>1. Is([k \in 0 .. 0 |-> 0], 0)
    OBVIOUS
  <2> QED  BY <2>1
<1>2. ASSUME NEW m \in Nat, m \in S PROVE m + 1 \in S
  <2>1. PICK v : Is(v, m)
    BY <1>2
  <2> DEFINE w == [k \in 0 .. m + 1 |-> IF k <= m THEN v[k]
                                        ELSE 2 * v[m] + id[NoOfBit - k]]
  <2>2. ASSUME NEW k \in 0 .. m + 1
        PROVE  w[k] = IF k = 0 THEN 0 ELSE 2 * w[k - 1] + id[NoOfBit - k]
    <3>1. CASE k = 0
      BY <2>1, <3>1
    <3>2. CASE k \in 1 .. m
      <4>1. w[k] = v[k] /\ w[k - 1] = v[k - 1] /\ k \in 0 .. m /\ k # 0
        BY <3>2
      <4>2. v[k] = 2 * v[k - 1] + id[NoOfBit - k]
        BY <2>1, <4>1
      <4> QED  BY <4>1, <4>2
    <3>3. CASE k = m + 1
      <4>1. w[k] = 2 * v[m] + id[NoOfBit - k] /\ w[k - 1] = v[m] /\ k # 0
        BY <3>3
      <4> QED  BY <4>1
    <3> QED  BY <3>1, <3>2, <3>3
  <2>3. DOMAIN w = 0 .. m + 1
    OBVIOUS
  <2> HIDE DEF w
  <2>4. w = [k \in DOMAIN w |-> w[k]]
    BY DEF w
  <2>5. Is(w, m + 1)
    BY <2>2, <2>3, <2>4
  <2> QED  BY <2>5
<1> HIDE DEF S
<1>3. n \in S
  BY <1>1, <1>2, EveryNumber
<1> QED  BY <1>3 DEF S

\* v[k] is the number that the first k bits of an id are.
Reads(v, id) == /\ v \in [0 .. NoOfBit -> Nat] /\ v[0] = 0
                /\ \A k \in 1 .. NoOfBit : v[k] = 2 * v[k - 1] + id[NoOfBit - k]

LEMMA ToUlongReads ==
    ASSUME NEW id \in ID
    PROVE  \E v : Reads(v, id) /\ ToUlong[id] = v[NoOfBit]
<1> DEFINE Is(v) == v = [k \in 0 .. NoOfBit |->
                            IF k = 0 THEN 0 ELSE 2 * v[k - 1] + id[NoOfBit - k]]
           v == CHOOSE x : Is(x)
<1>1. NoOfBit \in Nat \ {0}
  BY NoOfBitAssumption
<1>2. Is(v)
  <2>1. \E x : Is(x)
    BY <1>1, ValueExists
  <2> HIDE DEF Is
  <2> QED  BY <2>1
<1>3. ToUlong[id] = v[NoOfBit]
  BY DEF ToUlong
<1> HIDE DEF v
<1>4. v[0] = 0 /\ \A k \in 1 .. NoOfBit : v[k] = 2 * v[k - 1] + id[NoOfBit - k]
  <2>1. ASSUME NEW k \in 0 .. NoOfBit
        PROVE  v[k] = IF k = 0 THEN 0 ELSE 2 * v[k - 1] + id[NoOfBit - k]
    BY <1>2
  <2>2. 0 \in 0 .. NoOfBit /\ \A k \in 1 .. NoOfBit : k \in 0 .. NoOfBit /\ k # 0
    BY <1>1
  <2> QED  BY <2>1, <2>2
<1> DEFINE S == {n \in Nat : n <= NoOfBit => v[n] \in Nat}
<1>5. 0 \in S
  BY <1>4
<1>6. ASSUME NEW n \in Nat, n \in S, n + 1 <= NoOfBit PROVE v[n + 1] \in Nat
  <2>1. v[n] \in Nat
    BY <1>1, <1>6
  <2>2. v[n + 1] = 2 * v[n] + id[NoOfBit - (n + 1)]
    BY <1>1, <1>4, <1>6
  <2>3. NoOfBit - (n + 1) \in BitIndex
    BY <1>1, <1>6 DEF BitIndex
  <2>4. id[NoOfBit - (n + 1)] \in {0, 1}
    BY <2>3 DEF ID
  <2> QED  BY <2>1, <2>2, <2>4
<1>7. \A n \in Nat : n \in S => n + 1 \in S
  BY <1>6
<1> HIDE DEF S
<1>8. Nat \subseteq S
  BY <1>5, <1>7, EveryNumber
<1>9. \A n \in 0 .. NoOfBit : v[n] \in Nat
  BY <1>1, <1>8 DEF S
<1>10. v \in [0 .. NoOfBit -> Nat]
  <2>1. DOMAIN v = 0 .. NoOfBit /\ v = [k \in DOMAIN v |-> v[k]]
    BY <1>2
  <2> QED  BY <1>9, <2>1
<1> QED  BY <1>3, <1>4, <1>10 DEF Reads

\* As long as two ids agree their numbers do, and once they differ the number of
\* the one with the 0 stays the smaller.
LEMMA NumbersFollowBits ==
    ASSUME NEW a \in ID, NEW b \in ID, NEW v, NEW w, Reads(v, a), Reads(w, b)
    PROVE  /\ a = b => v[NoOfBit] = w[NoOfBit]
           /\ Less(a, b) => v[NoOfBit] < w[NoOfBit]
<1> DEFINE Same(n) == \A i \in BitIndex : i >= NoOfBit - n => a[i] = b[i]
           Ahead(n) == \E i \in BitIndex : /\ i >= NoOfBit - n /\ a[i] < b[i]
                                           /\ \A j \in BitIndex : j > i => a[j] = b[j]
           S == {n \in Nat : n <= NoOfBit => /\ Same(n) => v[n] = w[n]
                                             /\ Ahead(n) => v[n] < w[n]}
<1>1. NoOfBit \in Nat \ {0}
  BY NoOfBitAssumption
<1>2. 0 \in S
  <2>1. ~Ahead(0)
    BY <1>1 DEF BitIndex
  <2> QED  BY <2>1 DEF Reads
<1>3. ASSUME NEW n \in Nat, n \in S, n + 1 <= NoOfBit
      PROVE  /\ Same(n + 1) => v[n + 1] = w[n + 1]
             /\ Ahead(n + 1) => v[n + 1] < w[n + 1]
  <2> DEFINE h == NoOfBit - (n + 1)
  <2>1. h \in BitIndex /\ n \in 0 .. NoOfBit /\ n + 1 \in 1 .. NoOfBit /\ n + 1 - 1 = n
    BY <1>1, <1>3 DEF BitIndex
  <2>2. /\ v[n + 1] = 2 * v[n] + a[h] /\ w[n + 1] = 2 * w[n] + b[h]
        /\ v[n] \in Nat /\ w[n] \in Nat
    BY <2>1 DEF Reads
  <2>3. a[h] \in {0, 1} /\ b[h] \in {0, 1}
    BY <2>1 DEF ID
  <2>4. (Same(n) => v[n] = w[n]) /\ (Ahead(n) => v[n] < w[n])
    BY <1>3, <2>1
  <2>5. \A i \in BitIndex : /\ i >= NoOfBit - n <=> i > h
                            /\ i >= NoOfBit - (n + 1) <=> i > h \/ i = h
    BY <1>1 DEF BitIndex
  <2> HIDE DEF h, S
  <2>6. ASSUME Same(n + 1) PROVE v[n + 1] = w[n + 1]
    <3>1. Same(n) /\ a[h] = b[h]
      BY <2>1, <2>5, <2>6
    <3> QED  BY <2>2, <2>4, <3>1
  <2>7. ASSUME Ahead(n + 1) PROVE v[n + 1] < w[n + 1]
    <3>1. PICK i \in BitIndex : /\ i >= NoOfBit - (n + 1) /\ a[i] < b[i]
                                /\ \A j \in BitIndex : j > i => a[j] = b[j]
      BY <2>7
    <3>2. CASE i > h
      <4>1. Ahead(n)
        BY <2>5, <3>1, <3>2
      <4>2. v[n] < w[n]
        BY <2>4, <4>1
      <4> QED  BY <2>2, <2>3, <4>2
    <3>3. CASE i = h
      <4>1. Same(n)
        BY <2>5, <3>1, <3>3
      <4>2. v[n] = w[n] /\ a[h] < b[h]
        BY <2>4, <3>1, <3>3, <4>1
      <4> QED  BY <2>2, <2>3, <4>2
    <3> QED  BY <2>5, <3>1, <3>2, <3>3
  <2> QED  BY <2>6, <2>7
<1>4. \A n \in Nat : n \in S => n + 1 \in S
  BY <1>3
<1> HIDE DEF S
<1>5. NoOfBit \in S
  BY <1>1, <1>2, <1>4, EveryNumber
<1>6. (Same(NoOfBit) => v[NoOfBit] = w[NoOfBit]) /\ (Ahead(NoOfBit) => v[NoOfBit] < w[NoOfBit])
  BY <1>1, <1>5 DEF S
<1>7. \A i \in BitIndex : i >= NoOfBit - NoOfBit
  BY <1>1 DEF BitIndex
<1>8. Less(a, b) => Ahead(NoOfBit)
  BY <1>7 DEF Less
<1> QED  BY <1>6, <1>8

\* The order of the bits is the order of the numbers, for any two ids.
LEMMA LessMeansSmaller ==
    ASSUME NEW a \in ID, NEW b \in ID
    PROVE  Less(a, b) <=> ToUlong[a] < ToUlong[b]
<1>1. PICK v : Reads(v, a) /\ ToUlong[a] = v[NoOfBit]
  BY ToUlongReads
<1>2. PICK w : Reads(w, b) /\ ToUlong[b] = w[NoOfBit]
  BY ToUlongReads
<1>3. v[NoOfBit] \in Nat /\ w[NoOfBit] \in Nat
  BY <1>1, <1>2, NoOfBitAssumption DEF Reads
<1>4. a = b \/ Less(a, b) \/ Less(b, a)
  BY LessTotal
<1>5. /\ a = b => v[NoOfBit] = w[NoOfBit]
      /\ Less(a, b) => v[NoOfBit] < w[NoOfBit]
      /\ Less(b, a) => w[NoOfBit] < v[NoOfBit]
  BY <1>1, <1>2, NumbersFollowBits
<1> QED  BY <1>1, <1>2, <1>3, <1>4, <1>5

\* The ids of a table and its owner are ids.
LEMMA KnownAreIds == Inv => KnownIds \subseteq ID
  BY Contacts, SelfIdAssumption DEF KnownIds, Inv, NotSelf

\* The sorts of find_node compare to_ulong() of the XOR with the target
\* (routing_table.cpp:98); the bucket of an id with a longer common prefix with the
\* target needs no sort to come first.
THEOREM DistanceIsXor == Spec => []CloserIsXorMetric
<1>1. Inv => CloserIsXorMetric
  <2> SUFFICES ASSUME Inv, NEW target \in KnownIds, NEW a \in KnownIds, NEW b \in KnownIds
               PROVE  /\ Closer(target, a, b)
                             <=> ToUlong[Xor(target, a)] < ToUlong[Xor(target, b)]
                      /\ FindKBucketIndex(target, a) > FindKBucketIndex(target, b)
                             => Closer(target, a, b)
    BY DEF CloserIsXorMetric
  <2>1. target \in ID /\ a \in ID /\ b \in ID
    BY KnownAreIds
  <2>2. Xor(target, a) \in ID /\ Xor(target, b) \in ID
    BY <2>1, XorIsId
  <2> QED  BY <2>1, <2>2, LessMeansSmaller, LongerPrefixIsCloser DEF Closer
<1> QED  BY <1>1, Invariance, PTL

=============================================================================
