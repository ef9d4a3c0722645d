--------------------------- MODULE KBuckets_proofs ---------------------------
(***************************************************************************)
(* The operations of routing_table.cpp, for ids of any length, any bucket  *)
(* size, any owner and any set of endpoints: insert_node and remove_node   *)
(* keep a table well-formed, and find_node answers with contacts, the      *)
(* nearest of them, at least one if there is any, and never two for one    *)
(* id.  The lemmas are about a table value, so that they serve the one     *)
(* table of RoutingTable and the table of every peer of P2Pocket.          *)
(***************************************************************************)
EXTENDS KBuckets, Ids_proofs, SequenceTheorems

TableOK(self, table) == self \in ID /\ table \in Table /\ WellFormed(self, table)

NotSelf(self) == ID \ {self}

\* TableOK of the one bucket number i.
BucketOK(self, i, b) ==
    /\ b \in Seq(Node)
    /\ \A k \in DOMAIN b : FindKBucketIndex(self, b[k].id) = i
    /\ \A k, l \in DOMAIN b : b[k].id = b[l].id => k = l
    /\ Len(b) <= BucketSize

LEMMA ByBuckets ==
    ASSUME NEW self \in ID, NEW table \in [BitIndex -> Seq(Node)]
    PROVE  TableOK(self, table) <=> \A i \in BitIndex : BucketOK(self, i, table[i])
  BY DEF TableOK, WellFormed, InItsBucket, NoDuplicate, Bounded, BucketOK, Table

\* One bucket is replaced by a good one.
LEMMA BucketsMakeATable ==
    ASSUME NEW self, NEW table, TableOK(self, table), NEW i \in BitIndex, NEW b,
           BucketOK(self, i, b), NEW t, t = [table EXCEPT ![i] = b]
    PROVE  TableOK(self, t)
<1>1. b \in Seq(Node) /\ table \in [BitIndex -> Seq(Node)] /\ self \in ID
  BY DEF BucketOK, TableOK, Table
<1>2. t \in [BitIndex -> Seq(Node)]
  BY <1>1
<1>3. \A j \in BitIndex : BucketOK(self, j, table[j])
  BY <1>1, ByBuckets
<1>4. \A j \in BitIndex : BucketOK(self, j, t[j])
  BY <1>1, <1>3
<1> QED  BY <1>1, <1>2, <1>4, ByBuckets

-----------------------------------------------------------------------------
\* The push_back of insert_node, reached only if the id is new and the bucket
\* has room.
LEMMA PushBack ==
    ASSUME NEW self, NEW i \in BitIndex, NEW b, BucketOK(self, i, b), NEW n \in Node,
           FindKBucketIndex(self, n.id) = i,
           ~IsNodeInBucket(b, n.id), ~(Len(b) >= BucketSize)
    PROVE  BucketOK(self, i, Append(b, n))
<1> DEFINE c == Append(b, n)
<1>1. b \in Seq(Node) /\ Len(b) \in Nat /\ DOMAIN b = 1 .. Len(b)
  BY LenProperties DEF BucketOK
<1>2. /\ c \in Seq(Node)
      /\ Len(c) = Len(b) + 1
      /\ \A k \in 1 .. Len(b) : c[k] = b[k]
      /\ c[Len(b) + 1] = n
  BY <1>1, AppendProperties
<1>3. DOMAIN c = 1 .. Len(b) + 1
  BY <1>2, LenProperties
<1> HIDE DEF c
<1>4. ASSUME NEW k \in DOMAIN c
      PROVE  k \in DOMAIN b \/ k = Len(b) + 1
  BY <1>1, <1>3
<1>5. \A k \in DOMAIN c : FindKBucketIndex(self, c[k].id) = i
  BY <1>1, <1>2, <1>4 DEF BucketOK
<1>6. ASSUME NEW k \in DOMAIN c, NEW l \in DOMAIN c, c[k].id = c[l].id
      PROVE  k = l
  <2>1. CASE k \in DOMAIN b /\ l \in DOMAIN b
    BY <1>1, <1>2, <1>6, <2>1 DEF BucketOK
  <2>2. CASE k = Len(b) + 1 /\ l = Len(b) + 1
    BY <2>2
  <2>3. CASE k \in DOMAIN b /\ l = Len(b) + 1
    BY <1>1, <1>2, <1>6, <2>3 DEF IsNodeInBucket
  <2>4. CASE k = Len(b) + 1 /\ l \in DOMAIN b
    BY <1>1, <1>2, <1>6, <2>4 DEF IsNodeInBucket
  <2> QED  BY <1>4, <2>1, <2>2, <2>3, <2>4
<1>7. Len(c) <= BucketSize
  BY <1>1, <1>2, SizeAssumption
<1> QED  BY <1>2, <1>5, <1>6, <1>7 DEF BucketOK, c

\* erase of a list element: the elements behind it move up by one.
LEMMA EraseProperties ==
    ASSUME NEW b \in Seq(Node), NEW p \in DOMAIN b
    PROVE  /\ RemoveAt(b, p) \in Seq(Node)
           /\ Len(RemoveAt(b, p)) = Len(b) - 1
           /\ \A k \in 1 .. Len(b) - 1 :
                  RemoveAt(b, p)[k] = b[IF k < p THEN k ELSE k + 1]
<1>1. Len(b) \in Nat /\ DOMAIN b = 1 .. Len(b) /\ p \in 1 .. Len(b)
  BY LenProperties
<1>2. \A k \in 1 .. Len(b) : b[k] \in Node
  BY ElementOfSeq
<1> DEFINE s == SubSeq(b, 1, p - 1)
           t == SubSeq(b, p + 1, Len(b))
<1>3. s \in Seq(Node) /\ Len(s) = p - 1 /\ \A k \in 1 .. p - 1 : s[k] = b[k]
  <2>1. \A k \in 1 .. p - 1 : b[k] \in Node
    BY <1>1, <1>2
  <2>2. 1 \in Int /\ p - 1 \in Int
    BY <1>1
  <2>3. /\ s \in Seq(Node)
        /\ Len(s) = IF 1 <= p - 1 THEN (p - 1) - 1 + 1 ELSE 0
        /\ \A k \in 1 .. (p - 1) - 1 + 1 : s[k] = b[1 + k - 1]
    BY <2>1, <2>2, SubSeqProperties
  <2> HIDE DEF s
  <2>4. Len(s) = p - 1
    BY <1>1, <2>3
  <2>5. \A k \in 1 .. p - 1 : k \in 1 .. (p - 1) - 1 + 1 /\ 1 + k - 1 = k
    BY <1>1
  <2>6. \A k \in 1 .. p - 1 : s[k] = b[k]
    <3> TAKE k \in 1 .. p - 1
    <3>1. s[k] = b[1 + k - 1]
      BY <2>3, <2>5
    <3> QED  BY <2>5, <3>1
  <2> QED  BY <2>3, <2>4, <2>6
<1>4. /\ t \in Seq(Node)
      /\ Len(t) = Len(b) - p
      /\ \A k \in 1 .. Len(b) - p : t[k] = b[p + k]
  <2>1. \A k \in p + 1 .. Len(b) : b[k] \in Node
    BY <1>1, <1>2
  <2>2. p + 1 \in Int /\ Len(b) \in Int
    BY <1>1
  <2>3. /\ t \in Seq(Node)
        /\ Len(t) = IF p + 1 <= Len(b) THEN Len(b) - (p + 1) + 1 ELSE 0
        /\ \A k \in 1 .. Len(b) - (p + 1) + 1 : t[k] = b[(p + 1) + k - 1]
    BY <2>1, <2>2, SubSeqProperties
  <2> HIDE DEF t
  <2>4. Len(t) = Len(b) - p
    BY <1>1, <2>3
  <2>5. \A k \in 1 .. Len(b) - p :
            k \in 1 .. Len(b) - (p + 1) + 1 /\ (p + 1) + k - 1 = p + k
    BY <1>1
  <2>6. \A k \in 1 .. Len(b) - p : t[k] = b[p + k]
    <3> TAKE k \in 1 .. Len(b) - p
    <3>1. t[k] = b[(p + 1) + k - 1]
      BY <2>3, <2>5
    <3> QED  BY <2>5, <3>1
  <2> QED  BY <2>3, <2>4, <2>6
<1>5. RemoveAt(b, p) = s \o t
  BY DEF RemoveAt
<1> HIDE DEF s, t
<1>6. /\ s \o t \in Seq(Node)
      /\ Len(s \o t) = Len(s) + Len(t)
      /\ \A k \in 1 .. Len(s) + Len(t) :
             (s \o t)[k] = IF k <= Len(s) THEN s[k] ELSE t[k - Len(s)]
  BY <1>3, <1>4, ConcatProperties
<1>7. ASSUME NEW k \in 1 .. Len(b) - 1
      PROVE  (s \o t)[k] = b[IF k < p THEN k ELSE k + 1]
  <2>1. k \in 1 .. Len(s) + Len(t)
    BY <1>1, <1>3, <1>4
  <2>2. (s \o t)[k] = IF k <= Len(s) THEN s[k] ELSE t[k - Len(s)]
    BY <1>6, <2>1
  <2>3. CASE k < p
    <3>1. k <= Len(s) /\ k \in 1 .. p - 1
      BY <1>1, <1>3, <2>3
    <3> QED  BY <1>3, <2>2, <2>3, <3>1
  <2>4. CASE ~(k < p)
    <3>1. ~(k <= Len(s))
      BY <1>1, <1>3, <2>4
    <3>2. (s \o t)[k] = t[k - Len(s)]
      BY <2>2, <3>1
    <3>3. k - Len(s) \in 1 .. Len(b) - p /\ p + (k - Len(s)) = k + 1
      BY <1>1, <1>3, <2>4
    <3> QED  BY <1>4, <2>4, <3>2, <3>3
  <2> QED  BY <2>3, <2>4
<1> QED  BY <1>1, <1>3, <1>4, <1>5, <1>6, <1>7

LEMMA Erase ==
    ASSUME NEW self, NEW i \in BitIndex, NEW b, BucketOK(self, i, b), NEW p \in DOMAIN b
    PROVE  BucketOK(self, i, RemoveAt(b, p))
<1> DEFINE c       == RemoveAt(b, p)
           From(k) == IF k < p THEN k ELSE k + 1
<1>1. b \in Seq(Node) /\ Len(b) \in Nat /\ DOMAIN b = 1 .. Len(b)
  BY LenProperties DEF BucketOK
<1>2. /\ c \in Seq(Node)
      /\ Len(c) = Len(b) - 1
      /\ \A k \in 1 .. Len(b) - 1 : c[k] = b[From(k)]
  BY <1>1, EraseProperties
<1>3. DOMAIN c = 1 .. Len(b) - 1
  BY <1>2, LenProperties
<1>4. \A k \in 1 .. Len(b) - 1 : From(k) \in DOMAIN b
  BY <1>1
<1>5. \A k, l \in 1 .. Len(b) - 1 : From(k) = From(l) => k = l
  BY <1>1
<1> HIDE DEF c, From
<1>6. \A k \in DOMAIN c : FindKBucketIndex(self, c[k].id) = i
  <2> TAKE k \in DOMAIN c
  <2>1. c[k] = b[From(k)] /\ From(k) \in DOMAIN b
    BY <1>2, <1>3, <1>4
  <2> QED  BY <2>1 DEF BucketOK
<1>7. \A k, l \in DOMAIN c : c[k].id = c[l].id => k = l
  <2> SUFFICES ASSUME NEW k \in DOMAIN c, NEW l \in DOMAIN c, c[k].id = c[l].id
               PROVE  k = l
    OBVIOUS
  <2>1. /\ c[k] = b[From(k)] /\ From(k) \in DOMAIN b
        /\ c[l] = b[From(l)] /\ From(l) \in DOMAIN b
    BY <1>2, <1>3, <1>4
  <2>2. From(k) = From(l)
    BY <2>1 DEF BucketOK
  <2> QED  BY <1>3, <1>5, <2>2
<1>8. Len(c) <= BucketSize
  BY <1>1, <1>2, SizeAssumption DEF BucketOK
<1> QED  BY <1>2, <1>6, <1>7, <1>8 DEF BucketOK, c

-----------------------------------------------------------------------------
LEMMA EmptyTableOK ==
    ASSUME NEW self \in ID
    PROVE  TableOK(self, EmptyTable)
<1>1. EmptyTable \in [BitIndex -> Seq(Node)]
  BY EmptySeq DEF EmptyTable
<1>2. \A i \in BitIndex : EmptyTable[i] = <<>>
  BY DEF EmptyTable
<1>3. \A i \in BitIndex : BucketOK(self, i, EmptyTable[i])
  BY <1>1, <1>2, SizeAssumption DEF BucketOK
<1> QED  BY <1>1, <1>3, ByBuckets

\* insert_node of anybody but the owner.
LEMMA InsertNodeOK ==
    ASSUME NEW self, NEW table, TableOK(self, table),
           NEW id \in NotSelf(self), NEW ep \in Endpoint
    PROVE  TableOK(self, InsertNode(self, table, id, ep))
<1> DEFINE i == FindKBucketIndex(self, id)
           n == [id |-> id, ep |-> ep]
<1>1. i \in BitIndex
  BY IndexInBounds DEF TableOK, NotSelf
<1>2. n \in Node /\ n.id = id
  BY DEF Node, NotSelf
<1>3. CASE Len(table[i]) >= BucketSize \/ IsNodeInBucket(table[i], id)
  BY <1>3 DEF InsertNode
<1>4. CASE ~(Len(table[i]) >= BucketSize \/ IsNodeInBucket(table[i], id))
  <2>1. BucketOK(self, i, table[i])
    BY <1>1, ByBuckets DEF TableOK, Table
  <2>2. BucketOK(self, i, Append(table[i], n))
    BY <1>1, <1>2, <1>4, <2>1, PushBack
  <2>3. InsertNode(self, table, id, ep) = [table EXCEPT ![i] = Append(table[i], n)]
    BY <1>4 DEF InsertNode
  <2>4. i \in BitIndex
    BY <1>1
  <2> HIDE DEF n, i
  <2> QED  BY <2>2, <2>3, <2>4, BucketsMakeATable
<1> QED  BY <1>3, <1>4

\* insert_node leaves the contact known, or its bucket full, and so it leaves
\* every contact that was known or had no room before.
KnownOrFull(self, table, id) ==
    LET bucket == table[FindKBucketIndex(self, id)]
    IN  IsNodeInBucket(bucket, id) \/ Len(bucket) = BucketSize

LEMMA InsertNodeKnows ==
    ASSUME NEW self, NEW table, TableOK(self, table),
           NEW id \in NotSelf(self), NEW ep \in Endpoint
    PROVE  /\ KnownOrFull(self, InsertNode(self, table, id, ep), id)
           /\ \A x \in NotSelf(self) :
                 KnownOrFull(self, table, x)
                     => KnownOrFull(self, InsertNode(self, table, id, ep), x)
<1> DEFINE i == FindKBucketIndex(self, id)
           n == [id |-> id, ep |-> ep]
<1>1. i \in BitIndex
  BY IndexInBounds DEF TableOK, NotSelf
<1>2. table[i] \in Seq(Node) /\ Len(table[i]) <= BucketSize /\ table \in Table
  BY <1>1 DEF TableOK, Table, WellFormed, Bounded
<1>3. CASE Len(table[i]) >= BucketSize \/ IsNodeInBucket(table[i], id)
  <2>1. InsertNode(self, table, id, ep) = table
    BY <1>3 DEF InsertNode
  <2>2. Len(table[i]) \in Nat
    BY <1>2, LenProperties
  <2> QED  BY <1>2, <1>3, <2>1, <2>2, SizeAssumption DEF KnownOrFull
<1>4. CASE ~(Len(table[i]) >= BucketSize \/ IsNodeInBucket(table[i], id))
  <2>1. InsertNode(self, table, id, ep) = [table EXCEPT ![i] = Append(table[i], n)]
    BY <1>4 DEF InsertNode
  <2>2. PICK t : t = InsertNode(self, table, id, ep)
    OBVIOUS
  <2>3. n \in Node /\ n.id = id
    BY DEF Node, NotSelf
  <2>4. /\ t[i] = Append(table[i], n)
        /\ \A j \in BitIndex \ {i} : t[j] = table[j]
    BY <1>1, <1>2, <2>1, <2>2 DEF Table
  <2> HIDE DEF n, i
  <2>5. /\ Len(t[i]) = Len(table[i]) + 1
        /\ t[i][Len(table[i]) + 1] = n
        /\ \A k \in DOMAIN table[i] : k \in DOMAIN t[i] /\ t[i][k] = table[i][k]
    BY <1>2, <2>3, <2>4
  <2>6. Len(t[i]) \in Nat /\ DOMAIN t[i] = 1 .. Len(t[i]) /\ Len(table[i]) \in Nat
    BY <1>2, <2>3, <2>4
  <2>7. IsNodeInBucket(t[i], id)
    BY <2>3, <2>5, <2>6 DEF IsNodeInBucket
  <2>8. ASSUME NEW x \in NotSelf(self), KnownOrFull(self, table, x)
        PROVE  KnownOrFull(self, t, x)
    <3>1. FindKBucketIndex(self, x) \in BitIndex
      BY IndexInBounds DEF TableOK, NotSelf
    <3>2. CASE FindKBucketIndex(self, x) # i
      BY <2>4, <2>8, <3>1, <3>2 DEF KnownOrFull
    <3>3. CASE FindKBucketIndex(self, x) = i
      <4>1. IsNodeInBucket(table[i], x) \/ Len(table[i]) = BucketSize
        BY <2>8, <3>3 DEF KnownOrFull
      <4>2. IsNodeInBucket(table[i], x)
        BY <1>4, <4>1, SizeAssumption DEF i
      <4>3. IsNodeInBucket(t[i], x)
        BY <2>5, <4>2 DEF IsNodeInBucket
      <4> QED  BY <3>3, <4>3 DEF KnownOrFull
    <3> QED  BY <3>2, <3>3
  <2> QED  BY <2>2, <2>7, <2>8 DEF KnownOrFull, i
<1> QED  BY <1>3, <1>4

\* After insert_node the table has somebody: the new contact, or those who filled
\* its bucket.
LEMMA InsertNodeFills ==
    ASSUME NEW self, NEW table, TableOK(self, table),
           NEW id \in NotSelf(self), NEW ep \in Endpoint
    PROVE  AllNodes(InsertNode(self, table, id, ep)) # {}
<1> DEFINE i == FindKBucketIndex(self, id)
           t == InsertNode(self, table, id, ep)
<1>1. i \in BitIndex
  BY IndexInBounds DEF TableOK, NotSelf
<1>2. TableOK(self, t) /\ t[i] \in Seq(Node)
  BY <1>1, InsertNodeOK DEF TableOK, Table
<1>3. IsNodeInBucket(t[i], id) \/ Len(t[i]) = BucketSize
  BY InsertNodeKnows DEF KnownOrFull
<1> HIDE DEF t, i
<1>4. DOMAIN t[i] = 1 .. Len(t[i]) /\ Len(t[i]) \in Nat
  BY <1>2, LenProperties
<1>5. \E k : k \in DOMAIN t[i]
  <2>1. CASE IsNodeInBucket(t[i], id)
    BY <2>1 DEF IsNodeInBucket
  <2>2. CASE Len(t[i]) = BucketSize
    <3>1. 1 \in 1 .. Len(t[i])
      BY <1>4, <2>2, SizeAssumption
    <3> QED  BY <1>4, <3>1
  <2> QED  BY <1>3, <2>1, <2>2
<1>6. \E x : x \in Range(t[i])
  BY <1>5 DEF Range
<1>7. AllNodes(t) # {}
  BY <1>1, <1>6 DEF AllNodes
<1> QED  BY <1>7 DEF t

\* remove_node of anybody but the owner.
LEMMA DropNodeOK ==
    ASSUME NEW self, NEW table, TableOK(self, table), NEW id \in NotSelf(self)
    PROVE  TableOK(self, DropNode(self, table, id))
<1> DEFINE i == FindKBucketIndex(self, id)
           p == PositionOf(table[i], id)
<1>1. i \in BitIndex
  BY IndexInBounds DEF TableOK, NotSelf
<1>2. CASE ~IsNodeInBucket(table[i], id)
  BY <1>2 DEF DropNode
<1>3. CASE IsNodeInBucket(table[i], id)
  <2>1. p \in DOMAIN table[i]
    BY <1>3 DEF IsNodeInBucket, PositionOf
  <2>2. BucketOK(self, i, table[i])
    BY <1>1, ByBuckets DEF TableOK, Table
  <2>3. BucketOK(self, i, RemoveAt(table[i], p))
    BY <1>1, <2>1, <2>2, Erase
  <2>4. DropNode(self, table, id) = [table EXCEPT ![i] = RemoveAt(table[i], p)]
    BY <1>3 DEF DropNode
  <2>5. i \in BitIndex
    BY <1>1
  <2> HIDE DEF p, i
  <2> QED  BY <2>3, <2>4, <2>5, BucketsMakeATable
<1> QED  BY <1>2, <1>3

-----------------------------------------------------------------------------
\* The scan finds no differing bit in the owner's own id, which therefore has
\* no bucket.
LEMMA OwnIdHasNoBucket ==
    ASSUME NEW a \in ID
    PROVE  FindKBucketIndex(a, a) \notin BitIndex
  BY OwnIndex, NoOfBitAssumption DEF BitIndex

LEMMA FiniteRange ==
    ASSUME NEW s \in Seq(Node)
    PROVE  IsFiniteSet(Range(s))
<1>1. DOMAIN s = 1 .. Len(s) /\ Len(s) \in Nat /\ s \in [DOMAIN s -> Range(s)]
  BY LenProperties DEF Range
<1>2. IsFiniteSet(DOMAIN s)
  <2>1. 1 \in Int /\ Len(s) \in Int
    BY <1>1
  <2>2. IsFiniteSet(1 .. Len(s))
    BY ONLY <2>1, FS_Interval
  <2> QED  BY <1>1, <2>2
<1>3. s \in Surjection(DOMAIN s, Range(s))
  BY <1>1 DEF Surjection, Range
<1> QED  BY <1>2, <1>3, FS_Surjection

LEMMA AllNodesFinite ==
    ASSUME NEW table \in Table
    PROVE  IsFiniteSet(AllNodes(table))
<1> DEFINE Ranges == {Range(table[i]) : i \in BitIndex}
           f      == [i \in BitIndex |-> Range(table[i])]
<1>1. IsFiniteSet(BitIndex)
  BY NoOfBitAssumption, FS_Interval DEF BitIndex
<1>2. f \in Surjection(BitIndex, Ranges)
  BY DEF Surjection
<1>3. \A T \in Ranges : IsFiniteSet(T)
  BY FiniteRange DEF Table
<1> HIDE DEF Ranges, f
<1>4. IsFiniteSet(Ranges)
  BY <1>1, <1>2, FS_Surjection
<1>5. IsFiniteSet(UNION Ranges)
  BY <1>3, <1>4, FS_UNION
<1> QED  BY <1>5 DEF AllNodes, Ranges

\* Every contact lies in the bucket of its id, is not the owner, and shares
\* its id with no other contact.
LEMMA Contacts ==
    ASSUME NEW self, NEW table, TableOK(self, table)
    PROVE  /\ \A x \in AllNodes(table) :
                  LET i == FindKBucketIndex(self, x.id)
                  IN  /\ x \in Node /\ x.id \in NotSelf(self)
                      /\ i \in BitIndex /\ x \in Range(table[i])
           /\ \A x, y \in AllNodes(table) : x.id = y.id => x = y
<1>1. ASSUME NEW x \in AllNodes(table)
      PROVE  LET i == FindKBucketIndex(self, x.id)
             IN  /\ x \in Node /\ x.id \in NotSelf(self)
                 /\ i \in BitIndex /\ x \in Range(table[i])
  <2>1. PICK i \in BitIndex : x \in Range(table[i])
    BY DEF AllNodes
  <2>2. PICK k \in DOMAIN table[i] : x = table[i][k]
    BY <2>1 DEF Range
  <2>3. table[i] \in Seq(Node)
    BY DEF TableOK, Table
  <2>4. x \in Node
    BY <2>2, <2>3, LenProperties, ElementOfSeq
  <2>5. FindKBucketIndex(self, x.id) = i
    BY <2>2 DEF TableOK, WellFormed, InItsBucket
  <2>6. x.id # self
    BY <2>5, OwnIdHasNoBucket DEF TableOK
  <2> QED  BY <2>1, <2>4, <2>5, <2>6 DEF Node, NotSelf
<1>2. ASSUME NEW x \in AllNodes(table), NEW y \in AllNodes(table), x.id = y.id
      PROVE  x = y
  <2> DEFINE i == FindKBucketIndex(self, x.id)
  <2>1. i \in BitIndex /\ x \in Range(table[i]) /\ y \in Range(table[i])
    BY <1>1, <1>2
  <2>2. PICK k, l \in DOMAIN table[i] : x = table[i][k] /\ y = table[i][l]
    BY <2>1 DEF Range
  <2> HIDE DEF i
  <2> QED  BY <1>2, <2>1, <2>2 DEF TableOK, WellFormed, NoDuplicate
<1> QED  BY <1>1, <1>2

\* The contact found under its own id.
LEMMA Exact ==
    ASSUME NEW self, NEW table, TableOK(self, table), NEW target \in NotSelf(self),
           IsNodeInBucket(table[FindKBucketIndex(self, target)], target)
    PROVE  \E x \in AllNodes(table) :
               x.id = target /\ FindNode(self, table, target) = {x}
<1> DEFINE i == FindKBucketIndex(self, target)
           p == PositionOf(table[i], target)
<1>1. i \in BitIndex
  BY IndexInBounds DEF TableOK, NotSelf
<1>2. p \in DOMAIN table[i] /\ table[i][p].id = target
  BY DEF IsNodeInBucket, PositionOf
<1>3. table[i][p] \in AllNodes(table)
  BY <1>1, <1>2 DEF AllNodes, Range
<1>4. FindNode(self, table, target) = {table[i][p]}
  BY DEF FindNode
<1> QED  BY <1>2, <1>3, <1>4

-----------------------------------------------------------------------------
\* Nodes of a set that are nearer to the target than x.
Before(target, nodes, x) == {y \in nodes : Closer(target, y.id, x.id)}

LEMMA BeforeIsMonotonic ==
    ASSUME NEW target \in ID, NEW nodes \in SUBSET Node,
           NEW x \in nodes, NEW y \in nodes, Closer(target, y.id, x.id)
    PROVE  Before(target, nodes, y) \subseteq Before(target, nodes, x)
<1> \A z \in nodes : z.id \in ID
  BY DEF Node
<1> QED  BY CloserOrder DEF Before

\* The sort of find_node keeps no node and drops a nearer one.
LEMMA NearestAreNearest ==
    ASSUME NEW target \in ID, NEW nodes \in SUBSET Node, IsFiniteSet(nodes),
           NEW n \in Nat,
           NEW x \in Nearest(target, nodes, n),
           NEW y \in nodes \ Nearest(target, nodes, n)
    PROVE  Closer(target, x.id, y.id)
<1>1. x \in nodes /\ y \in nodes /\ x.id \in ID /\ y.id \in ID
  BY DEF Nearest, Node
<1>2. /\ Cardinality(Before(target, nodes, x)) < n
      /\ ~(Cardinality(Before(target, nodes, y)) < n)
  BY DEF Nearest, Before
<1>3. x.id # y.id
  BY <1>2 DEF Before
<1>4. CASE Closer(target, y.id, x.id)
  <2>1. Before(target, nodes, y) \subseteq Before(target, nodes, x)
    BY <1>1, <1>4, BeforeIsMonotonic
  <2>2. IsFiniteSet(Before(target, nodes, x))
    BY FS_Subset DEF Before
  <2>3. IsFiniteSet(Before(target, nodes, y))
    BY FS_Subset DEF Before
  <2>4. /\ Cardinality(Before(target, nodes, y)) <= Cardinality(Before(target, nodes, x))
        /\ Cardinality(Before(target, nodes, x)) \in Nat
        /\ Cardinality(Before(target, nodes, y)) \in Nat
    BY <2>1, <2>2, <2>3, FS_Subset, FS_CardinalityType
  <2> QED  BY <1>2, <2>4
<1> QED  BY <1>1, <1>3, <1>4, CloserOrder

\* It keeps at least one: one that no other node precedes.
LEMMA NearestNotEmpty ==
    ASSUME NEW target \in ID, NEW nodes \in SUBSET Node, IsFiniteSet(nodes),
           nodes # {}, NEW n \in Nat \ {0}
    PROVE  Nearest(target, nodes, n) # {}
<1> DEFINE B(x)    == Before(target, nodes, x)
           Befores == {B(x) : x \in nodes}
<1>1. Befores \subseteq FiniteSubsetsOf(nodes) /\ Befores # {}
  <2>1. \A x \in nodes : B(x) \in SUBSET nodes
    BY DEF Before
  <2> QED  BY <2>1, FS_Subset DEF FiniteSubsetsOf
<1>2. PICK X \in Befores : \A Y \in Befores : ~(<<Y, X>> \in StrictSubsetOrdering(nodes))
  <2>1. IsWellFoundedOn(StrictSubsetOrdering(nodes), FiniteSubsetsOf(nodes))
    BY FS_StrictSubsetOrderingWellFounded
  <2> HIDE DEF Befores
  <2> QED  BY <1>1, <2>1, WFMin
<1>3. PICK x \in nodes : X = B(x)
  OBVIOUS
<1>4. B(x) = {}
  <2> SUFFICES ASSUME NEW y \in B(x) PROVE FALSE
    OBVIOUS
  <2>1. y \in nodes /\ Closer(target, y.id, x.id) /\ y.id \in ID
    BY DEF Before, Node
  <2>2. B(y) \subseteq B(x)
    BY <2>1, BeforeIsMonotonic
  <2>3. y \notin B(y)
    BY <2>1, CloserOrder DEF Before
  <2>4. B(y) \in SUBSET nodes /\ B(x) \in SUBSET nodes /\ B(y) # B(x)
    BY <2>3 DEF Before
  <2>5. B(y) \in Befores
    BY <2>1
  <2> HIDE DEF B, Befores
  <2>6. <<B(y), B(x)>> \in StrictSubsetOrdering(nodes)
    BY <2>2, <2>4 DEF StrictSubsetOrdering
  <2> QED  BY <1>2, <1>3, <2>5, <2>6
<1>5. Cardinality(B(x)) < n
  BY <1>4, FS_EmptySet
<1> QED  BY <1>5 DEF Nearest, Before

-----------------------------------------------------------------------------
\* Only contacts are returned, and none farther away than one that is not.
LEMMA FindNodeNearest ==
    ASSUME NEW self, NEW table, TableOK(self, table), NEW target \in NotSelf(self)
    PROVE  /\ FindNode(self, table, target) \subseteq AllNodes(table)
           /\ \A x \in FindNode(self, table, target) :
              \A y \in AllNodes(table) \ FindNode(self, table, target) :
                  Closer(target, x.id, y.id)
<1> DEFINE i     == FindKBucketIndex(self, target)
           found == FindNode(self, table, target)
<1>1. i \in BitIndex /\ target \in ID /\ target # self /\ self \in ID
  BY IndexInBounds DEF TableOK, NotSelf
<1>2. CASE IsNodeInBucket(table[i], target)
  <2>1. PICK x \in AllNodes(table) : x.id = target /\ found = {x}
    BY <1>2, Exact
  <2>2. ASSUME NEW y \in AllNodes(table), y # x
        PROVE  Closer(target, x.id, y.id)
    BY <2>1, <2>2, <1>1, Contacts, SelfIsClosest DEF NotSelf
  <2> QED  BY <2>1, <2>2
<1>3. CASE ~IsNodeInBucket(table[i], target) /\ Len(table[i]) > 1
  <2>1. found = Range(table[i])
    BY <1>3 DEF FindNode
  <2>2. found \subseteq AllNodes(table)
    BY <1>1, <2>1 DEF AllNodes
  <2>3. ASSUME NEW x \in found, NEW y \in AllNodes(table) \ found
        PROVE  Closer(target, x.id, y.id)
    <3>1. FindKBucketIndex(self, x.id) = i
      BY <1>1, <2>1 DEF Range, TableOK, WellFormed, InItsBucket
    <3>2. FindKBucketIndex(self, y.id) # i
      BY <2>1, Contacts
    <3>3. x.id \in NotSelf(self) /\ y.id \in NotSelf(self)
      BY <2>2, Contacts
    <3> QED  BY <1>1, <3>1, <3>2, <3>3, SameBucketIsCloser DEF NotSelf
  <2> QED  BY <2>2, <2>3
<1>4. CASE ~IsNodeInBucket(table[i], target) /\ ~(Len(table[i]) > 1)
  <2>1. found = Nearest(target, AllNodes(table), NearestCount)
    BY <1>4 DEF FindNode
  <2>2. IsFiniteSet(AllNodes(table)) /\ AllNodes(table) \in SUBSET Node
    BY AllNodesFinite, Contacts DEF TableOK
  <2>3. NearestCount \in Nat
    BY SizeAssumption
  <2>4. found \subseteq AllNodes(table)
    BY <2>1 DEF Nearest
  <2> HIDE DEF found
  <2> QED  BY <1>1, <2>1, <2>2, <2>3, <2>4, NearestAreNearest DEF found
<1> QED  BY <1>2, <1>3, <1>4

\* Somebody is returned if anybody is known, and one endpoint per id.
LEMMA FindNodeSomebody ==
    ASSUME NEW self, NEW table, TableOK(self, table), NEW target \in NotSelf(self)
    PROVE  /\ AllNodes(table) # {} => FindNode(self, table, target) # {}
           /\ \A x, y \in FindNode(self, table, target) : x.id = y.id => x = y
<1> DEFINE i     == FindKBucketIndex(self, target)
           found == FindNode(self, table, target)
<1>1. found \subseteq AllNodes(table)
  BY FindNodeNearest
<1>2. ASSUME AllNodes(table) # {}
      PROVE  found # {}
  <2>1. CASE IsNodeInBucket(table[i], target)
    BY <2>1, Exact
  <2>2. CASE ~IsNodeInBucket(table[i], target) /\ Len(table[i]) > 1
    <3>1. i \in BitIndex
      BY IndexInBounds DEF TableOK, NotSelf
    <3>2. table[i] \in Seq(Node)
      BY <3>1 DEF TableOK, Table
    <3>3. 1 \in DOMAIN table[i]
      BY <2>2, <3>2, LenProperties
    <3> QED  BY <2>2, <3>3 DEF FindNode, Range
  <2>3. CASE ~IsNodeInBucket(table[i], target) /\ ~(Len(table[i]) > 1)
    <3>1. IsFiniteSet(AllNodes(table)) /\ AllNodes(table) \in SUBSET Node
      BY AllNodesFinite, Contacts DEF TableOK
    <3>2. Nearest(target, AllNodes(table), NearestCount) # {}
      BY <1>2, <3>1, SizeAssumption, NearestNotEmpty DEF NotSelf
    <3> QED  BY <2>3, <3>2 DEF FindNode
  <2> QED  BY <2>1, <2>2, <2>3
<1>3. \A x, y \in found : x.id = y.id => x = y
  BY <1>1, Contacts
<1> QED  BY <1>2, <1>3

=============================================================================
