------------------------------ MODULE KBuckets ------------------------------
(***************************************************************************)
(* The data structure of routing_table.cpp and its operations as operators *)
(* on a table value: one std::list of (id, endpoint) pairs per common      *)
(* prefix length.  RoutingTable runs them as the state machine of one      *)
(* table; the networking modules use them for the table of every peer.     *)
(***************************************************************************)
EXTENDS Ids, SequencesExt

CONSTANTS BucketSize,      \* CURRENT_BUCKET_SIZE (config.h)
          NearestCount,    \* the 5 of find_node
          Endpoint         \* (ip, port) pairs

ASSUME SizeAssumption == BucketSize \in Nat \ {0} /\ NearestCount \in Nat \ {0}

Node == [id : ID, ep : Endpoint]

Table == [BitIndex -> Seq(Node)]

EmptyTable == [i \in BitIndex |-> <<>>]

AllNodes(table) == UNION {Range(table[i]) : i \in BitIndex}

\* is_node_in_bucket: search by id alone.
IsNodeInBucket(bucket, id) == \E k \in DOMAIN bucket : bucket[k].id = id

\* find_node_in_bucket.  Where it matters an id is in a bucket once.
PositionOf(bucket, id) == CHOOSE k \in DOMAIN bucket : bucket[k].id = id

\* find_k_bucket_index names an element of m_k_buckets; false for the own id.
InBounds(self, id) == FindKBucketIndex(self, id) \in BitIndex

\* A table of the owner `self` with every contact in the bucket of its common
\* prefix with the owner, every id once, and no bucket above
\* CURRENT_BUCKET_SIZE.
InItsBucket(self, table) ==
    \A i \in BitIndex : \A k \in DOMAIN table[i] :
        FindKBucketIndex(self, table[i][k].id) = i

NoDuplicate(table) ==
    \A i \in BitIndex : \A k, l \in DOMAIN table[i] :
        table[i][k].id = table[i][l].id => k = l

Bounded(table) == \A i \in BitIndex : Len(table[i]) <= BucketSize

WellFormed(self, table) ==
    InItsBucket(self, table) /\ NoDuplicate(table) /\ Bounded(table)

-----------------------------------------------------------------------------
\* Mutant: insert_node without the is_new_node test.
InsertNodeAgain(self, table, id, ep) ==
    LET i == FindKBucketIndex(self, id)
    IN  IF Len(table[i]) >= BucketSize THEN table
        ELSE [table EXCEPT ![i] = Append(@, [id |-> id, ep |-> ep])]

\* Mutant: a full bucket drops its oldest contact for the new one.
InsertNodeEvicting(self, table, id, ep) ==
    LET i == FindKBucketIndex(self, id)
        n == [id |-> id, ep |-> ep]
    IN  IF IsNodeInBucket(table[i], id) THEN table
        ELSE [table EXCEPT ![i] = IF Len(@) >= BucketSize
                                  THEN Append(Tail(@), n) ELSE Append(@, n)]

\* Mutant: the pair built the wrong way round.
InsertNodeSwapped(self, table, id, ep) ==
    LET i == FindKBucketIndex(self, id)
    IN  IF Len(table[i]) >= BucketSize \/ IsNodeInBucket(table[i], id)
        THEN table
        ELSE [table EXCEPT ![i] = Append(@, [id |-> ep, ep |-> id])]

\* insert_node (handle_communication only forwards to it): a new contact goes
\* to the back of its bucket; a full bucket and a known id leave everything,
\* the recorded endpoint included, as it was.  Requires InBounds(self, id).
InsertNode(self, table, id, ep) ==
    LET i == FindKBucketIndex(self, id)
    IN  IF Len(table[i]) >= BucketSize \/ IsNodeInBucket(table[i], id)
        THEN table
        ELSE [table EXCEPT ![i] = Append(@, [id |-> id, ep |-> ep])]

\* remove_node.
DropNode(self, table, id) ==
    LET i == FindKBucketIndex(self, id)
    IN  IF IsNodeInBucket(table[i], id)
        THEN [table EXCEPT ![i] = RemoveAt(@, PositionOf(@, id))]
        ELSE table

-----------------------------------------------------------------------------
\* Sorting all_nodes by distance and keeping the first n: the nodes that fewer
\* than n others precede.
Nearest(target, nodes, n) ==
    {x \in nodes : Cardinality({y \in nodes : Closer(target, y.id, x.id)}) < n}

\* Mutant: any non-empty bucket is returned as it is.
FindNodeAnyBucket(self, table, id) ==
    LET bucket == table[FindKBucketIndex(self, id)]
    IN  IF bucket # <<>> THEN {bucket[1]}
        ELSE Nearest(id, AllNodes(table), NearestCount)

\* Mutant: the bucket even if it is empty, as the comment in store_file has it.
FindNodeBucketOnly(self, table, id) ==
    LET bucket == table[FindKBucketIndex(self, id)]
    IN  IF IsNodeInBucket(bucket, id)
        THEN {bucket[PositionOf(bucket, id)]}
        ELSE Range(bucket)

\* find_node: the node itself if its bucket has it, else that bucket if it has
\* more than one node, else the nearest nodes of the whole table.  The list is
\* returned as a set: callers only insert it into a map keyed by id.
\* Requires InBounds(self, id).
FindNode(self, table, id) ==
    LET bucket == table[FindKBucketIndex(self, id)]
    IN  IF IsNodeInBucket(bucket, id)
        THEN {bucket[PositionOf(bucket, id)]}
        ELSE IF Len(bucket) > 1 THEN Range(bucket)
             ELSE Nearest(id, AllNodes(table), NearestCount)

=============================================================================
