---------------------------- MODULE RoutingTable ----------------------------
(***************************************************************************)
(* The routing table of one peer (src/routing_table.cpp) as a state        *)
(* machine: contacts arrive through handle_communication (any request the  *)
(* peer receives) and through insert_node (bootstrap).                     *)
(*                                                                         *)
(* The caller's obligation is that the id is not the owner's: for it       *)
(* find_k_bucket_index returns NO_OF_BIT and m_k_buckets is indexed out of *)
(* bounds.  P2Pocket shows where the program breaks it (BucketInBounds).   *)
(***************************************************************************)
EXTENDS KBuckets

CONSTANT SelfId          \* m_self_id

ASSUME SelfIdAssumption == SelfId \in ID

VARIABLE table           \* m_k_buckets

vars == <<table>>

Others == ID \ {SelfId}

Init == table = EmptyTable

HandleCommunication(id, ep) == table' = InsertNode(SelfId, table, id, ep)

RemoveNode(id) == table' = DropNode(SelfId, table, id)

Next == \E id \in Others : \/ \E ep \in Endpoint : HandleCommunication(id, ep)
                           \/ RemoveNode(id)

Spec == Init /\ [][Next]_vars

-----------------------------------------------------------------------------
\* Shape of the state: one list of contacts per bit.
TypeOK == table \in Table

(***************************************************************************)
(* What insert_node must keep true of every bucket: a contact lives in the *)
(* bucket of its common prefix with the owner, an id appears once, and no  *)
(* bucket outgrows CURRENT_BUCKET_SIZE.                                    *)
(***************************************************************************)
BucketsWellFormed == WellFormed(SelfId, table)

(***************************************************************************)
(* find_node returns "list of nodes closes to given node if not found"     *)
(* (routing_table.cpp:58) although it looks at one bucket only when that   *)
(* bucket has two nodes: every returned node is nearer to the target than  *)
(* every node of the table that is not returned.                           *)
(***************************************************************************)
FindNodeReturnsNearest ==
    \A target \in Others :
        LET found == FindNode(SelfId, table, target)
        IN  /\ found \subseteq AllNodes(table)
            /\ \A x \in found : \A y \in AllNodes(table) \ found :
                   Closer(target, x.id, y.id)

(***************************************************************************)
(* store_file throws on an empty answer and its callers merge the answer   *)
(* into a map: a table that knows anyone answers with someone, and never   *)
(* with two endpoints for one id.                                          *)
(***************************************************************************)
FindNodeUsable ==
    \A target \in Others :
        LET found == FindNode(SelfId, table, target)
        IN  /\ AllNodes(table) # {} => found # {}
            /\ \A x, y \in found : x.id = y.id => x = y

(***************************************************************************)
(* The bucket index is the number of leading bits in which the two ids     *)
(* agree ("lower index represents less common prefixes", routing_table.h), *)
(* and it names an existing bucket except for the owner's own id.          *)
(***************************************************************************)
KnownIds == {SelfId} \cup {n.id : n \in AllNodes(table)}

IndexIsCommonPrefix ==
    \A a, b \in KnownIds :
        /\ FindKBucketIndex(a, b)
               = Cardinality({k \in 1 .. NoOfBit :
                                \A l \in 1 .. k : a[NoOfBit - l] = b[NoOfBit - l]})
        /\ FindKBucketIndex(a, b) \in BitIndex <=> a # b

\* Reference: the value of an id as an unsigned number, to_ulong(), read from the
\* most significant bit on.
ToUlong ==
    [id \in ID |->
        LET value[k \in 0 .. NoOfBit] ==
                IF k = 0 THEN 0 ELSE 2 * value[k - 1] + id[NoOfBit - k]
        IN  value[NoOfBit]]

(***************************************************************************)
(* The sorts of find_node compare the unsigned values of the XOR with the  *)
(* target, and an id with a longer common prefix with the target comes     *)
(* first: what lets find_node take "same bucket" for "nearer"              *)
(* (routing_table.cpp:79).                                                 *)
(***************************************************************************)
CloserIsXorMetric ==
    \A target, a, b \in KnownIds :
        /\ Closer(target, a, b) <=> ToUlong[Xor(target, a)] < ToUlong[Xor(target, b)]
        /\ FindKBucketIndex(target, a) > FindKBucketIndex(target, b)
              => Closer(target, a, b)

(***************************************************************************)
(* Contacts are never displaced: with insert_node as it is, the only step  *)
(* that forgets a contact, reorders a bucket or changes the endpoint kept  *)
(* for an id is remove_node.  A contact that moved to another endpoint, or *)
(* that died, stays as it is.                                              *)
(***************************************************************************)
ContactsStay ==
    [][\A i \in BitIndex :
          \/ \E rest \in {<<>>} \cup {<<n>> : n \in Node} :
                 table'[i] = table[i] \o rest
          \/ \E id \in Others : table' = DropNode(SelfId, table, id)]_table

=============================================================================
