-------------------------------- MODULE Ids --------------------------------
(***************************************************************************)
(* Node ids and piece keys: std::bitset<NO_OF_BIT> (include/id.h), the     *)
(* order ID_comparer gives them in every std::map, and the XOR distance    *)
(* the sorts of routing_table.cpp and networking.cpp compare.              *)
(*                                                                         *)
(* An id is the function from bit positions to bits that the bitset is;    *)
(* position 0 is the least significant bit.  to_ulong() is monotone in     *)
(* the lexicographic order from the top bit down, so "less" is stated on   *)
(* the bits; MCRoutingTable compares it with the numeric value.            *)
(***************************************************************************)
EXTENDS Integers

CONSTANT NoOfBit                    \* NO_OF_BIT (config.h)

ASSUME NoOfBitAssumption == NoOfBit \in Nat \ {0}

BitIndex == 0 .. NoOfBit - 1

ID == [BitIndex -> {0, 1}]

\* operator^ of two bitsets.
Xor(a, b) == [i \in BitIndex |-> IF a[i] = b[i] THEN 0 ELSE 1]

\* ID_comparer: the order of the keys of `responses` and of a nodes_tracker.
Less(a, b) ==
    \E i \in BitIndex : a[i] < b[i] /\ \A j \in BitIndex : j > i => a[j] = b[j]

\* Mutant: plain order of the ids, the distance to the target forgotten.
CloserWithoutTarget(target, a, b) == Less(a, b)

\* The sort predicate of find_node and store_file: a is nearer to target.
Closer(target, a, b) == Less(Xor(target, a), Xor(target, b))

\* Position of the highest bit in which a and b differ; -1 if there is none.
HighestDiffBit(a, b) ==
    CHOOSE i \in BitIndex \cup {-1} :
        /\ i # -1 => a[i] # b[i]
        /\ \A j \in BitIndex : j > i => a[j] = b[j]

\* Mutant: scans from the least significant bit.
LowestDiffIndex(self, peer) ==
    CHOOSE i \in 0 .. NoOfBit :
        /\ i # NoOfBit => self[i] # peer[i]
        /\ \A j \in BitIndex : j < i => self[j] = peer[j]

\* find_k_bucket_index: the length of the common prefix.  For peer = self the
\* scan leaves i at SIZE_MAX and the result, modulo 2^64, is NO_OF_BIT: one
\* past the last bucket.
FindKBucketIndex(self, peer) == NoOfBit - 1 - HighestDiffBit(self, peer)

=============================================================================
