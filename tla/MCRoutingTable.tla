--------------------------- MODULE MCRoutingTable ---------------------------
(***************************************************************************)
(* One table over 3-bit ids: buckets for 4, 2 and 1 ids of size 2, so that *)
(* a bucket is over-subscribed, one fills exactly and one stays single.    *)
(* The operators of Ids are compared with the numbers to_ulong() returns   *)
(* on the ids a table holds together: all pairs, and the triples that fit. *)
(***************************************************************************)
EXTENDS RoutingTable

MCSelfId == [i \in BitIndex |-> IF i = 0 THEN 1 ELSE 0]

=============================================================================
