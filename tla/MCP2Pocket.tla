----------------------------- MODULE MCP2Pocket -----------------------------
(***************************************************************************)
(* Ids, keys and first tables for the runs of P2Pocket.  Ids have three    *)
(* bits.  The table of a process that has joined holds, like one built by  *)
(* its own bootstrap, the nodes of a set in id order, as far as the        *)
(* buckets have room.                                                      *)
(***************************************************************************)
EXTENDS P2Pocket

CONSTANTS b, x, y, z,      \* endpoints: the bootstrap node and three clients
          c1, c2,          \* contents
          f1, f2           \* files

Bits(n) == [i \in BitIndex |-> (n \div 2^i) % 2]

MCIdOf == [p \in Endpoint |-> Bits(CASE p = b -> 4 [] p = x -> 1
                                     [] p = y -> 2 [] p = z -> 7)]

\* x with the greatest id.
HighIdOf == [MCIdOf EXCEPT ![x] = Bits(7), ![z] = Bits(1)]

TableFrom(p, nodes) ==
    LET RECURSIVE Add(_, _)
        Add(table, left) ==
            IF left = {} THEN table
            ELSE LET q == CHOOSE q \in left :
                              \A r \in left \ {q} : Less(IdOf[q], IdOf[r])
                 IN  Add(InsertNode(IdOf[p], table, IdOf[q], q), left \ {q})
    IN  Add(EmptyTable, nodes)

\* Everybody running knows everybody running.
Acquainted ==
    [p \in Endpoint |->
        IF p \in Joined \cup {b} THEN TableFrom(p, (Joined \cup {b}) \ {p})
        ELSE EmptyTable]

\* x is older than y and z, and the requests they sent it when they joined were
\* lost: it knows the bootstrap node only.
Overlooked == [Acquainted EXCEPT ![x] = TableFrom(x, {b})]

OnePiece  == [f \in {f1} |-> <<c1>>]
TwoPieces == [f \in {f1} |-> <<c1, c2>>]

\* The files have a piece in common.
TwoFiles == [f \in {f1, f2} |-> IF f = f1 THEN <<c1>> ELSE <<c1, c2>>]

\* Keys no process has as its id.
Keys == [c \in Content \cup {NoContent} |->
            Bits(IF c = c1 THEN 3 ELSE IF c = c2 THEN 6 ELSE 0)]

\* The key of the only content is the id of z, which is greater than that of b: a
\* lookup that learns of z from b comes to it.
ClashingKeys == [Keys EXCEPT ![c1] = IdOf[z]]

=============================================================================
