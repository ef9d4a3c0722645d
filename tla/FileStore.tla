------------------------------ MODULE FileStore ------------------------------
(***************************************************************************)
(* What P2Pocket promises its users, without ids, lookups, datagrams or    *)
(* threads: pieces are kept by nodes for good; the record of a stored file *)
(* names, for each piece, nodes that keep it; what a user gets back is the *)
(* file, and only if some recorded node keeps each piece.                  *)
(***************************************************************************)
EXTENDS Sequences

CONSTANTS Endpoint,        \* processes: users and nodes
          File, NoFile,
          Pieces           \* the contents of the pieces of a file

VARIABLES kept,            \* node |-> the contents of the pieces it keeps
          recorded,        \* user |-> file |-> the nodes of each piece, or NoFile
          got              \* user |-> file |-> what was got back, or NoFile

vars == <<kept, recorded, got>>

Init == /\ kept = [q \in Endpoint |-> {}]
        /\ recorded = [u \in Endpoint |-> [f \in File |-> NoFile]]
        /\ got = [u \in Endpoint |-> [f \in File |-> NoFile]]

\* A piece that q is asked to store.
Keep(q) == /\ \E f \in File : \E k \in DOMAIN Pieces[f] :
                 kept' = [kept EXCEPT ![q] = @ \cup {Pieces[f][k]}]
           /\ UNCHANGED <<recorded, got>>

Truthful(f, holders) ==
    \A k \in DOMAIN Pieces[f] : \A q \in holders[k] : Pieces[f][k] \in kept[q]

\* store: every piece has its line, perhaps without any node.
Record(u, f) == /\ \E holders \in [DOMAIN Pieces[f] -> SUBSET Endpoint] :
                      /\ Truthful(f, holders)
                      /\ recorded' = [recorded EXCEPT ![u][f] = holders]
                /\ UNCHANGED <<kept, got>>

Available(u, f) ==
    /\ recorded[u][f] # NoFile
    /\ \A k \in DOMAIN Pieces[f] : \E q \in recorded[u][f][k] : Pieces[f][k] \in kept[q]

\* retrieve, where it succeeds.
Deliver(u, f) == /\ Available(u, f)
                 /\ got' = [got EXCEPT ![u][f] = Pieces[f]]
                 /\ UNCHANGED <<kept, recorded>>

Next == \/ \E q \in Endpoint : Keep(q)
        \/ \E u \in Endpoint, f \in File : Record(u, f) \/ Deliver(u, f)

Spec == Init /\ [][Next]_vars

-----------------------------------------------------------------------------
(***************************************************************************)
(* What follows from the promise: records stay true, and a file that was   *)
(* got back is the one stored.                                             *)
(***************************************************************************)
RecordsTrue ==
    \A u \in Endpoint, f \in File :
        recorded[u][f] # NoFile => Truthful(f, recorded[u][f])

GotIsStored == \A u \in Endpoint, f \in File : got[u][f] \in {NoFile, Pieces[f]}

\* Nothing that was kept is given up, and nobody loses a file once got.
NothingForgotten ==
    [][/\ \A q \in Endpoint : kept[q] \subseteq kept'[q]
       /\ \A u \in Endpoint, f \in File : got[u][f] # NoFile => got'[u][f] = got[u][f]]_vars

=============================================================================
