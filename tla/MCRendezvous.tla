---------------------------- MODULE MCRendezvous ----------------------------
(***************************************************************************)
(* Clients, addresses and identifications for the run of Rendezvous.       *)
(***************************************************************************)
EXTENDS Rendezvous, TLC

CONSTANTS c1, c2, c3

\* The presence of c3 is longer by a digit than those of the others.
MCColon == [c \in Client |-> IF c = c3 THEN 2 ELSE 1]

\* c1 and c2 are alike.
Alike == Permutations({c1, c2})

\* stoi reads the same number from two of them, and none from the third.
MCNumberOf == [i \in Ident |-> IF i = "x" THEN NotANumber ELSE 7]

=============================================================================
