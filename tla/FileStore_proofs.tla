-------------------------- MODULE FileStore_proofs --------------------------
(***************************************************************************)
(* What FileStore promises, for any users, nodes, files and pieces.  A run *)
(* of P2Pocket that is a FileStore (IsFileStore) has these properties of   *)
(* its disks, metadata and retrieved files.                                *)
(***************************************************************************)
EXTENDS FileStore, TLAPS

\* The variables are total functions: what the other proofs need of types.
Shape == /\ kept = [q \in Endpoint |-> kept[q]]
         /\ recorded = [u \in Endpoint |-> [f \in File |-> recorded[u][f]]]
         /\ got = [u \in Endpoint |-> [f \in File |-> got[u][f]]]

LEMMA ShapeStep == Shape /\ [Next]_vars => Shape'
<1>. SUFFICES ASSUME Shape, [Next]_vars PROVE Shape'
  OBVIOUS
<1>1. ASSUME NEW q \in Endpoint, Keep(q) PROVE Shape'
  BY <1>1 DEF Keep, Shape
<1>2. ASSUME NEW u \in Endpoint, NEW f \in File, Record(u, f) PROVE Shape'
  BY <1>2 DEF Record, Shape
<1>3. ASSUME NEW u \in Endpoint, NEW f \in File, Deliver(u, f) PROVE Shape'
  BY <1>3 DEF Deliver, Shape
<1>4. CASE UNCHANGED vars
  BY <1>4 DEF vars, Shape
<1>. QED
  BY <1>1, <1>2, <1>3, <1>4 DEF Next

LEMMA ShapeHolds == Spec => []Shape
<1>1. Init => Shape
  BY DEF Init, Shape
<1>. QED
  BY <1>1, ShapeStep, PTL DEF Spec

\* Nodes only ever keep more.
LEMMA KeptGrows ==
    ASSUME Shape, [Next]_vars, NEW q \in Endpoint
    PROVE  kept[q] \subseteq kept'[q]
<1>1. ASSUME NEW r \in Endpoint, Keep(r) PROVE kept[q] \subseteq kept'[q]
  BY <1>1 DEF Keep, Shape
<1>2. CASE UNCHANGED kept
  BY <1>2
<1>. QED
  BY <1>1, <1>2 DEF Next, vars, Record, Deliver

\* A record that was true stays true.
LEMMA TruthfulStays ==
    ASSUME Shape, [Next]_vars, NEW f \in File, NEW holders,
           \A k \in DOMAIN Pieces[f] : holders[k] \subseteq Endpoint,
           Truthful(f, holders)
    PROVE  Truthful(f, holders)'
  BY KeptGrows DEF Truthful

HoldersAreNodes ==
    \A u \in Endpoint, f \in File :
        recorded[u][f] # NoFile =>
            \A k \in DOMAIN Pieces[f] : recorded[u][f][k] \subseteq Endpoint

RecordInv == Shape /\ HoldersAreNodes /\ RecordsTrue

LEMMA RecordInvHolds == Spec => []RecordInv
<1>1. Init => RecordInv
  BY DEF Init, RecordInv, Shape, HoldersAreNodes, RecordsTrue
<1>2. RecordInv /\ [Next]_vars => RecordInv'
  <2>. SUFFICES ASSUME RecordInv, [Next]_vars PROVE RecordInv'
    OBVIOUS
  <2>. DEFINE Recorded(u, f) ==
                  recorded[u][f] # NoFile =>
                      /\ \A k \in DOMAIN Pieces[f] : recorded[u][f][k] \subseteq Endpoint
                      /\ Truthful(f, recorded[u][f])
  <2>1. Shape'
    BY ShapeStep DEF RecordInv
  <2>2. ASSUME NEW u \in Endpoint, NEW f \in File, recorded'[u][f] = recorded[u][f]
        PROVE  Recorded(u, f)'
    BY <2>2, TruthfulStays DEF RecordInv, HoldersAreNodes, RecordsTrue
  <2>3. ASSUME NEW u \in Endpoint, NEW f \in File, Record(u, f)
        PROVE  Recorded(u, f)'
    <3>1. PICK holders \in [DOMAIN Pieces[f] -> SUBSET Endpoint] :
              /\ Truthful(f, holders)
              /\ recorded' = [recorded EXCEPT ![u][f] = holders]
      BY <2>3 DEF Record
    <3>2. recorded'[u][f] = holders
      BY <3>1 DEF RecordInv, Shape
    <3>3. Truthful(f, holders)'
      BY <3>1, TruthfulStays DEF RecordInv
    <3>. QED
      BY <3>1, <3>2, <3>3 DEF Truthful
  <2>4. ASSUME NEW u \in Endpoint, NEW f \in File
        PROVE  recorded'[u][f] = recorded[u][f] \/ Record(u, f)
    <3>1. ASSUME NEW v \in Endpoint, NEW g \in File, Record(v, g), u # v \/ f # g
          PROVE  recorded'[u][f] = recorded[u][f]
      BY <3>1 DEF Record, RecordInv, Shape
    <3>. QED
      BY <3>1 DEF Next, vars, Keep, Deliver
  <2>. QED
    BY <2>1, <2>2, <2>3, <2>4 DEF RecordInv, HoldersAreNodes, RecordsTrue
<1>. QED
  BY <1>1, <1>2, PTL DEF Spec

(***************************************************************************)
(* The record of a file names, for each piece, only nodes that keep it:    *)
(* true of the metadata files of store at every later time as well,        *)
(* because no node gives a piece up.                                       *)
(***************************************************************************)
THEOREM RecordsStayTrue == Spec => []RecordsTrue
  BY RecordInvHolds, PTL DEF RecordInv

(***************************************************************************)
(* What retrieve writes is the file that was stored, or nothing.           *)
(***************************************************************************)
THEOREM GotWhatWasStored == Spec => []GotIsStored
<1>1. Init => GotIsStored
  BY DEF Init, GotIsStored
<1>2. Shape /\ GotIsStored /\ [Next]_vars => GotIsStored'
  <2>. SUFFICES ASSUME Shape, GotIsStored, [Next]_vars,
                       NEW u \in Endpoint, NEW f \in File
                PROVE  got'[u][f] \in {NoFile, Pieces[f]}
    BY DEF GotIsStored
  <2>1. ASSUME NEW v \in Endpoint, NEW g \in File, Deliver(v, g)
        PROVE  got'[u][f] \in {got[u][f], Pieces[f]}
    BY <2>1 DEF Deliver, Shape
  <2>. QED
    BY <2>1 DEF GotIsStored, Next, vars, Keep, Record
<1>. QED
  BY <1>1, <1>2, ShapeHolds, PTL DEF Spec

(***************************************************************************)
(* No step makes a node give a piece up or a user lose what was got back.  *)
(***************************************************************************)
THEOREM NothingIsForgotten == Spec => NothingForgotten
<1>1. Shape /\ GotIsStored /\ [Next]_vars =>
          [/\ \A q \in Endpoint : kept[q] \subseteq kept'[q]
           /\ \A u \in Endpoint, f \in File : got[u][f] # NoFile => got'[u][f] = got[u][f]]_vars
  <2>. SUFFICES ASSUME Shape, GotIsStored, [Next]_vars,
                       NEW u \in Endpoint, NEW f \in File, got[u][f] # NoFile
                PROVE  got'[u][f] = got[u][f]
    BY KeptGrows
  <2>1. ASSUME NEW v \in Endpoint, NEW g \in File, Deliver(v, g)
        PROVE  got'[u][f] = got[u][f]
    BY <2>1 DEF Deliver, Shape, GotIsStored
  <2>. QED
    BY <2>1 DEF Next, vars, Keep, Record
<1>. QED
  BY <1>1, ShapeHolds, GotWhatWasStored, PTL DEF Spec, NothingForgotten

=============================================================================
