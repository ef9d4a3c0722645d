--------------------------- MODULE P2Pocket_proofs ---------------------------
EXTENDS P2Pocket, KBuckets_proofs

(***************************************************************************)
(* What the variables hold, for every value of the constants, late answers *)
(* and restarts included.  Where there are both, a process that is started *)
(* again may take an answer to an earlier run for the bootstrap node's and *)
(* file its sender under boot_ep.                                          *)
(***************************************************************************)
Stale == Late /\ MaxRestarts # 0

Paired == {n \in Node : n.id = IdOf[n.ep] \/ (Stale /\ n.ep = Boot)}

\* The contacts a process keeps: never itself.
Peers(p) == {n \in Paired : n.id # IdOf[p]}

ContactsOK(p, table) ==
    TableOK(IdOf[p], table) /\ AllNodes(table) \subseteq Paired

Disk == {d \in [ID -> Content \cup {NoContent}] :
            \A key \in ID : d[key] # NoContent => HashOf[d[key]] = key}

\* Only clients ask, nobody asks itself, and contents travel with their hash.
Datagram ==
    {m \in Message :
        /\ m.from # m.to /\ m.nodes \subseteq Paired
        /\ m.type \in Requests => m.from # Boot
        /\ m.type \in Replies => m.to # Boot
        /\ m.type = "STORE" => HashOf[m.content] = m.key
        /\ m.type = "FIND_VALUE_RESPONSE" =>
               m.content = NoContent \/ HashOf[m.content] = m.key}

Incoming(p) == {m \in Datagram : m.to = p /\ m.type \in Replies}

RecvInv ==
    /\ net \subseteq Datagram /\ up \subseteq Endpoint
    /\ rt \in [Endpoint -> Table] /\ \A p \in Endpoint : ContactsOK(p, rt[p])
    /\ disk \in [Endpoint -> Disk]
    /\ responses \in [Endpoint -> SUBSET Datagram]
    /\ \A p \in Endpoint : responses[p] \subseteq Incoming(p)

-----------------------------------------------------------------------------
(***************************************************************************)
(* The locals of a main thread.                                            *)
(***************************************************************************)
Tracker ==
    {t \in UNION {[D -> [ep : Endpoint, status : Status]] : D \in SUBSET ID} :
        \A id \in DOMAIN t : id = IdOf[t[id].ep] \/ (Stale /\ t[id].ep = Boot)}

Entry(p) == [key : ID, nodes : SUBSET Peers(p)]

Taken(p) == [node : Peers(p), msg : Incoming(p)]

Local(p) == [pc : PCs, op : Ops, file : File \cup {NoFile}, entries : Seq(Entry(p)),
             contents : Seq(Content), todo : SUBSET File, target : ID,
             tracker : Tracker, cursor : {{}} \cup {{id} : id \in ID},
             completed : BOOLEAN, answers : Seq(Taken(p))]

\* Which command a thread is in, by where it is.
Control(p, t) ==
    /\ p = Boot => t.pc \in {"off", "serving"}
    /\ t.pc \in {"off", "serving", "idle"} => t.op = "none"
    /\ t.pc \in {"first_response", "insert"} => t.op = "bootstrap"
    /\ t.pc = "lookup" => t.op \in {"bootstrap", "store"}
    /\ t.pc = "wait" => t.op \in {"store", "retrieve"} /\ IdOf[p] \notin DOMAIN t.tracker
    /\ t.pc = "store" => t.op = "store"
    /\ t.pc = "retrieve" => t.op = "retrieve"
    /\ t.pc \notin {"lookup", "wait"} => t.cursor = {} /\ t.completed
    /\ t.pc # "wait" => t.answers = <<>>

\* The lines of store_file are those of the first pieces, and another piece is in
\* the network only while there is one.
Storing(t) ==
    t.op = "store" =>
        /\ t.file \in File /\ Len(t.entries) <= Len(Pieces[t.file])
        /\ \A k \in DOMAIN t.entries : t.entries[k].key = HashOf[Pieces[t.file][k]]
        /\ t.pc # "store" => /\ Len(t.entries) < Len(Pieces[t.file])
                             /\ t.target = HashOf[CurrentPiece(t)]

\* retrieve_file reads the lines of a file that is there one after the other.
Retrieving(t, files) ==
    t.op = "retrieve" =>
        /\ t.file \in File /\ files[t.file] # NoFile
        /\ \A f \in t.todo : files[f] # NoFile
        /\ Len(t.contents) <= Len(files[t.file])
        /\ t.pc # "retrieve" => Len(t.contents) < Len(files[t.file])

\* An entry that the pass has gone by without a query is one that an answer
\* brought later, from a node behind it.
PassedNone(t) ==
    t.pc = "lookup" =>
        \A id \in DOMAIN t.tracker : t.tracker[id].status = "NO_ACTION" =>
            \/ id \in Ahead(t)
            \/ \E i \in DOMAIN t.tracker :
                   t.tracker[i].status = "REQUEST_RECEIVED" /\ Less(id, i)

Thread(p, t, files) ==
    t \in Local(p) /\ Control(p, t) /\ Storing(t) /\ Retrieving(t, files) /\ PassedNone(t)

\* A metadata file has a line for each piece, or none if a process that ended had
\* it open.
Complete(f, entries) ==
    /\ Len(entries) = Len(Pieces[f])
    /\ \A k \in DOMAIN entries : entries[k].key = HashOf[Pieces[f][k]]

FileOK(p, f, entries, why) ==
    entries # NoFile => /\ entries \in Seq(Entry(p))
                        /\ \/ Complete(f, entries)
                           \/ entries = <<>> /\ why # "none"

Ends == {"stopped", "assert", "exit", "id_clash", "nobody_known", "out_of_bounds"}

Threads == /\ main = [p \in Endpoint |-> main[p]]
           /\ \A p \in Endpoint : Thread(p, main[p], metadata[p])

FilesOK == /\ metadata = [p \in Endpoint |-> [f \in File |-> metadata[p][f]]]
           /\ \A p \in Endpoint, f \in File : FileOK(p, f, metadata[p][f], fault[p])
           /\ retrieved \in [Endpoint -> [File -> Seq(Content) \cup {NoFile}]]
           /\ fault \in [Endpoint -> Ends \cup {"none"}]

Inv == RecvInv /\ Threads /\ FilesOK

-----------------------------------------------------------------------------
(***************************************************************************)
(* The exchanges a main thread has begun: a request of p, or the reply to  *)
(* one.  They are open while in the network.                               *)
(***************************************************************************)
Of(p, m) == \/ m.type \in Requests /\ m.from = p
            \/ m.type \in Replies /\ m.to = p

Partner(p, m) == IF m.from = p THEN m.to ELSE m.from

Open(p) == {m \in net : Of(p, m)}

NoneRestarted == spent \in [commands : Nat, restarts : {0}, stops : Nat]

Started(p) == main[p].pc # "off" \/ fault[p] # "none"

\* A process that waits for its first response has an exchange with the bootstrap
\* node only: all others are over before it starts, or it has not run before.
Beginning(p) ==
    /\ main[p].pc = "off" => p \notin up /\ responses[p] = {}
    /\ main[p].pc = "first_response" =>
           \A m \in Open(p) \cup responses[p] : Partner(p, m) = Boot
    /\ ~Started(p) => Open(p) = {}

Began == Stale \/ /\ Late => NoneRestarted
                  /\ \A p \in Endpoint : Beginning(p)

-----------------------------------------------------------------------------
LEMMA ReplyTypes ==
    /\ ReplyType["STORE"] = "STORE_RESPONSE"
    /\ ReplyType["FIND_NODE"] = "FIND_NODE_RESPONSE"
    /\ ReplyType["FIND_VALUE"] = "FIND_VALUE_RESPONSE"
    /\ Replies = {"STORE_RESPONSE", "FIND_NODE_RESPONSE", "FIND_VALUE_RESPONSE"}
<1>1. /\ DOMAIN ReplyType = Requests
      /\ ReplyType["STORE"] = "STORE_RESPONSE"
      /\ ReplyType["FIND_NODE"] = "FIND_NODE_RESPONSE"
      /\ ReplyType["FIND_VALUE"] = "FIND_VALUE_RESPONSE"
  BY DEF ReplyType, Requests
<1>2. Requests = {"STORE", "FIND_NODE", "FIND_VALUE"}
  BY DEF Requests
<1> QED  BY <1>1, <1>2 DEF Replies, Range

LEMMA RequestType ==
    ASSUME NEW type \in Requests, NEW p \in Endpoint, NEW q \in Endpoint,
           NEW key \in ID, NEW content \in Content \cup {NoContent}
    PROVE  Request(type, p, q, key, content) \in Message
  BY DEF Request, Message

LEMMA ReplyMessage ==
    ASSUME NEW m \in Message, m.type \in Requests,
           NEW content \in Content \cup {NoContent}, NEW nodes \in SUBSET Node
    PROVE  Reply(m, content, nodes) \in Message
<1>1. ReplyType[m.type] \in Replies
  BY ReplyTypes DEF Requests
<1> QED  BY <1>1 DEF Reply, Message

LEMMA EmptyTracker == <<>> \in Tracker
<1>1. <<>> \in [{} -> [ep : Endpoint, status : Status]]
  OBVIOUS
<1> QED  BY <1>1 DEF Tracker

LEMMA TrackerElements ==
    ASSUME NEW t \in Tracker
    PROVE  /\ DOMAIN t \subseteq ID
           /\ \A id \in DOMAIN t : /\ t[id].ep \in Endpoint /\ t[id].status \in Status
                                   /\ id = IdOf[t[id].ep] \/ (Stale /\ t[id].ep = Boot)
  BY DEF Tracker

\* nodes_tracker.insert for each of some nodes.
LEMMA Tracking ==
    ASSUME NEW t \in Tracker, NEW nodes \in SUBSET Paired, NEW status \in Status,
           NEW u, u = Track(t, nodes, status)
    PROVE  /\ u \in Tracker /\ DOMAIN t \subseteq DOMAIN u
           /\ \A id \in DOMAIN t : u[id] = t[id]
           /\ \A n \in nodes : n.id \in DOMAIN u
           /\ \A id \in DOMAIN u : id \notin DOMAIN t =>
                 u[id].status = status /\ \E n \in nodes : n.id = id /\ u[id].ep = n.ep
<1> DEFINE D == DOMAIN t \cup {n.id : n \in nodes}
<1>1. DOMAIN u = D /\ D \in SUBSET ID
  BY TrackerElements DEF Track, Node, Paired
<1>2. \A id \in DOMAIN t : u[id] = t[id]
  BY DEF Track
<1>3. ASSUME NEW id \in D \ DOMAIN t
      PROVE  /\ u[id].status = status /\ u[id] \in [ep : Endpoint, status : Status]
             /\ id = IdOf[u[id].ep] \/ (Stale /\ u[id].ep = Boot)
             /\ \E n \in nodes : n.id = id /\ u[id].ep = n.ep
  <2> DEFINE c == CHOOSE n \in nodes : n.id = id
  <2>1. c \in nodes /\ c.id = id
    OBVIOUS
  <2>2. u[id] = [ep |-> c.ep, status |-> status]
    BY DEF Track
  <2> HIDE DEF c
  <2> QED  BY <2>1, <2>2 DEF Node, Paired
<1>4. \A id \in DOMAIN t : /\ t[id] \in [ep : Endpoint, status : Status]
                           /\ id = IdOf[t[id].ep] \/ (Stale /\ t[id].ep = Boot)
  BY DEF Tracker
<1>5. u = [id \in D |-> u[id]]
  BY DEF Track
<1>6. DOMAIN t \subseteq D /\ \A n \in nodes : n.id \in D
  OBVIOUS
<1>7. \A id \in D : id \notin DOMAIN t => id \in D \ DOMAIN t
  OBVIOUS
<1> HIDE DEF D
<1>8. u \in [D -> [ep : Endpoint, status : Status]]
  BY <1>1, <1>2, <1>3, <1>4, <1>5
<1>9. u \in Tracker
  BY <1>1, <1>2, <1>3, <1>4, <1>8 DEF Tracker
<1> QED  BY <1>1, <1>2, <1>3, <1>6, <1>7, <1>9

\* A visit changes the status of one entry.
LEMMA StatusChange ==
    ASSUME NEW t \in Tracker, NEW id \in DOMAIN t, NEW status \in Status,
           NEW u, u = [t EXCEPT ![id].status = status]
    PROVE  /\ u \in Tracker /\ DOMAIN u = DOMAIN t
           /\ \A i \in DOMAIN t : u[i].ep = t[i].ep
           /\ \A i \in DOMAIN t : u[i].status = IF i = id THEN status ELSE t[i].status
<1>1. PICK D \in SUBSET ID : t \in [D -> [ep : Endpoint, status : Status]]
  BY DEF Tracker
<1>2. D = DOMAIN t
  BY <1>1
<1>3. u \in [D -> [ep : Endpoint, status : Status]]
  BY <1>1
<1> QED  BY <1>1, <1>2, <1>3 DEF Tracker

LEMMA RestrictTracker ==
    ASSUME NEW t \in Tracker, NEW D, D \subseteq DOMAIN t
    PROVE  /\ Restrict(t, D) \in Tracker
           /\ DOMAIN Restrict(t, D) = D
           /\ \A i \in D : Restrict(t, D)[i] = t[i]
<1>1. D \in SUBSET ID /\ \A i \in D : t[i] \in [ep : Endpoint, status : Status]
  BY DEF Tracker
<1>2. Restrict(t, D) \in [D -> [ep : Endpoint, status : Status]]
  BY <1>1 DEF Restrict
<1> QED  BY <1>1, <1>2 DEF Restrict, Tracker

LEMMA TrackedNodes ==
    ASSUME NEW t \in Tracker, NEW status
    PROVE  /\ Tracked(t, status) \subseteq Paired
           /\ \A n \in Tracked(t, status) :
                 /\ n.id \in DOMAIN t
                 /\ t[n.id].ep = n.ep /\ t[n.id].status = status
<1> SUFFICES ASSUME NEW id \in DOMAIN t, t[id].status = status
             PROVE  [id |-> id, ep |-> t[id].ep] \in Paired
  BY DEF Tracked
<1>1. id \in ID /\ t[id].ep \in Endpoint /\ (id = IdOf[t[id].ep] \/ (Stale /\ t[id].ep = Boot))
  BY DEF Tracker
<1> QED  BY <1>1 DEF Node, Paired

LEMMA NearestSubset ==
    ASSUME NEW target, NEW nodes, NEW n
    PROVE  Nearest(target, nodes, n) \subseteq nodes
  BY DEF Nearest

\* Whatever find_node answers is in the table, if there is a bucket to look at.
LEMMA FindNodeSubset ==
    ASSUME NEW self, NEW table, NEW id, InBounds(self, id)
    PROVE  FindNode(self, table, id) \subseteq AllNodes(table)
<1> DEFINE bucket == table[FindKBucketIndex(self, id)]
<1>1. Range(bucket) \subseteq AllNodes(table)
  BY DEF AllNodes, InBounds
<1>2. ASSUME IsNodeInBucket(bucket, id)
      PROVE  bucket[PositionOf(bucket, id)] \in Range(bucket)
  BY <1>2 DEF IsNodeInBucket, PositionOf, Range
<1> HIDE DEF bucket
<1>3. Nearest(id, AllNodes(table), NearestCount) \subseteq AllNodes(table)
  BY NearestSubset
<1> QED  BY <1>1, <1>2, <1>3 DEF FindNode, bucket

LEMMA AllNodesType ==
    ASSUME NEW table \in Table
    PROVE  AllNodes(table) \subseteq Node
<1> SUFFICES ASSUME NEW i \in BitIndex, NEW k \in DOMAIN table[i]
             PROVE  table[i][k] \in Node
  BY DEF AllNodes, Range
<1>1. table[i] \in Seq(Node)
  BY DEF Table
<1> QED  BY <1>1, LenProperties, ElementOfSeq

LEMMA InsertNodeType ==
    ASSUME NEW self, NEW table \in Table, NEW id \in ID, NEW ep \in Endpoint
    PROVE  InsertNode(self, table, id, ep) \in Table
<1> DEFINE i == FindKBucketIndex(self, id)
           n == [id |-> id, ep |-> ep]
<1>1. n \in Node
  BY DEF Node
<1>2. i \in BitIndex => Append(table[i], n) \in Seq(Node)
  BY <1>1, AppendProperties DEF Table
<1> HIDE DEF i, n
<1>3. [table EXCEPT ![i] = Append(table[i], n)] \in Table
  BY <1>2 DEF Table
<1> QED  BY <1>3 DEF InsertNode, i, n

LEMMA InsertNodeAdds ==
    ASSUME NEW self, NEW table \in Table, NEW id \in ID, NEW ep \in Endpoint
    PROVE  AllNodes(InsertNode(self, table, id, ep))
               \subseteq AllNodes(table) \cup {[id |-> id, ep |-> ep]}
<1> DEFINE i == FindKBucketIndex(self, id)
           n == [id |-> id, ep |-> ep]
           u == [table EXCEPT ![i] = Append(table[i], n)]
<1>1. n \in Node
  BY DEF Node
<1> HIDE DEF i, n
<1> SUFFICES ASSUME NEW j \in BitIndex, NEW k \in DOMAIN u[j]
             PROVE  u[j][k] \in AllNodes(table) \cup {n}
  BY DEF InsertNode, AllNodes, Range, i, n
<1>2. CASE j # i \/ i \notin BitIndex
  <2>1. u[j] = table[j]
    BY <1>2 DEF Table
  <2> QED  BY <2>1 DEF AllNodes, Range
<1>3. CASE j = i /\ i \in BitIndex
  <2>1. table[i] \in Seq(Node) /\ u[j] = Append(table[i], n)
    BY <1>3 DEF Table
  <2>2. /\ DOMAIN table[i] = 1 .. Len(table[i]) /\ Len(table[i]) \in Nat
        /\ DOMAIN Append(table[i], n) = 1 .. Len(table[i]) + 1
        /\ Append(table[i], n)[Len(table[i]) + 1] = n
        /\ \A l \in 1 .. Len(table[i]) : Append(table[i], n)[l] = table[i][l]
    BY <1>1, <2>1, AppendProperties, LenProperties
  <2>3. k \in 1 .. Len(table[i]) \/ k = Len(table[i]) + 1
    BY <2>1, <2>2
  <2>4. ASSUME k \in 1 .. Len(table[i]) PROVE u[j][k] \in AllNodes(table)
    BY <1>3, <2>1, <2>2, <2>4 DEF AllNodes, Range
  <2> QED  BY <2>1, <2>2, <2>3, <2>4
<1> QED  BY <1>2, <1>3

\* insert_node of a contact that is another process's.
LEMMA InsertContact ==
    ASSUME NEW p \in Endpoint, NEW table, ContactsOK(p, table),
           NEW id, NEW ep, [id |-> id, ep |-> ep] \in Peers(p)
    PROVE  ContactsOK(p, InsertNode(IdOf[p], table, id, ep))
<1>1. id \in NotSelf(IdOf[p]) /\ ep \in Endpoint /\ id \in ID
  BY DEF Peers, Paired, Node, NotSelf
<1>2. TableOK(IdOf[p], InsertNode(IdOf[p], table, id, ep))
  BY <1>1, InsertNodeOK DEF ContactsOK
<1>3. AllNodes(InsertNode(IdOf[p], table, id, ep))
         \subseteq AllNodes(table) \cup {[id |-> id, ep |-> ep]}
  BY <1>1, InsertNodeAdds DEF ContactsOK, TableOK
<1> QED  BY <1>2, <1>3 DEF ContactsOK, Peers

LEMMA EmptyContacts ==
    ASSUME NEW p \in Endpoint
    PROVE  ContactsOK(p, EmptyTable)
<1>1. TableOK(IdOf[p], EmptyTable)
  BY EmptyTableOK, IdsDiffer
<1>2. AllNodes(EmptyTable) = {}
  BY DEF AllNodes, EmptyTable, Range
<1> QED  BY <1>1, <1>2 DEF ContactsOK

-----------------------------------------------------------------------------
(***************************************************************************)
(* The receive threads and the network keep RecvInv.                       *)
(***************************************************************************)
LEMMA RequestDatagram ==
    ASSUME NEW type \in Requests, NEW p \in Endpoint, NEW q \in Endpoint, p # q, p # Boot,
           NEW key \in ID, NEW content \in Content \cup {NoContent},
           type = "STORE" => HashOf[content] = key
    PROVE  Request(type, p, q, key, content) \in Datagram
<1>1. Request(type, p, q, key, content) \in Message
  BY RequestType
<1>2. type \notin Replies /\ type # "FIND_VALUE_RESPONSE"
  BY ReplyTypes DEF Requests
<1> QED  BY <1>1, <1>2 DEF Request, Datagram

LEMMA ReplyDatagram ==
    ASSUME NEW m \in Datagram, m.type \in Requests,
           NEW content \in Content \cup {NoContent}, NEW nodes \in SUBSET Paired,
           m.type = "FIND_VALUE" => content = NoContent \/ HashOf[content] = m.key
    PROVE  Reply(m, content, nodes) \in Datagram
<1>1. m \in Message /\ nodes \in SUBSET Node
  BY DEF Datagram, Paired
<1>2. Reply(m, content, nodes) \in Message
  BY <1>1, ReplyMessage
<1>3. ReplyType[m.type] \notin Requests /\ ReplyType[m.type] # "STORE"
  BY ReplyTypes DEF Requests
<1>4. ReplyType[m.type] = "FIND_VALUE_RESPONSE" => m.type = "FIND_VALUE"
  BY ReplyTypes DEF Requests
<1> QED  BY <1>2, <1>3, <1>4 DEF Reply, Datagram

\* The sender of a request is a contact for the one that receives it.
LEMMA NoticedOK ==
    ASSUME RecvInv, NEW m \in net
    PROVE  /\ Noticed(m) \in [Endpoint -> Table]
           /\ \A p \in Endpoint : ContactsOK(p, Noticed(m)[p])
<1>1. m.from \in Endpoint /\ m.to \in Endpoint /\ m.from # m.to
  BY DEF RecvInv, Datagram, Message
<1> DEFINE table == InsertNode(IdOf[m.to], rt[m.to], IdOf[m.from], m.from)
<1>2. [id |-> IdOf[m.from], ep |-> m.from] \in Peers(m.to)
  BY <1>1, IdsDiffer DEF Peers, Paired, Node
<1>3. ContactsOK(m.to, table)
  BY <1>1, <1>2, InsertContact DEF RecvInv
<1>4. table \in Table
  BY <1>3 DEF ContactsOK, TableOK
<1>5. Noticed(m) = [rt EXCEPT ![m.to] = table]
  BY DEF Noticed
<1> HIDE DEF table
<1> QED  BY <1>1, <1>3, <1>4, <1>5 DEF RecvInv

\* What store_piece does to the disks, whether it succeeds or not.
LEMMA StoredOK ==
    ASSUME RecvInv, NEW m \in net, m.type = "STORE",
           NEW d \in {disk, Written(m), Emptied(m)}
    PROVE  d \in [Endpoint -> Disk]
<1>1. /\ m.to \in Endpoint /\ m.key \in ID
      /\ m.content \in Content \cup {NoContent} /\ HashOf[m.content] = m.key
  BY DEF RecvInv, Datagram, Message
<1>2. ASSUME NEW c \in {m.content, NoContent}
      PROVE  [disk EXCEPT ![m.to][m.key] = c] \in [Endpoint -> Disk]
  <2>1. disk[m.to] \in Disk /\ disk \in [Endpoint -> Disk]
    BY <1>1 DEF RecvInv
  <2>2. [disk[m.to] EXCEPT ![m.key] = c] \in Disk
    BY <1>1, <1>2, <2>1 DEF Disk
  <2> QED  BY <1>1, <2>1, <2>2
<1>3. Written(m) \in [Endpoint -> Disk] /\ Emptied(m) \in [Endpoint -> Disk]
  BY <1>2 DEF Written, Emptied
<1> QED  BY <1>3 DEF RecvInv

LEMMA AnswerOK ==
    ASSUME RecvInv, NEW m \in net, m.type \in Requests,
           NEW content \in Content \cup {NoContent}, NEW nodes \in SUBSET Paired,
           m.type = "FIND_VALUE" => content = NoContent \/ HashOf[content] = m.key,
           Answer(m, Reply(m, content, nodes))
    PROVE  net' \subseteq Datagram
<1>1. Reply(m, content, nodes) \in Datagram
  BY ReplyDatagram DEF RecvInv
<1> QED  BY <1>1 DEF Answer, RecvInv

LEMMA HandleOK ==
    ASSUME RecvInv, NEW p \in Endpoint, NEW m \in net, Handle(p, m)
    PROVE  RecvInv'
<1> USE DEF Requests
<1>1. CASE HandleStore(p, m)
  <2>1. disk' \in [Endpoint -> Disk]
    BY <1>1, StoredOK DEF HandleStore, AfterStorePiece
  <2>2. net' \subseteq Datagram
    BY <1>1, AnswerOK DEF HandleStore
  <2> QED  BY <1>1, <2>1, <2>2, NoticedOK DEF HandleStore, RecvInv
<1>2. CASE HandleFindNode(p, m)
  <2>1. ContactsOK(p, rt[p]) /\ m.to = p
    BY <1>2 DEF HandleFindNode, Receives, RecvInv
  <2>2. Found(m) \in SUBSET Paired
    BY <1>2, <2>1, FindNodeSubset DEF HandleFindNode, ContactsOK, Found
  <2>3. net' \subseteq Datagram
    BY <1>2, <2>2, AnswerOK DEF HandleFindNode
  <2> QED  BY <1>2, <2>3, NoticedOK DEF HandleFindNode, RecvInv
<1>3. CASE HandleFindValue(p, m)
  <2>1. disk[p] \in Disk /\ m.key \in ID
    BY DEF RecvInv, Datagram, Message
  <2>2. /\ FilePiece(p, m.key) \in Content \cup {NoContent}
        /\ FilePiece(p, m.key) = NoContent \/ HashOf[FilePiece(p, m.key)] = m.key
    BY <2>1 DEF Disk, FilePiece
  <2>3. net' \subseteq Datagram
    BY <1>3, <2>2, AnswerOK DEF HandleFindValue
  <2> QED  BY <1>3, <2>3, NoticedOK DEF HandleFindValue, RecvInv
<1>4. CASE HandleResponse(p, m)
  <2>1. m \in Incoming(p)
    BY <1>4 DEF HandleResponse, Receives, Incoming, RecvInv
  <2>2. responses' \in [Endpoint -> SUBSET Datagram]
    BY <1>4, <2>1 DEF HandleResponse, Kept, Incoming, RecvInv
  <2>3. \A q \in Endpoint : responses'[q] \subseteq Incoming(q)
    BY <1>4, <2>1 DEF HandleResponse, Kept, RecvInv
  <2> QED  BY <1>4, <2>2, <2>3 DEF HandleResponse, RecvInv
<1> QED  BY <1>1, <1>2, <1>3, <1>4 DEF Handle

LEMMA RecvStutter == RecvInv /\ UNCHANGED recvVars => RecvInv'
  BY DEF RecvInv, recvVars

-----------------------------------------------------------------------------
(***************************************************************************)
(* The main threads: each step leaves one of them with new locals.         *)
(***************************************************************************)
LEMMA ThreadsStep ==
    ASSUME Threads, NEW p \in Endpoint, NEW t, Become(p, t), Thread(p, t, metadata'[p]),
           \A q \in Endpoint \ {p} : metadata'[q] = metadata[q]
    PROVE  Threads'
<1>1. main' = [q \in Endpoint |-> main'[q]]
  BY DEF Become, Threads
<1>2. \A q \in Endpoint : main'[q] = IF q = p THEN t ELSE main[q]
  BY DEF Become, Threads
<1>3. \A q \in Endpoint : Thread(q, main'[q], metadata'[q])
  BY <1>2 DEF Threads
<1> QED  BY <1>1, <1>3 DEF Threads

\* A step that touches neither files nor, but as RecvInv allows, what the receive
\* threads have.
LEMMA Moves ==
    ASSUME Inv, RecvInv', NEW p \in Endpoint, NEW t, Become(p, t),
           Thread(p, t, metadata[p]), UNCHANGED <<metadata, retrieved, fault>>
    PROVE  Inv'
<1>1. Threads'
  BY ThreadsStep DEF Inv
<1>2. FilesOK'
  BY DEF Inv, FilesOK
<1> QED  BY <1>1, <1>2 DEF Inv

LEMMA ParkedOK ==
    ASSUME NEW p \in Endpoint, NEW pc \in {"off", "idle", "serving"},
           p = Boot => pc # "idle", NEW files
    PROVE  Thread(p, Parked(pc), files)
<1> DEFINE t == Parked(pc)
<1>1. /\ t.pc = pc /\ t.op = "none" /\ t.file = NoFile /\ t.entries = <<>>
      /\ t.contents = <<>> /\ t.todo = {} /\ t.target = IdOf[Boot]
      /\ t.tracker = <<>> /\ t.cursor = {} /\ t.completed = TRUE /\ t.answers = <<>>
  BY DEF Parked
<1>2. IdOf[Boot] \in ID
  BY IdsDiffer, FilesAssumption
<1>3. t \in Local(p)
  BY <1>2, EmptyTracker DEF Parked, Local, PCs, Ops
<1> QED  BY <1>1, <1>3 DEF Thread, Control, Storing, Retrieving, PassedNone

\* What a thread that visits an entry of its tracker knows.
LEMMA VisitFacts ==
    ASSUME Inv, NEW p \in Endpoint, NEW id, NEW status, Visits(p, id, status)
    PROVE  /\ p # Boot /\ id \in ID /\ main[p].pc \in {"lookup", "wait"}
           /\ id \in DOMAIN main[p].tracker /\ main[p].tracker[id].status = status
           /\ \A x \in Ahead(main[p]) \ {id} : Less(id, x)
<1>1. /\ Thread(p, main[p], metadata[p]) /\ main[p].tracker \in Tracker
  BY DEF Inv, Threads, Thread, Local
<1>2. id \in Ahead(main[p]) /\ Ahead(main[p]) \subseteq ID
  BY <1>1, TrackerElements DEF Visits, Ahead
<1>3. \A x \in Ahead(main[p]) \ {id} : Less(id, x)
  BY <1>2, LessTotal DEF Visits
<1> QED  BY <1>1, <1>2, <1>3 DEF Visits, Ahead, Thread, Control

\* One visit, to the least entry ahead, misses no entry without a query.
LEMMA VisitPassesNone ==
    ASSUME NEW t, t.tracker \in Tracker, PassedNone(t), NEW id \in DOMAIN t.tracker,
           \A x \in Ahead(t) \ {id} : Less(id, x),
           NEW u, u.pc = t.pc, u.cursor = {id}, u.tracker \in Tracker,
           DOMAIN t.tracker \subseteq DOMAIN u.tracker,
           \A i \in DOMAIN t.tracker : t.tracker[i].status = "REQUEST_RECEIVED" =>
               u.tracker[i].status = "REQUEST_RECEIVED",
           \A i \in DOMAIN u.tracker : u.tracker[i].status = "NO_ACTION" =>
               /\ i # id
               /\ \/ i \in DOMAIN t.tracker /\ t.tracker[i].status = "NO_ACTION"
                  \/ u.tracker[id].status = "REQUEST_RECEIVED"
    PROVE  PassedNone(u)
<1> SUFFICES ASSUME u.pc = "lookup", NEW i \in DOMAIN u.tracker,
                    u.tracker[i].status = "NO_ACTION"
             PROVE  \/ i \in Ahead(u)
                    \/ \E j \in DOMAIN u.tracker :
                           u.tracker[j].status = "REQUEST_RECEIVED" /\ Less(i, j)
  BY DEF PassedNone
<1>1. Less(id, i) => i \in Ahead(u)
  BY DEF Ahead
<1>2. CASE i \in DOMAIN t.tracker /\ t.tracker[i].status = "NO_ACTION"
  <2>1. CASE i \in Ahead(t)
    BY <1>1, <2>1
  <2>2. CASE i \notin Ahead(t)
    BY <1>2, <2>2 DEF PassedNone
  <2> QED  BY <2>1, <2>2
<1>3. CASE u.tracker[id].status = "REQUEST_RECEIVED"
  <2>1. id \in ID /\ i \in ID /\ i # id
    BY TrackerElements
  <2> QED  BY <1>1, <1>3, <2>1, LessTotal
<1> QED  BY <1>2, <1>3

\* What a visit leaves as it is.
SamePlace(t, u) ==
    /\ u.pc = t.pc /\ u.op = t.op /\ u.file = t.file /\ u.entries = t.entries
    /\ u.contents = t.contents /\ u.todo = t.todo /\ u.target = t.target

LEMMA SamePlaceOK ==
    ASSUME NEW p, NEW t, NEW u, NEW files, Thread(p, t, files), u \in Local(p),
           SamePlace(t, u), PassedNone(u), u.pc \in {"lookup", "wait"},
           IF u.pc = "wait" THEN DOMAIN u.tracker = DOMAIN t.tracker
                            ELSE u.answers = t.answers
    PROVE  Thread(p, u, files)
<1>1. Control(p, u)
  BY DEF Thread, Control, SamePlace
<1>2. Storing(u)
  BY DEF Thread, Storing, SamePlace, CurrentPiece
<1>3. Retrieving(u, files)
  BY DEF Thread, Retrieving, SamePlace
<1> QED  BY <1>1, <1>2, <1>3 DEF Thread

\* A visit that changes at most the status of the entry it comes to.
LEMMA VisitKeepsThread ==
    ASSUME Inv, NEW p \in Endpoint, NEW id, NEW status, Visits(p, id, status),
           status # "REQUEST_RECEIVED",
           NEW u \in Local(p), SamePlace(main[p], u), u.cursor = {id},
           DOMAIN u.tracker = DOMAIN main[p].tracker,
           \A i \in DOMAIN u.tracker :
               i # id => u.tracker[i].status = main[p].tracker[i].status,
           u.tracker[id].status # "NO_ACTION",
           u.pc = "wait" \/ u.answers = main[p].answers
    PROVE  Thread(p, u, metadata[p])
<1> DEFINE t == main[p]
<1>1. Thread(p, t, metadata[p]) /\ t.tracker \in Tracker /\ PassedNone(t)
  BY DEF Inv, Threads, Thread, Local
<1>2. /\ id \in DOMAIN t.tracker /\ t.tracker[id].status = status
      /\ \A x \in Ahead(t) \ {id} : Less(id, x)
  BY VisitFacts
<1>3. u.tracker \in Tracker /\ u.pc = t.pc /\ u.pc \in {"lookup", "wait"}
  BY DEF Local, SamePlace, Visits
<1> HIDE DEF t
<1>4. \A i \in DOMAIN t.tracker : t.tracker[i].status = "REQUEST_RECEIVED" =>
         u.tracker[i].status = "REQUEST_RECEIVED"
  BY <1>2 DEF t
<1>5. \A i \in DOMAIN u.tracker : u.tracker[i].status = "NO_ACTION" =>
         i # id /\ i \in DOMAIN t.tracker /\ t.tracker[i].status = "NO_ACTION"
  BY <1>2 DEF t
<1>6. DOMAIN t.tracker \subseteq DOMAIN u.tracker
  BY DEF t
<1>7. PassedNone(u)
  BY <1>1, <1>2, <1>3, <1>4, <1>5, <1>6, VisitPassesNone
<1> QED  BY <1>1, <1>3, <1>7, SamePlaceOK DEF t

LEMMA LookupSendOK ==
    ASSUME Inv, NEW p \in Endpoint, NEW id, LookupSend(p, id)
    PROVE  Inv'
<1> DEFINE t == main[p]
           u == Queried(t, id)
<1>1. t \in Local(p) /\ t.tracker \in Tracker /\ t.pc = "lookup"
  BY DEF Inv, Threads, Thread, Local, LookupSend
<1>2. p # Boot /\ id \in ID /\ id \in DOMAIN t.tracker
  BY VisitFacts DEF LookupSend
<1>3. /\ u.tracker = [t.tracker EXCEPT ![id].status = "REQUEST_SENT"]
      /\ u.cursor = {id} /\ SamePlace(t, u) /\ u.answers = t.answers
  BY <1>1 DEF Queried, Local, SamePlace
<1>4. /\ u.tracker \in Tracker /\ DOMAIN u.tracker = DOMAIN t.tracker
      /\ \A i \in DOMAIN t.tracker :
             u.tracker[i].status = IF i = id THEN "REQUEST_SENT" ELSE t.tracker[i].status
  BY <1>1, <1>2, <1>3, StatusChange DEF Status
<1>5. u \in Local(p)
  BY <1>1, <1>2, <1>4 DEF Queried, Local
<1> HIDE DEF u
<1>6. Thread(p, u, metadata[p])
  BY <1>2, <1>3, <1>4, <1>5, VisitKeepsThread DEF LookupSend
<1>7. RecvInv'
  <2>1. /\ t.tracker[id].ep \in Endpoint /\ t.target \in ID
        /\ id = IdOf[t.tracker[id].ep] \/ (Stale /\ t.tracker[id].ep = Boot)
    BY <1>1, <1>2 DEF Local, Tracker
  <2>2. id # IdOf[p] => t.tracker[id].ep # p
    BY <1>2, <2>1
  <2>3. id # IdOf[p] =>
           Request("FIND_NODE", p, t.tracker[id].ep, t.target, NoContent) \in Datagram
    BY <1>2, <2>1, <2>2, RequestDatagram DEF Requests
  <2> QED  BY <2>3 DEF LookupSend, Inv, RecvInv
<1>8. Become(p, u) /\ UNCHANGED <<metadata, retrieved, fault>>
  BY DEF LookupSend, u
<1> QED  BY <1>6, <1>7, <1>8, Moves

\* A response is taken out of the map.
LEMMA ErasedOK ==
    ASSUME RecvInv, NEW p \in Endpoint, NEW m,
           responses' = [responses EXCEPT ![p] = @ \ {m}],
           UNCHANGED <<net, up, rt, disk>>
    PROVE  RecvInv'
<1>1. /\ responses' \in [Endpoint -> SUBSET Datagram]
      /\ \A q \in Endpoint : responses'[q] \subseteq responses[q]
  BY DEF RecvInv
<1> QED  BY <1>1 DEF RecvInv

LEMMA LookupTakeOK ==
    ASSUME Inv, NEW p \in Endpoint, NEW id, NEW m, LookupTake(p, id, m)
    PROVE  Inv'
<1> DEFINE t     == main[p]
           nodes == {n \in m.nodes : n.id # IdOf[p]}
           v     == [t.tracker EXCEPT ![id].status = "REQUEST_RECEIVED"]
           w     == Track(v, nodes, "NO_ACTION")
           u     == Learned(t, id, nodes)
<1>1. /\ Thread(p, t, metadata[p]) /\ t \in Local(p) /\ t.tracker \in Tracker
      /\ t.pc = "lookup" /\ PassedNone(t)
  BY DEF Inv, Threads, Thread, Local, LookupTake
<1>2. /\ p # Boot /\ id \in ID /\ id \in DOMAIN t.tracker
      /\ t.tracker[id].status = "REQUEST_SENT" /\ \A x \in Ahead(t) \ {id} : Less(id, x)
  BY VisitFacts DEF LookupTake
<1>3. nodes \in SUBSET Paired
  BY DEF LookupTake, ResponseOf, Inv, RecvInv, Incoming, Datagram
<1>4. /\ v \in Tracker /\ DOMAIN v = DOMAIN t.tracker
      /\ \A i \in DOMAIN t.tracker :
             v[i].status = IF i = id THEN "REQUEST_RECEIVED" ELSE t.tracker[i].status
  BY <1>1, <1>2, StatusChange DEF Status
<1>5. u = [t EXCEPT !.cursor = {id}, !.tracker = w]
  BY DEF Learned
<1> HIDE DEF t, v, nodes
<1>6. /\ w \in Tracker /\ DOMAIN v \subseteq DOMAIN w
      /\ \A i \in DOMAIN v : w[i] = v[i]
  BY <1>3, <1>4, Tracking DEF Status
<1> HIDE DEF w, u
<1>7. /\ u \in Local(p) /\ u.tracker = w /\ u.cursor = {id} /\ SamePlace(t, u)
      /\ u.answers = t.answers
  BY <1>1, <1>2, <1>5, <1>6 DEF Local, SamePlace
<1>8. PassedNone(u)
  <2>1. \A i \in DOMAIN t.tracker : t.tracker[i].status = "REQUEST_RECEIVED" =>
           u.tracker[i].status = "REQUEST_RECEIVED"
    BY <1>4, <1>6, <1>7
  <2>2. u.tracker[id].status = "REQUEST_RECEIVED"
    BY <1>2, <1>4, <1>6, <1>7
  <2>3. \A i \in DOMAIN u.tracker : u.tracker[i].status = "NO_ACTION" => i # id
    BY <2>2
  <2>4. u.pc = t.pc /\ u.tracker \in Tracker /\ DOMAIN t.tracker \subseteq DOMAIN u.tracker
    BY <1>4, <1>6, <1>7 DEF SamePlace
  <2> QED  BY <1>1, <1>2, <1>7, <2>1, <2>2, <2>3, <2>4, VisitPassesNone
<1>9. Thread(p, u, metadata[p])
  BY <1>1, <1>7, <1>8, SamePlaceOK DEF SamePlace
<1>10. RecvInv'
  BY ErasedOK DEF LookupTake, Inv
<1>11. Become(p, u) /\ UNCHANGED <<metadata, retrieved, fault>>
  BY DEF LookupTake, u, t, nodes
<1> QED  BY <1>9, <1>10, <1>11, Moves

\* The visits that only move the cursor, perhaps with a note that another pass
\* is needed.
LEMMA PassingOK ==
    ASSUME Inv, RecvInv', NEW p \in Endpoint, NEW id, Visits(p, id, "REQUEST_SENT"),
           NEW c \in BOOLEAN, NEW u, u = [main[p] EXCEPT !.cursor = {id}, !.completed = c],
           Become(p, u), UNCHANGED <<metadata, retrieved, fault>>
    PROVE  Inv'
<1>1. main[p] \in Local(p)
  BY DEF Inv, Threads, Thread
<1>2. /\ id \in ID /\ id \in DOMAIN main[p].tracker
      /\ main[p].tracker[id].status = "REQUEST_SENT"
  BY VisitFacts
<1>3. /\ u \in Local(p) /\ SamePlace(main[p], u) /\ u.cursor = {id}
      /\ u.tracker = main[p].tracker /\ u.answers = main[p].answers
  BY <1>1, <1>2 DEF Local, SamePlace
<1>4. Thread(p, u, metadata[p])
  BY <1>2, <1>3, VisitKeepsThread
<1> QED  BY <1>4, Moves

LEMMA LookupDiscardOK ==
    ASSUME Inv, NEW p \in Endpoint, NEW id, NEW m,
           LookupDiscard(p, id, m) \/ WaitMismatch(p, id, m) \/ KeepWaiting(p, id)
    PROVE  Inv'
<1>1. main[p] \in Local(p)
  BY DEF Inv, Threads, Thread
<1>2. main[p].completed \in BOOLEAN
  BY <1>1 DEF Local
<1>3. [main[p] EXCEPT !.cursor = {id}] =
         [main[p] EXCEPT !.cursor = {id}, !.completed = main[p].completed]
  BY <1>1 DEF Local
<1>4. CASE LookupDiscard(p, id, m)
  <2>1. RecvInv'
    BY <1>4, ErasedOK DEF LookupDiscard, Inv
  <2> QED  BY <1>2, <1>3, <1>4, <2>1, PassingOK DEF LookupDiscard
<1>5. CASE WaitMismatch(p, id, m)
  <2>1. RecvInv'
    BY <1>5, RecvStutter DEF WaitMismatch, Inv
  <2> QED  BY <1>2, <1>3, <1>5, <2>1, PassingOK DEF WaitMismatch
<1>6. CASE KeepWaiting(p, id)
  <2>1. RecvInv'
    BY <1>6, RecvStutter DEF KeepWaiting, Inv
  <2> QED  BY <1>6, <2>1, PassingOK DEF KeepWaiting, StillOpen
<1> QED  BY <1>4, <1>5, <1>6

LEMMA GiveUpOK ==
    ASSUME Inv, NEW p \in Endpoint, NEW id, GiveUp(p, id)
    PROVE  Inv'
<1> DEFINE t == main[p]
           u == TimedOut(t, id)
<1>1. t \in Local(p) /\ t.tracker \in Tracker
  BY DEF Inv, Threads, Thread, Local
<1>2. id \in ID /\ id \in DOMAIN t.tracker
  BY VisitFacts DEF GiveUp
<1>3. /\ u.tracker = [t.tracker EXCEPT ![id].status = "REQUEST_TIMEOUT"]
      /\ u.cursor = {id} /\ SamePlace(t, u) /\ u.answers = t.answers
  BY <1>1 DEF TimedOut, Local, SamePlace
<1>4. /\ u.tracker \in Tracker /\ DOMAIN u.tracker = DOMAIN t.tracker
      /\ \A i \in DOMAIN t.tracker :
             u.tracker[i].status = IF i = id THEN "REQUEST_TIMEOUT" ELSE t.tracker[i].status
  BY <1>1, <1>2, <1>3, StatusChange DEF Status
<1>5. u \in Local(p)
  BY <1>1, <1>2, <1>4 DEF TimedOut, Local
<1> HIDE DEF u
<1>6. Thread(p, u, metadata[p])
  BY <1>2, <1>3, <1>4, <1>5, VisitKeepsThread DEF GiveUp
<1>7. RecvInv'
  BY RecvStutter DEF GiveUp, Inv
<1>8. Become(p, u) /\ UNCHANGED <<metadata, retrieved, fault>>
  BY DEF GiveUp, u
<1> QED  BY <1>6, <1>7, <1>8, Moves

LEMMA WaitTakeOK ==
    ASSUME Inv, NEW p \in Endpoint, NEW id, NEW m, WaitTake(p, id, m)
    PROVE  Inv'
<1> DEFINE t == main[p]
           a == [node |-> [id |-> id, ep |-> t.tracker[id].ep], msg |-> m]
           u == [t EXCEPT !.cursor = {id}, !.answers = Append(t.answers, a)]
<1>1. /\ t \in Local(p) /\ t.tracker \in Tracker /\ t.answers \in Seq(Taken(p))
      /\ Control(p, t) /\ t.pc = "wait"
  BY DEF Inv, Threads, Thread, Local, WaitTake
<1>2. /\ id \in ID /\ id \in DOMAIN t.tracker /\ t.tracker[id].status = "REQUEST_SENT"
  BY VisitFacts DEF WaitTake
<1>3. a \in Taken(p)
  <2>1. /\ t.tracker[id].ep \in Endpoint /\ id # IdOf[p]
        /\ id = IdOf[t.tracker[id].ep] \/ (Stale /\ t.tracker[id].ep = Boot)
    BY <1>1, <1>2 DEF Control, Tracker
  <2>2. m \in Incoming(p)
    BY DEF WaitTake, ResponseOf, Inv, RecvInv
  <2> QED  BY <1>2, <2>1, <2>2 DEF Taken, Peers, Paired, Node
<1>4. Append(t.answers, a) \in Seq(Taken(p))
  BY <1>1, <1>3, AppendProperties
<1>5. /\ u \in Local(p) /\ u.cursor = {id} /\ SamePlace(t, u) /\ u.tracker = t.tracker
  BY <1>1, <1>2, <1>4 DEF Local, SamePlace
<1>6. Become(p, u) /\ UNCHANGED <<metadata, retrieved, fault>>
  BY DEF WaitTake
<1> HIDE DEF u
<1>7. Thread(p, u, metadata[p])
  BY <1>1, <1>2, <1>5, VisitKeepsThread DEF WaitTake, SamePlace
<1>8. RecvInv'
  BY ErasedOK DEF WaitTake, Inv
<1> QED  BY <1>6, <1>7, <1>8, Moves

LEMMA NextPassOK ==
    ASSUME Inv, NEW p \in Endpoint, NextPass(p)
    PROVE  Inv'
<1> DEFINE t == main[p]
           u == [t EXCEPT !.cursor = {}, !.completed = TRUE]
<1>1. Thread(p, t, metadata[p]) /\ t \in Local(p) /\ t.pc \in {"lookup", "wait"}
  BY DEF Inv, Threads, Thread, NextPass, PassEnds
<1>2. /\ u \in Local(p) /\ u.cursor = {} /\ SamePlace(t, u) /\ u.tracker = t.tracker
      /\ u.answers = t.answers
  BY <1>1 DEF Local, SamePlace
<1>3. Become(p, u) /\ UNCHANGED <<metadata, retrieved, fault>>
  BY DEF NextPass
<1> HIDE DEF u
<1>4. PassedNone(u)
  BY <1>2 DEF PassedNone, Ahead
<1>5. Thread(p, u, metadata[p])
  BY <1>1, <1>2, <1>4, SamePlaceOK DEF SamePlace
<1>6. RecvInv'
  BY RecvStutter DEF NextPass, Inv
<1> QED  BY <1>3, <1>5, <1>6, Moves

LEMMA BootstrapLookupDoneOK ==
    ASSUME Inv, NEW p \in Endpoint, BootstrapLookupDone(p)
    PROVE  Inv'
<1> DEFINE t == main[p]
           u == [t EXCEPT !.pc = "insert", !.cursor = {}]
<1>1. /\ Thread(p, t, metadata[p]) /\ t \in Local(p)
      /\ t.pc = "lookup" /\ t.op = "bootstrap" /\ t.completed
  BY DEF Inv, Threads, Thread, BootstrapLookupDone
<1>2. /\ u \in Local(p) /\ u.pc = "insert" /\ u.op = t.op /\ u.cursor = {}
      /\ u.completed = t.completed /\ u.answers = t.answers
  BY <1>1 DEF Local, PCs
<1>3. Become(p, u) /\ UNCHANGED <<metadata, retrieved, fault>>
  BY DEF BootstrapLookupDone
<1> HIDE DEF u
<1>4. Thread(p, u, metadata[p])
  BY <1>1, <1>2 DEF Thread, Control, Storing, Retrieving, PassedNone
<1>5. RecvInv'
  BY RecvStutter DEF BootstrapLookupDone, Inv
<1> QED  BY <1>3, <1>4, <1>5, Moves

-----------------------------------------------------------------------------
\* The locals of a thread that is in no loop over a tracker.
LEMMA FreshLocals ==
    ASSUME NEW p \in Endpoint, NEW pc \in PCs \ {"lookup", "wait"}, NEW op \in Ops,
           NEW file \in File \cup {NoFile}, NEW entries \in Seq(Entry(p)),
           NEW contents \in Seq(Content), NEW todo \in SUBSET File, NEW target \in ID,
           NEW u, u = [pc |-> pc, op |-> op, file |-> file, entries |-> entries,
                       contents |-> contents, todo |-> todo, target |-> target,
                       tracker |-> <<>>, cursor |-> {}, completed |-> TRUE,
                       answers |-> <<>>]
    PROVE  u \in Local(p) /\ PassedNone(u)
<1>1. <<>> \in Seq(Taken(p)) /\ <<>> \in Tracker
  BY EmptyTracker
<1> HIDE DEF Taken, Tracker, Entry
<1>2. u \in Local(p)
  BY <1>1 DEF Local
<1>3. u.pc # "lookup"
  OBVIOUS
<1> QED  BY <1>2, <1>3 DEF PassedNone

LEMMA StartOK ==
    ASSUME Inv, NEW p \in Endpoint, Start(p)
    PROVE  Inv'
<1>1. p # Boot /\ Boot \in Endpoint /\ IdOf[p] \in ID
  BY IdsDiffer, FilesAssumption DEF Start
<1>2. PICK u : u = [Parked("first_response") EXCEPT !.op = "bootstrap", !.target = IdOf[p]]
  OBVIOUS
<1>3. u = [pc |-> "first_response", op |-> "bootstrap", file |-> NoFile,
           entries |-> <<>>, contents |-> <<>>, todo |-> {}, target |-> IdOf[p],
           tracker |-> <<>>, cursor |-> {}, completed |-> TRUE, answers |-> <<>>]
  BY <1>2 DEF Parked
<1>4. u \in Local(p) /\ PassedNone(u)
  <2>1. <<>> \in Seq(Entry(p)) /\ <<>> \in Seq(Content)
    OBVIOUS
  <2>2. "first_response" \in PCs \ {"lookup", "wait"} /\ "bootstrap" \in Ops
    BY DEF PCs, Ops
  <2> QED  BY <1>1, <1>3, <2>1, <2>2, FreshLocals
<1>5. Thread(p, u, metadata[p])
  BY <1>1, <1>3, <1>4 DEF Thread, Control, Storing, Retrieving
<1>6. Request("FIND_NODE", p, Boot, IdOf[p], NoContent) \in Datagram
  BY <1>1, RequestDatagram DEF Requests
<1>7. RecvInv'
  BY <1>6 DEF Start, Inv, RecvInv
<1>8. Become(p, u) /\ UNCHANGED <<metadata, retrieved, fault>>
  BY <1>2 DEF Start
<1> QED  BY <1>5, <1>7, <1>8, Moves

LEMMA StartBootOK == Inv /\ StartBoot => Inv'
<1> SUFFICES ASSUME Inv, StartBoot PROVE Inv'
  OBVIOUS
<1>1. Boot \in Endpoint
  BY FilesAssumption
<1>2. Thread(Boot, Parked("serving"), metadata[Boot])
  BY <1>1, ParkedOK
<1>3. RecvInv'
  BY <1>1 DEF StartBoot, Inv, RecvInv
<1> QED  BY <1>1, <1>2, <1>3, Moves DEF StartBoot

\* Any contact that bootstrap files.
LEMMA FiledOK ==
    ASSUME RecvInv, NEW p \in Endpoint, NEW id, NEW ep, [id |-> id, ep |-> ep] \in Peers(p),
           rt' = [rt EXCEPT ![p] = InsertNode(IdOf[p], rt[p], id, ep)],
           UNCHANGED <<net, up, disk, responses>>
    PROVE  RecvInv'
<1> DEFINE table == InsertNode(IdOf[p], rt[p], id, ep)
<1>1. ContactsOK(p, table)
  BY InsertContact DEF RecvInv
<1>2. table \in Table
  BY <1>1 DEF ContactsOK, TableOK
<1> HIDE DEF table
<1>3. rt' = [rt EXCEPT ![p] = table]
  BY DEF table
<1> QED  BY <1>1, <1>2, <1>3 DEF RecvInv

LEMMA FirstResponseOK ==
    ASSUME Inv, Began, NEW p \in Endpoint, NEW m, FirstResponse(p, m)
    PROVE  Inv'
<1> DEFINE t    == main[p]
           boot == [id |-> IdOf[m.from], ep |-> Boot]
           v    == Track(<<>>, {boot}, "REQUEST_RECEIVED")
           w    == Track(v, m.nodes, "NO_ACTION")
           u    == [t EXCEPT !.pc = "lookup", !.tracker = w]
<1>1. /\ Thread(p, t, metadata[p]) /\ t \in Local(p) /\ t.pc = "first_response"
      /\ t.op = "bootstrap" /\ t.cursor = {} /\ t.answers = <<>> /\ p # Boot
  BY DEF Inv, Threads, Thread, Control, FirstResponse, IsFirst
<1>2. m \in Incoming(p)
  BY DEF FirstResponse, IsFirst, Inv, RecvInv
<1>3. m.from \in Endpoint /\ m.from # p /\ m.nodes \in SUBSET Paired
  BY <1>2 DEF Incoming, Datagram, Message
<1>4. boot \in Peers(p) /\ Boot \in Endpoint
  <2>1. Stale \/ m.from = Boot
    BY <1>3 DEF Began, Beginning, Partner, FirstResponse, IsFirst
  <2> QED  BY <1>3, <2>1, IdsDiffer, FilesAssumption DEF Peers, Paired, Node
<1>5. RecvInv'
  BY <1>4, FiledOK DEF FirstResponse, Inv
<1> HIDE DEF t, boot
<1>6. v \in Tracker
  BY <1>4, EmptyTracker, Tracking DEF Status, Peers
<1> HIDE DEF v
<1>7. w \in Tracker
  BY <1>3, <1>6, Tracking DEF Status
<1> HIDE DEF w
<1>8. /\ u \in Local(p) /\ u.pc = "lookup" /\ u.op = "bootstrap" /\ u.cursor = {}
      /\ u.answers = <<>>
  BY <1>1, <1>7 DEF Local, PCs
<1> HIDE DEF u
<1>9. PassedNone(u)
  BY <1>8 DEF PassedNone, Ahead
<1>10. Thread(p, u, metadata[p])
  BY <1>1, <1>8, <1>9 DEF Thread, Control, Storing, Retrieving
<1>11. Thread(p, Parked("idle"), metadata[p])
  BY <1>1, ParkedOK
<1>12. Become(p, IF m.nodes = {} THEN Parked("idle") ELSE u)
  BY DEF FirstResponse, u, t, w, v, boot
<1>13. UNCHANGED <<metadata, retrieved, fault>>
  BY DEF FirstResponse
<1> QED  BY <1>5, <1>10, <1>11, <1>12, <1>13, Moves

\* What is left of the tracker after an entry has been filed.
LEMMA InsertedOK ==
    ASSUME Inv, NEW p \in Endpoint, NEW id, InsertsNext(p, id)
    PROVE  Thread(p, Inserted(p, id), metadata[p])
<1> DEFINE t == main[p]
           v == Restrict(t.tracker, DOMAIN t.tracker \ {id})
           u == [t EXCEPT !.tracker = v]
<1>1. /\ Thread(p, t, metadata[p]) /\ t \in Local(p) /\ t.pc = "insert"
      /\ t.tracker \in Tracker /\ p # Boot
  BY DEF Inv, Threads, Thread, Control, Local, InsertsNext
<1>2. v \in Tracker
  BY <1>1, RestrictTracker
<1> HIDE DEF v
<1>3. /\ u \in Local(p) /\ u.pc = t.pc /\ u.op = t.op /\ u.cursor = t.cursor
      /\ u.completed = t.completed /\ u.answers = t.answers
  BY <1>1, <1>2 DEF Local
<1>4. Inserted(p, id) = IF DOMAIN t.tracker = {id} THEN Parked("idle") ELSE u
  BY DEF Inserted, v
<1> HIDE DEF u
<1>5. Thread(p, u, metadata[p])
  BY <1>1, <1>3 DEF Thread, Control, Storing, Retrieving, PassedNone
<1>6. Thread(p, Parked("idle"), metadata[p])
  BY <1>1, ParkedOK
<1> QED  BY <1>4, <1>5, <1>6

LEMMA InsertNextOK ==
    ASSUME Inv, NEW p \in Endpoint, NEW id, InsertNext(p, id)
    PROVE  Inv'
<1>1. main[p].tracker \in Tracker /\ id \in DOMAIN main[p].tracker /\ id # IdOf[p]
  BY DEF Inv, Threads, Thread, Local, InsertNext, InsertsNext
<1>2. [id |-> id, ep |-> main[p].tracker[id].ep] \in Peers(p)
  BY <1>1 DEF Tracker, Peers, Paired, Node
<1>3. RecvInv'
  BY <1>2, FiledOK DEF InsertNext, Inv
<1>4. Thread(p, Inserted(p, id), metadata[p])
  BY InsertedOK DEF InsertNext
<1> QED  BY <1>3, <1>4, Moves DEF InsertNext

-----------------------------------------------------------------------------
(***************************************************************************)
(* The end of a process.                                                   *)
(***************************************************************************)
LEMMA CutShortIs ==
    ASSUME NEW files, NEW p, NEW open, NEW u \in CutShort(files, p, open)
    PROVE  u = files \/ (open /\ u = [files EXCEPT ![p][main[p].file] = <<>>])
  BY DEF CutShort

LEMMA TerminateOK ==
    ASSUME Inv, NEW p \in Endpoint, NEW why \in Ends, Terminate(p, why),
           net' \subseteq Datagram, disk' \in [Endpoint -> Disk]
    PROVE  Inv'
<1>1. RecvInv'
  <2>1. rt' \in [Endpoint -> Table]
    BY EmptyContacts DEF Terminate, Inv, RecvInv, ContactsOK, TableOK
  <2>2. \A q \in Endpoint : ContactsOK(q, rt'[q])
    BY EmptyContacts DEF Terminate, Inv, RecvInv
  <2>3. responses' \in [Endpoint -> SUBSET Datagram]
    BY DEF Terminate, Inv, RecvInv
  <2>4. \A q \in Endpoint : responses'[q] \subseteq Incoming(q)
    BY DEF Terminate, Inv, RecvInv
  <2>5. up' \subseteq Endpoint
    BY DEF Terminate, Inv, RecvInv
  <2> QED  BY <2>1, <2>2, <2>3, <2>4, <2>5 DEF RecvInv
<1> DEFINE f == main[p].file
<1>2. /\ metadata' = metadata \/ metadata' = [metadata EXCEPT ![p][f] = <<>>]
      /\ \/ retrieved' = retrieved
         \/ WritingBack(p) /\ retrieved' = [retrieved EXCEPT ![p][f] = <<>>]
  BY CutShortIs DEF Terminate
<1>3. WritingBack(p) => f \in File
  BY DEF WritingBack, Inv, Threads, Thread, Control, Retrieving
<1> HIDE DEF f
<1>4. /\ metadata' = [q \in Endpoint |-> [g \in File |-> metadata'[q][g]]]
      /\ \A q \in Endpoint : q # p => metadata'[q] = metadata[q]
      /\ \A q \in Endpoint, g \in File :
            metadata'[q][g] = metadata[q][g] \/ (q = p /\ metadata'[q][g] = <<>>)
  <2>1. metadata = [q \in Endpoint |-> [g \in File |-> metadata[q][g]]]
    BY DEF Inv, FilesOK
  <2>2. CASE metadata' = metadata
    BY <2>1, <2>2
  <2>3. CASE metadata' = [metadata EXCEPT ![p][f] = <<>>]
    BY <2>1, <2>3
  <2> QED  BY <1>2, <2>2, <2>3
<1>5. Threads'
  <2>1. Thread(p, Parked("off"), metadata'[p])
    BY ParkedOK
  <2> QED  BY <1>4, <2>1, ThreadsStep DEF Terminate, Inv
<1>6. /\ fault' \in [Endpoint -> Ends \cup {"none"}] /\ fault'[p] = why /\ why # "none"
      /\ \A q \in Endpoint : q # p => fault'[q] = fault[q]
  BY DEF Terminate, Inv, FilesOK, Ends
<1>7. ASSUME NEW q \in Endpoint, NEW g \in File
      PROVE  FileOK(q, g, metadata'[q][g], fault'[q])
  <2>1. FileOK(q, g, metadata[q][g], fault[q])
    BY DEF Inv, FilesOK
  <2>2. CASE metadata'[q][g] = metadata[q][g]
    BY <1>6, <2>1, <2>2 DEF FileOK
  <2>3. CASE q = p /\ metadata'[q][g] = <<>>
    <3>1. <<>> \in Seq(Entry(q))
      OBVIOUS
    <3> QED  BY <1>6, <2>3, <3>1 DEF FileOK
  <2> QED  BY <1>4, <2>2, <2>3
<1>8. retrieved' \in [Endpoint -> [File -> Seq(Content) \cup {NoFile}]]
  <2>1. retrieved \in [Endpoint -> [File -> Seq(Content) \cup {NoFile}]]
    BY DEF Inv, FilesOK
  <2>2. <<>> \in Seq(Content)
    OBVIOUS
  <2>3. CASE f \in File /\ retrieved' = [retrieved EXCEPT ![p][f] = <<>>]
    <3>1. [retrieved[p] EXCEPT ![f] = <<>>] \in [File -> Seq(Content) \cup {NoFile}]
      BY <2>1, <2>2, <2>3
    <3> QED  BY <2>1, <2>3, <3>1
  <2> QED  BY <1>2, <1>3, <2>1, <2>3
<1>9. FilesOK'
  BY <1>4, <1>6, <1>7, <1>8 DEF FilesOK
<1> QED  BY <1>1, <1>5, <1>9 DEF Inv

LEMMA DiesOK ==
    ASSUME Inv, NEW p \in Endpoint, NEW why \in Ends, Dies(p, why)
    PROVE  Inv'
<1>1. Terminate(p, why)
  BY DEF Dies
<1>2. net' \subseteq Datagram /\ disk' \in [Endpoint -> Disk]
  <2>1. CASE UNCHANGED <<net, disk>>
    BY <2>1 DEF Inv, RecvInv
  <2>2. ASSUME NEW m \in net, HandleStoreCut(p, m)
        PROVE  net' \subseteq Datagram /\ disk' \in [Endpoint -> Disk]
    <3>1. disk' \in {disk, Written(m), Emptied(m)} /\ m.type = "STORE"
      BY <2>2 DEF HandleStoreCut, AfterStorePiece
    <3>2. disk' \in [Endpoint -> Disk]
      BY <3>1, StoredOK DEF Inv
    <3> QED  BY <2>2, <3>2 DEF HandleStoreCut, Inv, RecvInv
  <2> QED  BY <2>1, <2>2 DEF Dies
<1> QED  BY <1>1, <1>2, TerminateOK

LEMMA FirstResponseInvalidOK ==
    ASSUME Inv, NEW p \in Endpoint, NEW m, FirstResponseInvalid(p, m)
    PROVE  Inv'
  BY DiesOK DEF FirstResponseInvalid, Ends

LEMMA FirstResponseTimeoutOK ==
    ASSUME Inv, NEW p \in Endpoint, FirstResponseTimeout(p)
    PROVE  Inv'
  BY DiesOK DEF FirstResponseTimeout, Ends

LEMMA InsertOwnIdOK ==
    ASSUME Inv, NEW p \in Endpoint, InsertOwnId(p)
    PROVE  Inv'
<1>1. CASE Dies(p, "out_of_bounds")
  BY <1>1, DiesOK DEF Ends
<1>2. CASE Become(p, Inserted(p, IdOf[p])) /\ UNCHANGED <<recvVars, metadata, retrieved, fault>>
  <2>1. Thread(p, Inserted(p, IdOf[p]), metadata[p])
    BY InsertedOK DEF InsertOwnId
  <2>2. RecvInv'
    BY <1>2, RecvStutter DEF Inv
  <2> QED  BY <1>2, <2>1, <2>2, Moves
<1> QED  BY <1>1, <1>2 DEF InsertOwnId

LEMMA StorePieceFailsOK ==
    ASSUME Inv, NEW p \in Endpoint, StorePieceFails(p)
    PROVE  Inv'
<1>1. StorePieceFault(p) \in Ends
  <2>1. StorePieceFault(p) \in {"out_of_bounds", "id_clash", "nobody_known", "none"}
    BY DEF StorePieceFault
  <2> QED  BY <2>1 DEF StorePieceFails, Ends
<1> QED  BY <1>1, DiesOK DEF StorePieceFails

LEMMA FindNodeOwnIdOK ==
    ASSUME Inv, NEW p \in Endpoint, FindNodeOwnId(p)
    PROVE  Inv'
<1>1. Terminate(p, "out_of_bounds") /\ net' \subseteq net /\ disk' = disk
  BY DEF FindNodeOwnId
<1>2. net' \subseteq Datagram /\ disk' \in [Endpoint -> Disk]
  BY <1>1 DEF Inv, RecvInv
<1> QED  BY <1>1, <1>2, TerminateOK DEF Ends

LEMMA StopOK ==
    ASSUME Inv, NEW p \in Endpoint, Stop(p)
    PROVE  Inv'
  BY DiesOK DEF Stop, Ends

LEMMA ReceiveFailsOK ==
    ASSUME Inv, NEW p \in Endpoint, ReceiveFails(p)
    PROVE  Inv'
<1>1. RecvInv'
  BY DEF ReceiveFails, Inv, RecvInv
<1>2. Threads' /\ FilesOK'
  BY DEF ReceiveFails, Inv, Threads, FilesOK, mainVars
<1> QED  BY <1>1, <1>2 DEF Inv

-----------------------------------------------------------------------------
(***************************************************************************)
(* The commands.                                                           *)
(***************************************************************************)
LEMMA StoreCommandOK ==
    ASSUME Inv, NEW p \in Endpoint, NEW f \in File, StoreCommand(p, f)
    PROVE  Inv'
<1>1. p # Boot /\ IdOf[Boot] \in ID
  BY IdsDiffer, FilesAssumption DEF Inv, Threads, Thread, Control, StoreCommand
<1>2. PICK u : u = [Parked("store") EXCEPT !.op = "store", !.file = f]
  OBVIOUS
<1>3. u = [pc |-> "store", op |-> "store", file |-> f, entries |-> <<>>,
           contents |-> <<>>, todo |-> {}, target |-> IdOf[Boot], tracker |-> <<>>,
           cursor |-> {}, completed |-> TRUE, answers |-> <<>>]
  BY <1>2 DEF Parked
<1>4. u \in Local(p) /\ PassedNone(u)
  <2>1. <<>> \in Seq(Entry(p)) /\ <<>> \in Seq(Content)
    OBVIOUS
  <2>2. "store" \in PCs \ {"lookup", "wait"} /\ "store" \in Ops
    BY DEF PCs, Ops
  <2> QED  BY <1>1, <1>3, <2>1, <2>2, FreshLocals
<1>5. Storing(u)
  <2>1. Pieces[f] \in Seq(Content \cup {NoContent})
    BY FilesAssumption
  <2>2. Len(Pieces[f]) \in Nat
    BY <2>1, LenProperties
  <2> QED  BY <1>3, <2>2 DEF Storing
<1>6. Thread(p, u, metadata[p])
  BY <1>1, <1>3, <1>4, <1>5 DEF Thread, Control, Retrieving
<1>7. Become(p, u) /\ UNCHANGED <<metadata, retrieved, fault>>
  BY <1>2 DEF StoreCommand
<1>8. RecvInv'
  BY RecvStutter DEF StoreCommand, Inv
<1> QED  BY <1>6, <1>7, <1>8, Moves

\* The piece that store_file is at.
LEMMA CurrentPieceIs ==
    ASSUME NEW p, NEW t \in Local(p), t.file \in File, Len(t.entries) < Len(Pieces[t.file])
    PROVE  /\ CurrentPiece(t) \in Content \cup {NoContent}
           /\ HashOf[CurrentPiece(t)] \in ID
           /\ Len(t.entries) + 1 \in DOMAIN Pieces[t.file]
<1>1. Pieces[t.file] \in Seq(Content \cup {NoContent})
  BY FilesAssumption
<1>2. Len(t.entries) \in Nat
  BY LenProperties DEF Local
<1>3. Len(t.entries) + 1 \in DOMAIN Pieces[t.file]
  BY <1>1, <1>2, LenProperties
<1>4. CurrentPiece(t) \in Content \cup {NoContent}
  BY <1>1, <1>3, ElementOfSeq, LenProperties DEF CurrentPiece
<1> QED  BY <1>3, <1>4, FilesAssumption

\* All responses of a process are dropped.
LEMMA ClearedOK ==
    ASSUME RecvInv, NEW p \in Endpoint, responses' = [responses EXCEPT ![p] = {}],
           net' \subseteq Datagram, UNCHANGED <<up, rt, disk>>
    PROVE  RecvInv'
<1>1. /\ responses' \in [Endpoint -> SUBSET Datagram]
      /\ \A q \in Endpoint : responses'[q] \subseteq responses[q]
  BY DEF RecvInv
<1> QED  BY <1>1 DEF RecvInv

LEMMA StorePieceOK ==
    ASSUME Inv, NEW p \in Endpoint, StorePiece(p)
    PROVE  Inv'
<1> DEFINE t     == main[p]
           key   == HashOf[CurrentPiece(t)]
           found == FindNode(IdOf[p], rt[p], key)
           w     == Track(<<>>, found, "NO_ACTION")
           u     == [t EXCEPT !.pc = "lookup", !.target = key, !.tracker = w]
<1>1. /\ t \in Local(p) /\ t.pc = "store" /\ t.op = "store" /\ t.cursor = {}
      /\ t.answers = <<>> /\ p # Boot
      /\ t.file \in File /\ Len(t.entries) <= Len(Pieces[t.file])
      /\ \A k \in DOMAIN t.entries : t.entries[k].key = HashOf[Pieces[t.file][k]]
  BY DEF StorePiece, Inv, Threads, Thread, Control, Storing
<1>2. Len(t.entries) < Len(Pieces[t.file])
  <2>1. Pieces[t.file] \in Seq(Content \cup {NoContent}) /\ t.entries \in Seq(Entry(p))
    BY <1>1, FilesAssumption DEF Local
  <2>2. Len(Pieces[t.file]) \in Nat /\ Len(t.entries) \in Nat
    BY <2>1, LenProperties
  <2> QED  BY <1>1, <2>2 DEF StorePiece, Recording
<1>3. key \in ID
  BY <1>1, <1>2, CurrentPieceIs
<1>4. found \in SUBSET Paired
  <2>1. InBounds(IdOf[p], key)
    BY DEF StorePiece, StorePieceFault
  <2> QED  BY <2>1, FindNodeSubset DEF Inv, RecvInv, ContactsOK
<1> HIDE DEF found
<1>5. w \in Tracker
  BY <1>4, EmptyTracker, Tracking DEF Status
<1>6. Become(p, u) /\ UNCHANGED <<metadata, retrieved, fault>>
  BY DEF StorePiece, found
<1> HIDE DEF t, w, key
<1>7. /\ u \in Local(p) /\ u.pc = "lookup" /\ u.op = "store" /\ u.cursor = {}
      /\ u.answers = <<>> /\ u.file = t.file /\ u.entries = t.entries /\ u.target = key
  BY <1>1, <1>3, <1>5 DEF Local, PCs
<1> HIDE DEF u
<1>8. Control(p, u) /\ Retrieving(u, metadata[p])
  BY <1>1, <1>7 DEF Control, Retrieving
<1>9. Storing(u)
  BY <1>1, <1>2, <1>7 DEF Storing, CurrentPiece, key
<1>10. PassedNone(u)
  BY <1>7 DEF PassedNone, Ahead
<1>11. RecvInv'
  BY ClearedOK DEF StorePiece, Inv, RecvInv
<1> QED  BY <1>6, <1>7, <1>8, <1>9, <1>10, <1>11, Moves DEF Thread

\* The first entries of wait_for_responses' tracker.
LEMMA AskedTracker ==
    ASSUME NEW p \in Endpoint, NEW nodes \in SUBSET Peers(p),
           NEW w, w = Track(<<>>, nodes, "REQUEST_SENT")
    PROVE  w \in Tracker /\ IdOf[p] \notin DOMAIN w
<1>1. nodes \in SUBSET Paired /\ <<>> \in Tracker /\ "REQUEST_SENT" \in Status
  BY EmptyTracker DEF Peers, Status
<1>2. \A id \in DOMAIN w : id \notin DOMAIN <<>>
  OBVIOUS
<1>3. w \in Tracker
  BY <1>1, Tracking
<1>4. \A id \in DOMAIN w : \E n \in nodes : n.id = id
  BY <1>2 DEF Track
<1> QED  BY <1>3, <1>4 DEF Peers

LEMMA StoreTargetsOK ==
    ASSUME NEW p \in Endpoint, NEW t \in Local(p)
    PROVE  StoreTargets(t, IdOf[p]) \in SUBSET Peers(p)
<1> DEFINE candidates == {n \in Tracked(t.tracker, "REQUEST_RECEIVED") : n.id # IdOf[p]}
<1>1. candidates \subseteq Peers(p)
  BY TrackedNodes DEF Local, Peers
<1>2. StoreTargets(t, IdOf[p]) = Nearest(t.target, candidates, ReplicaCount)
  BY DEF StoreTargets
<1> HIDE DEF candidates
<1>3. StoreTargets(t, IdOf[p]) \subseteq candidates
  BY <1>2, NearestSubset
<1> QED  BY <1>1, <1>3

\* What is sent to contacts are datagrams.
LEMMA PeersAsked ==
    ASSUME NEW type \in Requests, NEW p \in Endpoint, p # Boot, NEW nodes \in SUBSET Peers(p),
           NEW key \in ID, NEW content \in Content \cup {NoContent},
           type = "STORE" => HashOf[content] = key,
           NEW sent,
           \A d \in sent : \E n \in nodes : d = Request(type, p, n.ep, key, content)
    PROVE  sent \subseteq Datagram
<1>1. ASSUME NEW n \in nodes
      PROVE  Request(type, p, n.ep, key, content) \in Datagram
  <2>1. n.ep \in Endpoint /\ n.id # IdOf[p] /\ (n.id = IdOf[n.ep] \/ (Stale /\ n.ep = Boot))
    BY DEF Peers, Paired, Node
  <2>2. p # n.ep
    BY <2>1
  <2> QED  BY <2>1, <2>2, RequestDatagram
<1> QED  BY <1>1

LEMMA StoreLookupDoneOK ==
    ASSUME Inv, NEW p \in Endpoint, StoreLookupDone(p)
    PROVE  Inv'
<1> DEFINE t      == main[p]
           chosen == StoreTargets(t, IdOf[p])
           w      == Track(<<>>, chosen, "REQUEST_SENT")
           u      == [t EXCEPT !.pc = "wait", !.cursor = {}, !.tracker = w]
<1>1. /\ t \in Local(p) /\ t.pc = "lookup" /\ t.op = "store" /\ t.answers = <<>> /\ p # Boot
      /\ Storing(t)
  BY DEF StoreLookupDone, Inv, Threads, Thread, Control
<1>2. /\ CurrentPiece(t) \in Content \cup {NoContent} /\ t.target \in ID
      /\ t.target = HashOf[CurrentPiece(t)]
  BY <1>1, CurrentPieceIs DEF Storing, Local
<1>3. chosen \in SUBSET Peers(p)
  BY <1>1, StoreTargetsOK
<1>4. Become(p, u) /\ UNCHANGED <<metadata, retrieved, fault>>
  BY DEF StoreLookupDone
<1>5. RecvInv'
  <2> DEFINE sent == {Request("STORE", p, n.ep, t.target, CurrentPiece(t)) : n \in chosen}
  <2>1. net' = net \cup sent /\ UNCHANGED <<up, rt, disk, responses>>
    BY DEF StoreLookupDone
  <2> HIDE DEF sent
  <2>2. \A d \in sent : \E n \in chosen :
           d = Request("STORE", p, n.ep, t.target, CurrentPiece(t))
    BY DEF sent
  <2> HIDE DEF t, chosen
  <2>3. sent \subseteq Datagram
    BY <1>1, <1>2, <1>3, <2>2, PeersAsked DEF Requests
  <2> QED  BY <2>1, <2>3 DEF Inv, RecvInv
<1> HIDE DEF t, chosen
<1>6. w \in Tracker /\ IdOf[p] \notin DOMAIN w
  BY <1>3, AskedTracker
<1> HIDE DEF w
<1>7. /\ u \in Local(p) /\ u.pc = "wait" /\ u.op = t.op /\ u.file = t.file
      /\ u.entries = t.entries /\ u.target = t.target /\ u.tracker = w
  BY <1>1, <1>6 DEF Local, PCs
<1> HIDE DEF u
<1>8. Storing(u)
  BY <1>1, <1>7 DEF Storing, CurrentPiece
<1>9. Thread(p, u, metadata[p])
  BY <1>1, <1>6, <1>7, <1>8 DEF Thread, Control, Retrieving, PassedNone
<1> QED  BY <1>4, <1>5, <1>9, Moves

LEMMA StoreWaitDoneOK ==
    ASSUME Inv, NEW p \in Endpoint, StoreWaitDone(p)
    PROVE  Inv'
<1> DEFINE t       == main[p]
           entry   == [key |-> t.target, nodes |-> {a.node : a \in Range(t.answers)}]
           entries == Append(t.entries, entry)
<1>1. /\ t \in Local(p) /\ t.pc = "wait" /\ t.op = "store" /\ p # Boot /\ Storing(t)
      /\ IdOf[Boot] \in ID /\ t.file \in File
  BY IdsDiffer, FilesAssumption DEF StoreWaitDone, Inv, Threads, Thread, Control, Storing
<1>2. entry \in Entry(p)
  <2>1. t.answers \in Seq(Taken(p)) /\ t.target \in ID
    BY <1>1 DEF Local
  <2>2. Range(t.answers) \in SUBSET Taken(p)
    BY <2>1, RangeOfSeq
  <2>3. \A a \in Range(t.answers) : a.node \in Peers(p)
    BY <2>2 DEF Taken
  <2> QED  BY <2>1, <2>3 DEF Entry
<1> HIDE DEF entry
<1>3. PICK u : u = [Parked("store") EXCEPT !.op = "store", !.file = t.file,
                                          !.entries = entries]
  OBVIOUS
<1>4. u = [pc |-> "store", op |-> "store", file |-> t.file, entries |-> entries,
           contents |-> <<>>, todo |-> {}, target |-> IdOf[Boot], tracker |-> <<>>,
           cursor |-> {}, completed |-> TRUE, answers |-> <<>>]
  BY <1>3 DEF Parked
<1>5. Become(p, u) /\ UNCHANGED <<metadata, retrieved, fault>>
  BY <1>3 DEF StoreWaitDone, entry
<1>6. /\ entries \in Seq(Entry(p)) /\ Len(entries) = Len(t.entries) + 1
      /\ Len(t.entries) \in Nat /\ DOMAIN t.entries = 1 .. Len(t.entries)
      /\ DOMAIN entries = 1 .. Len(t.entries) + 1
      /\ \A k \in DOMAIN t.entries : entries[k] = t.entries[k]
      /\ entries[Len(t.entries) + 1] = entry
  BY <1>1, <1>2, AppendProperties, LenProperties DEF Local
<1>7. entry.key = HashOf[Pieces[t.file][Len(t.entries) + 1]]
  BY <1>1 DEF Storing, CurrentPiece, entry
<1> HIDE DEF t, entries
<1>8. u \in Local(p) /\ PassedNone(u)
  <2>1. <<>> \in Seq(Content) /\ "store" \in PCs \ {"lookup", "wait"} /\ "store" \in Ops
    BY DEF PCs, Ops
  <2> QED  BY <1>1, <1>4, <1>6, <2>1, FreshLocals
<1>9. Storing(u)
  <2>1. Pieces[t.file] \in Seq(Content \cup {NoContent})
    BY <1>1, FilesAssumption
  <2>2. Len(Pieces[t.file]) \in Nat
    BY <2>1, LenProperties
  <2>3. Len(t.entries) < Len(Pieces[t.file])
    BY <1>1 DEF Storing
  <2>4. Len(entries) <= Len(Pieces[t.file])
    BY <1>6, <2>2, <2>3
  <2>5. \A k \in DOMAIN entries : entries[k].key = HashOf[Pieces[t.file][k]]
    BY <1>1, <1>6, <1>7 DEF Storing
  <2> QED  BY <1>1, <1>4, <2>4, <2>5 DEF Storing
<1>10. Thread(p, u, metadata[p])
  BY <1>1, <1>4, <1>8, <1>9 DEF Thread, Control, Retrieving
<1>11. RecvInv'
  BY RecvStutter DEF StoreWaitDone, Inv
<1> QED  BY <1>5, <1>10, <1>11, Moves

LEMMA RecordMetadataOK ==
    ASSUME Inv, NEW p \in Endpoint, RecordMetadata(p)
    PROVE  Inv'
<1> DEFINE t == main[p]
           f == t.file
<1>1. /\ t \in Local(p) /\ t.op = "store" /\ p # Boot /\ Storing(t) /\ f \in File
      /\ t.pc = "store" /\ t.entries \in Seq(Entry(p)) /\ Len(t.entries) = Len(Pieces[f])
  BY DEF RecordMetadata, Recording, Inv, Threads, Thread, Control, Storing, Local
<1>2. Complete(f, t.entries)
  BY <1>1 DEF Complete, Storing
<1>3. metadata' = [metadata EXCEPT ![p][f] = t.entries]
  BY DEF RecordMetadata
<1> HIDE DEF t, f
<1>4. /\ metadata' = [q \in Endpoint |-> [g \in File |-> metadata'[q][g]]]
      /\ \A q \in Endpoint : q # p => metadata'[q] = metadata[q]
      /\ \A q \in Endpoint, g \in File :
            metadata'[q][g] = IF q = p /\ g = f THEN t.entries ELSE metadata[q][g]
  BY <1>1, <1>3 DEF Inv, FilesOK
<1>5. Threads'
  <2>1. Thread(p, Parked("idle"), metadata'[p])
    BY <1>1, ParkedOK
  <2> QED  BY <1>4, <2>1, ThreadsStep DEF RecordMetadata, Inv
<1>6. ASSUME NEW q \in Endpoint, NEW g \in File
      PROVE  FileOK(q, g, metadata'[q][g], fault'[q])
  <2>1. FileOK(q, g, metadata[q][g], fault[q]) /\ fault' = fault
    BY DEF RecordMetadata, Inv, FilesOK
  <2>2. CASE q = p /\ g = f
    BY <1>1, <1>2, <1>4, <2>2 DEF FileOK
  <2>3. CASE ~(q = p /\ g = f)
    BY <1>4, <2>1, <2>3 DEF FileOK
  <2> QED  BY <2>2, <2>3
<1>7. FilesOK'
  BY <1>4, <1>6 DEF RecordMetadata, Inv, FilesOK
<1>8. RecvInv'
  BY RecvStutter DEF RecordMetadata, Inv
<1> QED  BY <1>5, <1>7, <1>8 DEF Inv

\* The file that retrieve_file is at, and how far it is.
LEMMA RetrievedFile ==
    ASSUME Inv, NEW p \in Endpoint, main[p].op = "retrieve"
    PROVE  LET t == main[p]
               lines == metadata[p][t.file]
           IN  /\ t \in Local(p) /\ p # Boot /\ t.file \in File /\ lines \in Seq(Entry(p))
               /\ t.todo \in SUBSET File /\ \A f \in t.todo : metadata[p][f] # NoFile
               /\ t.contents \in Seq(Content) /\ t.target \in ID
               /\ t.answers \in Seq(Taken(p))
               /\ Len(lines) \in Nat /\ Len(t.contents) \in Nat
               /\ Len(t.contents) <= Len(lines)
               /\ t.pc # "retrieve" => Len(t.contents) < Len(lines)
<1> DEFINE t == main[p]
           lines == metadata[p][t.file]
<1>1. /\ t \in Local(p) /\ Control(p, t) /\ Retrieving(t, metadata[p])
  BY DEF Inv, Threads, Thread
<1>2. /\ t.file \in File /\ lines # NoFile /\ \A f \in t.todo : metadata[p][f] # NoFile
      /\ Len(t.contents) <= Len(lines)
      /\ t.pc # "retrieve" => Len(t.contents) < Len(lines)
  BY <1>1 DEF Retrieving
<1>3. FileOK(p, t.file, lines, fault[p])
  BY <1>2 DEF Inv, FilesOK
<1>4. lines \in Seq(Entry(p))
  BY <1>2, <1>3 DEF FileOK
<1>5. /\ t.todo \in SUBSET File /\ t.contents \in Seq(Content) /\ t.target \in ID
      /\ t.answers \in Seq(Taken(p))
  BY <1>1 DEF Local
<1>6. Len(lines) \in Nat /\ Len(t.contents) \in Nat
  BY <1>4, <1>5, LenProperties
<1>7. p # Boot
  BY <1>1 DEF Control
<1> HIDE DEF t, lines
<1>8. /\ t \in Local(p) /\ p # Boot /\ t.file \in File /\ lines \in Seq(Entry(p))
      /\ t.todo \in SUBSET File /\ \A f \in t.todo : metadata[p][f] # NoFile
      /\ t.contents \in Seq(Content) /\ t.target \in ID /\ t.answers \in Seq(Taken(p))
      /\ Len(lines) \in Nat /\ Len(t.contents) \in Nat
      /\ Len(t.contents) <= Len(lines)
      /\ t.pc # "retrieve" => Len(t.contents) < Len(lines)
  BY <1>1, <1>2, <1>4, <1>5, <1>6, <1>7
<1> QED  BY <1>8 DEF t, lines

LEMMA RetrieveNextOK ==
    ASSUME Inv, RecvInv', NEW p \in Endpoint, p # Boot, NEW todo \in SUBSET File,
           \A f \in todo : metadata[p][f] # NoFile, RetrieveNext(p, todo),
           UNCHANGED <<metadata, fault>>,
           retrieved' \in [Endpoint -> [File -> Seq(Content) \cup {NoFile}]]
    PROVE  Inv'
<1>1. FilesOK'
  BY DEF Inv, FilesOK
<1>2. ASSUME Become(p, Parked("idle")) PROVE Threads'
  <2>1. Thread(p, Parked("idle"), metadata'[p])
    BY ParkedOK
  <2> QED  BY <1>2, <2>1, ThreadsStep DEF Inv
<1>3. ASSUME NEW f \in todo,
             Become(p, [Parked("retrieve") EXCEPT
                            !.op = "retrieve", !.file = f, !.todo = todo \ {f}])
      PROVE  Threads'
  <2>1. PICK u : u = [Parked("retrieve") EXCEPT
                          !.op = "retrieve", !.file = f, !.todo = todo \ {f}]
    OBVIOUS
  <2>2. u = [pc |-> "retrieve", op |-> "retrieve", file |-> f, entries |-> <<>>,
             contents |-> <<>>, todo |-> todo \ {f}, target |-> IdOf[Boot],
             tracker |-> <<>>, cursor |-> {}, completed |-> TRUE, answers |-> <<>>]
    BY <2>1 DEF Parked
  <2>3. u \in Local(p) /\ PassedNone(u)
    <3>1. <<>> \in Seq(Entry(p)) /\ <<>> \in Seq(Content)
      OBVIOUS
    <3>2. /\ "retrieve" \in PCs \ {"lookup", "wait"} /\ "retrieve" \in Ops
          /\ IdOf[Boot] \in ID /\ f \in File \cup {NoFile} /\ todo \ {f} \in SUBSET File
      BY IdsDiffer, FilesAssumption DEF PCs, Ops
    <3> QED  BY <2>2, <3>1, <3>2, FreshLocals
  <2>4. Len(metadata[p][f]) \in Nat
    <3>1. f \in File /\ metadata[p][f] # NoFile
      OBVIOUS
    <3>2. FileOK(p, f, metadata[p][f], fault[p])
      BY <3>1 DEF Inv, FilesOK
    <3>3. metadata[p][f] \in Seq(Entry(p))
      BY <3>1, <3>2 DEF FileOK
    <3> QED  BY <3>3, LenProperties
  <2>5. Retrieving(u, metadata[p])
    BY <2>2, <2>4 DEF Retrieving
  <2>6. Thread(p, u, metadata'[p])
    BY <2>2, <2>3, <2>5 DEF Thread, Control, Storing
  <2>7. Become(p, u)
    BY <1>3, <2>1
  <2> QED  BY <2>6, <2>7, ThreadsStep DEF Inv
<1>4. Threads'
  BY <1>2, <1>3, ZenonT(60) DEF RetrieveNext
<1> QED  BY <1>1, <1>4 DEF Inv

LEMMA RetrieveCommandOK ==
    ASSUME Inv, NEW p \in Endpoint, NEW f \in File,
           RetrieveCommand(p, f) \/ RetrieveDirectory(p)
    PROVE  Inv'
<1>1. /\ p # Boot /\ RecvInv' /\ UNCHANGED <<metadata, fault>>
      /\ retrieved' \in [Endpoint -> [File -> Seq(Content) \cup {NoFile}]]
  BY RecvStutter DEF RetrieveCommand, RetrieveDirectory, Inv, Threads, Thread, Control, FilesOK
<1>2. CASE RetrieveCommand(p, f)
  <2>1. {f} \in SUBSET File /\ \A g \in {f} : metadata[p][g] # NoFile
    BY <1>2 DEF RetrieveCommand, Known
  <2> QED  BY <1>1, <1>2, <2>1, RetrieveNextOK DEF RetrieveCommand
<1>3. CASE RetrieveDirectory(p)
  <2>1. Known(p) \in SUBSET File /\ \A g \in Known(p) : metadata[p][g] # NoFile
    BY DEF Known
  <2> QED  BY <1>1, <1>3, <2>1, RetrieveNextOK DEF RetrieveDirectory
<1> QED  BY <1>2, <1>3

\* The line of the metadata file that retrieve is at.
LEMMA CurrentEntryIs ==
    ASSUME Inv, NEW p \in Endpoint, RetrievePiece(p)
    PROVE  /\ CurrentEntry(p) \in Entry(p) /\ CurrentEntry(p).key \in ID
           /\ CurrentEntry(p).nodes \in SUBSET Peers(p)
<1> DEFINE t     == main[p]
           lines == metadata[p][t.file]
<1>1. /\ t.op = "retrieve" /\ Retrieving(t, metadata[p]) /\ Len(t.contents) # Len(lines)
  BY DEF RetrievePiece, WritingBack, Inv, Threads, Thread, Control
<1>2. /\ lines \in Seq(Entry(p)) /\ Len(lines) \in Nat
      /\ Len(t.contents) \in Nat /\ Len(t.contents) <= Len(lines)
  BY <1>1, RetrievedFile
<1> HIDE DEF lines
<1>3. Len(t.contents) + 1 \in 1 .. Len(lines)
  BY <1>1, <1>2
<1>4. lines[Len(t.contents) + 1] \in Entry(p)
  BY <1>2, <1>3, ElementOfSeq
<1> QED  BY <1>4 DEF CurrentEntry, lines, Entry

LEMMA RetrievePieceOK ==
    ASSUME Inv, NEW p \in Endpoint, RetrievePiece(p)
    PROVE  Inv'
<1> DEFINE t     == main[p]
           entry == CurrentEntry(p)
           lines == metadata[p][t.file]
           w     == Track(<<>>, entry.nodes, "REQUEST_SENT")
           u     == [t EXCEPT !.pc = "wait", !.target = entry.key, !.tracker = w]
           sent  == {Request("FIND_VALUE", p, n.ep, entry.key, NoContent) : n \in entry.nodes}
<1>1. /\ t.pc = "retrieve" /\ t.op = "retrieve" /\ Retrieving(t, metadata[p])
      /\ Len(t.contents) # Len(lines)
  BY DEF RetrievePiece, WritingBack, Inv, Threads, Thread, Control
<1>2. /\ t \in Local(p) /\ p # Boot /\ lines \in Seq(Entry(p))
      /\ Len(lines) \in Nat /\ Len(t.contents) \in Nat /\ Len(t.contents) <= Len(lines)
  BY <1>1, RetrievedFile
<1> HIDE DEF t, lines
<1>4. entry.key \in ID /\ entry.nodes \in SUBSET Peers(p)
  BY CurrentEntryIs
<1>5. /\ net' = net \cup sent /\ responses' = [responses EXCEPT ![p] = {}]
      /\ UNCHANGED <<up, rt, disk>>
      /\ Become(p, u) /\ UNCHANGED <<metadata, retrieved, fault>>
  BY DEF RetrievePiece, t
<1>6. \A d \in sent : \E n \in entry.nodes :
         d = Request("FIND_VALUE", p, n.ep, entry.key, NoContent)
  OBVIOUS
<1> HIDE DEF entry, sent
<1>7. w \in Tracker /\ IdOf[p] \notin DOMAIN w
  BY <1>4, AskedTracker
<1> HIDE DEF w
<1>8. /\ u \in Local(p) /\ u.pc = "wait" /\ u.op = t.op /\ u.file = t.file
      /\ u.contents = t.contents /\ u.todo = t.todo /\ u.tracker = w
  BY <1>2, <1>4, <1>7 DEF Local, PCs
<1> HIDE DEF u
<1>9. Retrieving(u, metadata[p])
  BY <1>1, <1>2, <1>8 DEF Retrieving, lines
<1>10. Thread(p, u, metadata[p])
  BY <1>1, <1>2, <1>7, <1>8, <1>9 DEF Thread, Control, Storing, PassedNone
<1>11. RecvInv'
  <2> DEFINE nodes   == entry.nodes
             key     == entry.key
             content == NoContent
  <2>1. /\ "FIND_VALUE" \in Requests /\ "FIND_VALUE" # "STORE"
        /\ content \in Content \cup {NoContent}
    BY DEF Requests
  <2>2. \A d \in sent : \E n \in nodes : d = Request("FIND_VALUE", p, n.ep, key, content)
    BY <1>6
  <2>3. nodes \in SUBSET Peers(p) /\ key \in ID
    BY <1>4
  <2> HIDE DEF nodes, key, content
  <2>4. sent \subseteq Datagram
    BY <1>2, <2>1, <2>2, <2>3, PeersAsked DEF Requests
  <2>5. net' \subseteq Datagram
    BY <1>5, <2>4 DEF Inv, RecvInv
  <2> QED  BY <1>5, <2>5, ClearedOK DEF Inv
<1> QED  BY <1>5, <1>10, <1>11, Moves

\* The thread goes on with the first content that is not empty.
LEMMA RetrieveWaitDoneIs ==
    ASSUME NEW p, RetrieveWaitDone(p)
    PROVE  /\ UNCHANGED <<net, up, rt, disk, responses, metadata, retrieved, fault>>
           /\ main[p].pc = "wait" /\ main[p].op = "retrieve"
           /\ \E k, u :
                 /\ k \in NonEmpty(main[p].answers) /\ Become(p, u)
                 /\ u = [pc |-> "retrieve", op |-> "retrieve", file |-> main[p].file,
                         entries |-> <<>>,
                         contents |-> Append(main[p].contents, main[p].answers[k].msg.content),
                         todo |-> main[p].todo, target |-> IdOf[Boot],
                         tracker |-> <<>>, cursor |-> {}, completed |-> TRUE,
                         answers |-> <<>>]
<1> DEFINE t == main[p]
<1>1. PICK k \in NonEmpty(t.answers) :
         Become(p, [Parked("retrieve") EXCEPT
                       !.op = "retrieve", !.file = t.file, !.todo = t.todo,
                       !.contents = Append(t.contents, t.answers[k].msg.content)])
  BY ZenonT(60) DEF RetrieveWaitDone
<1>2. t.pc = "wait" /\ t.op = "retrieve" /\ UNCHANGED <<recvVars, metadata, retrieved, fault>>
  BY DEF RetrieveWaitDone, RetrieveWaitEnds
<1> DEFINE contents == Append(t.contents, t.answers[k].msg.content)
<1>3. PICK u : u = [Parked("retrieve") EXCEPT !.op = "retrieve", !.file = t.file,
                                             !.todo = t.todo, !.contents = contents]
  OBVIOUS
<1>4. Become(p, u)
  BY <1>1, <1>3
<1> HIDE DEF contents
<1>5. u = [pc |-> "retrieve", op |-> "retrieve", file |-> t.file, entries |-> <<>>,
           contents |-> contents, todo |-> t.todo, target |-> IdOf[Boot],
           tracker |-> <<>>, cursor |-> {}, completed |-> TRUE, answers |-> <<>>]
  BY <1>3 DEF Parked
<1> QED  BY <1>2, <1>4, <1>5 DEF contents, recvVars

LEMMA RetrieveWaitDoneOK ==
    ASSUME Inv, NEW p \in Endpoint, RetrieveWaitDone(p)
    PROVE  Inv'
<1> DEFINE t     == main[p]
           lines == metadata[p][t.file]
<1>1. PICK k, u :
         /\ k \in NonEmpty(t.answers) /\ Become(p, u)
         /\ u = [pc |-> "retrieve", op |-> "retrieve", file |-> t.file, entries |-> <<>>,
                 contents |-> Append(t.contents, t.answers[k].msg.content),
                 todo |-> t.todo, target |-> IdOf[Boot], tracker |-> <<>>,
                 cursor |-> {}, completed |-> TRUE, answers |-> <<>>]
  BY RetrieveWaitDoneIs
<1> DEFINE contents == Append(t.contents, t.answers[k].msg.content)
<1>2. t.pc = "wait" /\ t.op = "retrieve" /\ UNCHANGED <<recvVars, metadata, retrieved, fault>>
  BY RetrieveWaitDoneIs DEF recvVars
<1>3. /\ t \in Local(p) /\ p # Boot /\ t.file \in File /\ t.todo \in SUBSET File
      /\ \A f \in t.todo : metadata[p][f] # NoFile
      /\ t.contents \in Seq(Content) /\ t.answers \in Seq(Taken(p))
      /\ Len(lines) \in Nat /\ Len(t.contents) \in Nat /\ Len(t.contents) < Len(lines)
  BY <1>2, RetrievedFile
<1>4. lines # NoFile
  BY <1>2 DEF Inv, Threads, Thread, Retrieving
<1>5. t.answers[k].msg.content \in Content
  <2>1. t.answers[k] \in Taken(p) /\ t.answers[k].msg.content # NoContent
    BY <1>1, <1>3, ElementOfSeq, LenProperties DEF NonEmpty
  <2> QED  BY <2>1 DEF Taken, Incoming, Datagram, Message
<1>6. contents \in Seq(Content) /\ Len(contents) = Len(t.contents) + 1
  BY <1>3, <1>5, AppendProperties
<1> HIDE DEF contents
<1>7. u = [pc |-> "retrieve", op |-> "retrieve", file |-> t.file, entries |-> <<>>,
           contents |-> contents, todo |-> t.todo, target |-> IdOf[Boot],
           tracker |-> <<>>, cursor |-> {}, completed |-> TRUE, answers |-> <<>>]
  BY <1>1 DEF contents
<1> HIDE DEF t
<1>8. u \in Local(p) /\ PassedNone(u)
  <2>1. <<>> \in Seq(Entry(p)) /\ IdOf[Boot] \in ID
    BY IdsDiffer, FilesAssumption
  <2>2. "retrieve" \in PCs \ {"lookup", "wait"} /\ "retrieve" \in Ops
    BY DEF PCs, Ops
  <2> QED  BY <1>3, <1>6, <1>7, <2>1, <2>2, FreshLocals
<1>9. Retrieving(u, metadata[p])
  BY <1>3, <1>4, <1>6, <1>7 DEF Retrieving
<1>10. Thread(p, u, metadata[p])
  BY <1>3, <1>7, <1>8, <1>9 DEF Thread, Control, Storing
<1>11. RecvInv'
  BY <1>2, RecvStutter DEF Inv
<1> QED  BY <1>1, <1>2, <1>10, <1>11, Moves

LEMMA RetrieveWaitFailsOK ==
    ASSUME Inv, NEW p \in Endpoint, RetrieveWaitFails(p)
    PROVE  Inv'
<1> DEFINE todo == main[p].todo
<1>1. main[p].op = "retrieve" /\ RetrieveNext(p, todo)
  BY DEF RetrieveWaitFails, RetrieveWaitEnds
<1>2. p # Boot /\ todo \in SUBSET File /\ \A f \in todo : metadata[p][f] # NoFile
  BY <1>1, RetrievedFile
<1>3. /\ RecvInv' /\ UNCHANGED <<metadata, fault>>
      /\ retrieved' \in [Endpoint -> [File -> Seq(Content) \cup {NoFile}]]
  BY RecvStutter DEF RetrieveWaitFails, Inv, FilesOK
<1> HIDE DEF todo
<1> QED  BY <1>1, <1>2, <1>3, RetrieveNextOK

LEMMA WriteBackOK ==
    ASSUME Inv, NEW p \in Endpoint, WriteBack(p)
    PROVE  Inv'
<1> DEFINE todo == main[p].todo
           f    == main[p].file
           c    == main[p].contents
<1>1. main[p].op = "retrieve" /\ RetrieveNext(p, todo)
  BY DEF WriteBack, WritingBack, Inv, Threads, Thread, Control
<1>2. /\ p # Boot /\ todo \in SUBSET File /\ \A g \in todo : metadata[p][g] # NoFile
      /\ f \in File /\ c \in Seq(Content)
  BY <1>1, RetrievedFile
<1>3. /\ RecvInv' /\ UNCHANGED <<metadata, fault>>
      /\ retrieved' = [retrieved EXCEPT ![p][f] = c]
      /\ retrieved \in [Endpoint -> [File -> Seq(Content) \cup {NoFile}]]
  BY RecvStutter DEF WriteBack, Inv, FilesOK
<1> HIDE DEF todo, f, c
<1>4. [retrieved[p] EXCEPT ![f] = c] \in [File -> Seq(Content) \cup {NoFile}]
  BY <1>2, <1>3
<1>5. retrieved' \in [Endpoint -> [File -> Seq(Content) \cup {NoFile}]]
  BY <1>3, <1>4
<1> QED  BY <1>1, <1>2, <1>3, <1>5, RetrieveNextOK

-----------------------------------------------------------------------------
(***************************************************************************)
(* What becomes of the exchanges of p while its main thread does nothing:  *)
(* they are lost, answered, or their answers kept.                         *)
(***************************************************************************)
Answers(m, r) ==
    /\ m.type \in Requests /\ r.type = ReplyType[m.type]
    /\ r.from = m.to /\ r.to = m.from /\ r.key = m.key

Proceeds(p) ==
    /\ main'[p] = main[p] /\ (p \in up' => p \in up)
    /\ \/ Open(p)' \subseteq Open(p) /\ responses'[p] = responses[p]
       \/ \E m \in Open(p) : \E r :
             /\ Answers(m, r)
             /\ Open(p)' \subseteq (Open(p) \ {m}) \cup {r}
             /\ responses'[p] = responses[p]
       \/ \E m \in Open(p) : /\ m.type \in Replies /\ p \in up
                             /\ Open(p)' \subseteq Open(p) \ {m}
                             /\ responses'[p] \subseteq responses[p] \cup {m}

\* The receive threads and the network.
LEMMA ReceiveProceeds ==
    ASSUME Inv, NEW q \in Endpoint, Receive(q), NEW p \in Endpoint
    PROVE  Proceeds(p)
<1>1. PICK m \in net : Handle(q, m)
  BY DEF Receive
<1>2. m \in Datagram /\ m.to = q /\ q \in up /\ main' = main /\ up' = up
  BY <1>1 DEF Inv, RecvInv, Receive, mainVars, Handle, HandleStore, HandleFindNode,
     HandleFindValue, HandleResponse, Receives
<1>3. ASSUME NEW r, m.type \in Requests, Answers(m, r), net' = (net \ {m}) \cup {r},
             responses' = responses
      PROVE  Proceeds(p)
  <2>1. r.type \in Replies /\ r.type \notin Requests
    BY <1>3, ReplyTypes DEF Answers, Requests
  <2>2. CASE m.from = p
    <3>1. m \in Open(p)
      BY <1>3, <2>2 DEF Open, Of
    <3>2. Open(p)' \subseteq (Open(p) \ {m}) \cup {r}
      BY <1>3 DEF Open
    <3> QED  BY <1>2, <1>3, <3>1, <3>2 DEF Proceeds
  <2>3. CASE m.from # p
    <3>1. ~Of(p, r)
      BY <1>3, <2>1, <2>3 DEF Of, Answers
    <3>2. Open(p)' \subseteq Open(p)
      BY <1>3, <3>1 DEF Open
    <3> QED  BY <1>2, <1>3, <3>2 DEF Proceeds
  <2> QED  BY <2>2, <2>3
<1>4. ASSUME NEW content, NEW nodes, m.type \in Requests
      PROVE  Answers(m, Reply(m, content, nodes))
  BY <1>4 DEF Answers, Reply
<1>5. CASE HandleStore(q, m) \/ HandleFindNode(q, m) \/ HandleFindValue(q, m)
  <2>1. m.type \in Requests /\ responses' = responses
    BY <1>5 DEF HandleStore, HandleFindNode, HandleFindValue, Requests
  <2>2. \E content, nodes : net' = (net \ {m}) \cup {Reply(m, content, nodes)}
    BY <1>5 DEF HandleStore, HandleFindNode, HandleFindValue, Answer
  <2> QED  BY <1>3, <1>4, <2>1, <2>2
<1>6. CASE HandleResponse(q, m)
  <2>1. net' = net \ {m} /\ responses' = Kept(q, m) /\ m.type \in Replies
    BY <1>6 DEF HandleResponse
  <2>2. Open(p)' \subseteq Open(p) \ {m}
    BY <2>1 DEF Open
  <2>3. CASE p = q
    <3>1. m \in Open(p)
      BY <1>2, <2>1, <2>3 DEF Open, Of
    <3>2. responses'[p] \subseteq responses[p] \cup {m}
      BY <2>1, <2>3 DEF Kept, Inv, RecvInv
    <3> QED  BY <1>2, <2>1, <2>2, <2>3, <3>1, <3>2 DEF Proceeds
  <2>4. CASE p # q
    <3>1. responses'[p] = responses[p]
      BY <2>1, <2>4 DEF Kept, Inv, RecvInv
    <3> QED  BY <1>2, <2>2, <3>1 DEF Proceeds
  <2> QED  BY <2>3, <2>4
<1> QED  BY <1>1, <1>5, <1>6 DEF Handle

LEMMA NetworkProceeds ==
    ASSUME Inv, NEW p \in Endpoint,
           \/ Bounced \/ Lost \/ UNCHANGED vars
           \/ \E q \in Endpoint : ReceiveFails(q) \/ Receive(q)
    PROVE  Proceeds(p)
<1>1. ASSUME Bounced \/ Lost PROVE Proceeds(p)
  BY <1>1 DEF Bounced, Lost, Bounce, Lose, mainVars, Proceeds, Open
<1>2. ASSUME UNCHANGED vars PROVE Proceeds(p)
  BY <1>2 DEF vars, recvVars, mainVars, Proceeds, Open
<1>3. ASSUME NEW q \in Endpoint, ReceiveFails(q) PROVE Proceeds(p)
  BY <1>3 DEF ReceiveFails, mainVars, Proceeds, Open
<1> QED  BY <1>1, <1>2, <1>3, ReceiveProceeds

\* Another process's main thread moves: it sends requests of its own.
Owns(q) ==
    /\ \A p \in Endpoint \ {q} : /\ main'[p] = main[p] /\ responses'[p] = responses[p]
                                /\ fault'[p] = fault[p]
    /\ \A m \in net' : m \in net \/ (m.type \in Requests /\ m.from = q)
    /\ up' \subseteq up \cup {q}

LEMMA OthersProceed ==
    ASSUME Inv, NEW q \in Endpoint, Owns(q), NEW p \in Endpoint \ {q}
    PROVE  Proceeds(p)
<1>1. Open(p)' \subseteq Open(p)
  <2> SUFFICES ASSUME NEW m \in net', Of(p, m) PROVE m \in net
    BY DEF Open
  <2>1. Requests \cap Replies = {}
    BY ReplyTypes DEF Requests
  <2> QED  BY <2>1 DEF Owns, Of
<1> QED  BY <1>1 DEF Owns, Proceeds

\* ... and is at no point where Began has something to say, unless it ends.
Moved(q) ==
    /\ Owns(q)
    /\ \/ main'[q].pc \notin {"off", "first_response"}
       \/ /\ main'[q].pc = "off" /\ q \notin up' /\ responses'[q] = {}
          /\ fault'[q] # "none"

\* The usual step: only the main thread's own locals.
LEMMA GoesAlone ==
    ASSUME Inv, NEW q \in Endpoint, UNCHANGED <<net, up, responses, fault>>,
           \A p \in Endpoint \ {q} : main'[p] = main[p],
           main'[q].pc \notin {"off", "first_response"}
    PROVE  Moved(q)
  BY DEF Moved, Owns

LEMMA Becomes ==
    ASSUME Inv, NEW q \in Endpoint, NEW t, Become(q, t)
    PROVE  main'[q] = t /\ \A p \in Endpoint \ {q} : main'[p] = main[p]
  BY DEF Become, Inv, Threads

LEMMA EndMoves ==
    ASSUME Inv, NEW q \in Endpoint, NEW why \in Ends, Terminate(q, why),
           net' \subseteq net
    PROVE  Moved(q)
<1>1. PICK t : t = Parked("off")
  OBVIOUS
<1>2. t.pc = "off" /\ Become(q, t)
  BY <1>1 DEF Parked, Terminate
<1>3. main'[q] = t /\ responses'[q] = {} /\ \A p \in Endpoint \ {q} : main'[p] = main[p]
  BY <1>2 DEF Become, Terminate, Inv, Threads, RecvInv
<1>4. /\ \A p \in Endpoint \ {q} : responses'[p] = responses[p] /\ fault'[p] = fault[p]
      /\ fault'[q] # "none"
  BY DEF Terminate, Inv, RecvInv, FilesOK, Ends
<1>5. up' = up \ {q}
  BY DEF Terminate
<1> QED  BY <1>2, <1>3, <1>4, <1>5 DEF Moved, Owns

LEMMA DiesMoves ==
    ASSUME Inv, NEW q \in Endpoint, NEW why \in Ends, Dies(q, why)
    PROVE  Moved(q)
<1>1. net' \subseteq net
  BY DEF Dies, HandleStoreCut
<1> QED  BY <1>1, EndMoves DEF Dies

LEMMA RetrieveNextMoves ==
    ASSUME Inv, NEW q \in Endpoint, NEW todo, RetrieveNext(q, todo),
           UNCHANGED <<net, up, responses, fault>>
    PROVE  Moved(q)
<1>1. CASE Become(q, Parked("idle"))
  <2>1. Parked("idle").pc = "idle"
    BY DEF Parked
  <2> QED  BY <1>1, <2>1, Becomes, GoesAlone
<1>2. ASSUME NEW f \in todo,
             Become(q, [Parked("retrieve") EXCEPT
                            !.op = "retrieve", !.file = f, !.todo = todo \ {f}])
      PROVE  Moved(q)
  <2>1. PICK u : u = [Parked("retrieve") EXCEPT
                          !.op = "retrieve", !.file = f, !.todo = todo \ {f}]
    OBVIOUS
  <2>2. u.pc = "retrieve"
    BY <2>1 DEF Parked
  <2> QED  BY <1>2, <2>1, <2>2, Becomes, GoesAlone
<1> QED  BY <1>1, <1>2, ZenonT(60) DEF RetrieveNext

\* The steps of a loop over a tracker.
LEMMA VisitMoves ==
    ASSUME Inv, NEW q \in Endpoint, NEW id, NEW m,
           \/ LookupSend(q, id) \/ LookupTake(q, id, m) \/ LookupDiscard(q, id, m)
           \/ WaitTake(q, id, m) \/ WaitMismatch(q, id, m)
           \/ KeepWaiting(q, id) \/ GiveUp(q, id)
    PROVE  Moved(q)
<1>1. /\ main[q] \in Local(q) /\ main[q].pc \in {"lookup", "wait"}
      /\ main = [p \in Endpoint |-> main[p]]
  BY DEF Inv, Threads, Thread, LookupSend, LookupTake, LookupDiscard, WaitTake,
     WaitMismatch, KeepWaiting, GiveUp, Visits
<1>2. main'[q].pc = main[q].pc /\ \A p \in Endpoint \ {q} : main'[p] = main[p]
  <2>1. CASE LookupSend(q, id)
    BY <1>1, <2>1 DEF LookupSend, Queried, Become, Local
  <2>2. CASE LookupTake(q, id, m)
    BY <1>1, <2>2 DEF LookupTake, Learned, Become, Local
  <2>3. CASE LookupDiscard(q, id, m) \/ WaitTake(q, id, m)
    BY <1>1, <2>3 DEF LookupDiscard, WaitTake, Become, Local
  <2>4. CASE WaitMismatch(q, id, m) \/ KeepWaiting(q, id)
    BY <1>1, <2>4 DEF WaitMismatch, KeepWaiting, StillOpen, Become, Local
  <2>5. CASE GiveUp(q, id)
    BY <1>1, <2>5 DEF GiveUp, TimedOut, Become, Local
  <2> QED  BY <2>1, <2>2, <2>3, <2>4, <2>5
<1>3. /\ up' = up /\ fault' = fault
      /\ \A p \in Endpoint \ {q} : responses'[p] = responses[p]
      /\ \A d \in net' : d \in net \/ (d.type \in Requests /\ d.from = q)
  BY DEF LookupSend, LookupTake, LookupDiscard, WaitTake, WaitMismatch, KeepWaiting,
     GiveUp, recvVars, Request, Requests, Inv, RecvInv
<1> QED  BY <1>1, <1>2, <1>3 DEF Moved, Owns

\* Those of bootstrap around its lookup.
LEMMA BootstrapMoves ==
    ASSUME Inv, NEW q \in Endpoint, NEW id, NEW m,
           \/ FirstResponse(q, m) \/ FirstResponseInvalid(q, m) \/ FirstResponseTimeout(q)
           \/ InsertNext(q, id) \/ InsertOwnId(q) \/ NextPass(q) \/ BootstrapLookupDone(q)
    PROVE  Moved(q)
<1>1. main[q] \in Local(q) /\ main = [p \in Endpoint |-> main[p]]
  BY DEF Inv, Threads, Thread
<1>2. CASE FirstResponse(q, m)
  <2>1. /\ main'[q].pc \in {"idle", "lookup"}
        /\ \A p \in Endpoint \ {q} : main'[p] = main[p]
    BY <1>1, <1>2 DEF FirstResponse, Become, Parked, Local
  <2>2. UNCHANGED <<net, up, responses, fault>>
    BY <1>2 DEF FirstResponse
  <2> QED  BY <2>1, <2>2, GoesAlone
<1>3. CASE FirstResponseInvalid(q, m) \/ FirstResponseTimeout(q)
  BY <1>3, DiesMoves DEF FirstResponseInvalid, FirstResponseTimeout, Ends
<1>4. ASSUME NEW i, InsertsNext(q, i), Become(q, Inserted(q, i))
      PROVE  /\ main'[q].pc \in {"idle", "insert"}
             /\ \A p \in Endpoint \ {q} : main'[p] = main[p]
  BY <1>1, <1>4 DEF InsertsNext, Inserted, Become, Parked, Local
<1>5. CASE InsertNext(q, id)
  <2>1. UNCHANGED <<net, up, responses, fault>>
    BY <1>5 DEF InsertNext
  <2> QED  BY <1>4, <1>5, <2>1, GoesAlone DEF InsertNext
<1>6. CASE InsertOwnId(q)
  <2>1. ASSUME UNCHANGED <<recvVars, fault>>, Become(q, Inserted(q, IdOf[q])) PROVE Moved(q)
    BY <1>4, <1>6, <2>1, GoesAlone DEF InsertOwnId, recvVars
  <2> QED  BY <1>6, <2>1, DiesMoves DEF InsertOwnId, Ends
<1>7. CASE NextPass(q) \/ BootstrapLookupDone(q)
  <2>1. /\ main'[q].pc \in {"wait", "lookup", "insert"}
        /\ \A p \in Endpoint \ {q} : main'[p] = main[p]
    <3>1. CASE NextPass(q)
      BY <1>1, <3>1 DEF NextPass, PassEnds, Become, Local
    <3>2. CASE BootstrapLookupDone(q)
      BY <1>1, <3>2 DEF BootstrapLookupDone, Become, Local
    <3> QED  BY <1>7, <3>1, <3>2
  <2>2. UNCHANGED <<net, up, responses, fault>>
    BY <1>7 DEF NextPass, BootstrapLookupDone, recvVars
  <2> QED  BY <2>1, <2>2, GoesAlone
<1> QED  BY <1>2, <1>3, <1>5, <1>6, <1>7

\* Those of store_file.
LEMMA StoreMoves ==
    ASSUME Inv, NEW q \in Endpoint, NEW f,
           \/ StoreCommand(q, f) \/ StorePiece(q) \/ StorePieceFails(q)
           \/ StoreLookupDone(q) \/ StoreWaitDone(q) \/ RecordMetadata(q)
    PROVE  Moved(q)
<1>1. main[q] \in Local(q) /\ main = [p \in Endpoint |-> main[p]]
  BY DEF Inv, Threads, Thread
<1>2. CASE StorePieceFails(q)
  BY <1>2, DiesMoves DEF StorePieceFails, StorePieceFault, Ends
<1>3. ASSUME ~StorePieceFails(q)
      PROVE  /\ main'[q].pc \notin {"off", "first_response"}
             /\ \A p \in Endpoint \ {q} : main'[p] = main[p]
  <2>1. CASE StoreCommand(q, f)
    BY <1>1, <2>1 DEF StoreCommand, Become, Parked
  <2>2. CASE StoreWaitDone(q)
    BY <1>1, <2>2 DEF StoreWaitDone, Become, Parked
  <2>3. CASE RecordMetadata(q)
    BY <1>1, <2>3 DEF RecordMetadata, Become, Parked
  <2>4. CASE StorePiece(q)
    BY <1>1, <2>4 DEF StorePiece, Become, Local
  <2>5. CASE StoreLookupDone(q)
    BY <1>1, <2>5 DEF StoreLookupDone, Become, Local
  <2> QED  BY <1>3, <2>1, <2>2, <2>3, <2>4, <2>5
<1>4. ASSUME ~StorePieceFails(q)
      PROVE  /\ up' = up /\ fault' = fault
             /\ \A p \in Endpoint \ {q} : responses'[p] = responses[p]
             /\ \A d \in net' : d \in net \/ (d.type \in Requests /\ d.from = q)
  BY <1>4 DEF StoreCommand, StorePiece, StoreLookupDone, StoreWaitDone, RecordMetadata,
     recvVars, Request, Requests, Inv, RecvInv
<1> QED  BY <1>2, <1>3, <1>4 DEF Moved, Owns

\* Those of retrieve_file and retrieve_directory.
LEMMA RetrieveMoves ==
    ASSUME Inv, NEW q \in Endpoint, NEW f,
           \/ RetrieveCommand(q, f) \/ RetrieveDirectory(q) \/ RetrievePiece(q)
           \/ RetrieveWaitDone(q) \/ RetrieveWaitFails(q) \/ WriteBack(q)
    PROVE  Moved(q)
<1>1. main[q] \in Local(q) /\ main = [p \in Endpoint |-> main[p]]
  BY DEF Inv, Threads, Thread
<1>2. CASE RetrievePiece(q)
  <2>1. main'[q].pc = "wait" /\ \A p \in Endpoint \ {q} : main'[p] = main[p]
    BY <1>1, <1>2 DEF RetrievePiece, Become, Local
  <2>2. /\ up' = up /\ fault' = fault
        /\ \A p \in Endpoint \ {q} : responses'[p] = responses[p]
        /\ \A d \in net' : d \in net \/ (d.type \in Requests /\ d.from = q)
    BY <1>2 DEF RetrievePiece, Request, Requests, Inv, RecvInv
  <2> QED  BY <2>1, <2>2 DEF Moved, Owns
<1>3. CASE RetrieveWaitDone(q)
  <2>1. PICK u : Become(q, u) /\ u.pc = "retrieve"
    BY <1>3, RetrieveWaitDoneIs
  <2>2. UNCHANGED <<net, up, responses, fault>>
    BY <1>3, RetrieveWaitDoneIs
  <2> QED  BY <2>1, <2>2, Becomes, GoesAlone
<1>4. CASE RetrieveCommand(q, f) \/ RetrieveDirectory(q) \/ RetrieveWaitFails(q)
           \/ WriteBack(q)
  <2>1. UNCHANGED <<net, up, responses, fault>> /\ \E todo : RetrieveNext(q, todo)
    BY <1>4 DEF RetrieveCommand, RetrieveDirectory, RetrieveWaitFails, WriteBack, recvVars
  <2> QED  BY <2>1, RetrieveNextMoves
<1> QED  BY <1>2, <1>3, <1>4

\* Whatever the main thread of q does but to start.
LEMMA MainMoves ==
    ASSUME Inv, NEW q \in Endpoint,
           \/ Step(q) \/ GivesUp(q) \/ (q \in Users /\ Command(q)) \/ Stop(q)
           \/ FindNodeOwnId(q) \/ (q = Boot /\ StartBoot)
    PROVE  Moved(q)
<1>1. CASE Step(q)
  BY <1>1, BootstrapMoves, VisitMoves, StoreMoves, RetrieveMoves DEF Step
<1>2. CASE GivesUp(q)
  BY <1>2, VisitMoves DEF GivesUp
<1>3. CASE Command(q)
  BY <1>3, StoreMoves, RetrieveMoves DEF Command
<1>4. CASE Stop(q)
  BY <1>4, DiesMoves DEF Stop, Ends
<1>5. CASE FindNodeOwnId(q)
  <2>1. Terminate(q, "out_of_bounds") /\ net' \subseteq net
    BY <1>5 DEF FindNodeOwnId
  <2> QED  BY <2>1, EndMoves DEF Ends
<1>6. CASE q = Boot /\ StartBoot
  <2>1. PICK t : t = Parked("serving")
    OBVIOUS
  <2>2. t.pc = "serving" /\ Become(q, t) /\ up' = up \cup {q}
        /\ UNCHANGED <<net, responses, fault>>
    BY <1>6, <2>1 DEF Parked, StartBoot
  <2>3. main'[q] = t /\ \A p \in Endpoint \ {q} : main'[p] = main[p]
    BY <2>2, Becomes
  <2> QED  BY <2>2, <2>3 DEF Moved, Owns
<1> QED  BY <1>1, <1>2, <1>3, <1>4, <1>5, <1>6

LEMMA StartOwns ==
    ASSUME Inv, NEW q \in Endpoint, Start(q)
    PROVE  Owns(q) /\ main'[q].pc = "first_response" /\ responses' = responses
<1> DEFINE r == Request("FIND_NODE", q, Boot, IdOf[q], NoContent)
<1>1. PICK t : t = [Parked("first_response") EXCEPT !.op = "bootstrap", !.target = IdOf[q]]
  OBVIOUS
<1>2. t.pc = "first_response" /\ Become(q, t)
  BY <1>1 DEF Parked, Start
<1>3. main'[q] = t /\ \A p \in Endpoint \ {q} : main'[p] = main[p]
  BY <1>2, Becomes
<1>4. r.type \in Requests /\ r.from = q
  BY DEF Request, Requests
<1>5. /\ net' = net \cup {r} /\ up' = up \cup {q} /\ responses' = responses
      /\ fault' = fault
  BY DEF Start
<1> QED  BY <1>2, <1>3, <1>4, <1>5 DEF Owns

LEMMA NextRestarts ==
    ASSUME MaxRestarts = 0, NoneRestarted, [Next]_vars
    PROVE  NoneRestarted'
<1>1. \/ UNCHANGED spent
      \/ spent' = [spent EXCEPT !.commands = @ + 1]
      \/ spent' = [spent EXCEPT !.stops = @ + 1]
      \/ spent.restarts < MaxRestarts
  BY DEF Next, vars, Receive, FindNodeOwnId, Step, GivesUp, Begin, Stop, ReceiveFails,
     Command, Bounced, Lost
<1> QED  BY <1>1 DEF NoneRestarted

LEMMA BeginIsFirst ==
    ASSUME MaxRestarts = 0, NoneRestarted, NEW p \in Endpoint, Begin(p)
    PROVE  ~Started(p)
  BY DEF NoneRestarted, Begin, Start, StartBoot, Started

LEMMA StartedStays ==
    ASSUME Inv, [Next]_vars, NEW p \in Endpoint, Started(p)
    PROVE  Started(p)'
<1>1. ASSUME NEW q \in Endpoint, Moved(q) PROVE Started(p)'
  BY <1>1 DEF Moved, Owns, Started
<1>2. ASSUME NEW q \in Endpoint, Start(q) PROVE Started(p)'
  <2>1. Owns(q) /\ main'[q].pc = "first_response"
    BY <1>2, StartOwns
  <2> QED  BY <2>1 DEF Owns, Started
<1>3. ASSUME \/ Bounced \/ Lost \/ UNCHANGED vars
             \/ \E q \in Endpoint : ReceiveFails(q) \/ Receive(q)
      PROVE  Started(p)'
  BY <1>3 DEF Bounced, Lost, ReceiveFails, Receive, vars, mainVars, Started
<1>4. ASSUME NEW q \in Users, Command(q) PROVE Started(p)'
  BY <1>1, <1>4, MainMoves, SetUpAssumption
<1>5. ASSUME NEW q \in Endpoint, Begin(q) PROVE Started(p)'
  BY <1>1, <1>2, <1>5, MainMoves DEF Begin
<1> QED  BY <1>1, <1>3, <1>4, <1>5, MainMoves DEF Next

\* A process that starts has nothing but its request to the bootstrap node.
LEMMA StartsAlone ==
    ASSUME Inv, Began, ~Stale, NEW q \in Endpoint, Start(q), Late => Begin(q)
    PROVE  \A m \in Open(q)' : m = Request("FIND_NODE", q, Boot, IdOf[q], NoContent)
<1> DEFINE r == Request("FIND_NODE", q, Boot, IdOf[q], NoContent)
<1>1. net' = net \cup {r}
  BY DEF Start
<1>2. SUFFICES ASSUME NEW m \in net, Of(q, m) PROVE FALSE
  BY <1>1 DEF Open
<1>3. CASE Late
  <2>1. MaxRestarts = 0 /\ NoneRestarted /\ Beginning(q) /\ Begin(q)
    BY <1>3 DEF Stale, Began
  <2>2. ~Started(q)
    BY <2>1, BeginIsFirst
  <2>3. m \in Open(q)
    BY <1>2 DEF Open
  <2> QED  BY <2>1, <2>2, <2>3 DEF Beginning
<1>4. CASE ~Late
  <2>1. m.from \in Endpoint /\ m.to \in Endpoint
    BY DEF Inv, RecvInv, Datagram, Message
  <2> QED  BY <1>2, <1>4, <2>1 DEF Start, Of, InFlight
<1> QED  BY <1>3, <1>4

LEMMA InitBegan == Init => Began
<1>0. Init => NoneRestarted
  BY DEF Init, NoneRestarted
<1> SUFFICES ASSUME Init, NEW p \in Endpoint PROVE Beginning(p)
  BY <1>0 DEF Began
<1>1. PICK pc \in {"serving", "idle", "off"} :
         main[p] = Parked(pc) /\ (pc = "off" => p \notin Joined \cup {Boot})
  BY DEF Init
<1>2. main[p].pc = pc
  BY <1>1 DEF Parked
<1> QED  BY <1>1, <1>2 DEF Init, Beginning, Open

\* A process whose exchanges just proceed.
LEMMA ProceedingBegan ==
    ASSUME Inv, [Next]_vars, NEW p \in Endpoint, Beginning(p), Proceeds(p)
    PROVE  Beginning(p)'
<1>1. /\ main[p].pc = "off" => p \notin up /\ responses[p] = {}
      /\ main[p].pc = "first_response" =>
             \A m \in Open(p) \cup responses[p] : Partner(p, m) = Boot
      /\ ~Started(p) => Open(p) = {}
  BY DEF Beginning
<1>2. ASSUME NEW m \in Open(p), NEW r, Answers(m, r)
      PROVE  Partner(p, r) = Partner(p, m)
  BY <1>2, ReplyTypes DEF Answers, Partner, Open, Of, Requests, Inv, RecvInv, Datagram
<1>3. /\ main'[p].pc = "off" => p \notin up' /\ responses'[p] = {}
      /\ main'[p].pc = "first_response" =>
             \A m \in Open(p)' \cup responses'[p] : Partner(p, m) = Boot
  BY <1>1, <1>2 DEF Proceeds
<1>4. ~Started(p)' => Open(p)' = {}
  BY <1>1, StartedStays DEF Proceeds
<1> QED  BY <1>3, <1>4 DEF Beginning, Partner

LEMMA NextBegan == Inv /\ Began /\ [Next]_vars => Began'
<1> SUFFICES ASSUME Inv, Began, [Next]_vars, ~Stale, \A q \in Endpoint : Beginning(q)
             PROVE  (Late => NoneRestarted') /\ \A p \in Endpoint : Beginning(p)'
  BY DEF Began, Stale
<1>1. Late => NoneRestarted'
  BY NextRestarts DEF Began, Stale
<1> SUFFICES ASSUME NEW p \in Endpoint PROVE Beginning(p)'
  BY <1>1
<1>2. ASSUME NEW q \in Endpoint, Moved(q) PROVE Beginning(p)'
  <2>1. CASE p = q
    BY <1>2, <2>1 DEF Moved, Beginning, Started
  <2> QED  BY <1>2, <2>1, OthersProceed, ProceedingBegan DEF Moved
<1>3. ASSUME NEW q \in Endpoint, Begin(q), Start(q) PROVE Beginning(p)'
  <2>1. /\ Owns(q) /\ main'[q].pc = "first_response" /\ responses' = responses
        /\ \A m \in Open(q)' : m = Request("FIND_NODE", q, Boot, IdOf[q], NoContent)
    BY <1>3, StartOwns, StartsAlone
  <2>2. responses[q] = {} /\ q # Boot
    BY <1>3 DEF Start, Beginning
  <2>3. CASE p = q
    BY <2>1, <2>2, <2>3 DEF Beginning, Started, Partner, Request
  <2> QED  BY <2>1, <2>3, OthersProceed, ProceedingBegan
<1>4. CASE \/ Bounced \/ Lost \/ UNCHANGED vars
           \/ \E q \in Endpoint : ReceiveFails(q) \/ Receive(q)
  BY <1>4, NetworkProceeds, ProceedingBegan
<1>5. ASSUME NEW q \in Users, Command(q) PROVE Moved(q) /\ q \in Endpoint
  BY <1>5, MainMoves, SetUpAssumption
<1>6. ASSUME NEW q \in Endpoint, Begin(q), ~Start(q) PROVE Moved(q)
  BY <1>6, MainMoves DEF Begin
<1> QED  BY <1>2, <1>3, <1>4, <1>5, <1>6, MainMoves DEF Next

-----------------------------------------------------------------------------
LEMMA InitInv == Init => Inv
<1> SUFFICES ASSUME Init PROVE Inv
  OBVIOUS
<1>1. RecvInv
  <2>1. /\ net = {} /\ up = Joined \cup {Boot} /\ rt = Tables
        /\ disk = [p \in Endpoint |-> [key \in ID |-> NoContent]]
        /\ responses = [p \in Endpoint |-> {}]
    BY DEF Init
  <2>2. up \subseteq Endpoint
    BY <2>1, SetUpAssumption, FilesAssumption
  <2>3. ASSUME NEW p \in Endpoint PROVE ContactsOK(p, rt[p])
    <3>1. Tables[p] \in Table /\ WellFormed(IdOf[p], Tables[p]) /\ IdOf[p] \in ID
      BY SetUpAssumption, TablesAssumption, IdsDiffer
    <3>2. AllNodes(Tables[p]) \subseteq Node
      BY <3>1, AllNodesType
    <3>3. \A n \in AllNodes(Tables[p]) : n.id = IdOf[n.ep]
      BY TablesAssumption
    <3> QED  BY <2>1, <3>1, <3>2, <3>3 DEF ContactsOK, TableOK, Paired
  <2>4. [key \in ID |-> NoContent] \in Disk
    BY DEF Disk
  <2>5. rt \in [Endpoint -> Table]
    BY <2>1, SetUpAssumption
  <2> QED  BY <2>1, <2>2, <2>3, <2>4, <2>5 DEF RecvInv
<1>2. Threads
  <2>1. main = [p \in Endpoint |-> Parked(IF p = Boot THEN "serving"
                                          ELSE IF p \in Joined THEN "idle" ELSE "off")]
    BY DEF Init
  <2>2. ASSUME NEW p \in Endpoint PROVE Thread(p, main[p], metadata[p])
    <3>1. PICK pc \in {"off", "idle", "serving"} :
             main[p] = Parked(pc) /\ (p = Boot => pc # "idle")
      BY <2>1
    <3> QED  BY <3>1, ParkedOK
  <2>3. main = [p \in Endpoint |-> main[p]]
    BY <2>1
  <2> QED  BY <2>2, <2>3 DEF Threads
<1>3. FilesOK
  BY DEF Init, FilesOK, FileOK
<1> QED  BY <1>1, <1>2, <1>3 DEF Inv

LEMMA StepOK ==
    ASSUME Inv, Began, NEW p \in Endpoint, Step(p)
    PROVE  Inv'
<1>1. ASSUME NEW m, FirstResponse(p, m) \/ FirstResponseInvalid(p, m) PROVE Inv'
  BY <1>1, FirstResponseOK, FirstResponseInvalidOK
<1>2. ASSUME NEW id, InsertNext(p, id) \/ LookupSend(p, id) \/ KeepWaiting(p, id) PROVE Inv'
  BY <1>2, InsertNextOK, LookupSendOK, LookupDiscardOK
<1>3. ASSUME NEW id, NEW m, \/ LookupTake(p, id, m) \/ LookupDiscard(p, id, m)
                            \/ WaitTake(p, id, m) \/ WaitMismatch(p, id, m)
      PROVE  Inv'
  BY <1>3, LookupTakeOK, LookupDiscardOK, WaitTakeOK
<1>4. ASSUME \/ FirstResponseTimeout(p) \/ InsertOwnId(p) \/ NextPass(p)
             \/ BootstrapLookupDone(p)
             \/ StorePiece(p) \/ StorePieceFails(p) \/ StoreLookupDone(p)
             \/ StoreWaitDone(p) \/ RecordMetadata(p)
      PROVE  Inv'
  BY <1>4, FirstResponseTimeoutOK, InsertOwnIdOK, NextPassOK, BootstrapLookupDoneOK,
     StorePieceOK, StorePieceFailsOK, StoreLookupDoneOK, StoreWaitDoneOK, RecordMetadataOK
<1>5. ASSUME \/ RetrievePiece(p) \/ RetrieveWaitDone(p) \/ RetrieveWaitFails(p)
             \/ WriteBack(p)
      PROVE  Inv'
  BY <1>5, RetrievePieceOK, RetrieveWaitDoneOK, RetrieveWaitFailsOK, WriteBackOK
<1> QED  BY <1>1, <1>2, <1>3, <1>4, <1>5 DEF Step

LEMMA NetworkOK ==
    ASSUME Inv, Bounced \/ Lost \/ (\E p \in Endpoint : Receive(p))
    PROVE  Inv'
<1>1. Threads' /\ FilesOK'
  BY DEF Bounced, Lost, Receive, Inv, Threads, FilesOK, mainVars
<1>2. ASSUME NEW p \in Endpoint, Receive(p) PROVE RecvInv'
  BY <1>2, HandleOK DEF Receive, Inv
<1>3. ASSUME Bounced \/ Lost PROVE RecvInv'
  BY <1>3 DEF Bounced, Lost, Bounce, Lose, Inv, RecvInv
<1>4. RecvInv'
  BY <1>2, <1>3
<1> QED  BY <1>1, <1>4 DEF Inv

LEMMA NextInv == Inv /\ Began /\ [Next]_vars => Inv'
<1> SUFFICES ASSUME Inv, Began, [Next]_vars PROVE Inv'
  OBVIOUS
<1>1. ASSUME Bounced \/ Lost \/ (\E p \in Endpoint : Receive(p)) PROVE Inv'
  BY <1>1, NetworkOK
<1>2. ASSUME NEW p \in Endpoint,
             \/ FindNodeOwnId(p) \/ Step(p) \/ Stop(p) \/ ReceiveFails(p)
      PROVE  Inv'
  BY <1>2, FindNodeOwnIdOK, StepOK, StopOK, ReceiveFailsOK
<1>3. ASSUME NEW p \in Endpoint, GivesUp(p) PROVE Inv'
  BY <1>3, GiveUpOK DEF GivesUp
<1>4. ASSUME NEW p \in Endpoint, Begin(p) PROVE Inv'
  BY <1>4, StartOK, StartBootOK DEF Begin
<1>5. ASSUME NEW p \in Users, Command(p) PROVE Inv'
  <2>1. p \in Endpoint
    BY SetUpAssumption
  <2>2. ASSUME NEW f \in File, StoreCommand(p, f) \/ RetrieveCommand(p, f) PROVE Inv'
    BY <2>1, <2>2, StoreCommandOK, RetrieveCommandOK
  <2>3. ASSUME RetrieveDirectory(p) PROVE Inv'
    <3>1. PICK f \in File : TRUE
      BY <2>3 DEF RetrieveDirectory, Known
    <3> QED  BY <2>1, <2>3, <3>1, RetrieveCommandOK
  <2> QED  BY <1>5, <2>2, <2>3 DEF Command
<1>6. ASSUME UNCHANGED vars PROVE Inv'
  <2>1. RecvInv'
    BY <1>6, RecvStutter DEF Inv, vars
  <2>2. Threads' /\ FilesOK'
    BY <1>6 DEF Inv, Threads, FilesOK, vars, mainVars
  <2> QED  BY <2>1, <2>2 DEF Inv
<1> QED  BY <1>1, <1>2, <1>3, <1>4, <1>5, <1>6 DEF Next

LEMMA Invariance == Spec => [](Inv /\ Began)
  BY InitInv, NextInv, InitBegan, NextBegan, PTL DEF Spec

-----------------------------------------------------------------------------
(***************************************************************************)
(* TypeOK, for every number of processes, ids, files and pieces.           *)
(***************************************************************************)
LEMMA InvTypes == Inv => TypeOK
<1> SUFFICES ASSUME Inv PROVE TypeOK
  OBVIOUS
<1>1. \A p : Peers(p) \subseteq Node /\ Incoming(p) \subseteq Message
  BY DEF Peers, Paired, Incoming, Datagram
<1>2. ASSUME NEW p \in Endpoint, NEW lines \in Seq(Entry(p)), NEW e \in Range(lines)
      PROVE  e.key \in ID /\ e.nodes \subseteq Node
  <2>1. Range(lines) \in SUBSET Entry(p)
    BY RangeOfSeq
  <2>2. e \in Entry(p)
    BY <2>1
  <2> QED  BY <1>1, <2>2 DEF Entry
<1>3. ASSUME NEW p \in Endpoint PROVE MainOK(main[p])
  <2> DEFINE t == main[p]
  <2>1. t \in Local(p)
    BY DEF Inv, Threads, Thread
  <2> HIDE DEF t
  <2>2. DOMAIN t = DOMAIN Parked("off")
    BY <2>1 DEF Local, Parked
  <2>3. t.pc \in PCs /\ t.op \in Ops /\ t.file \in File \cup {NoFile} /\ t.todo \subseteq File
        /\ t.target \in ID /\ t.completed \in BOOLEAN
        /\ t.tracker \in Tracker /\ t.entries \in Seq(Entry(p)) /\ t.contents \in Seq(Content)
        /\ t.cursor \in {{}} \cup {{id} : id \in ID} /\ t.answers \in Seq(Taken(p))
    BY <2>1 DEF Local
  <2>4. \A e \in Range(t.entries) : e.key \in ID /\ e.nodes \subseteq Node
    BY <1>2, <2>3
  <2>5. Range(t.contents) \in SUBSET Content /\ Range(t.answers) \in SUBSET Taken(p)
    BY <2>3, RangeOfSeq
  <2>6. \A a \in Range(t.answers) : a.node \in Node /\ a.msg \in Message
    BY <1>1, <2>5 DEF Taken
  <2>7. TrackerOK(t.tracker)
    BY <2>3 DEF Tracker, TrackerOK
  <2>8. t.cursor \subseteq ID /\ Cardinality(t.cursor) < 2
    <3>1. CASE t.cursor = {}
      BY <3>1, FS_EmptySet
    <3>2. ASSUME NEW id \in ID, t.cursor = {id} PROVE t.cursor \subseteq ID /\ Cardinality(t.cursor) < 2
      <4>1. Cardinality({id}) = 1
        BY FS_Singleton
      <4> QED  BY <3>2, <4>1
    <3> QED  BY <2>3, <3>1, <3>2
  <2>9. MainOK(t)
    BY <2>2, <2>3, <2>4, <2>5, <2>6, <2>7, <2>8 DEF MainOK
  <2> QED  BY <2>9 DEF t
<1>4. ASSUME NEW p \in Endpoint, NEW f \in File, NEW e \in Range(Recorded(p, f))
      PROVE  e.key \in ID /\ e.nodes \subseteq Node
  <2>1. metadata[p][f] # NoFile => metadata[p][f] \in Seq(Entry(p))
    BY DEF Inv, FilesOK, FileOK
  <2>2. Recorded(p, f) \in Seq(Entry(p))
    BY <2>1 DEF Recorded, Known
  <2> QED  BY <1>2, <2>2
<1>5. ASSUME NEW p \in Endpoint, NEW f \in File, retrieved[p][f] # NoFile
      PROVE  Range(retrieved[p][f]) \subseteq Content
  <2>1. retrieved[p][f] \in Seq(Content)
    BY <1>5 DEF Inv, FilesOK
  <2> QED  BY <2>1, RangeOfSeq
<1>6. net \subseteq Message /\ up \subseteq Endpoint
  BY DEF Inv, RecvInv, Datagram
<1>7. \A p \in Endpoint : /\ rt[p] \in Table /\ disk[p] \in [ID -> Content \cup {NoContent}]
                         /\ responses[p] \subseteq Message
  BY DEF Inv, RecvInv, Datagram, Disk
<1>8. fault \in [Endpoint -> {"none", "stopped", "assert", "exit", "id_clash",
                              "nobody_known", "out_of_bounds"}]
  BY DEF Inv, FilesOK, Ends
<1> QED  BY <1>3, <1>4, <1>5, <1>6, <1>7, <1>8 DEF TypeOK

\* Types of the whole system, for all processes, ids and files: what handlers put into
\* messages and tables, what commands put into trackers and files.
THEOREM TypeCorrect == Spec => []TypeOK
  BY Invariance, InvTypes, PTL

(***************************************************************************)
(* MetadataComplete: whenever processes end or are started again, and      *)
(* however late the answers come, a metadata file has the hash of every    *)
(* piece in its place, and what a disk holds is filed under its own hash.  *)
(***************************************************************************)
LEMMA InvComplete == Inv => MetadataComplete
<1> SUFFICES ASSUME Inv PROVE MetadataComplete
  OBVIOUS
<1>1. ASSUME NEW p \in Endpoint, NEW f \in Known(p)
      PROVE  \/ [k \in DOMAIN metadata[p][f] |-> metadata[p][f][k].key]
                    = [k \in DOMAIN Pieces[f] |-> HashOf[Pieces[f][k]]]
             \/ metadata[p][f] = <<>> /\ fault[p] # "none"
  <2> DEFINE lines == metadata[p][f]
  <2>1. f \in File /\ lines # NoFile
    BY DEF Known
  <2>2. /\ lines \in Seq(Entry(p))
        /\ Complete(f, lines) \/ (lines = <<>> /\ fault[p] # "none")
    BY <2>1 DEF Inv, FilesOK, FileOK
  <2> HIDE DEF lines
  <2>3. ASSUME Complete(f, lines)
        PROVE  [k \in DOMAIN lines |-> lines[k].key]
                   = [k \in DOMAIN Pieces[f] |-> HashOf[Pieces[f][k]]]
    <3>1. Pieces[f] \in Seq(Content \cup {NoContent})
      BY <2>1, FilesAssumption
    <3>2. DOMAIN lines = DOMAIN Pieces[f]
      BY <2>2, <2>3, <3>1, LenProperties DEF Complete
    <3> QED  BY <2>3, <3>2 DEF Complete
  <2> QED  BY <2>2, <2>3 DEF lines
<1>2. \A p \in Endpoint, key \in ID : disk[p][key] # NoContent => HashOf[disk[p][key]] = key
  BY DEF Inv, RecvInv, Disk
<1> QED  BY <1>1, <1>2 DEF MetadataComplete

\* interface.cpp:303, "we need all the piece hash": store_file writes a line for each
\* piece, and storage.cpp files a content under its hash, in all executions.
THEOREM MetadataIsComplete == Spec => []MetadataComplete
  BY Invariance, InvComplete, PTL

(***************************************************************************)
(* UnqueriedLieBehind: what a lookup leaves without a query was brought to *)
(* it, in the last pass, by a node behind it.                              *)
(***************************************************************************)
LEMMA InvBehind == Inv => UnqueriedLieBehind
<1> SUFFICES ASSUME Inv, NEW p \in Endpoint, LookupReturns(p),
                    NEW n \in Tracked(main[p].tracker, "NO_ACTION")
             PROVE  \E m \in Tracked(main[p].tracker, "REQUEST_RECEIVED") : Less(n.id, m.id)
  BY DEF UnqueriedLieBehind
<1> DEFINE tracker == main[p].tracker
<1>1. /\ tracker \in Tracker /\ PassedNone(main[p]) /\ main[p].pc = "lookup"
      /\ Ahead(main[p]) = {}
  BY DEF Inv, Threads, Thread, Local, LookupReturns, PassEnds
<1>2. n.id \in DOMAIN tracker /\ tracker[n.id].status = "NO_ACTION"
  BY <1>1, TrackedNodes
<1>3. PICK i \in DOMAIN tracker : tracker[i].status = "REQUEST_RECEIVED" /\ Less(n.id, i)
  BY <1>1, <1>2 DEF PassedNone
<1>4. [id |-> i, ep |-> tracker[i].ep] \in Tracked(tracker, "REQUEST_RECEIVED")
  BY <1>3 DEF Tracked
<1> QED  BY <1>3, <1>4

\* find_id_recursively (networking.cpp:405) passes no entry by without a query, except
\* one that came with an answer from a node behind it.
THEOREM NothingSkipped == Spec => []UnqueriedLieBehind
  BY Invariance, InvBehind, PTL

(***************************************************************************)
(* TablesAreRoutingTables: the two threads change a process's table only   *)
(* by insert_node of another process's id, until the process ends.         *)
(***************************************************************************)
TablesMove ==
    \A p \in Endpoint :
        \/ UNCHANGED rt[p] \/ Inserts(p)
        \/ main'[p].pc = "off" /\ rt'[p] = EmptyTable

LEMMA OneInserts ==
    ASSUME Inv, NEW p \in Endpoint, NEW id \in ID \ {IdOf[p]}, NEW ep \in Endpoint,
           rt' = [rt EXCEPT ![p] = InsertNode(IdOf[p], rt[p], id, ep)]
    PROVE  TablesMove
<1>1. Inserts(p)
  BY DEF Inserts, Inv, RecvInv
<1>2. \A q \in Endpoint \ {p} : UNCHANGED rt[q]
  BY DEF Inv, RecvInv
<1> QED  BY <1>1, <1>2 DEF TablesMove

LEMMA EndsClear ==
    ASSUME Inv, NEW p \in Endpoint, NEW why, Terminate(p, why)
    PROVE  TablesMove
<1>1. rt'[p] = EmptyTable /\ \A q \in Endpoint \ {p} : UNCHANGED rt[q]
  BY DEF Terminate, Inv, RecvInv
<1>2. main'[p].pc = "off"
  BY DEF Terminate, Become, Parked, Inv, Threads
<1> QED  BY <1>1, <1>2 DEF TablesMove

LEMMA ReceiveInserts ==
    ASSUME Inv, NEW p \in Endpoint, Receive(p)
    PROVE  TablesMove
<1>1. PICK m \in net : Handle(p, m)
  BY DEF Receive
<1>2. m.from \in Endpoint /\ m.to \in Endpoint /\ m.from # m.to
  BY DEF Inv, RecvInv, Datagram, Message
<1>3. IdOf[m.from] \in ID \ {IdOf[m.to]}
  BY <1>2, IdsDiffer
<1>4. rt' = rt \/ rt' = Noticed(m)
  BY <1>1 DEF Handle, HandleStore, HandleFindNode, HandleFindValue, HandleResponse
<1>5. CASE rt' = rt
  BY <1>5 DEF TablesMove
<1>6. CASE rt' = Noticed(m)
  BY <1>2, <1>3, <1>6, OneInserts DEF Noticed
<1> QED  BY <1>4, <1>5, <1>6

LEMMA StepInserts ==
    ASSUME Inv, NEW p \in Endpoint, Step(p)
    PROVE  TablesMove
<1>1. ASSUME NEW m, FirstResponse(p, m) PROVE TablesMove
  <2>1. m.from \in Endpoint /\ m.from # p
    BY <1>1 DEF FirstResponse, IsFirst, Inv, RecvInv, Incoming, Datagram, Message
  <2>2. IdOf[m.from] \in ID \ {IdOf[p]} /\ Boot \in Endpoint
    BY <2>1, IdsDiffer, FilesAssumption
  <2> QED  BY <1>1, <2>2, OneInserts DEF FirstResponse
<1>2. ASSUME NEW id, InsertNext(p, id) PROVE TablesMove
  <2>1. main[p].tracker \in Tracker /\ id \in DOMAIN main[p].tracker /\ id # IdOf[p]
    BY <1>2 DEF Inv, Threads, Thread, Local, InsertNext, InsertsNext
  <2>2. id \in ID \ {IdOf[p]} /\ main[p].tracker[id].ep \in Endpoint
    BY <2>1, TrackerElements
  <2> QED  BY <1>2, <2>2, OneInserts DEF InsertNext
<1>3. ASSUME NEW why, Dies(p, why) PROVE TablesMove
  BY <1>3, EndsClear DEF Dies
<1>4. ASSUME UNCHANGED rt PROVE TablesMove
  BY <1>4 DEF TablesMove
<1>5. ASSUME NEW m, FirstResponseInvalid(p, m) PROVE TablesMove
  BY <1>3, <1>5 DEF FirstResponseInvalid
<1>6. ASSUME FirstResponseTimeout(p) \/ InsertOwnId(p) \/ StorePieceFails(p) PROVE TablesMove
  BY <1>3, <1>4, <1>6 DEF FirstResponseTimeout, InsertOwnId, StorePieceFails, recvVars
<1>7. ASSUME NEW id, NEW m, \/ LookupTake(p, id, m) \/ LookupDiscard(p, id, m)
                            \/ WaitTake(p, id, m) \/ WaitMismatch(p, id, m)
                            \/ LookupSend(p, id) \/ KeepWaiting(p, id)
      PROVE  TablesMove
  BY <1>4, <1>7 DEF LookupTake, LookupDiscard, WaitTake, WaitMismatch, LookupSend,
     KeepWaiting, recvVars
<1>8. ASSUME \/ NextPass(p) \/ BootstrapLookupDone(p) \/ StorePiece(p) \/ StoreLookupDone(p)
             \/ StoreWaitDone(p) \/ RecordMetadata(p)
      PROVE  TablesMove
  BY <1>4, <1>8 DEF NextPass, BootstrapLookupDone, StorePiece, StoreLookupDone, StoreWaitDone,
     RecordMetadata, recvVars
<1>9. ASSUME RetrievePiece(p) \/ RetrieveWaitDone(p) PROVE TablesMove
  <2>1. ASSUME RetrieveWaitDone(p) PROVE UNCHANGED recvVars
    BY <2>1 DEF RetrieveWaitDone
  <2> QED  BY <1>4, <1>9, <2>1 DEF RetrievePiece, recvVars
<1>10. ASSUME RetrieveWaitFails(p) PROVE TablesMove
  BY <1>4, <1>10 DEF RetrieveWaitFails, recvVars
<1>11. ASSUME WriteBack(p) PROVE TablesMove
  BY <1>4, <1>11 DEF WriteBack, recvVars
<1> QED  BY <1>1, <1>2, <1>5, <1>6, <1>7, <1>8, <1>9, <1>10, <1>11 DEF Step

LEMMA NextInserts == Inv /\ [Next]_vars => [TablesMove]_<<rt, main>>
<1> SUFFICES ASSUME Inv, [Next]_vars PROVE [TablesMove]_<<rt, main>>
  OBVIOUS
<1>1. ASSUME UNCHANGED rt PROVE TablesMove
  BY <1>1 DEF TablesMove
<1>2. ASSUME NEW p \in Endpoint, Receive(p) \/ Step(p) PROVE TablesMove
  BY <1>2, ReceiveInserts, StepInserts
<1>3. ASSUME NEW p \in Endpoint, FindNodeOwnId(p) \/ Stop(p) PROVE TablesMove
  BY <1>3, EndsClear DEF FindNodeOwnId, Stop, Dies
<1>4. ASSUME NEW p \in Endpoint, GivesUp(p) \/ Begin(p) \/ ReceiveFails(p) PROVE TablesMove
  BY <1>1, <1>4 DEF GivesUp, GiveUp, Begin, Start, StartBoot, ReceiveFails, recvVars
<1>5. ASSUME NEW p \in Users, Command(p) PROVE TablesMove
  <2>1. ASSUME NEW f, StoreCommand(p, f) \/ RetrieveCommand(p, f) PROVE UNCHANGED rt
    BY <2>1 DEF StoreCommand, RetrieveCommand, recvVars
  <2>2. ASSUME RetrieveDirectory(p) PROVE UNCHANGED rt
    BY <2>2 DEF RetrieveDirectory, recvVars
  <2> QED  BY <1>1, <1>5, <2>1, <2>2 DEF Command
<1>6. ASSUME Bounced \/ Lost PROVE TablesMove
  BY <1>1, <1>6 DEF Bounced, Lost, Bounce, Lose
<1>7. ASSUME UNCHANGED vars PROVE TablesMove
  BY <1>1, <1>7 DEF vars, recvVars
<1> QED  BY <1>2, <1>3, <1>4, <1>5, <1>6, <1>7 DEF Next

\* insert_node is all that networking.cpp calls on the table of a process, from both
\* threads: nobody in it is removed or moved while the process runs.
THEOREM TablesOnlyInsert == Spec => TablesAreRoutingTables
<1>1. Spec => [][TablesMove]_<<rt, main>>
  BY Invariance, NextInserts, PTL DEF Spec
<1> QED  BY <1>1 DEF TablesAreRoutingTables, TablesMove

(***************************************************************************)
(* Every table in the system is always one that RoutingTable's class can   *)
(* have: contacts in their buckets, none twice, no bucket above K.         *)
(***************************************************************************)
THEOREM TablesStayWellFormed == Spec => [](\A p \in Endpoint : WellFormed(IdOf[p], rt[p]))
<1>1. Inv => \A p \in Endpoint : WellFormed(IdOf[p], rt[p])
  BY DEF Inv, RecvInv, ContactsOK, TableOK
<1> QED  BY <1>1, Invariance, PTL

(***************************************************************************)
(* RoutingSound: every id travels with the endpoint of its own process,    *)
(* whatever is lost and whoever ends, as long as no answer outlives        *)
(* TIMEOUT_LIMIT or nobody is started again.                               *)
(***************************************************************************)
LEMMA InvSound ==
    ASSUME Inv, ~Stale
    PROVE  RoutingSound
<1>1. ASSUME NEW n \in Paired PROVE n.id = IdOf[n.ep]
  BY <1>1 DEF Paired
<1>2. \A p \in Endpoint : AllNodes(rt[p]) \subseteq Paired
  BY DEF Inv, RecvInv, ContactsOK
<1>3. \A m \in net : m.nodes \subseteq Paired
  BY DEF Inv, RecvInv, Datagram
<1>4. \A p \in Endpoint : \A m \in responses[p] : m.nodes \subseteq Paired
  BY DEF Inv, RecvInv, Incoming, Datagram
<1>5. ASSUME NEW p \in Endpoint, NEW s PROVE Tracked(main[p].tracker, s) \subseteq Paired
  BY TrackedNodes DEF Inv, Threads, Thread, Local
<1>6. ASSUME NEW p \in Endpoint, NEW f \in File, NEW e \in Range(Recorded(p, f))
      PROVE  e.nodes \subseteq Paired
  <2>1. FileOK(p, f, metadata[p][f], fault[p])
    BY DEF Inv, FilesOK
  <2>2. Recorded(p, f) \in Seq(Entry(p))
    BY <2>1 DEF Recorded, Known, FileOK
  <2>3. e \in Entry(p)
    BY <2>2, ElementOfSeq, LenProperties DEF Range
  <2> QED  BY <2>3 DEF Entry, Peers
<1>7. KnownNodes \subseteq Paired
  BY <1>2, <1>3, <1>4, <1>5, <1>6 DEF KnownNodes
<1> QED  BY <1>1, <1>7 DEF RoutingSound

\* handle_communication is called with the id of the header and the endpoint of the
\* socket; everything that is made of the pair later still names one process.
THEOREM RoutingIsSound ==
    ASSUME ~Stale
    PROVE  Spec => []RoutingSound
<1>1. Inv => RoutingSound
  BY InvSound
<1> QED  BY <1>1, Invariance, PTL

-----------------------------------------------------------------------------
(***************************************************************************)
(* Processes that start for the first time.  Until the bootstrap node has  *)
(* received its request, nobody there knows a process: only the header of  *)
(* a datagram, or the table of somebody it reached before, would tell.     *)
(***************************************************************************)
FirstStarts ==
    /\ MaxRestarts = 0
    /\ \A p \in Endpoint : \A n \in AllNodes(Tables[p]) : n.ep \in Joined \cup {Boot}

Unknown(p) == \A n \in AllNodes(rt[Boot]) : n.id # IdOf[p]

FirstRequest(p) == Request("FIND_NODE", p, Boot, IdOf[p], NoContent)

Newcomer(p) ==
    /\ ~Started(p) => Open(p) = {} /\ responses[p] = {} /\ Unknown(p)
    /\ main[p].pc = "first_response" =>
          /\ \A m \in Open(p) : m.type \in Requests => m = FirstRequest(p) /\ Unknown(p)
          /\ \A m \in Open(p) \cup responses[p] :
                m.type \in Replies => /\ m.type = "FIND_NODE_RESPONSE"
                                       /\ \A n \in m.nodes : n.id # IdOf[p]
    /\ IdOf[p] \notin DOMAIN main[p].tracker

Newcomers == NoneRestarted /\ \A p \in Endpoint : Newcomer(p)

LEMMA FirstRequestIs ==
    ASSUME NEW p \in Endpoint
    PROVE  /\ FirstRequest(p).type = "FIND_NODE" /\ FirstRequest(p).type \in Requests
           /\ FirstRequest(p).from = p /\ FirstRequest(p).to = Boot
  BY DEF FirstRequest, Request, Requests

LEMMA InitNewcomers == ASSUME FirstStarts PROVE Init => Newcomers
<1> SUFFICES ASSUME Init, NEW p \in Endpoint PROVE Newcomer(p)
  BY DEF Init, Newcomers, NoneRestarted
<1>1. PICK pc : /\ pc = IF p = Boot THEN "serving" ELSE IF p \in Joined THEN "idle" ELSE "off"
                /\ main[p] = Parked(pc)
  BY DEF Init
<1>2. main[p].pc = pc /\ DOMAIN main[p].tracker = {}
  BY <1>1 DEF Parked
<1>3. net = {} /\ responses[p] = {} /\ rt = Tables
  BY DEF Init
<1>4. ~Started(p) => Unknown(p)
  <2> SUFFICES ASSUME ~Started(p), NEW n \in AllNodes(Tables[Boot]) PROVE n.id # IdOf[p]
    BY <1>3 DEF Unknown
  <2>1. p \notin Joined \cup {Boot}
    BY <1>1, <1>2 DEF Started
  <2>2. n.id = IdOf[n.ep] /\ n.ep \in Joined \cup {Boot} /\ n.ep \in Endpoint
    BY TablesAssumption, FilesAssumption, SetUpAssumption DEF FirstStarts
  <2> QED  BY <2>1, <2>2, IdsDiffer
<1> QED  BY <1>1, <1>2, <1>3, <1>4 DEF Newcomer, Open

\* A main thread touches its own table only, and starts no receive thread.
LEMMA StepTables ==
    ASSUME Inv, NEW p \in Endpoint, Step(p)
    PROVE  up' \subseteq up /\ \A q \in Endpoint \ {p} : rt'[q] = rt[q]
<1> DEFINE Goal == up' \subseteq up /\ \A q \in Endpoint \ {p} : rt'[q] = rt[q]
<1>1. ASSUME UNCHANGED rt, up' \subseteq up PROVE Goal
  BY <1>1
<1>2. ASSUME NEW t, rt' = [rt EXCEPT ![p] = t], up' \subseteq up PROVE Goal
  BY <1>2 DEF Inv, RecvInv
<1> HIDE DEF Goal
<1>3. ASSUME NEW why, Dies(p, why) PROVE Goal
  BY <1>2, <1>3 DEF Dies, Terminate
<1>4. ASSUME NEW m, FirstResponse(p, m) \/ FirstResponseInvalid(p, m) PROVE Goal
  BY <1>2, <1>3, <1>4 DEF FirstResponse, FirstResponseInvalid
<1>5. ASSUME NEW id, NEW m, \/ InsertNext(p, id) \/ LookupSend(p, id) \/ KeepWaiting(p, id)
                            \/ LookupTake(p, id, m) \/ LookupDiscard(p, id, m)
                            \/ WaitTake(p, id, m) \/ WaitMismatch(p, id, m)
      PROVE  Goal
  BY <1>1, <1>2, <1>5 DEF InsertNext, LookupTake, LookupDiscard, WaitTake, WaitMismatch,
     LookupSend, KeepWaiting, recvVars
<1>6. ASSUME FirstResponseTimeout(p) \/ InsertOwnId(p) \/ StorePieceFails(p) PROVE Goal
  BY <1>1, <1>3, <1>6 DEF FirstResponseTimeout, InsertOwnId, StorePieceFails, recvVars
<1>7. ASSUME \/ NextPass(p) \/ BootstrapLookupDone(p) \/ StorePiece(p)
             \/ StoreLookupDone(p) \/ StoreWaitDone(p) \/ RecordMetadata(p)
      PROVE  Goal
  BY <1>1, <1>7 DEF NextPass, BootstrapLookupDone, StorePiece, StoreLookupDone,
     StoreWaitDone, RecordMetadata, recvVars
<1>8. ASSUME \/ RetrievePiece(p) \/ RetrieveWaitDone(p) \/ RetrieveWaitFails(p)
             \/ WriteBack(p)
      PROVE  Goal
  BY <1>1, <1>8, RetrieveWaitDoneIs DEF RetrievePiece, RetrieveWaitFails, WriteBack, recvVars
<1> QED  BY <1>4, <1>5, <1>6, <1>7, <1>8 DEF Step, Goal

\* The bootstrap node learns of a process from nothing but its requests.
LEMMA UnknownStays ==
    ASSUME Inv, [Next]_vars, NEW p \in Endpoint, Unknown(p),
           \A m \in net : m.from = p /\ m.type \in Requests /\ m.to = Boot => m \in net'
    PROVE  Unknown(p)'
<1>1. ASSUME rt'[Boot] = rt[Boot] \/ rt'[Boot] = EmptyTable PROVE Unknown(p)'
  <2>1. AllNodes(EmptyTable) = {}
    BY DEF AllNodes, EmptyTable, Range
  <2> QED  BY <1>1, <2>1 DEF Unknown
<1>2. Boot \in Endpoint /\ rt = [q \in Endpoint |-> rt[q]] /\ rt[Boot] \in Table
  BY FilesAssumption DEF Inv, RecvInv
<1>3. ASSUME NEW q \in Endpoint, Receive(q) PROVE Unknown(p)'
  <2>1. PICK m \in net : Handle(q, m)
    BY <1>3 DEF Receive
  <2>2. m \in Datagram /\ m.from \in Endpoint /\ m.to \in Endpoint
    BY DEF Inv, RecvInv, Datagram, Message
  <2>3. CASE HandleStore(q, m) \/ HandleFindNode(q, m) \/ HandleFindValue(q, m)
    <3>1. rt' = Noticed(m) /\ m.type \in Requests
      BY <2>3 DEF HandleStore, HandleFindNode, HandleFindValue, Requests
    <3>2. \E content, nodes : net' = (net \ {m}) \cup {Reply(m, content, nodes)}
      BY <2>3 DEF HandleStore, HandleFindNode, HandleFindValue, Answer
    <3>3. m \notin net'
      BY <3>1, <3>2, ReplyTypes DEF Reply, Requests
    <3>4. CASE m.to # Boot
      BY <1>1, <1>2, <3>1, <3>4 DEF Noticed
    <3>5. CASE m.to = Boot
      <4>1. m.from # p
        BY <3>1, <3>3, <3>5
      <4>2. IdOf[m.from] \in ID /\ IdOf[m.from] # IdOf[p]
        BY <2>2, <4>1, IdsDiffer
      <4>3. rt'[Boot] = InsertNode(IdOf[Boot], rt[Boot], IdOf[m.from], m.from)
        BY <1>2, <3>1, <3>5 DEF Noticed
      <4>4. AllNodes(rt'[Boot])
                \subseteq AllNodes(rt[Boot]) \cup {[id |-> IdOf[m.from], ep |-> m.from]}
        BY <1>2, <2>2, <4>2, <4>3, InsertNodeAdds
      <4> QED  BY <4>2, <4>4 DEF Unknown
    <3> QED  BY <3>4, <3>5
  <2>4. CASE HandleResponse(q, m)
    BY <1>1, <2>4 DEF HandleResponse
  <2> QED  BY <2>1, <2>3, <2>4 DEF Handle
<1>4. ASSUME NEW q \in Endpoint, Step(q) PROVE Unknown(p)'
  <2>1. q # Boot
    BY <1>4 DEF Step, AtRest, Inv, Threads, Thread, Control
  <2> QED  BY <1>1, <1>2, <1>4, <2>1, StepTables
<1>5. ASSUME NEW q \in Endpoint, FindNodeOwnId(q) \/ Stop(q) PROVE Unknown(p)'
  <2>1. \E why : Terminate(q, why)
    BY <1>5 DEF FindNodeOwnId, Stop, Dies
  <2>2. rt'[Boot] = rt[Boot] \/ rt'[Boot] = EmptyTable
    BY <1>2, <2>1 DEF Terminate
  <2> QED  BY <1>1, <2>2
<1>6. ASSUME NEW q \in Endpoint, GivesUp(q) \/ Begin(q) \/ ReceiveFails(q) PROVE Unknown(p)'
  BY <1>1, <1>6 DEF GivesUp, GiveUp, Begin, Start, StartBoot, ReceiveFails, recvVars
<1>7. ASSUME NEW q \in Users, Command(q) PROVE Unknown(p)'
  <2>1. ASSUME NEW f, StoreCommand(q, f) \/ RetrieveCommand(q, f) PROVE UNCHANGED rt
    BY <2>1 DEF StoreCommand, RetrieveCommand, recvVars
  <2>2. ASSUME RetrieveDirectory(q) PROVE UNCHANGED rt
    BY <2>2 DEF RetrieveDirectory, recvVars
  <2> QED  BY <1>1, <1>7, <2>1, <2>2 DEF Command
<1>8. ASSUME Bounced \/ Lost \/ UNCHANGED vars PROVE Unknown(p)'
  BY <1>1, <1>8 DEF Bounced, Lost, Bounce, Lose, vars, recvVars
<1> QED  BY <1>3, <1>4, <1>5, <1>6, <1>7, <1>8 DEF Next

\* A process that has been started never counts as new again.
\* A response to FIND_NODE that comes up is made of the answering table.
LEMMA NewResponse ==
    ASSUME Inv, [Next]_vars, NEW r \in net' \ net, r.type \in Replies
    PROVE  /\ \E m \in net : /\ Answers(m, r) /\ m \notin net' /\ m.to \in up
                             /\ rt'[m.to] = Noticed(m)[m.to] /\ up' = up /\ main' = main
           /\ r.nodes \subseteq AllNodes(rt[r.from])
<1> DEFINE Goal == /\ \E m \in net : /\ Answers(m, r) /\ m \notin net' /\ m.to \in up
                                     /\ rt'[m.to] = Noticed(m)[m.to]
                                     /\ up' = up /\ main' = main
                   /\ r.nodes \subseteq AllNodes(rt[r.from])
<1>1. ASSUME net' \subseteq net PROVE Goal
  BY <1>1
<1>2. ASSUME NEW q \in Endpoint, Owns(q) PROVE Goal
  BY <1>2, ReplyTypes DEF Owns, Requests
<1>3. ASSUME NEW q \in Endpoint, Receive(q) PROVE Goal
  <2>1. PICK m \in net : Handle(q, m)
    BY <1>3 DEF Receive
  <2>2. CASE HandleStore(q, m) \/ HandleFindNode(q, m) \/ HandleFindValue(q, m)
    <3>1. /\ rt' = Noticed(m) /\ m.type \in Requests /\ m.to \in up /\ up' = up
          /\ main' = main
      BY <1>3, <2>2 DEF HandleStore, HandleFindNode, HandleFindValue, Requests, Receives,
         Receive, mainVars
    <3>2. \E content, nodes :
             /\ net' = (net \ {m}) \cup {Reply(m, content, nodes)}
             /\ nodes = {} \/ (nodes = Found(m) /\ InBounds(IdOf[m.to], m.key))
      BY <2>2 DEF HandleStore, HandleFindNode, HandleFindValue, Answer, Receives
    <3>3. PICK content, nodes :
             /\ net' = (net \ {m}) \cup {Reply(m, content, nodes)}
             /\ nodes = {} \/ (nodes = Found(m) /\ InBounds(IdOf[m.to], m.key))
      BY <3>2
    <3>4. r = Reply(m, content, nodes) /\ m \notin net'
      BY <3>1, <3>3, ReplyTypes DEF Reply, Requests
    <3>5. Answers(m, r) /\ r.nodes = nodes /\ r.from = m.to
      BY <3>1, <3>4 DEF Answers, Reply
    <3>6. nodes \subseteq AllNodes(rt[m.to])
      BY <3>3, FindNodeSubset DEF Found
    <3> QED  BY <3>1, <3>4, <3>5, <3>6
  <2>3. CASE HandleResponse(q, m)
    BY <1>1, <2>3 DEF HandleResponse
  <2> QED  BY <2>1, <2>2, <2>3 DEF Handle
<1> HIDE DEF Goal
<1>4. ASSUME \/ Bounced \/ Lost \/ UNCHANGED vars \/ \E q \in Endpoint : ReceiveFails(q)
      PROVE  Goal
  BY <1>1, <1>4 DEF Bounced, Lost, Bounce, Lose, ReceiveFails, vars, recvVars
<1>5. ASSUME NEW q \in Users, Command(q) PROVE Goal
  BY <1>2, <1>5, MainMoves, SetUpAssumption DEF Moved
<1>6. ASSUME NEW q \in Endpoint, Begin(q) PROVE Goal
  BY <1>2, <1>6, MainMoves, StartOwns DEF Begin, Moved
<1>7. ASSUME NEW q \in Endpoint, FindNodeOwnId(q) \/ Step(q) \/ GivesUp(q) \/ Stop(q)
      PROVE  Goal
  BY <1>2, <1>7, MainMoves DEF Moved
<1>8. Goal
  BY <1>3, <1>4, <1>5, <1>6, <1>7 DEF Next
<1> QED  BY <1>8 DEF Goal

\* Each command, and each file of a command, starts with an empty tracker.
LEMMA NextFileEmpty ==
    ASSUME Inv, NEW p \in Endpoint, NEW todo, RetrieveNext(p, todo)
    PROVE  DOMAIN main'[p].tracker = {} /\ main'[p].pc \in {"idle", "retrieve"}
<1>1. CASE Become(p, Parked("idle"))
  <2>1. PICK u : u = Parked("idle")
    OBVIOUS
  <2>2. DOMAIN u.tracker = {} /\ u.pc \in {"idle", "retrieve"}
    BY <2>1 DEF Parked
  <2> QED  BY <1>1, <2>1, <2>2, Becomes
<1>2. CASE ~Become(p, Parked("idle"))
  <2>1. PICK f \in todo : Become(p, [Parked("retrieve") EXCEPT
                                !.op = "retrieve", !.file = f, !.todo = todo \ {f}])
    BY <1>2, ZenonT(60) DEF RetrieveNext
  <2>2. PICK u : /\ u = [Parked("retrieve") EXCEPT
                             !.op = "retrieve", !.file = f, !.todo = todo \ {f}]
                 /\ Become(p, u)
    BY <2>1
  <2>3. DOMAIN u.tracker = {} /\ u.pc \in {"idle", "retrieve"}
    BY <2>2 DEF Parked
  <2> QED  BY <2>2, <2>3, Becomes
<1> QED  BY <1>1, <1>2

LEMMA CommandEmpty ==
    ASSUME Inv, NEW p \in Endpoint, Command(p)
    PROVE  /\ main[p].pc = "idle" /\ main'[p].pc \in {"idle", "store", "retrieve"}
           /\ DOMAIN main'[p].tracker = {}
<1> DEFINE Goal == /\ main[p].pc = "idle" /\ main'[p].pc \in {"idle", "store", "retrieve"}
                   /\ DOMAIN main'[p].tracker = {}
<1>1. ASSUME NEW f \in File, StoreCommand(p, f) PROVE Goal
  <2>1. PICK u : /\ u = [Parked("store") EXCEPT !.op = "store", !.file = f]
                 /\ Become(p, u)
    BY <1>1 DEF StoreCommand
  <2>2. DOMAIN u.tracker = {} /\ u.pc = "store"
    BY <2>1 DEF Parked
  <2> QED  BY <1>1, <2>1, <2>2, Becomes DEF StoreCommand
<1>2. ASSUME NEW f \in File, RetrieveCommand(p, f) PROVE Goal
  BY <1>2, NextFileEmpty DEF RetrieveCommand
<1>3. ASSUME RetrieveDirectory(p) PROVE Goal
  BY <1>3, NextFileEmpty DEF RetrieveDirectory
<1> QED  BY <1>1, <1>2, <1>3 DEF Command

\* The main thread of p never comes across the own id: contacts and recorded
\* nodes are others, find_id_recursively drops it from the answers, and the
\* first response does not have it.
LEMMA OwnIdStaysOut ==
    ASSUME Inv, NEW p \in Endpoint, Newcomer(p), Step(p) \/ GivesUp(p)
    PROVE  IdOf[p] \notin DOMAIN main'[p].tracker
<1> DEFINE t == main[p]
           Goal == IdOf[p] \notin DOMAIN main'[p].tracker
<1>1. /\ t \in Local(p) /\ t.tracker \in Tracker /\ IdOf[p] \notin DOMAIN t.tracker
      /\ Control(p, t)
  BY DEF Inv, Threads, Thread, Local, Newcomer
<1>2. ASSUME NEW pc, Become(p, Parked(pc)) PROVE Goal
  <2>1. PICK u : u = Parked(pc)
    OBVIOUS
  <2>2. DOMAIN u.tracker = {}
    BY <2>1 DEF Parked
  <2> QED  BY <1>2, <2>1, <2>2, Becomes
<1>3. ASSUME NEW why, Dies(p, why) PROVE Goal
  BY <1>2, <1>3 DEF Dies, Terminate
<1>4. ASSUME NEW u, Become(p, u), DOMAIN u.tracker \subseteq DOMAIN t.tracker PROVE Goal
  BY <1>1, <1>4, Becomes
<1>5. ASSUME NEW s, NEW nodes, NEW status, NEW u, Become(p, u),
             u.tracker = Track(s, nodes, status), IdOf[p] \notin DOMAIN s,
             \A n \in nodes : n.id # IdOf[p]
      PROVE  Goal
  <2>1. DOMAIN u.tracker = DOMAIN s \cup {n.id : n \in nodes}
    BY <1>5 DEF Track
  <2> QED  BY <1>5, <2>1, Becomes
<1> HIDE DEF Goal, t
<1> IdOf[p] \notin DOMAIN <<>>
  OBVIOUS
<1>6. ASSUME NEW m, FirstResponse(p, m) PROVE Goal
  <2> DEFINE boot == [id |-> IdOf[m.from], ep |-> Boot]
             v    == Track(<<>>, {boot}, "REQUEST_RECEIVED")
             u    == [t EXCEPT !.pc = "lookup",
                               !.tracker = Track(v, m.nodes, "NO_ACTION")]
  <2>1. t.pc = "first_response" /\ m \in responses[p] /\ m \in Incoming(p)
    BY <1>6 DEF FirstResponse, IsFirst, Inv, RecvInv, t
  <2>2. /\ m.from \in Endpoint /\ m.from # p /\ m.type \in Replies
        /\ \A n \in m.nodes : n.id # IdOf[p]
    BY <2>1 DEF Incoming, Datagram, Message, Newcomer, t
  <2>3. DOMAIN v = {boot.id}
    BY DEF Track
  <2>4. IdOf[p] \notin DOMAIN v
    BY <2>2, <2>3, IdsDiffer
  <2>5. Become(p, IF m.nodes = {} THEN Parked("idle") ELSE u)
    BY <1>6 DEF FirstResponse, t
  <2>6. u.tracker = Track(v, m.nodes, "NO_ACTION")
    BY <1>1 DEF Local
  <2> HIDE DEF u, v
  <2>7. CASE m.nodes = {}
    BY <1>2, <2>5, <2>7
  <2>8. CASE m.nodes # {}
    BY <1>5, <2>2, <2>4, <2>5, <2>6, <2>8
  <2> QED  BY <2>7, <2>8
<1>7. ASSUME NEW id, \/ LookupSend(p, id) \/ KeepWaiting(p, id) \/ GiveUp(p, id) PROVE Goal
  <2>1. PICK u : Become(p, u) /\ u \in {Queried(t, id), StillOpen(t, id), TimedOut(t, id)}
    BY <1>7 DEF LookupSend, KeepWaiting, GiveUp, t
  <2>2. ASSUME u = Queried(t, id) PROVE DOMAIN u.tracker = DOMAIN t.tracker
    BY <1>1, <2>2 DEF Queried, Local
  <2>3. ASSUME u = StillOpen(t, id) PROVE DOMAIN u.tracker = DOMAIN t.tracker
    BY <1>1, <2>3 DEF StillOpen, Local
  <2>4. ASSUME u = TimedOut(t, id) PROVE DOMAIN u.tracker = DOMAIN t.tracker
    BY <1>1, <2>4 DEF TimedOut, Local
  <2> QED  BY <1>4, <2>1, <2>2, <2>3, <2>4
<1>8. ASSUME NEW id, NEW m, LookupDiscard(p, id, m) \/ WaitMismatch(p, id, m) PROVE Goal
  <2>1. PICK u : u = [t EXCEPT !.cursor = {id}] /\ Become(p, u)
    BY <1>8 DEF LookupDiscard, WaitMismatch, t
  <2>2. u.tracker = t.tracker
    BY <1>1, <2>1 DEF Local
  <2> QED  BY <1>4, <2>1, <2>2
<1>9. ASSUME NEW id, NEW m, WaitTake(p, id, m) PROVE Goal
  <2> DEFINE answer == [node |-> [id |-> id, ep |-> t.tracker[id].ep], msg |-> m]
  <2>1. PICK u : /\ u = [t EXCEPT !.cursor = {id}, !.answers = Append(@, answer)]
                 /\ Become(p, u)
    BY <1>9 DEF WaitTake, t
  <2>2. u.tracker = t.tracker
    BY <1>1, <2>1 DEF Local
  <2> QED  BY <1>4, <2>1, <2>2
<1>10. ASSUME NEW id, NEW m, LookupTake(p, id, m) PROVE Goal
  <2> DEFINE nodes == {n \in m.nodes : n.id # IdOf[p]}
  <2>1. PICK s : s = [t.tracker EXCEPT ![id].status = "REQUEST_RECEIVED"]
    OBVIOUS
  <2>2. PICK u : Become(p, u) /\ u = Learned(t, id, nodes)
    BY <1>10 DEF LookupTake, t
  <2>3. u.tracker = Track(s, nodes, "NO_ACTION")
    BY <1>1, <2>1, <2>2 DEF Learned, Local
  <2>4. DOMAIN s = DOMAIN t.tracker
    BY <2>1
  <2> QED  BY <1>1, <1>5, <2>2, <2>3, <2>4
<1>11. ASSUME NEW m, FirstResponseInvalid(p, m) PROVE Goal
  BY <1>3, <1>11 DEF FirstResponseInvalid
<1>12. ASSUME InsertOwnId(p) PROVE Goal
  BY <1>1, <1>12 DEF InsertOwnId, InsertsNext, t
<1>13. ASSUME FirstResponseTimeout(p) \/ StorePieceFails(p) PROVE Goal
  BY <1>3, <1>13 DEF FirstResponseTimeout, StorePieceFails
<1>14. ASSUME NextPass(p) \/ BootstrapLookupDone(p) PROVE Goal
  <2>1. PICK u : u \in {[t EXCEPT !.cursor = {}, !.completed = TRUE],
                        [t EXCEPT !.pc = "insert", !.cursor = {}]} /\ Become(p, u)
    BY <1>14 DEF NextPass, BootstrapLookupDone, t
  <2>2. u.tracker = t.tracker
    BY <1>1, <2>1 DEF Local
  <2> QED  BY <1>4, <2>1, <2>2
<1>15. ASSUME StorePiece(p) PROVE Goal
  <2> DEFINE key   == HashOf[CurrentPiece(t)]
             found == FindNode(IdOf[p], rt[p], key)
  <2>1. PICK u : /\ u = [t EXCEPT !.pc = "lookup", !.target = key,
                                   !.tracker = Track(<<>>, found, "NO_ACTION")]
                 /\ Become(p, u) /\ InBounds(IdOf[p], key)
    BY <1>15 DEF StorePiece, StorePieceFault, t
  <2>2. found \subseteq AllNodes(rt[p])
    BY <2>1, FindNodeSubset
  <2>3. \A n \in AllNodes(rt[p]) : n.id # IdOf[p]
    BY Contacts DEF Inv, RecvInv, ContactsOK, NotSelf
  <2>4. u.tracker = Track(<<>>, found, "NO_ACTION")
    BY <1>1, <2>1 DEF Local
  <2> HIDE DEF found
  <2> QED  BY <1>5, <2>1, <2>2, <2>3, <2>4
<1>16. ASSUME StoreLookupDone(p) PROVE Goal
  <2>1. PICK chosen : chosen = StoreTargets(t, IdOf[p])
    OBVIOUS
  <2>2. PICK u : /\ u = [t EXCEPT !.pc = "wait", !.cursor = {},
                                   !.tracker = Track(<<>>, chosen, "REQUEST_SENT")]
                 /\ Become(p, u)
    BY <1>16, <2>1 DEF StoreLookupDone, t
  <2>3. chosen \in SUBSET Peers(p)
    BY <1>1, <2>1, StoreTargetsOK
  <2>4. u.tracker = Track(<<>>, chosen, "REQUEST_SENT")
    BY <1>1, <2>2 DEF Local
  <2> QED  BY <1>5, <2>2, <2>3, <2>4 DEF Peers
<1>17. ASSUME StoreWaitDone(p) \/ RecordMetadata(p) \/ RetrieveWaitDone(p) PROVE Goal
  <2>1. ASSUME RetrieveWaitDone(p) PROVE Goal
    <3>1. PICK u : Become(p, u) /\ u.tracker = <<>>
      BY <2>1, RetrieveWaitDoneIs
    <3> QED  BY <1>4, <3>1
  <2>2. ASSUME StoreWaitDone(p) PROVE Goal
    <3> DEFINE entry == [key |-> t.target, nodes |-> {a.node : a \in Range(t.answers)}]
               lines == Append(t.entries, entry)
    <3> HIDE DEF entry
    <3>1. PICK u : u = [Parked("store") EXCEPT !.op = "store", !.file = t.file,
                                              !.entries = lines]
      OBVIOUS
    <3>2. Become(p, u)
      BY <2>2, <3>1 DEF StoreWaitDone, entry, t
    <3> HIDE DEF lines
    <3>3. DOMAIN u.tracker = {}
      BY <3>1 DEF Parked
    <3> QED  BY <1>4, <3>2, <3>3
  <2> QED  BY <1>2, <1>17, <2>1, <2>2 DEF RecordMetadata
<1>18. ASSUME RetrievePiece(p) PROVE Goal
  <2>1. PICK nodes : nodes = CurrentEntry(p).nodes
    OBVIOUS
  <2>2. PICK u : /\ u = [t EXCEPT !.pc = "wait", !.target = CurrentEntry(p).key,
                                   !.tracker = Track(<<>>, nodes, "REQUEST_SENT")]
                 /\ Become(p, u)
    BY <1>18, <2>1 DEF RetrievePiece, t
  <2>3. nodes \in SUBSET Peers(p)
    BY <1>18, <2>1, CurrentEntryIs
  <2>4. u.tracker = Track(<<>>, nodes, "REQUEST_SENT")
    BY <1>1, <2>2 DEF Local
  <2> QED  BY <1>5, <2>2, <2>3, <2>4 DEF Peers
<1>19. ASSUME RetrieveWaitFails(p) \/ WriteBack(p) PROVE Goal
  <2>1. PICK todo : RetrieveNext(p, todo)
    BY <1>19 DEF RetrieveWaitFails, WriteBack
  <2> QED  BY <2>1, NextFileEmpty DEF Goal
<1>20. ASSUME NEW id, InsertNext(p, id) PROVE Goal
  <2>1. CASE Become(p, Parked("idle"))
    BY <1>2, <2>1
  <2>2. CASE Become(p, [t EXCEPT !.tracker = Restrict(@, DOMAIN @ \ {id})])
    <3>1. PICK u : /\ u = [t EXCEPT !.tracker = Restrict(@, DOMAIN @ \ {id})]
                   /\ Become(p, u)
      BY <2>2
    <3>2. DOMAIN u.tracker = DOMAIN t.tracker \ {id}
      BY <1>1, <3>1 DEF Local, Restrict
    <3> QED  BY <1>4, <3>1, <3>2
  <2> QED  BY <1>20, <2>1, <2>2 DEF InsertNext, Inserted, t
<1>21. Step(p) => Goal
  BY <1>6, <1>7, <1>8, <1>10, <1>11, <1>12, <1>13, <1>14, <1>15, <1>16, <1>17, <1>18, <1>19,
     <1>20, <1>9 DEF Step
<1> QED  BY <1>7, <1>21 DEF GivesUp, Goal

\* A process that something else of the network moves, or that stays as it is.
LEMMA ProceedingNewcomer ==
    ASSUME FirstStarts, Inv, [Next]_vars, NEW p \in Endpoint, Newcomer(p), Proceeds(p)
    PROVE  Newcomer(p)'
<1>1. main'[p] = main[p]
  BY DEF Proceeds
<1>2. IdOf[p] \notin DOMAIN main'[p].tracker
  BY <1>1 DEF Newcomer
<1>3. ASSUME ~Started(p)'
      PROVE  Open(p)' = {} /\ responses'[p] = {} /\ Unknown(p)'
  <2>1. Open(p) = {} /\ responses[p] = {} /\ Unknown(p)
    BY <1>3, StartedStays DEF Newcomer
  <2>2. Open(p)' = {} /\ responses'[p] = {}
    BY <2>1 DEF Proceeds
  <2>3. \A m \in net : m.from = p /\ m.type \in Requests /\ m.to = Boot => m \in net'
    BY <2>1 DEF Open, Of
  <2> QED  BY <2>1, <2>2, <2>3, UnknownStays
<1>4. ASSUME main[p].pc = "first_response", NEW m \in Open(p)', m.type \in Requests
      PROVE  m = FirstRequest(p) /\ Unknown(p)'
  <2>1. Requests \cap Replies = {}
    BY ReplyTypes DEF Requests
  <2>2. m \in Open(p) /\ m \in net'
    <3>1. ASSUME NEW o, NEW r, Answers(o, r) PROVE m # r
      BY <1>4, <2>1, <3>1, ReplyTypes DEF Answers, Requests
    <3>2. m \in Open(p)
      BY <1>4, <3>1 DEF Proceeds
    <3> QED  BY <1>4, <3>2 DEF Open
  <2>3. m = FirstRequest(p) /\ Unknown(p)
    BY <1>4, <2>2 DEF Newcomer
  <2>4. \A r \in net : r.from = p /\ r.type \in Requests /\ r.to = Boot => r \in net'
    BY <1>4, <2>2, <2>3 DEF Newcomer, Open, Of
  <2> QED  BY <2>3, <2>4, UnknownStays
<1>5. ASSUME main[p].pc = "first_response", NEW m \in Open(p)', m.type \in Replies
      PROVE  m.type = "FIND_NODE_RESPONSE" /\ \A n \in m.nodes : n.id # IdOf[p]
  <2>1. CASE m \in net
    BY <1>5, <2>1 DEF Newcomer, Open
  <2>2. CASE m \notin net
    <3>1. m \in net' \ net /\ m.to = p
      BY <1>5, <2>2, ReplyTypes DEF Open, Of, Requests
    <3>2. PICK r \in net : Answers(r, m)
      BY <1>5, <3>1, NewResponse
    <3>3. m.nodes \subseteq AllNodes(rt[m.from])
      BY <1>5, <3>1, NewResponse
    <3>4. r \in Open(p) /\ r.type \in Requests /\ m.from = r.to
      BY <3>1, <3>2 DEF Answers, Open, Of
    <3>5. r = FirstRequest(p) /\ Unknown(p)
      BY <1>5, <3>4 DEF Newcomer
    <3>6. m.type = ReplyType["FIND_NODE"]
      BY <3>2, <3>5, FirstRequestIs DEF Answers
    <3> QED  BY <1>5, <3>3, <3>4, <3>5, <3>6, FirstRequestIs, ReplyTypes DEF Unknown
  <2> QED  BY <2>1, <2>2
<1>6. ASSUME main[p].pc = "first_response", NEW m \in responses'[p], m.type \in Replies
      PROVE  m.type = "FIND_NODE_RESPONSE" /\ \A n \in m.nodes : n.id # IdOf[p]
  <2>1. m \in responses[p] \/ m \in Open(p)
    BY DEF Proceeds
  <2> QED  BY <1>6, <2>1 DEF Newcomer
<1> QED  BY <1>1, <1>2, <1>3, <1>4, <1>5, <1>6 DEF Newcomer

LEMMA MovedNewcomer ==
    ASSUME Inv, NEW p \in Endpoint, Moved(p), IdOf[p] \notin DOMAIN main'[p].tracker
    PROVE  Newcomer(p)'
  BY DEF Moved, Newcomer, Started

LEMMA StartNewcomer ==
    ASSUME Inv, NEW p \in Endpoint, Newcomer(p), Start(p), fault[p] = "none"
    PROVE  Newcomer(p)'
<1>1. Open(p) = {} /\ responses[p] = {} /\ Unknown(p)
  BY DEF Start, Newcomer, Started
<1>2. PICK t : t = [Parked("first_response") EXCEPT !.op = "bootstrap", !.target = IdOf[p]]
  OBVIOUS
<1>3. /\ Become(p, t) /\ rt' = rt /\ responses' = responses
      /\ net' = net \cup {FirstRequest(p)}
  BY <1>2 DEF Start, FirstRequest
<1>4. t.pc = "first_response" /\ DOMAIN t.tracker = {}
  BY <1>2 DEF Parked
<1>5. main'[p] = t
  BY <1>3, Becomes
<1>6. Started(p)' /\ Unknown(p)'
  BY <1>1, <1>3, <1>4, <1>5 DEF Started, Unknown
<1>7. Open(p)' \subseteq {FirstRequest(p)}
  BY <1>1, <1>3 DEF Open
<1>8. FirstRequest(p).type \notin Replies
  BY FirstRequestIs, ReplyTypes DEF Requests
<1> QED  BY <1>1, <1>3, <1>4, <1>5, <1>6, <1>7, <1>8 DEF Newcomer

LEMMA NextNewcomers ==
    ASSUME FirstStarts
    PROVE  Inv /\ Newcomers /\ [Next]_vars => Newcomers'
<1> SUFFICES ASSUME Inv, Newcomers, [Next]_vars PROVE Newcomers'
  OBVIOUS
<1>1. MaxRestarts = 0 /\ NoneRestarted
  BY DEF FirstStarts, Newcomers
<1>2. NoneRestarted'
  BY <1>1, NextRestarts
<1>3. ASSUME NEW p \in Endpoint, NEW q \in Endpoint \ {p}, Owns(q) PROVE Newcomer(p)'
  BY <1>3, OthersProceed, ProceedingNewcomer DEF Newcomers
<1>4. ASSUME NEW p \in Endpoint, NEW q \in Endpoint \ {p},
             \/ FindNodeOwnId(q) \/ Step(q) \/ GivesUp(q) \/ Begin(q) \/ Stop(q)
             \/ (q \in Users /\ Command(q))
      PROVE  Newcomer(p)'
  <2>1. Owns(q)
    BY <1>4, MainMoves, StartOwns DEF Moved, Begin
  <2> QED  BY <1>3, <2>1
<1>5. ASSUME NEW p \in Endpoint, Step(p) \/ GivesUp(p) PROVE Newcomer(p)'
  BY <1>5, OwnIdStaysOut, MainMoves, MovedNewcomer DEF Newcomers
<1>6. ASSUME NEW p \in Users, Command(p) PROVE Newcomer(p)'
  BY <1>6, CommandEmpty, MainMoves, MovedNewcomer, SetUpAssumption
<1>7. ASSUME NEW p \in Endpoint, FindNodeOwnId(p) \/ Stop(p) \/ (p = Boot /\ StartBoot)
      PROVE  Newcomer(p)'
  <2>1. PICK pc : Become(p, Parked(pc))
    BY <1>7 DEF FindNodeOwnId, Stop, Dies, Terminate, StartBoot
  <2>2. PICK t : t = Parked(pc) /\ Become(p, t)
    BY <2>1
  <2>3. DOMAIN t.tracker = {}
    BY <2>2 DEF Parked
  <2>4. DOMAIN main'[p].tracker = {}
    BY <2>2, <2>3, Becomes
  <2> QED  BY <1>7, <2>4, MainMoves, MovedNewcomer
<1>8. ASSUME NEW p \in Endpoint, Begin(p) PROVE Newcomer(p)'
  <2>1. fault[p] = "none"
    BY <1>1, <1>8, BeginIsFirst DEF Started
  <2> QED  BY <1>7, <1>8, <2>1, StartNewcomer DEF Begin, Newcomers
<1>9. ASSUME NEW p \in Endpoint, \/ Bounced \/ Lost \/ UNCHANGED vars
                                \/ \E q \in Endpoint : ReceiveFails(q) \/ Receive(q)
      PROVE  Newcomer(p)'
  BY <1>9, NetworkProceeds, ProceedingNewcomer DEF Newcomers
<1>10. ASSUME NEW p \in Endpoint PROVE Newcomer(p)'
  <2>1. CASE \E q \in Endpoint : \/ FindNodeOwnId(q) \/ Step(q) \/ GivesUp(q)
                                 \/ Begin(q) \/ Stop(q) \/ (q \in Users /\ Command(q))
    BY <1>4, <1>5, <1>6, <1>7, <1>8, <2>1
  <2>2. CASE \/ Bounced \/ Lost \/ UNCHANGED vars
             \/ \E q \in Endpoint : ReceiveFails(q) \/ Receive(q)
    BY <1>9, <2>2
  <2> QED  BY <2>1, <2>2, SetUpAssumption DEF Next
<1> QED  BY <1>2, <1>10 DEF Newcomers

\* NeverOwnId, for every number of processes, whatever is lost, late or ended:
\* the remark at networking.cpp:220 that the insertion "should be below
\* find_node" is all that keeps a process from getting its own id back, provided
\* that no process is started a second time and that the first tables know
\* running processes only.
THEOREM OwnIdNeverComesBack ==
    ASSUME FirstStarts
    PROVE  Spec => []NeverOwnId
<1>1. Inv /\ Newcomers => NeverOwnId
  <2> SUFFICES ASSUME Inv, Newcomers, NEW p \in Endpoint
               PROVE  /\ IdOf[p] \notin DOMAIN main[p].tracker
                      /\ \A n \in AllNodes(rt[p]) : n.id # IdOf[p]
    BY DEF NeverOwnId
  <2>1. TableOK(IdOf[p], rt[p])
    BY DEF Inv, RecvInv, ContactsOK
  <2> QED  BY <2>1, Contacts DEF NotSelf, Newcomers, Newcomer
<1> QED  BY <1>1, Invariance, InitNewcomers, NextNewcomers, PTL DEF Spec

-----------------------------------------------------------------------------
(***************************************************************************)
(* AnswererKnowsAsker.  handle_find_node_request files the asker before    *)
(* its answer leaves, so whoever has answered knows the asker, or had no   *)
(* room, as long as its receive thread runs: insert_node takes nothing     *)
(* away, and only the end of the process does.                             *)
(***************************************************************************)
Met(q, p) ==
    q # p /\ Started(q) /\ (q \in up => KnownOrFull(IdOf[q], rt[q], IdOf[p]))

Meets(m) == m.type = "FIND_NODE_RESPONSE" => Met(m.from, m.to)

MetAll(p) ==
    main[p].pc = "lookup" =>
        \A id \in DOMAIN main[p].tracker :
            main[p].tracker[id].status = "REQUEST_RECEIVED" => Met(main[p].tracker[id].ep, p)

Acquaints ==
    /\ NoneRestarted
    /\ \A m \in net : Meets(m)
    /\ \A p \in Endpoint : MetAll(p) /\ \A m \in responses[p] : Meets(m)

\* A receive thread that stays in the system keeps whom it knows.
LEMMA MetStays ==
    ASSUME MaxRestarts = 0, NoneRestarted, Inv, Began, [Next]_vars,
           NEW q \in Endpoint, NEW p \in Endpoint, Met(q, p)
    PROVE  Met(q, p)'
<1>1. Started(q) /\ Started(q)'
  BY StartedStays DEF Met
<1>2. SUFFICES ASSUME q \in up'
               PROVE  KnownOrFull(IdOf[q], rt'[q], IdOf[p])
  BY <1>1 DEF Met
<1>3. q \in up
  <2>1. ASSUME NEW r \in Endpoint, Begin(r) PROVE q \in up
    <3>1. up' \subseteq up \cup {r}
      BY <2>1 DEF Begin, Start, StartBoot
    <3>2. ~Started(r)
      BY <2>1, BeginIsFirst
    <3> QED  BY <1>1, <1>2, <3>1, <3>2
  <2>2. ASSUME NEW r \in Endpoint, \/ Step(r) \/ GivesUp(r) \/ Stop(r) \/ FindNodeOwnId(r)
                                  \/ ReceiveFails(r) \/ Receive(r)
        PROVE  up' \subseteq up
    BY <2>2, StepTables DEF GivesUp, GiveUp, Stop, Dies, FindNodeOwnId, Terminate,
       ReceiveFails, Receive, Handle, HandleStore, HandleFindNode, HandleFindValue,
       HandleResponse, recvVars
  <2>3. ASSUME NEW r \in Users, Command(r) PROVE up' \subseteq up
    <3>1. ASSUME NEW f, StoreCommand(r, f) \/ RetrieveCommand(r, f) PROVE up' = up
      BY <3>1 DEF StoreCommand, RetrieveCommand, recvVars
    <3>2. ASSUME RetrieveDirectory(r) PROVE up' = up
      BY <3>2 DEF RetrieveDirectory, recvVars
    <3> QED  BY <2>3, <3>1, <3>2 DEF Command
  <2>4. ASSUME Bounced \/ Lost \/ UNCHANGED vars PROVE up' \subseteq up
    BY <2>4 DEF Bounced, Lost, Bounce, Lose, vars, recvVars
  <2> QED  BY <1>2, <2>1, <2>2, <2>3, <2>4 DEF Next
<1>4. KnownOrFull(IdOf[q], rt[q], IdOf[p])
  BY <1>3 DEF Met
<1>5. TableOK(IdOf[q], rt[q]) /\ IdOf[p] \in NotSelf(IdOf[q])
  BY IdsDiffer DEF Inv, RecvInv, ContactsOK, NotSelf, Met
<1>6. main'[q].pc # "off"
  BY <1>2, NextBegan DEF Began, Beginning, Stale
<1>7. rt'[q] = rt[q] \/ Inserts(q)
  BY <1>6, NextInserts DEF TablesMove
<1> QED  BY <1>4, <1>5, <1>7, InsertNodeKnows DEF Inserts, NotSelf

\* What the network holds.
LEMMA NetMeets ==
    ASSUME MaxRestarts = 0, Acquaints, Inv, Began, [Next]_vars, NEW r \in net'
    PROVE  Meets(r)'
<1> SUFFICES ASSUME r.type = "FIND_NODE_RESPONSE" PROVE Met(r.from, r.to)'
  BY DEF Meets
<1>1. r.type \in Replies /\ r.type \notin Requests
  BY ReplyTypes DEF Requests
<1>2. CASE r \in net
  <2>1. r.from \in Endpoint /\ r.to \in Endpoint /\ r.to # r.from
    BY <1>2 DEF Inv, RecvInv, Datagram, Message
  <2> QED  BY <1>2, <2>1, MetStays DEF Acquaints, Meets
<1>3. CASE r \notin net
  <2>1. PICK m \in net : /\ Answers(m, r) /\ m.to \in up
                         /\ rt'[m.to] = Noticed(m)[m.to] /\ up' = up /\ main' = main
    BY <1>1, <1>3, NewResponse
  <2>2. m.from \in Endpoint /\ m.to \in Endpoint /\ m.to # m.from
    BY DEF Inv, RecvInv, Datagram, Message
  <2>3. rt'[m.to] = InsertNode(IdOf[m.to], rt[m.to], IdOf[m.from], m.from)
    BY <2>1, <2>2 DEF Noticed, Inv, RecvInv
  <2>4. TableOK(IdOf[m.to], rt[m.to]) /\ IdOf[m.from] \in NotSelf(IdOf[m.to])
    BY <2>2, IdsDiffer DEF Inv, RecvInv, ContactsOK, NotSelf
  <2>5. KnownOrFull(IdOf[m.to], rt'[m.to], IdOf[m.from])
    BY <2>2, <2>3, <2>4, InsertNodeKnows
  <2>6. main'[m.to].pc # "off"
    BY <2>1, <2>2 DEF Began, Beginning, Stale
  <2>7. r.from = m.to /\ r.to = m.from
    BY <2>1 DEF Answers
  <2>8. KnownOrFull(IdOf[r.from], rt'[r.from], IdOf[r.to]) /\ main'[r.from].pc # "off"
    BY <2>5, <2>6, <2>7
  <2> QED  BY <2>2, <2>7, <2>8 DEF Met, Started
<1> QED  BY <1>2, <1>3

\* What is kept of it.
LEMMA KeptMeets ==
    ASSUME MaxRestarts = 0, Acquaints, Inv, Began, [Next]_vars,
           NEW p \in Endpoint, NEW r \in responses'[p],
           r \in responses[p] \/ r \in Open(p)
    PROVE  Meets(r)'
<1>1. Meets(r) /\ r.from \in Endpoint /\ r.to \in Endpoint /\ r.to # r.from
  BY DEF Acquaints, Open, Inv, RecvInv, Incoming, Datagram, Message
<1> QED  BY <1>1, MetStays DEF Acquaints, Meets

\* A main thread that does not come to an entry leaves it with whom it met.
LEMMA MetAllStays ==
    ASSUME MaxRestarts = 0, Acquaints, Inv, Began, [Next]_vars,
           NEW p \in Endpoint, main[p].pc = "lookup",
           NEW id \in DOMAIN main[p].tracker, NEW q, q = main[p].tracker[id].ep,
           main[p].tracker[id].status = "REQUEST_RECEIVED"
    PROVE  Met(q, p)'
<1>1. q \in Endpoint /\ Met(q, p)
  BY TrackerElements DEF Acquaints, MetAll, Inv, Threads, Thread, Local
<1> QED  BY <1>1, MetStays DEF Acquaints

\* The steps after which a main thread is in get_first_response or in a lookup.
LEMMA StaysInLookup ==
    ASSUME Inv, NEW p \in Endpoint, Step(p), main'[p].pc \in {"first_response", "lookup"}
    PROVE  \/ \E m : FirstResponse(p, m)
           \/ \E id : LookupSend(p, id) \/ KeepWaiting(p, id)
           \/ \E id, m : LookupTake(p, id, m) \/ LookupDiscard(p, id, m)
           \/ NextPass(p) \/ StorePiece(p)
<1> DEFINE t == main[p]
           Goal == main'[p].pc \notin {"first_response", "lookup"}
<1>1. t \in Local(p)
  BY DEF Inv, Threads, Thread
<1>2. ASSUME NEW u, Become(p, u), u.pc \notin {"first_response", "lookup"} PROVE Goal
  BY <1>2, Becomes
<1> HIDE DEF Goal, t
<1>3. ASSUME NEW pc \in {"off", "idle", "store", "retrieve"}, Become(p, Parked(pc)) PROVE Goal
  <2>1. PICK u : u = Parked(pc)
    OBVIOUS
  <2>2. u.pc = pc
    BY <2>1 DEF Parked
  <2> QED  BY <1>2, <1>3, <2>1, <2>2
<1>4. ASSUME NEW why, Dies(p, why) PROVE Goal
  BY <1>3, <1>4 DEF Dies, Terminate
<1>5. ASSUME FirstResponseTimeout(p) \/ StorePieceFails(p) PROVE Goal
  BY <1>4, <1>5 DEF FirstResponseTimeout, StorePieceFails
<1>6. ASSUME NEW m, FirstResponseInvalid(p, m) PROVE Goal
  BY <1>4, <1>6 DEF FirstResponseInvalid
<1>7. ASSUME NEW id, Become(p, Inserted(p, id)), t.pc = "insert" PROVE Goal
  <2>1. PICK u : u = [t EXCEPT !.tracker = Restrict(@, DOMAIN @ \ {id})]
    OBVIOUS
  <2>2. u.pc = "insert"
    BY <1>1, <1>7, <2>1 DEF Local
  <2>3. Become(p, Parked("idle")) \/ Become(p, u)
    BY <1>7, <2>1 DEF Inserted, t
  <2> QED  BY <1>2, <1>3, <2>2, <2>3
<1>8. ASSUME InsertOwnId(p) \/ (\E id : InsertNext(p, id)) PROVE Goal
  BY <1>4, <1>7, <1>8 DEF InsertOwnId, InsertNext, InsertsNext, t
<1>9. ASSUME NEW id, NEW m, WaitTake(p, id, m) PROVE Goal
  <2> DEFINE answer == [node |-> [id |-> id, ep |-> t.tracker[id].ep], msg |-> m]
  <2>1. PICK u : /\ u = [t EXCEPT !.cursor = {id}, !.answers = Append(@, answer)]
                 /\ Become(p, u) /\ t.pc = "wait"
    BY <1>9 DEF WaitTake, t
  <2>2. u.pc = "wait"
    BY <1>1, <2>1 DEF Local
  <2> QED  BY <1>2, <2>1, <2>2
<1>10. ASSUME NEW id, NEW m, WaitMismatch(p, id, m) PROVE Goal
  <2>1. PICK u : u = [t EXCEPT !.cursor = {id}] /\ Become(p, u) /\ t.pc = "wait"
    BY <1>10 DEF WaitMismatch, t
  <2>2. u.pc = "wait"
    BY <1>1, <2>1 DEF Local
  <2> QED  BY <1>2, <2>1, <2>2
<1>11. ASSUME BootstrapLookupDone(p) PROVE Goal
  <2>1. PICK u : u = [t EXCEPT !.pc = "insert", !.cursor = {}] /\ Become(p, u)
    BY <1>11 DEF BootstrapLookupDone, t
  <2>2. u.pc = "insert"
    BY <1>1, <2>1 DEF Local
  <2> QED  BY <1>2, <2>1, <2>2
<1>12. ASSUME StoreLookupDone(p) PROVE Goal
  <2>1. PICK u : /\ u = [t EXCEPT !.pc = "wait", !.cursor = {},
                           !.tracker = Track(<<>>, StoreTargets(t, IdOf[p]), "REQUEST_SENT")]
                 /\ Become(p, u)
    BY <1>12 DEF StoreLookupDone, t
  <2>2. u.pc = "wait"
    BY <1>1, <2>1 DEF Local
  <2> QED  BY <1>2, <2>1, <2>2
<1>13. ASSUME StoreWaitDone(p) PROVE Goal
  <2> DEFINE entry == [key |-> t.target, nodes |-> {a.node : a \in Range(t.answers)}]
             lines == Append(t.entries, entry)
  <2> HIDE DEF entry
  <2>1. PICK u : u = [Parked("store") EXCEPT !.op = "store", !.file = t.file,
                                            !.entries = lines]
    OBVIOUS
  <2>2. Become(p, u)
    BY <1>13, <2>1 DEF StoreWaitDone, entry, t
  <2> HIDE DEF lines
  <2>3. u.pc = "store"
    BY <2>1 DEF Parked
  <2> QED  BY <1>2, <2>2, <2>3
<1>14. ASSUME RecordMetadata(p) PROVE Goal
  BY <1>3, <1>14 DEF RecordMetadata
<1>15. ASSUME RetrievePiece(p) PROVE Goal
  <2>1. PICK nodes : nodes = CurrentEntry(p).nodes
    OBVIOUS
  <2>2. PICK u : /\ u = [t EXCEPT !.pc = "wait", !.target = CurrentEntry(p).key,
                                   !.tracker = Track(<<>>, nodes, "REQUEST_SENT")]
                 /\ Become(p, u)
    BY <1>15, <2>1 DEF RetrievePiece, t
  <2>3. u.pc = "wait"
    BY <1>1, <2>2 DEF Local
  <2> QED  BY <1>2, <2>2, <2>3
<1>16. ASSUME RetrieveWaitDone(p) PROVE Goal
  <2>1. PICK u : Become(p, u) /\ u.pc = "retrieve"
    BY <1>16, RetrieveWaitDoneIs
  <2> QED  BY <1>2, <2>1
<1>17. ASSUME RetrieveWaitFails(p) \/ WriteBack(p) PROVE Goal
  <2>1. PICK todo : RetrieveNext(p, todo)
    BY <1>17 DEF RetrieveWaitFails, WriteBack
  <2> QED  BY <2>1, NextFileEmpty DEF Goal
<1> QED  BY <1>5, <1>6, <1>8, <1>9, <1>10, <1>11, <1>12, <1>13, <1>14, <1>15, <1>16, <1>17
         DEF Step, Goal

(***************************************************************************)
(* LookupsAdvance, from what each of these steps makes of the tracker.     *)
(***************************************************************************)
LEMMA StatusMovesOn ==
    ASSUME NEW t \in Tracker, NEW id \in DOMAIN t, NEW status \in Status,
           <<t[id].status, status>> \in Onward,
           NEW u, u = [t EXCEPT ![id].status = status]
    PROVE  u \in Tracker /\ MovesOn(t, u)
<1>1. PICK D \in SUBSET ID : t \in [D -> [ep : Endpoint, status : Status]]
  BY DEF Tracker
<1>2. D = DOMAIN t /\ u \in [D -> [ep : Endpoint, status : Status]]
  BY <1>1
<1>3. /\ \A i \in D : u[i].ep = t[i].ep /\ (i # id => u[i].status = t[i].status)
      /\ u[id].status = status
  BY <1>1, <1>2
<1>4. \A i \in D : i = IdOf[t[i].ep] \/ (Stale /\ t[i].ep = Boot)
  BY <1>2, TrackerElements
<1>5. u \in Tracker
  BY <1>2, <1>3, <1>4 DEF Tracker
<1> QED  BY <1>2, <1>3, <1>5 DEF MovesOn

LEMMA StepMovesOn ==
    ASSUME Inv, NEW p \in Endpoint, Step(p) \/ GivesUp(p),
           main[p].pc = "lookup", main'[p].pc = "lookup"
    PROVE  MovesOn(main[p].tracker, main'[p].tracker)
<1> DEFINE t == main[p]
           Goal == MovesOn(main[p].tracker, main'[p].tracker)
<1>1. t \in Local(p) /\ t.tracker \in Tracker /\ t.pc = "lookup"
  BY DEF Inv, Threads, Thread, Local
<1>2. ASSUME NEW u, Become(p, u), MovesOn(t.tracker, u.tracker) PROVE Goal
  BY <1>2, Becomes
<1>3. ASSUME NEW u, Become(p, u), u.tracker = t.tracker PROVE Goal
  BY <1>2, <1>3 DEF MovesOn
<1> HIDE DEF t, Goal
<1>4. ASSUME NEW id, LookupSend(p, id) PROVE Goal
  <2>1. PICK u : u = Queried(t, id) /\ Become(p, u)
    BY <1>4 DEF LookupSend, t
  <2>2. u.tracker = [t.tracker EXCEPT ![id].status = "REQUEST_SENT"]
    BY <1>1, <2>1 DEF Queried, Local
  <2>3. id \in DOMAIN t.tracker /\ t.tracker[id].status = "NO_ACTION"
    BY <1>4 DEF LookupSend, Visits, Ahead, t
  <2>4. MovesOn(t.tracker, u.tracker)
    BY <1>1, <2>2, <2>3, StatusMovesOn DEF Status, Onward
  <2> QED  BY <1>2, <2>1, <2>4
<1>5. ASSUME NEW id, GiveUp(p, id) PROVE Goal
  <2>1. PICK u : u = TimedOut(t, id) /\ Become(p, u)
    BY <1>5 DEF GiveUp, t
  <2>2. u.tracker = [t.tracker EXCEPT ![id].status = "REQUEST_TIMEOUT"]
    BY <1>1, <2>1 DEF TimedOut, Local
  <2>3. id \in DOMAIN t.tracker /\ t.tracker[id].status = "REQUEST_SENT"
    BY <1>5 DEF GiveUp, Visits, Ahead, t
  <2>4. MovesOn(t.tracker, u.tracker)
    BY <1>1, <2>2, <2>3, StatusMovesOn DEF Status, Onward
  <2> QED  BY <1>2, <2>1, <2>4
<1>6. ASSUME NEW id, KeepWaiting(p, id) PROVE Goal
  <2>1. PICK u : u = StillOpen(t, id) /\ Become(p, u)
    BY <1>6 DEF KeepWaiting, t
  <2>2. u.tracker = t.tracker
    BY <1>1, <2>1 DEF StillOpen, Local
  <2> QED  BY <1>3, <2>1, <2>2
<1>7. ASSUME NEW id, NEW m, LookupDiscard(p, id, m) PROVE Goal
  <2>1. PICK u : u = [t EXCEPT !.cursor = {id}] /\ Become(p, u)
    BY <1>7 DEF LookupDiscard, t
  <2>2. u.tracker = t.tracker
    BY <1>1, <2>1 DEF Local
  <2> QED  BY <1>3, <2>1, <2>2
<1>8. ASSUME NEW id, NEW m, LookupTake(p, id, m) PROVE Goal
  <2> DEFINE nodes == {n \in m.nodes : n.id # IdOf[p]}
  <2>1. PICK v : v = [t.tracker EXCEPT ![id].status = "REQUEST_RECEIVED"]
    OBVIOUS
  <2>2. PICK u : Become(p, u) /\ u = Learned(t, id, nodes)
    BY <1>8 DEF LookupTake, t
  <2>3. u.tracker = Track(v, nodes, "NO_ACTION")
    BY <1>1, <2>1, <2>2 DEF Learned, Local
  <2>4. id \in DOMAIN t.tracker /\ t.tracker[id].status = "REQUEST_SENT"
    BY <1>8 DEF LookupTake, Visits, Ahead, t
  <2>5. v \in Tracker /\ MovesOn(t.tracker, v)
    BY <1>1, <2>1, <2>4, StatusMovesOn DEF Status, Onward
  <2>6. nodes \in SUBSET Paired
    BY <1>8 DEF LookupTake, ResponseOf, Inv, RecvInv, Incoming, Datagram
  <2> HIDE DEF nodes
  <2>7. DOMAIN v \subseteq DOMAIN u.tracker /\ \A i \in DOMAIN v : u.tracker[i] = v[i]
    BY <2>3, <2>5, <2>6, Tracking DEF Status
  <2>8. MovesOn(t.tracker, u.tracker)
    BY <2>5, <2>7 DEF MovesOn
  <2> QED  BY <1>2, <2>2, <2>8
<1>9. ASSUME NextPass(p) PROVE Goal
  <2>1. PICK u : u = [t EXCEPT !.cursor = {}, !.completed = TRUE] /\ Become(p, u)
    BY <1>9 DEF NextPass, t
  <2>2. u.tracker = t.tracker
    BY <1>1, <2>1 DEF Local
  <2> QED  BY <1>3, <2>1, <2>2
<1>10. (\A m : ~FirstResponse(p, m)) /\ ~StorePiece(p)
  BY <1>1 DEF FirstResponse, IsFirst, StorePiece, t
<1>11. Step(p) => Goal
  BY <1>4, <1>6, <1>7, <1>8, <1>9, <1>10, StaysInLookup
<1> QED  BY <1>5, <1>11 DEF GivesUp, Goal

LEMMA NextMovesOn ==
    ASSUME Inv, [Next]_vars, NEW p \in Endpoint,
           main[p].pc = "lookup", main'[p].pc = "lookup"
    PROVE  MovesOn(main[p].tracker, main'[p].tracker)
<1>1. ASSUME main'[p] = main[p] PROVE MovesOn(main[p].tracker, main'[p].tracker)
  BY <1>1 DEF MovesOn
<1>2. CASE Step(p) \/ GivesUp(p)
  BY <1>2, StepMovesOn
<1>3. p \in Users => ~Command(p)
  BY CommandEmpty
<1>4. ~Stop(p) /\ ~FindNodeOwnId(p)
  <2>1. ASSUME Become(p, Parked("off")) PROVE FALSE
    BY <2>1, Becomes DEF Parked
  <2> QED  BY <2>1 DEF Stop, Dies, FindNodeOwnId, Terminate
<1>5. ~Begin(p)
  BY DEF Begin, Start, StartBoot
<1>6. ASSUME NEW q \in Endpoint \ {p},
             \/ Step(q) \/ GivesUp(q) \/ (q \in Users /\ Command(q)) \/ Stop(q)
             \/ FindNodeOwnId(q) \/ Begin(q)
      PROVE  main'[p] = main[p]
  <2>1. Owns(q)
    BY <1>6, MainMoves, StartOwns DEF Moved, Begin
  <2> QED  BY <2>1 DEF Owns
<1>7. ASSUME \/ Bounced \/ Lost \/ UNCHANGED vars
             \/ \E q \in Endpoint : ReceiveFails(q) \/ Receive(q)
      PROVE  main'[p] = main[p]
  BY <1>7 DEF Bounced, Lost, ReceiveFails, Receive, vars, mainVars
<1> QED  BY <1>1, <1>2, <1>3, <1>4, <1>5, <1>6, <1>7, SetUpAssumption DEF Next

\* The loop of find_id_recursively makes progress however its map grows: no entry is
\* removed, redirected or set back.
THEOREM LookupsMoveOn == Spec => LookupsAdvance
<1> DEFINE Moving == \A p \in Endpoint :
                        (main[p].pc = "lookup" /\ main'[p].pc = "lookup") =>
                            MovesOn(main[p].tracker, main'[p].tracker)
<1>1. Inv /\ [Next]_vars => Moving
  BY NextMovesOn
<1>2. Spec => [][Moving]_main
  BY <1>1, Invariance, PTL DEF Spec
<1> QED  BY <1>2 DEF LookupsAdvance

LEMMA StepMeets ==
    ASSUME MaxRestarts = 0, Acquaints, Inv, Began, [Next]_vars,
           NEW p \in Endpoint, Step(p) \/ GivesUp(p)
    PROVE  MetAll(p)'
<1> DEFINE t == main[p]
           Goal == MetAll(p)'
<1>1. t \in Local(p) /\ t.tracker \in Tracker
  BY DEF Inv, Threads, Thread, Local
<1>2. ASSUME NEW u, Become(p, u), u.pc # "lookup" PROVE Goal
  BY <1>2, Becomes DEF MetAll
<1>3. ASSUME NEW u, Become(p, u),
             \A id \in DOMAIN u.tracker :
                u.tracker[id].status = "REQUEST_RECEIVED" => Met(u.tracker[id].ep, p)'
      PROVE  Goal
  BY <1>3, Becomes DEF MetAll
<1>4. ASSUME t.pc = "lookup", NEW u, Become(p, u),
             \A id \in DOMAIN u.tracker :
                u.tracker[id].status = "REQUEST_RECEIVED" =>
                    /\ id \in DOMAIN t.tracker /\ t.tracker[id].ep = u.tracker[id].ep
                    /\ t.tracker[id].status = "REQUEST_RECEIVED"
      PROVE  Goal
  BY <1>3, <1>4, MetAllStays
<1>5. ASSUME NEW m \in responses[p], m.type = "FIND_NODE_RESPONSE" PROVE Met(m.from, p)'
  <2>1. Meets(m) /\ m.from \in Endpoint /\ m.to = p
    BY <1>5 DEF Acquaints, Inv, RecvInv, Incoming, Datagram, Message
  <2> QED  BY <1>5, <2>1, MetStays DEF Acquaints, Meets
<1> HIDE DEF Goal, t
<1>6. ASSUME NEW pc, pc # "lookup", Become(p, Parked(pc)) PROVE Goal
  <2>1. PICK u : u = Parked(pc)
    OBVIOUS
  <2> QED  BY <1>2, <1>6, <2>1 DEF Parked
<1>7. ASSUME NEW why, Dies(p, why) PROVE Goal
  BY <1>6, <1>7 DEF Dies, Terminate
<1>8. ASSUME NEW m, FirstResponse(p, m) PROVE Goal
  <2> DEFINE boot == [id |-> IdOf[m.from], ep |-> Boot]
             v    == Track(<<>>, {boot}, "REQUEST_RECEIVED")
             u    == [t EXCEPT !.pc = "lookup",
                               !.tracker = Track(v, m.nodes, "NO_ACTION")]
  <2>1. /\ t.pc = "first_response" /\ m \in responses[p]
        /\ m.type = "FIND_NODE_RESPONSE"
    BY <1>8 DEF FirstResponse, IsFirst, t
  <2>2. m.from = Boot
    <3>1. Partner(p, m) = Boot /\ m.type \in Replies /\ m.to = p
      BY <2>1 DEF Began, Beginning, Stale, Inv, RecvInv, Incoming, t
    <3> QED  BY <2>1, <3>1 DEF Partner
  <2>3. Met(Boot, p)'
    BY <1>5, <2>1, <2>2
  <2>4. DOMAIN v = {boot.id} /\ v[boot.id] = [ep |-> Boot, status |-> "REQUEST_RECEIVED"]
    <3>1. (CHOOSE n \in {boot} : n.id = boot.id) = boot
      OBVIOUS
    <3> QED  BY <3>1 DEF Track
  <2>5. Become(p, IF m.nodes = {} THEN Parked("idle") ELSE u)
    BY <1>8 DEF FirstResponse, t
  <2>6. u.tracker = Track(v, m.nodes, "NO_ACTION")
    BY <1>1 DEF Local
  <2> HIDE DEF u, v
  <2>7. \A id \in DOMAIN u.tracker :
           u.tracker[id].status = "REQUEST_RECEIVED" => u.tracker[id].ep = Boot
    BY <2>4, <2>6 DEF Track
  <2>8. CASE m.nodes = {}
    BY <1>6, <2>5, <2>8
  <2>9. CASE m.nodes # {}
    BY <1>3, <2>3, <2>5, <2>7, <2>9
  <2> QED  BY <2>8, <2>9
<1>9. ASSUME NEW id, LookupSend(p, id) PROVE Goal
  <2>1. PICK u : Become(p, u) /\ u = Queried(t, id) /\ t.pc = "lookup"
    BY <1>9 DEF LookupSend, t
  <2>2. u.tracker = [t.tracker EXCEPT ![id].status = "REQUEST_SENT"]
    BY <1>1, <2>1 DEF Queried, Local
  <2>3. \A i \in DOMAIN u.tracker :
           u.tracker[i].status = "REQUEST_RECEIVED" =>
              i \in DOMAIN t.tracker /\ t.tracker[i] = u.tracker[i]
    BY <1>1, <2>2, TrackerElements
  <2> QED  BY <1>4, <2>1, <2>3
<1>10. ASSUME NEW id, KeepWaiting(p, id) PROVE Goal
  <2>1. PICK u : Become(p, u) /\ u = StillOpen(t, id) /\ t.pc \in {"lookup", "wait"}
    BY <1>10 DEF KeepWaiting, Visits, t
  <2>2. u.tracker = t.tracker /\ u.pc = t.pc
    BY <1>1, <2>1 DEF StillOpen, Local
  <2> QED  BY <1>2, <1>4, <2>1, <2>2
<1>11. ASSUME NEW id, GiveUp(p, id) PROVE Goal
  <2>1. PICK u : Become(p, u) /\ u = TimedOut(t, id) /\ t.pc \in {"lookup", "wait"}
    BY <1>11 DEF GiveUp, Visits, t
  <2>2. u.tracker = [t.tracker EXCEPT ![id].status = "REQUEST_TIMEOUT"] /\ u.pc = t.pc
    BY <1>1, <2>1 DEF TimedOut, Local
  <2>3. \A i \in DOMAIN u.tracker :
           u.tracker[i].status = "REQUEST_RECEIVED" =>
              i \in DOMAIN t.tracker /\ t.tracker[i] = u.tracker[i]
    BY <1>1, <2>2, TrackerElements
  <2> QED  BY <1>2, <1>4, <2>1, <2>2, <2>3
<1>12. ASSUME NEW id, NEW m, LookupDiscard(p, id, m) PROVE Goal
  <2>1. PICK u : u = [t EXCEPT !.cursor = {id}] /\ Become(p, u) /\ t.pc = "lookup"
    BY <1>12 DEF LookupDiscard, t
  <2>2. u.tracker = t.tracker
    BY <1>1, <2>1 DEF Local
  <2> QED  BY <1>4, <2>1, <2>2
<1>13. ASSUME NEW id, NEW m, LookupTake(p, id, m) PROVE Goal
  <2> DEFINE nodes == {n \in m.nodes : n.id # IdOf[p]}
  <2>1. PICK s : s = [t.tracker EXCEPT ![id].status = "REQUEST_RECEIVED"]
    OBVIOUS
  <2>2. PICK u : Become(p, u) /\ u = Learned(t, id, nodes)
    BY <1>13 DEF LookupTake, t
  <2>3. u.tracker = Track(s, nodes, "NO_ACTION")
    BY <1>1, <2>1, <2>2 DEF Learned, Local
  <2>4. /\ t.pc = "lookup" /\ m \in responses[p] /\ m.type = "FIND_NODE_RESPONSE"
        /\ id \in DOMAIN t.tracker /\ id = IdOf[m.from] /\ m.from \in Endpoint
    BY <1>13 DEF LookupTake, Visits, Ahead, ResponseOf, t, Inv, RecvInv, Datagram, Message
  <2>5. t.tracker[id].ep = m.from
    BY <1>1, <2>4, TrackerElements, IdsDiffer DEF Stale
  <2>6. Met(m.from, p)'
    BY <1>5, <2>4
  <2>7. ASSUME NEW i \in DOMAIN t.tracker, t.tracker[i].status = "REQUEST_RECEIVED",
               NEW q, q = t.tracker[i].ep
        PROVE  Met(q, p)'
    BY <2>4, <2>7, MetAllStays DEF t
  <2>8. \A i \in DOMAIN u.tracker :
           u.tracker[i].status = "REQUEST_RECEIVED" => Met(u.tracker[i].ep, p)'
    <3> SUFFICES ASSUME NEW i \in DOMAIN u.tracker,
                        u.tracker[i].status = "REQUEST_RECEIVED"
                 PROVE  Met(u.tracker[i].ep, p)'
      OBVIOUS
    <3>1. i \in DOMAIN s /\ u.tracker[i] = s[i]
      BY <2>3 DEF Track
    <3>2. i \in DOMAIN t.tracker /\ u.tracker[i].ep = t.tracker[i].ep
      BY <1>1, <2>1, <3>1, TrackerElements
    <3>3. i = id \/ t.tracker[i].status = "REQUEST_RECEIVED"
      BY <1>1, <2>1, <3>1, TrackerElements
    <3>4. PICK q : q = u.tracker[i].ep
      OBVIOUS
    <3>5. Met(q, p)'
      BY <2>5, <2>6, <2>7, <3>2, <3>3, <3>4
    <3> QED  BY <3>4, <3>5
  <2> QED  BY <1>3, <2>2, <2>8
<1>14. ASSUME NextPass(p) PROVE Goal
  <2>1. PICK u : u = [t EXCEPT !.cursor = {}, !.completed = TRUE] /\ Become(p, u)
    BY <1>14 DEF NextPass, t
  <2>2. u.tracker = t.tracker /\ u.pc = t.pc /\ t.pc \in {"lookup", "wait"}
    BY <1>1, <1>14, <2>1 DEF Local, NextPass, PassEnds, t
  <2> QED  BY <1>2, <1>4, <2>1, <2>2
<1>15. ASSUME StorePiece(p) PROVE Goal
  <2> DEFINE key   == HashOf[CurrentPiece(t)]
             found == FindNode(IdOf[p], rt[p], key)
  <2>1. PICK u : /\ u = [t EXCEPT !.pc = "lookup", !.target = key,
                                   !.tracker = Track(<<>>, found, "NO_ACTION")]
                 /\ Become(p, u)
    BY <1>15 DEF StorePiece, t
  <2>2. u.tracker = Track(<<>>, found, "NO_ACTION")
    BY <1>1, <2>1 DEF Local
  <2> HIDE DEF found
  <2>3. \A i \in DOMAIN u.tracker : u.tracker[i].status = "NO_ACTION"
    BY <2>2 DEF Track
  <2> QED  BY <1>3, <2>1, <2>3
<1>16. Step(p) => Goal
  <2>1. CASE main'[p].pc = "lookup"
    BY <1>8, <1>9, <1>10, <1>12, <1>13, <1>14, <1>15, <2>1, StaysInLookup
  <2>2. CASE main'[p].pc # "lookup"
    BY <2>2 DEF MetAll, Goal
  <2> QED  BY <2>1, <2>2
<1> QED  BY <1>11, <1>16 DEF GivesUp, Goal

\* A main thread only takes from the responses.
LEMMA MoverResponses ==
    ASSUME Inv, NEW p \in Endpoint,
           \/ Step(p) \/ GivesUp(p) \/ (p \in Users /\ Command(p)) \/ Stop(p)
           \/ FindNodeOwnId(p) \/ Begin(p)
    PROVE  responses'[p] \subseteq responses[p]
<1> DEFINE Goal == responses'[p] \subseteq responses[p]
<1>1. ASSUME UNCHANGED responses PROVE Goal
  BY <1>1
<1>2. ASSUME NEW why, Terminate(p, why) PROVE Goal
  BY <1>2 DEF Terminate, Inv, RecvInv
<1>3. ASSUME NEW id, NEW m, LookupTake(p, id, m) \/ LookupDiscard(p, id, m) \/ WaitTake(p, id, m)
      PROVE  Goal
  BY <1>3 DEF LookupTake, LookupDiscard, WaitTake, Inv, RecvInv
<1> HIDE DEF Goal
<1>4. ASSUME NEW why, Dies(p, why) PROVE Goal
  BY <1>2, <1>4 DEF Dies
<1>5. ASSUME NEW m, FirstResponse(p, m) \/ FirstResponseInvalid(p, m) PROVE Goal
  BY <1>1, <1>4, <1>5 DEF FirstResponse, FirstResponseInvalid
<1>6. ASSUME NEW id, NEW m, \/ InsertNext(p, id) \/ LookupSend(p, id) \/ KeepWaiting(p, id)
                            \/ WaitMismatch(p, id, m) \/ GiveUp(p, id)
      PROVE  Goal
  BY <1>1, <1>6 DEF InsertNext, LookupSend, KeepWaiting, WaitMismatch, GiveUp, recvVars
<1>7. ASSUME FirstResponseTimeout(p) \/ InsertOwnId(p) \/ StorePieceFails(p) PROVE Goal
  BY <1>1, <1>4, <1>7 DEF FirstResponseTimeout, InsertOwnId, StorePieceFails, recvVars
<1>8. ASSUME NextPass(p) \/ BootstrapLookupDone(p) \/ StoreLookupDone(p) \/ StoreWaitDone(p)
      PROVE  UNCHANGED responses
  <2>1. ASSUME NextPass(p) \/ BootstrapLookupDone(p) PROVE UNCHANGED responses
    BY <2>1 DEF NextPass, BootstrapLookupDone, recvVars
  <2>2. ASSUME StoreLookupDone(p) PROVE UNCHANGED responses
    BY <2>2 DEF StoreLookupDone
  <2>3. ASSUME StoreWaitDone(p) PROVE UNCHANGED responses
    BY <2>3 DEF StoreWaitDone, recvVars
  <2> QED  BY <1>8, <2>1, <2>2, <2>3
<1>9. ASSUME RecordMetadata(p) \/ RetrieveWaitDone(p) \/ RetrieveWaitFails(p) \/ WriteBack(p)
      PROVE  UNCHANGED responses
  <2>1. ASSUME RecordMetadata(p) \/ RetrieveWaitFails(p) PROVE UNCHANGED responses
    BY <2>1 DEF RecordMetadata, RetrieveWaitFails, recvVars
  <2>2. ASSUME WriteBack(p) PROVE UNCHANGED responses
    BY <2>2 DEF WriteBack, recvVars
  <2>3. ASSUME RetrieveWaitDone(p) PROVE UNCHANGED responses
    BY <2>3, RetrieveWaitDoneIs
  <2> QED  BY <1>9, <2>1, <2>2, <2>3
<1>10. Step(p) => Goal
  <2>1. ASSUME StorePiece(p) \/ RetrievePiece(p) PROVE Goal
    <3>1. UNCHANGED responses \/ responses' = [responses EXCEPT ![p] = {}]
      BY <2>1 DEF StorePiece, RetrievePiece
    <3> QED  BY <3>1 DEF Inv, RecvInv, Goal
  <2> QED  BY <1>1, <1>3, <1>5, <1>6, <1>7, <1>8, <1>9, <2>1 DEF Step
<1>11. Command(p) => Goal
  <2>1. ASSUME NEW f, StoreCommand(p, f) \/ RetrieveCommand(p, f) PROVE Goal
    BY <1>1, <2>1 DEF StoreCommand, RetrieveCommand, recvVars
  <2>2. ASSUME RetrieveDirectory(p) PROVE Goal
    BY <1>1, <2>2 DEF RetrieveDirectory, recvVars
  <2> QED  BY <2>1, <2>2 DEF Command
<1>12. FindNodeOwnId(p) \/ Stop(p) \/ Begin(p) => Goal
  BY <1>1, <1>2, <1>4 DEF FindNodeOwnId, Stop, Begin, Start, StartBoot
<1> QED  BY <1>6, <1>10, <1>11, <1>12 DEF GivesUp, Goal

LEMMA ProceedingMeets ==
    ASSUME MaxRestarts = 0, Acquaints, Inv, Began, [Next]_vars,
           NEW p \in Endpoint, Proceeds(p)
    PROVE  MetAll(p)' /\ \A m \in responses'[p] : Meets(m)'
<1>1. main'[p] = main[p]
  BY DEF Proceeds
<1>2. ASSUME main'[p].pc = "lookup", NEW id \in DOMAIN main'[p].tracker,
             main'[p].tracker[id].status = "REQUEST_RECEIVED",
             NEW q, q = main'[p].tracker[id].ep
      PROVE  Met(q, p)'
  BY <1>1, <1>2, MetAllStays
<1>3. MetAll(p)'
  <2> SUFFICES ASSUME main'[p].pc = "lookup", NEW id \in DOMAIN main'[p].tracker,
                      main'[p].tracker[id].status = "REQUEST_RECEIVED"
               PROVE  Met(main[p].tracker[id].ep, p)'
    BY DEF MetAll
  <2>1. PICK q : q = main'[p].tracker[id].ep
    OBVIOUS
  <2>2. Met(q, p)'
    BY <1>2, <2>1
  <2> QED  BY <2>1, <2>2
<1>4. ASSUME NEW m \in responses'[p] PROVE Meets(m)'
  <2>1. m \in responses[p] \/ m \in Open(p)
    BY DEF Proceeds
  <2> QED  BY <2>1, KeptMeets
<1> QED  BY <1>3, <1>4

\* The one whose step it is takes responses from its map or has lost them all.
LEMMA MoverMeets ==
    ASSUME MaxRestarts = 0, Acquaints, Inv, Began, [Next]_vars,
           NEW p \in Endpoint,
           \/ Step(p) \/ GivesUp(p) \/ (p \in Users /\ Command(p)) \/ Stop(p)
           \/ FindNodeOwnId(p) \/ Begin(p)
    PROVE  MetAll(p)' /\ \A m \in responses'[p] : Meets(m)'
<1>1. responses'[p] \subseteq responses[p]
  BY MoverResponses
<1>2. ASSUME NEW m \in responses'[p] PROVE Meets(m)'
  BY <1>1, KeptMeets
<1>3. CASE Step(p) \/ GivesUp(p)
  BY <1>2, <1>3, StepMeets
<1>4. CASE p \in Users /\ Command(p)
  BY <1>2, <1>4, CommandEmpty DEF MetAll
<1>5. ASSUME NEW t, Become(p, t), t.pc # "lookup" PROVE MetAll(p)'
  BY <1>5, Becomes DEF MetAll
<1>6. CASE Stop(p) \/ FindNodeOwnId(p) \/ (p = Boot /\ StartBoot)
  <2>1. Become(p, Parked("off")) \/ Become(p, Parked("serving"))
    BY <1>6 DEF FindNodeOwnId, Stop, Dies, Terminate, StartBoot
  <2>2. Parked("off").pc = "off" /\ Parked("serving").pc = "serving"
    BY DEF Parked
  <2> QED  BY <1>2, <1>5, <2>1, <2>2
<1>7. CASE Start(p)
  <2>1. main'[p].pc = "first_response"
    BY <1>7, StartOwns
  <2> QED  BY <1>2, <2>1 DEF MetAll
<1> QED  BY <1>3, <1>4, <1>6, <1>7 DEF Begin

LEMMA NextAcquaints ==
    ASSUME MaxRestarts = 0
    PROVE  Inv /\ Began /\ Acquaints /\ [Next]_vars => Acquaints'
<1> SUFFICES ASSUME Inv, Began, Acquaints, [Next]_vars PROVE Acquaints'
  OBVIOUS
<1>1. NoneRestarted'
  BY NextRestarts DEF Acquaints
<1>2. \A m \in net' : Meets(m)'
  BY NetMeets
<1>3. ASSUME NEW p \in Endpoint PROVE MetAll(p)' /\ \A m \in responses'[p] : Meets(m)'
  <2>1. CASE \E q \in Endpoint :
                \/ Step(q) \/ GivesUp(q) \/ (q \in Users /\ Command(q)) \/ Stop(q)
                \/ FindNodeOwnId(q) \/ Begin(q)
    <3>1. PICK q \in Endpoint :
             \/ Step(q) \/ GivesUp(q) \/ (q \in Users /\ Command(q)) \/ Stop(q)
             \/ FindNodeOwnId(q) \/ Begin(q)
      BY <2>1
    <3>2. Owns(q)
      BY <3>1, MainMoves, StartOwns DEF Moved, Begin
    <3>3. CASE p = q
      BY <3>1, <3>3, MoverMeets
    <3>4. CASE p # q
      BY <3>2, <3>4, OthersProceed, ProceedingMeets
    <3> QED  BY <3>3, <3>4
  <2>2. CASE \/ Bounced \/ Lost \/ UNCHANGED vars
             \/ \E q \in Endpoint : ReceiveFails(q) \/ Receive(q)
    BY <2>2, NetworkProceeds, ProceedingMeets
  <2> QED  BY <2>1, <2>2, SetUpAssumption DEF Next
<1> QED  BY <1>1, <1>2, <1>3 DEF Acquaints

LEMMA InitAcquaints == Init => Acquaints
<1> SUFFICES ASSUME Init PROVE Acquaints
  OBVIOUS
<1>1. NoneRestarted /\ net = {}
  BY DEF Init, NoneRestarted
<1>2. ASSUME NEW p \in Endpoint PROVE responses[p] = {} /\ MetAll(p)
  <2>1. \E pc \in {"serving", "idle", "off"} : main[p] = Parked(pc)
    BY DEF Init
  <2>2. main[p].pc # "lookup"
    BY <2>1 DEF Parked
  <2> QED  BY <2>2 DEF Init, MetAll
<1> QED  BY <1>1, <1>2 DEF Acquaints

\* AnswererKnowsAsker, for every number of processes, whatever is lost and whoever
\* ends, however late answers come: what the lookup of the own id in bootstrap is
\* for.  Where processes are started again, the table that knew the asker is gone.
THEOREM AskersGetKnown ==
    ASSUME MaxRestarts = 0
    PROVE  Spec => []AnswererKnowsAsker
<1>1. Inv /\ Acquaints => AnswererKnowsAsker
  <2> SUFFICES ASSUME Inv, Acquaints, NEW p \in Endpoint, main[p].pc = "lookup",
                      NEW n \in Tracked(main[p].tracker, "REQUEST_RECEIVED"), n.ep \in up
               PROVE  KnownOrFull(n.id, rt[n.ep], IdOf[p])
    BY DEF AnswererKnowsAsker, KnownOrFull
  <2>1. main[p].tracker \in Tracker
    BY DEF Inv, Threads, Thread, Local
  <2>2. /\ n.id \in DOMAIN main[p].tracker /\ main[p].tracker[n.id].ep = n.ep
        /\ main[p].tracker[n.id].status = "REQUEST_RECEIVED" /\ n.id = IdOf[n.ep]
    BY <2>1, TrackedNodes, TrackerElements DEF Stale
  <2>3. Met(n.ep, p)
    BY <2>2 DEF Acquaints, MetAll
  <2> QED  BY <2>2, <2>3 DEF Met
<1> QED  BY <1>1, Invariance, InitAcquaints, NextAcquaints, PTL DEF Spec

-----------------------------------------------------------------------------
(***************************************************************************)
(* NoAbnormalEnd.  What ends a process by an error is the own id where     *)
(* another one is expected, a piece whose hash is the id of a node, an     *)
(* empty table, or a first response of the wrong type.  None of them comes *)
(* about where pieces do not hash to ids and tables start with somebody.   *)
(***************************************************************************)
KeysApart ==
    \A f \in File : \A k \in DOMAIN Pieces[f] : \A p \in Endpoint :
        HashOf[Pieces[f][k]] # IdOf[p]

TablesFilled == \A p \in Joined : AllNodes(Tables[p]) # {}

\* p may ask others for key: nobody but p itself has it as its id.
Sought(p, key) == key \in ID /\ \A q \in Endpoint : key = IdOf[q] => q = p

Asks(m) == m.type = "FIND_NODE" => Sought(m.from, m.key)

Prepared(p) ==
    /\ main[p].pc \in {"first_response", "lookup"} => Sought(p, main[p].target)
    /\ main[p].pc \notin {"off", "serving", "first_response"} => AllNodes(rt[p]) # {}

Unharmed == /\ \A m \in net : Asks(m)
            /\ \A p \in Endpoint : Prepared(p)
            /\ NoAbnormalEnd

LEMMA PieceSought ==
    ASSUME KeysApart, NEW p \in Endpoint, Thread(p, main[p], metadata[p]),
           main[p].op = "store", Len(main[p].entries) < Len(Pieces[main[p].file])
    PROVE  Sought(p, HashOf[CurrentPiece(main[p])])
<1>1. /\ main[p].file \in File /\ main[p].entries \in Seq(Entry(p))
      /\ Pieces[main[p].file] \in Seq(Content \cup {NoContent})
  BY FilesAssumption DEF Thread, Storing, Local
<1>2. PICK k : k = Len(main[p].entries) + 1
  OBVIOUS
<1>3. k \in DOMAIN Pieces[main[p].file]
  BY <1>1, <1>2, LenProperties
<1>4. Pieces[main[p].file][k] \in Content \cup {NoContent}
  BY <1>1, <1>3, ElementOfSeq, LenProperties
<1>5. HashOf[CurrentPiece(main[p])] \in ID
  BY <1>2, <1>4, FilesAssumption DEF CurrentPiece
<1> QED  BY <1>1, <1>2, <1>3, <1>5 DEF KeysApart, CurrentPiece, Sought

\* Where FIND_NODE comes from.
LEMMA NewSearch ==
    ASSUME Inv, [Next]_vars, NEW r \in net' \ net, r.type = "FIND_NODE"
    PROVE  \E p \in Endpoint :
              /\ r.from = p
              /\ r.key = IdOf[p] \/ (main[p].pc = "lookup" /\ r.key = main[p].target)
<1> DEFINE Goal == \E p \in Endpoint :
               /\ r.from = p
               /\ r.key = IdOf[p] \/ (main[p].pc = "lookup" /\ r.key = main[p].target)
<1>1. ASSUME net' \subseteq net PROVE Goal
  BY <1>1
<1>2. ASSUME NEW p \in Endpoint, NEW to, NEW key, NEW content,
             r = Request("FIND_NODE", p, to, key, content),
             key = IdOf[p] \/ (main[p].pc = "lookup" /\ key = main[p].target)
      PROVE  Goal
  BY <1>2 DEF Request
<1>3. \A type, p, to, key, content : Request(type, p, to, key, content).type = type
  BY DEF Request
<1> HIDE DEF Goal
<1>4. ASSUME NEW p \in Endpoint, Receive(p) PROVE Goal
  <2>1. PICK m \in net : Handle(p, m)
    BY <1>4 DEF Receive
  <2>2. CASE HandleResponse(p, m)
    BY <1>1, <2>2 DEF HandleResponse
  <2>3. CASE HandleStore(p, m) \/ HandleFindNode(p, m) \/ HandleFindValue(p, m)
    <3>1. /\ m.type \in Requests
          /\ \E content, nodes : net' = (net \ {m}) \cup {Reply(m, content, nodes)}
      BY <2>3 DEF HandleStore, HandleFindNode, HandleFindValue, Answer, Requests
    <3>2. PICK content, nodes : r = Reply(m, content, nodes)
      BY <3>1
    <3>3. r.type = ReplyType[m.type]
      BY <3>2 DEF Reply
    <3> QED  BY <3>1, <3>3, ReplyTypes DEF Requests
  <2> QED  BY <2>1, <2>2, <2>3 DEF Handle
<1>5. ASSUME NEW why, NEW p, Dies(p, why) PROVE Goal
  BY <1>1, <1>5 DEF Dies, HandleStoreCut
<1>6. ASSUME NEW p \in Endpoint, FindNodeOwnId(p) \/ Stop(p) \/ ReceiveFails(p) PROVE Goal
  BY <1>1, <1>5, <1>6 DEF FindNodeOwnId, Stop, ReceiveFails
<1>7. ASSUME NEW p \in Endpoint, Begin(p) PROVE Goal
  BY <1>1, <1>2, <1>7 DEF Begin, Start, StartBoot
<1>8. ASSUME NEW p \in Users, Command(p) PROVE Goal
  <2>1. ASSUME NEW f, StoreCommand(p, f) \/ RetrieveCommand(p, f) PROVE Goal
    BY <1>1, <2>1 DEF StoreCommand, RetrieveCommand, recvVars
  <2>2. ASSUME RetrieveDirectory(p) PROVE Goal
    BY <1>1, <2>2 DEF RetrieveDirectory, recvVars
  <2> QED  BY <1>8, <2>1, <2>2 DEF Command
<1>9. ASSUME \/ Bounced \/ Lost \/ UNCHANGED vars \/ \E p \in Endpoint : GivesUp(p) PROVE Goal
  BY <1>1, <1>9 DEF Bounced, Lost, Bounce, Lose, vars, recvVars, GivesUp, GiveUp
<1>10. ASSUME NEW p \in Endpoint, Step(p) PROVE Goal
  <2>1. ASSUME NEW m, FirstResponse(p, m) \/ FirstResponseInvalid(p, m) PROVE Goal
    BY <1>1, <1>5, <2>1 DEF FirstResponse, FirstResponseInvalid
  <2>2. ASSUME NEW id, LookupSend(p, id) PROVE Goal
    BY <1>1, <1>2, <2>2 DEF LookupSend
  <2>3. ASSUME NEW id, NEW m, \/ InsertNext(p, id) \/ KeepWaiting(p, id)
                              \/ LookupTake(p, id, m) \/ LookupDiscard(p, id, m)
                              \/ WaitTake(p, id, m) \/ WaitMismatch(p, id, m)
        PROVE  Goal
    BY <1>1, <2>3 DEF InsertNext, KeepWaiting, LookupTake, LookupDiscard, WaitTake,
       WaitMismatch, recvVars
  <2>4. ASSUME FirstResponseTimeout(p) \/ InsertOwnId(p) \/ StorePieceFails(p) PROVE Goal
    BY <1>1, <1>5, <2>4 DEF FirstResponseTimeout, InsertOwnId, StorePieceFails, recvVars
  <2>5. ASSUME NextPass(p) \/ BootstrapLookupDone(p) \/ StorePiece(p) \/ RecordMetadata(p)
        PROVE  Goal
    BY <1>1, <2>5 DEF NextPass, BootstrapLookupDone, StorePiece, RecordMetadata, recvVars
  <2>6. ASSUME StoreWaitDone(p) \/ RetrieveWaitFails(p) PROVE Goal
    BY <1>1, <2>6 DEF StoreWaitDone, RetrieveWaitFails, recvVars
  <2>7. ASSUME RetrieveWaitDone(p) \/ WriteBack(p) PROVE Goal
    BY <1>1, <2>7, RetrieveWaitDoneIs DEF WriteBack, recvVars
  <2>8. ASSUME StoreLookupDone(p) PROVE Goal
    <3>1. \A x \in net' : x \in net \/ x.type = "STORE"
      BY <1>3, <2>8 DEF StoreLookupDone
    <3> QED  BY <3>1
  <2>9. ASSUME RetrievePiece(p) PROVE Goal
    <3>1. \A x \in net' : x \in net \/ x.type = "FIND_VALUE"
      BY <1>3, <2>9 DEF RetrievePiece
    <3> QED  BY <3>1
  <2> QED  BY <1>10, <2>1, <2>2, <2>3, <2>4, <2>5, <2>6, <2>7, <2>8, <2>9 DEF Step
<1> QED  BY <1>4, <1>6, <1>7, <1>8, <1>9, <1>10 DEF Next, Goal

\* None of them can happen.
LEMMA NoHarm ==
    ASSUME ~Stale, KeysApart, Inv, Newcomers, Unharmed, NEW p \in Endpoint
    PROVE  /\ ~FindNodeOwnId(p) /\ ~InsertOwnId(p) /\ ~StorePieceFails(p)
           /\ \A m : ~FirstResponseInvalid(p, m)
<1>1. /\ Thread(p, main[p], metadata[p]) /\ Control(p, main[p])
      /\ TableOK(IdOf[p], rt[p]) /\ AllNodes(rt[p]) \subseteq Paired
      /\ IdOf[p] \in ID /\ Newcomer(p) /\ Prepared(p)
  BY IdsDiffer DEF Inv, Threads, Thread, RecvInv, ContactsOK, Newcomers, Unharmed
<1>2. ASSUME FindNodeOwnId(p) PROVE FALSE
  <2>1. PICK m \in net : m.to = p /\ m.type = "FIND_NODE" /\ ~InBounds(IdOf[p], m.key)
    BY <1>2 DEF FindNodeOwnId, Receives
  <2>2. m.from # p /\ Sought(m.from, m.key)
    BY <2>1 DEF Inv, RecvInv, Datagram, Unharmed, Asks
  <2>3. m.key \in ID /\ m.key # IdOf[p]
    BY <2>2 DEF Sought
  <2> QED  BY <1>1, <2>1, <2>3, IndexInBounds DEF InBounds
<1>3. ASSUME InsertOwnId(p) PROVE FALSE
  BY <1>1, <1>3 DEF InsertOwnId, InsertsNext, Newcomer
<1>4. ASSUME NEW m, FirstResponseInvalid(p, m) PROVE FALSE
  <2>1. m \in responses[p] /\ main[p].pc = "first_response" /\ m.type # "FIND_NODE_RESPONSE"
    BY <1>4 DEF FirstResponseInvalid, IsFirst
  <2>2. m.type \in Replies
    BY <2>1 DEF Inv, RecvInv, Incoming
  <2> QED  BY <1>1, <2>1, <2>2 DEF Newcomer
<1>5. ASSUME StorePieceFails(p) PROVE FALSE
  <2> DEFINE key   == HashOf[CurrentPiece(main[p])]
             found == FindNode(IdOf[p], rt[p], key)
  <2>1. /\ main[p].pc = "store" /\ ~Recording(p) /\ StorePieceFault(p) # "none"
        /\ main[p].op = "store"
    BY <1>1, <1>5 DEF StorePieceFails, Control
  <2>2. Len(main[p].entries) < Len(Pieces[main[p].file])
    <3>1. /\ Len(main[p].entries) <= Len(Pieces[main[p].file])
          /\ main[p].entries \in Seq(Entry(p)) /\ main[p].file \in File
      BY <1>1, <2>1 DEF Thread, Storing, Local
    <3>2. Len(main[p].entries) \in Nat /\ Len(Pieces[main[p].file]) \in Nat
      BY <3>1, FilesAssumption, LenProperties
    <3> QED  BY <2>1, <3>1, <3>2 DEF Recording
  <2>3. \A k \in DOMAIN Pieces[main[p].file] : \A q \in Endpoint :
           HashOf[Pieces[main[p].file][k]] # IdOf[q]
    BY <1>1, <2>1 DEF KeysApart, Thread, Storing
  <2>4. \A q \in Endpoint : key # IdOf[q]
    <3>1. main[p].entries \in Seq(Entry(p)) /\ main[p].file \in File
      BY <1>1, <2>1 DEF Thread, Storing, Local
    <3>2. PICK k : k = Len(main[p].entries) + 1
      OBVIOUS
    <3>3. k \in DOMAIN Pieces[main[p].file]
      BY <2>2, <3>1, <3>2, FilesAssumption, LenProperties
    <3> QED  BY <2>3, <3>2, <3>3 DEF CurrentPiece
  <2>5. key \in ID
    BY <1>1, <2>1, <2>2, PieceSought DEF Sought
  <2>6. key \in NotSelf(IdOf[p])
    BY <2>4, <2>5 DEF NotSelf
  <2>7. InBounds(IdOf[p], key)
    BY <1>1, <2>6, IndexInBounds DEF InBounds, NotSelf
  <2>8. \A n \in found : n.id # key
    <3>1. \A n \in found : n \in Paired
      BY <1>1, <2>7, FindNodeSubset
    <3> QED  BY <2>4, <3>1 DEF Paired, Node
  <2>9. AllNodes(rt[p]) # {}
    BY <1>1, <2>1 DEF Prepared
  <2>10. found # {}
    BY <1>1, <2>6, <2>9, FindNodeSomebody
  <2>11. StorePieceFault(p) = "none"
    BY <2>7, <2>8, <2>10 DEF StorePieceFault
  <2> QED  BY <2>1, <2>11
<1> QED  BY <1>2, <1>3, <1>4, <1>5

\* ... so that a process ends when it is stopped, or gets no response.
LEMMA NextFault ==
    ASSUME ~Stale, KeysApart, Inv, Newcomers, Unharmed, [Next]_vars
    PROVE  NoAbnormalEnd'
<1> DEFINE Mild == fault' = fault \/ \E p \in Endpoint : \E why \in {"stopped", "exit"} :
                       fault' = [fault EXCEPT ![p] = why]
<1>1. ASSUME UNCHANGED fault PROVE Mild
  BY <1>1
<1>2. ASSUME NEW p \in Endpoint, NEW why \in {"stopped", "exit"}, Dies(p, why) PROVE Mild
  BY <1>2 DEF Dies, Terminate
<1>3. Mild => NoAbnormalEnd'
  BY DEF Unharmed, NoAbnormalEnd, Inv, FilesOK
<1> HIDE DEF Mild
<1>4. ASSUME NEW p \in Endpoint,
             \/ Receive(p) \/ GivesUp(p) \/ Begin(p) \/ ReceiveFails(p)
             \/ (p \in Users /\ Command(p))
      PROVE  Mild
  <2>1. ASSUME Receive(p) \/ GivesUp(p) \/ Begin(p) \/ ReceiveFails(p) PROVE Mild
    BY <1>1, <2>1 DEF Receive, GivesUp, GiveUp, Begin, Start, StartBoot, ReceiveFails, mainVars
  <2>2. ASSUME NEW f, StoreCommand(p, f) \/ RetrieveCommand(p, f) PROVE Mild
    BY <1>1, <2>2 DEF StoreCommand, RetrieveCommand
  <2>3. ASSUME RetrieveDirectory(p) PROVE Mild
    BY <1>1, <2>3 DEF RetrieveDirectory
  <2> QED  BY <1>4, <2>1, <2>2, <2>3 DEF Command
<1>5. ASSUME NEW p \in Endpoint, FindNodeOwnId(p) \/ Stop(p) PROVE Mild
  BY <1>2, <1>5, NoHarm DEF Stop
<1>6. ASSUME \/ Bounced \/ Lost \/ UNCHANGED vars PROVE Mild
  BY <1>1, <1>6 DEF Bounced, Lost, vars, mainVars
<1>7. ASSUME NEW p \in Endpoint, Step(p) PROVE Mild
  <2>1. ASSUME NEW m, FirstResponse(p, m) \/ FirstResponseInvalid(p, m) PROVE Mild
    BY <1>1, <2>1, NoHarm DEF FirstResponse
  <2>2. ASSUME NEW id, NEW m, \/ InsertNext(p, id) \/ KeepWaiting(p, id) \/ LookupSend(p, id)
                              \/ LookupTake(p, id, m) \/ LookupDiscard(p, id, m)
                              \/ WaitTake(p, id, m) \/ WaitMismatch(p, id, m)
        PROVE  Mild
    BY <1>1, <2>2 DEF InsertNext, KeepWaiting, LookupSend, LookupTake, LookupDiscard,
       WaitTake, WaitMismatch
  <2>3. ASSUME FirstResponseTimeout(p) \/ InsertOwnId(p) \/ StorePieceFails(p) PROVE Mild
    BY <1>2, <2>3, NoHarm DEF FirstResponseTimeout
  <2>4. ASSUME NextPass(p) \/ BootstrapLookupDone(p) \/ StorePiece(p) \/ RecordMetadata(p)
        PROVE  Mild
    BY <1>1, <2>4 DEF NextPass, BootstrapLookupDone, StorePiece, RecordMetadata
  <2>5. ASSUME StoreLookupDone(p) \/ RetrieveWaitFails(p) \/ RetrievePiece(p) PROVE Mild
    BY <1>1, <2>5 DEF StoreLookupDone, RetrieveWaitFails, RetrievePiece
  <2>6. ASSUME StoreWaitDone(p) \/ WriteBack(p) PROVE Mild
    BY <1>1, <2>6 DEF StoreWaitDone, WriteBack
  <2>7. ASSUME RetrieveWaitDone(p) PROVE Mild
    BY <1>1, <2>7, RetrieveWaitDoneIs
  <2> QED  BY <1>7, <2>1, <2>2, <2>3, <2>4, <2>5, <2>6, <2>7 DEF Step
<1> QED  BY <1>3, <1>4, <1>5, <1>6, <1>7, SetUpAssumption DEF Next

\* Whoever is past the first response filed its sender.
LEMMA StepPrepared ==
    ASSUME ~Stale, KeysApart, Inv, Newcomers, Unharmed, [Next]_vars,
           NEW p \in Endpoint, Step(p)
    PROVE  Prepared(p)'
<1> DEFINE t == main[p]
<1>1. /\ Thread(p, t, metadata[p]) /\ t \in Local(p) /\ TableOK(IdOf[p], rt[p])
      /\ Prepared(p)
  BY DEF Inv, Threads, Thread, RecvInv, ContactsOK, Unharmed
<1> HIDE DEF t
<1>2. ASSUME NEW m, FirstResponse(p, m)
      PROVE  AllNodes(rt'[p]) # {} /\ (main'[p].pc = "idle" \/ main'[p].target = t.target)
             /\ t.pc = "first_response"
  <2>1. m \in Incoming(p) /\ t.pc = "first_response"
    BY <1>2 DEF FirstResponse, IsFirst, Inv, RecvInv, t
  <2>2. IdOf[m.from] \in NotSelf(IdOf[p]) /\ Boot \in Endpoint
    BY <2>1, IdsDiffer, FilesAssumption DEF Incoming, Datagram, Message, NotSelf
  <2>3. rt'[p] = InsertNode(IdOf[p], rt[p], IdOf[m.from], Boot)
    BY <1>2 DEF FirstResponse, Inv, RecvInv
  <2>4. PICK tracker :
           tracker = Track(Track(<<>>, {[id |-> IdOf[m.from], ep |-> Boot]},
                                 "REQUEST_RECEIVED"), m.nodes, "NO_ACTION")
    OBVIOUS
  <2>5. PICK u, v : /\ u = [t EXCEPT !.pc = "lookup", !.tracker = tracker]
                    /\ v = Parked("idle")
    OBVIOUS
  <2>6. Become(p, IF m.nodes = {} THEN v ELSE u)
    BY <1>2, <2>4, <2>5 DEF FirstResponse, t
  <2>7. v.pc = "idle" /\ u.target = t.target
    BY <1>1, <2>5 DEF Parked, Local
  <2>8. main'[p].pc = "idle" \/ main'[p].target = t.target
    <3>1. CASE m.nodes = {}
      BY <2>6, <2>7, <3>1, Becomes
    <3>2. CASE m.nodes # {}
      BY <2>6, <2>7, <3>2, Becomes
    <3> QED  BY <3>1, <3>2
  <2> QED  BY <1>1, <2>1, <2>2, <2>3, <2>8, InsertNodeFills
<1>3. main'[p].pc \in {"first_response", "lookup"} => Sought(p, main'[p].target)
  <2> SUFFICES ASSUME main'[p].pc \in {"first_response", "lookup"}
               PROVE  Sought(p, main'[p].target)
    OBVIOUS
  <2>1. ASSUME NEW u, Become(p, u), u.target = t.target, t.pc \in {"first_response", "lookup"}
        PROVE  Sought(p, main'[p].target)
    BY <1>1, <2>1, Becomes DEF Prepared, t
  <2>2. ASSUME NEW m, FirstResponse(p, m) PROVE Sought(p, main'[p].target)
    BY <1>1, <1>2, <2>2 DEF Prepared, t
  <2>3. ASSUME NEW id, LookupSend(p, id) PROVE Sought(p, main'[p].target)
    <3>1. PICK u : Become(p, u) /\ u = Queried(t, id) /\ t.pc = "lookup"
      BY <2>3 DEF LookupSend, t
    <3>2. u.target = t.target
      BY <1>1, <3>1 DEF Queried, Local
    <3> QED  BY <2>1, <3>1, <3>2
  <2>4. ASSUME NEW id, KeepWaiting(p, id) PROVE Sought(p, main'[p].target)
    <3>1. PICK u : Become(p, u) /\ u = StillOpen(t, id)
      BY <2>4 DEF KeepWaiting, t
    <3>2. u.target = t.target /\ u.pc = t.pc
      BY <1>1, <3>1 DEF StillOpen, Local
    <3>3. t.pc \in {"first_response", "lookup"}
      BY <3>1, <3>2, Becomes
    <3> QED  BY <2>1, <3>1, <3>2, <3>3
  <2>5. ASSUME NEW id, NEW m, LookupTake(p, id, m) PROVE Sought(p, main'[p].target)
    <3>1. PICK u : /\ Become(p, u) /\ u = Learned(t, id, {n \in m.nodes : n.id # IdOf[p]})
                   /\ t.pc = "lookup"
      BY <2>5 DEF LookupTake, t
    <3>2. u.target = t.target
      BY <1>1, <3>1 DEF Learned, Local
    <3> QED  BY <2>1, <3>1, <3>2
  <2>6. ASSUME NEW id, NEW m, LookupDiscard(p, id, m) PROVE Sought(p, main'[p].target)
    <3>1. PICK u : Become(p, u) /\ u = [t EXCEPT !.cursor = {id}] /\ t.pc = "lookup"
      BY <2>6 DEF LookupDiscard, t
    <3>2. u.target = t.target
      BY <1>1, <3>1 DEF Local
    <3> QED  BY <2>1, <3>1, <3>2
  <2>7. ASSUME NextPass(p) PROVE Sought(p, main'[p].target)
    <3>1. PICK u : Become(p, u) /\ u = [t EXCEPT !.cursor = {}, !.completed = TRUE]
      BY <2>7 DEF NextPass, t
    <3>2. u.target = t.target /\ u.pc = t.pc
      BY <1>1, <3>1 DEF Local
    <3>3. t.pc \in {"first_response", "lookup"}
      BY <3>1, <3>2, Becomes
    <3> QED  BY <2>1, <3>1, <3>2, <3>3
  <2>8. ASSUME StorePiece(p) PROVE Sought(p, main'[p].target)
    <3> DEFINE key == HashOf[CurrentPiece(t)]
    <3>1. PICK tracker : tracker = Track(<<>>, FindNode(IdOf[p], rt[p], key), "NO_ACTION")
      OBVIOUS
    <3>2. PICK u : /\ u = [t EXCEPT !.pc = "lookup", !.target = key, !.tracker = tracker]
                   /\ Become(p, u)
      BY <2>8, <3>1 DEF StorePiece, t
    <3> HIDE DEF key
    <3>3. u.target = key
      BY <1>1, <3>2 DEF Local
    <3>4. t.pc = "store" /\ t.op = "store" /\ ~Recording(p)
      BY <1>1, <2>8 DEF StorePiece, Thread, Control, t
    <3>5. Len(t.entries) < Len(Pieces[t.file])
      <4>1. /\ Len(t.entries) <= Len(Pieces[t.file])
            /\ t.entries \in Seq(Entry(p)) /\ t.file \in File
        BY <1>1, <3>4 DEF Thread, Storing, Local
      <4>2. Len(t.entries) \in Nat /\ Len(Pieces[t.file]) \in Nat
        BY <4>1, FilesAssumption, LenProperties
      <4> QED  BY <3>4, <4>1, <4>2 DEF Recording, t
    <3>6. Sought(p, key)
      BY <1>1, <3>4, <3>5, PieceSought DEF t, key
    <3> QED  BY <3>2, <3>3, <3>6, Becomes
  <2> QED  BY <2>2, <2>3, <2>4, <2>5, <2>6, <2>7, <2>8, StaysInLookup
<1>4. ASSUME main'[p].pc \notin {"off", "serving", "first_response"}
      PROVE  AllNodes(rt'[p]) # {}
  <2>1. rt'[p] = rt[p] \/ Inserts(p)
    BY <1>4, NextInserts DEF TablesMove
  <2>2. Inserts(p) => AllNodes(rt'[p]) # {}
    BY <1>1, InsertNodeFills DEF Inserts, NotSelf
  <2>3. CASE t.pc \notin {"off", "serving", "first_response"}
    BY <1>1, <2>1, <2>2, <2>3 DEF Prepared, t
  <2>4. CASE t.pc \in {"off", "serving", "first_response"}
    <3>1. t.pc = "first_response"
      BY <2>4 DEF Step, AtRest, t
    <3>2. ASSUME NEW why, Dies(p, why) PROVE FALSE
      <4>1. PICK u : u = Parked("off") /\ Become(p, u)
        BY <3>2 DEF Dies, Terminate
      <4>2. u.pc = "off"
        BY <4>1 DEF Parked
      <4> QED  BY <1>4, <4>1, <4>2, Becomes
    <3>3. ASSUME NEW id, NEW m, \/ InsertNext(p, id) \/ LookupSend(p, id) \/ KeepWaiting(p, id)
                                \/ LookupTake(p, id, m) \/ LookupDiscard(p, id, m)
                                \/ WaitTake(p, id, m) \/ WaitMismatch(p, id, m)
          PROVE  FALSE
      BY <3>1, <3>3 DEF InsertNext, InsertsNext, LookupSend, KeepWaiting, Visits,
         LookupTake, LookupDiscard, WaitTake, WaitMismatch, t
    <3>4. ASSUME \/ InsertOwnId(p) \/ NextPass(p) \/ BootstrapLookupDone(p) \/ StorePiece(p)
                 \/ StorePieceFails(p)
          PROVE  FALSE
      BY <3>1, <3>4 DEF InsertOwnId, InsertsNext, NextPass, PassEnds, BootstrapLookupDone,
         StorePiece, StorePieceFails, t
    <3>5. ASSUME StoreLookupDone(p) \/ StoreWaitDone(p) \/ RecordMetadata(p) PROVE FALSE
      BY <3>1, <3>5 DEF StoreLookupDone, StoreWaitDone, RecordMetadata, Recording, t
    <3>6. ASSUME \/ RetrievePiece(p) \/ RetrieveWaitDone(p) \/ RetrieveWaitFails(p)
                 \/ WriteBack(p)
          PROVE  FALSE
      BY <3>1, <3>6, RetrieveWaitDoneIs DEF RetrievePiece, RetrieveWaitFails,
         RetrieveWaitEnds, WriteBack, WritingBack, t
    <3>7. PICK m : FirstResponse(p, m) \/ FirstResponseInvalid(p, m) \/ FirstResponseTimeout(p)
      BY <3>3, <3>4, <3>5, <3>6 DEF Step
    <3>8. FirstResponse(p, m)
      BY <3>2, <3>7 DEF FirstResponseInvalid, FirstResponseTimeout
    <3> QED  BY <1>2, <3>8
  <2> QED  BY <2>3, <2>4
<1> QED  BY <1>3, <1>4 DEF Prepared

LEMMA NetAsks ==
    ASSUME KeysApart, Inv, Unharmed, [Next]_vars, NEW r \in net'
    PROVE  Asks(r)
<1> SUFFICES ASSUME r.type = "FIND_NODE", r \notin net PROVE Sought(r.from, r.key)
  BY DEF Unharmed, Asks
<1>1. PICK p \in Endpoint :
         /\ r.from = p
         /\ r.key = IdOf[p] \/ (main[p].pc = "lookup" /\ r.key = main[p].target)
  BY NewSearch
<1> QED  BY <1>1, IdsDiffer DEF Unharmed, Prepared, Sought

LEMMA NextUnharmed ==
    ASSUME ~Stale, KeysApart
    PROVE  Inv /\ Newcomers /\ Unharmed /\ [Next]_vars => Unharmed'
<1> SUFFICES ASSUME Inv, Newcomers, Unharmed, [Next]_vars PROVE Unharmed'
  OBVIOUS
<1>1. NoAbnormalEnd'
  BY NextFault
<1>2. \A m \in net' : Asks(m)
  BY NetAsks
<1>3. ASSUME NEW p \in Endpoint,
             main'[p].pc \in {"first_response", "lookup"} => Sought(p, main'[p].target),
             \/ main'[p].pc \in {"off", "serving", "first_response"}
             \/ main[p].pc \notin {"off", "serving", "first_response"}
      PROVE  Prepared(p)'
  <2>1. ASSUME main'[p].pc \notin {"off", "serving", "first_response"}
        PROVE  AllNodes(rt'[p]) # {}
    <3>1. AllNodes(rt[p]) # {} /\ TableOK(IdOf[p], rt[p])
      BY <1>3, <2>1 DEF Unharmed, Prepared, Inv, RecvInv, ContactsOK
    <3>2. rt'[p] = rt[p] \/ Inserts(p)
      BY <2>1, NextInserts DEF TablesMove
    <3> QED  BY <3>1, <3>2, InsertNodeFills DEF Inserts, NotSelf
  <2> QED  BY <1>3, <2>1 DEF Prepared
<1>4. ASSUME NEW p \in Endpoint, main'[p] = main[p] PROVE Prepared(p)'
  <2>1. Prepared(p)
    BY DEF Unharmed
  <2> QED  BY <1>3, <1>4, <2>1 DEF Prepared
<1>5. ASSUME NEW p \in Endpoint, Step(p) PROVE Prepared(p)'
  BY <1>5, StepPrepared
<1>6. ASSUME NEW p \in Endpoint, GivesUp(p) PROVE Prepared(p)'
  <2>1. PICK id : GiveUp(p, id)
    BY <1>6 DEF GivesUp
  <2>2. main[p] \in Local(p) /\ Prepared(p)
    BY DEF Inv, Threads, Thread, Unharmed
  <2>3. PICK u : /\ Become(p, u) /\ u = TimedOut(main[p], id)
                 /\ main[p].pc \in {"lookup", "wait"}
    BY <2>1 DEF GiveUp, Visits
  <2>4. u.pc = main[p].pc /\ u.target = main[p].target
    BY <2>2, <2>3 DEF TimedOut, Local
  <2>5. main'[p].pc = main[p].pc /\ main'[p].target = main[p].target
    BY <2>3, <2>4, Becomes
  <2> QED  BY <1>3, <2>2, <2>3, <2>5 DEF Prepared
<1>7. ASSUME NEW p \in Users, Command(p) PROVE Prepared(p)'
  BY <1>3, <1>7, CommandEmpty, SetUpAssumption
<1>8. ASSUME NEW p \in Endpoint, FindNodeOwnId(p) \/ Stop(p) \/ (p = Boot /\ StartBoot)
      PROVE  Prepared(p)'
  <2>1. PICK pc \in {"off", "serving"} : Become(p, Parked(pc))
    BY <1>8 DEF FindNodeOwnId, Stop, Dies, Terminate, StartBoot
  <2>2. PICK u : u = Parked(pc)
    OBVIOUS
  <2>3. u.pc = pc /\ main'[p] = u
    BY <2>1, <2>2, Becomes DEF Parked
  <2> QED  BY <1>3, <2>3
<1>9. ASSUME NEW p \in Endpoint, Start(p) PROVE Prepared(p)'
  <2>1. PICK u : /\ u = [Parked("first_response") EXCEPT !.op = "bootstrap",
                                                          !.target = IdOf[p]]
                 /\ Become(p, u)
    BY <1>9 DEF Start
  <2>2. u.pc = "first_response" /\ u.target = IdOf[p]
    BY <2>1 DEF Parked
  <2>3. main'[p] = u
    BY <2>1, Becomes
  <2> QED  BY <1>3, <2>2, <2>3, IdsDiffer DEF Sought
<1>10. ASSUME NEW p \in Endpoint PROVE Prepared(p)'
  <2>1. ASSUME NEW q \in Endpoint, Owns(q), p # q PROVE Prepared(p)'
    BY <1>4, <2>1 DEF Owns
  <2>2. CASE \E q \in Endpoint : \/ Step(q) \/ GivesUp(q) \/ (q \in Users /\ Command(q))
                                 \/ Stop(q) \/ FindNodeOwnId(q) \/ Begin(q)
    <3>1. PICK q \in Endpoint : \/ Step(q) \/ GivesUp(q) \/ (q \in Users /\ Command(q))
                                \/ Stop(q) \/ FindNodeOwnId(q) \/ Begin(q)
      BY <2>2
    <3>2. Owns(q)
      BY <3>1, MainMoves, StartOwns DEF Moved, Begin
    <3>3. CASE p = q
      BY <1>5, <1>6, <1>7, <1>8, <1>9, <3>1, <3>3 DEF Begin
    <3> QED  BY <2>1, <3>2, <3>3
  <2>3. CASE \/ Bounced \/ Lost \/ UNCHANGED vars
             \/ \E q \in Endpoint : ReceiveFails(q) \/ Receive(q)
    BY <1>4, <2>3, NetworkProceeds DEF Proceeds
  <2> QED  BY <2>2, <2>3, SetUpAssumption DEF Next
<1> QED  BY <1>1, <1>2, <1>10 DEF Unharmed

LEMMA InitUnharmed == ASSUME TablesFilled PROVE Init => Unharmed
<1> SUFFICES ASSUME Init PROVE Unharmed
  OBVIOUS
<1>1. net = {} /\ NoAbnormalEnd
  BY DEF Init, NoAbnormalEnd
<1>2. ASSUME NEW p \in Endpoint PROVE Prepared(p)
  <2>1. PICK pc : /\ pc = IF p = Boot THEN "serving" ELSE IF p \in Joined THEN "idle" ELSE "off"
                  /\ main[p] = Parked(pc) /\ rt = Tables
    BY DEF Init
  <2>2. main[p].pc = pc
    BY <2>1 DEF Parked
  <2> QED  BY <2>1, <2>2 DEF Prepared, TablesFilled
<1> QED  BY <1>1, <1>2 DEF Unharmed

\* NoAbnormalEnd, for every number of processes and files, whatever is lost and
\* whoever is stopped: the indexes into m_k_buckets are in bounds, no exception of
\* store_file and no assert of bootstrap ends a process.  A process that starts a
\* second time does get its own id back (RestartOwnId), a piece that hashes to an
\* id does end one (StorePieceFails), and so does an empty table.
THEOREM EndsAreMeant ==
    ASSUME FirstStarts, KeysApart, TablesFilled
    PROVE  Spec => []NoAbnormalEnd
<1>1. Unharmed => NoAbnormalEnd
  BY DEF Unharmed
<1>2. ~Stale
  BY DEF FirstStarts, Stale
<1> QED  BY <1>1, <1>2, Invariance, InitNewcomers, NextNewcomers, InitUnharmed, NextUnharmed, PTL
         DEF Spec

=============================================================================
