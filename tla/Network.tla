------------------------------ MODULE Network ------------------------------
(***************************************************************************)
(* The receive thread of every peer: client::receive runs the io_context,  *)
(* handle_receive takes one UDP datagram, updates the routing table, the   *)
(* stored pieces or the map of responses, and sends the answer.  One       *)
(* thread runs the handlers, so each is one action.                        *)
(*                                                                         *)
(* A process is named by its endpoint.  Datagrams in flight are a set:     *)
(* they arrive in any order, and two equal ones in flight count as one.    *)
(* PING is left out: no code sends it.                                     *)
(***************************************************************************)
EXTENDS KBuckets

CONSTANTS IdOf,            \* the id in id.dat of every process
          Content,         \* contents of pieces
          NoContent,       \* the empty string
          Failing          \* processes whose disk may refuse a write

ASSUME IdsDiffer == /\ IdOf \in [Endpoint -> ID]
                    /\ \A p, q \in Endpoint : IdOf[p] = IdOf[q] => p = q
                    /\ Failing \subseteq Endpoint

VARIABLES net,             \* datagrams in flight
          up,              \* processes that run
          rt,              \* client::routing_table of each process
          disk,            \* network_data: piece key |-> content
          responses        \* client::responses: at most one per sender

recvVars == <<net, up, rt, disk, responses>>

Requests == {"STORE", "FIND_NODE", "FIND_VALUE"}

ReplyType ==
    [t \in Requests |-> CASE t = "STORE"      -> "STORE_RESPONSE"
                          [] t = "FIND_NODE"  -> "FIND_NODE_RESPONSE"
                          [] t = "FIND_VALUE" -> "FIND_VALUE_RESPONSE"]

Replies == Range(ReplyType)

\* struct message.  The body of each type is in content (text) or nodes.
\* A reply carries no key in the program; the field says which request it
\* answers, and only properties read it.
Message == [type : Requests \cup Replies, from : Endpoint, to : Endpoint,
            key : ID, content : Content \cup {NoContent}, nodes : SUBSET Node]

\* send_store_request, send_find_node_request, send_find_value_request.
Request(type, p, q, key, content) ==
    [type |-> type, from |-> p, to |-> q, key |-> key, content |-> content,
     nodes |-> {}]

\* The response to m, which goes to the endpoint the datagram came from.
Reply(m, content, nodes) ==
    [type |-> ReplyType[m.type], from |-> m.to, to |-> m.from, key |-> m.key,
     content |-> content, nodes |-> nodes]

-----------------------------------------------------------------------------
\* Mutant: the sender is recorded under the receiver's endpoint.
NoticedWrongEndpoint(m) ==
    [rt EXCEPT ![m.to] = InsertNode(IdOf[m.to], @, IdOf[m.from], m.to)]

\* Mutant: a known sender moves to the back of its bucket.
NoticedAgain(m) ==
    [rt EXCEPT ![m.to] = InsertNode(IdOf[m.to], DropNode(IdOf[m.to], @, IdOf[m.from]),
                                    IdOf[m.from], m.from)]

\* Mutant: the sender is not recorded.
NotNoticed(m) == rt

\* routing_table.handle_communication(msg.header.self_id, endpoint).
Noticed(m) == [rt EXCEPT ![m.to] = InsertNode(IdOf[m.to], @, IdOf[m.from], m.from)]

Receives(p, m) == m \in net /\ m.to = p /\ p \in up

Answer(m, reply) == net' = (net \ {m}) \cup {reply}

\* Mutant: a piece is acknowledged but not written.
WrittenNowhere(m) == disk

\* Mutant: the piece is filed under the header's id instead of its key.
WrittenUnderSender(m) == [disk EXCEPT ![m.to][IdOf[m.from]] = m.content]

\* storage::store_piece: the file named by the key is created or replaced.
Written(m) == [disk EXCEPT ![m.to][m.key] = m.content]

\* Opening the file empties it; its content is written when it is closed.
Emptied(m) == [disk EXCEPT ![m.to][m.key] = NoContent]

\* Where the file cannot be opened, or can but the content not be written,
\* store_piece prints that or nothing and returns all the same.
AfterStorePiece(m) ==
    {Written(m)} \cup (IF m.to \in Failing THEN {disk, Emptied(m)} ELSE {})

\* handle_store_request.  store_piece raises nothing, so "success" is all that
\* is ever answered.
HandleStore(p, m) ==
    /\ Receives(p, m) /\ m.type = "STORE"
    /\ rt' = Noticed(m)
    /\ disk' \in AfterStorePiece(m)
    /\ Answer(m, Reply(m, NoContent, {}))
    /\ UNCHANGED <<up, responses>>

\* The process ends while its receive thread is in handle_store_request, before
\* or after the content is written; there is no answer.
HandleStoreCut(p, m) ==
    /\ Receives(p, m) /\ m.type = "STORE"
    /\ net' = net \ {m}
    /\ disk' \in {Emptied(m)} \cup AfterStorePiece(m)

\* Mutant: the sender is noticed before the search.
FoundAfterNoticing(m) == FindNode(IdOf[m.to], Noticed(m)[m.to], m.key)

Found(m) == FindNode(IdOf[m.to], rt[m.to], m.key)

\* handle_find_node_request: the search comes before the sender is noticed.
HandleFindNode(p, m) ==
    /\ Receives(p, m) /\ m.type = "FIND_NODE" /\ InBounds(IdOf[p], m.key)
    /\ rt' = Noticed(m)
    /\ Answer(m, Reply(m, NoContent, Found(m)))
    /\ UNCHANGED <<up, disk, responses>>

\* storage::find_file_piece: the empty string both for a piece that is not there
\* and for one that is empty.
FilePiece(p, key) == disk[p][key]

\* handle_find_value_request.
HandleFindValue(p, m) ==
    /\ Receives(p, m) /\ m.type = "FIND_VALUE"
    /\ rt' = Noticed(m)
    /\ Answer(m, Reply(m, FilePiece(p, m.key), {}))
    /\ UNCHANGED <<up, disk, responses>>

\* responses.insert: a response of that sender that nobody has taken yet
\* stays, and the new one is lost.
Kept(p, m) ==
    [responses EXCEPT ![p] = IF \E r \in @ : r.from = m.from THEN @ ELSE @ \cup {m}]

HandleResponse(p, m) ==
    /\ Receives(p, m) /\ m.type \in Replies
    /\ responses' = Kept(p, m)
    /\ net' = net \ {m}
    /\ UNCHANGED <<up, rt, disk>>

Handle(p, m) == \/ HandleStore(p, m)     \/ HandleFindNode(p, m)
                \/ HandleFindValue(p, m) \/ HandleResponse(p, m)

\* UDP: a datagram is lost on the way.
Lose(m) == /\ m \in net
           /\ net' = net \ {m}
           /\ UNCHANGED <<up, rt, disk, responses>>

\* No socket is bound at the destination.
Bounce(m) == /\ m \in net /\ m.to \notin up
             /\ net' = net \ {m}
             /\ UNCHANGED <<up, rt, disk, responses>>

\* A request of p to q, or its answer, has not arrived yet.
InFlight(p, q) ==
    \E m \in net : \/ m.from = p /\ m.to = q /\ m.type \in Requests
                   \/ m.from = q /\ m.to = p /\ m.type \in Replies

=============================================================================
