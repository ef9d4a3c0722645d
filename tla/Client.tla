------------------------------- MODULE Client -------------------------------
(***************************************************************************)
(* The main thread of a peer: client::bootstrap, then the store and        *)
(* retrieve commands of event_loop, one at a time.  Every loop over a      *)
(* nodes_tracker is modelled one visited entry per step, since the receive *)
(* thread fills `responses` in between.                                    *)
(*                                                                         *)
(* main[p] holds the locals of the functions the thread is in:             *)
(*   pc         where it is ("lookup" is the loop of find_id_recursively,  *)
(*              "wait" that of wait_for_responses)                         *)
(*   op, file   the command being executed                                 *)
(*   entries    all_storing_nodes of interface.cpp's store_file            *)
(*   contents   the pieces its retrieve_file has read so far               *)
(*   todo       the files retrieve_directory has not come to               *)
(*   target     id_to_find / the hash of the piece                         *)
(*   tracker    the nodes_tracker: id |-> endpoint and status              *)
(*   cursor     {} before a pass over the tracker, then {id last visited}  *)
(*   completed  node_query_completed                                       *)
(*   answers    responses_vec                                              *)
(***************************************************************************)
EXTENDS Network

CONSTANTS Boot,            \* endpoint of the bootstrap node, boot_node
          File, NoFile,    \* files on the users' machines; no file
          Pieces,          \* the encrypted pieces of a file, in order
          HashOf,          \* the first NO_OF_BIT bits of SHA-1
          ReplicaCount,    \* replica_count (config.h)
          Late             \* may an answer outlive TIMEOUT_LIMIT?

ASSUME FilesAssumption ==
    /\ NoFile \notin File
    /\ Pieces \in [File -> Seq(Content \cup {NoContent}) \ {<<>>}]
    /\ HashOf \in [Content \cup {NoContent} -> ID]
    /\ ReplicaCount \in Nat \ {0}
    /\ Boot \in Endpoint /\ Late \in BOOLEAN

VARIABLES main,            \* main thread of each process
          metadata,        \* network_fs: file |-> its pieces and their nodes,
                           \* or NoFile
          retrieved,       \* data: file |-> the contents written there, or NoFile
          fault            \* history: what ended the process the last time

mainVars == <<main, metadata, retrieved, fault>>

Ops == {"none", "bootstrap", "store", "retrieve"}

PCs == {"off", "serving", "first_response", "lookup", "insert", "idle",
        "store", "retrieve", "wait"}

\* client::peer_status.
Status == {"NO_ACTION", "REQUEST_SENT", "REQUEST_RECEIVED", "REQUEST_TIMEOUT"}

Parked(pc) ==
    [pc |-> pc, op |-> "none", file |-> NoFile, entries |-> <<>>,
     contents |-> <<>>, todo |-> {}, target |-> IdOf[Boot], tracker |-> <<>>,
     cursor |-> {}, completed |-> TRUE, answers |-> <<>>]

Become(p, t) == main' = [main EXCEPT ![p] = t]

\* The main thread is about to write the metadata file of store_file ...
Recording(p) == /\ main[p].pc = "store"
                /\ Len(main[p].entries) = Len(Pieces[main[p].file])

\* ... or the file of retrieve_file.
WritingBack(p) == /\ main[p].pc = "retrieve"
                  /\ Len(main[p].contents) = Len(metadata[p][main[p].file])

\* Mutant: the first line, or piece, of the file is there already.
CutBehindFirst(files, p, open) ==
    LET written == main[p].entries \o main[p].contents
    IN  {files} \cup (IF open THEN {[files EXCEPT ![p][main[p].file] = <<written[1]>>]} ELSE {})

\* A file is emptied when it is opened, and written when it is closed: one that
\* the main thread has open when the process ends is empty.
CutShort(files, p, open) ==
    {files} \cup (IF open THEN {[files EXCEPT ![p][main[p].file] = <<>>]} ELSE {})

\* The process is gone: terminate, abort, exit, a crash or `quit`, which
\* destroys the joinable recv_thread.  What is on disk stays.
Terminate(p, why) ==
    /\ up' = up \ {p}
    /\ rt' = [rt EXCEPT ![p] = EmptyTable]
    /\ responses' = [responses EXCEPT ![p] = {}]
    /\ Become(p, Parked("off"))
    /\ fault' = [fault EXCEPT ![p] = why]
    /\ metadata' \in CutShort(metadata, p, Recording(p))
    /\ retrieved' \in CutShort(retrieved, p, WritingBack(p))

\* The main thread or the user ends it, whatever the receive thread is doing.
Dies(p, why) ==
    /\ Terminate(p, why)
    /\ \/ UNCHANGED <<net, disk>>
       \/ \E m \in net : HandleStoreCut(p, m)

-----------------------------------------------------------------------------
\* Mutant: the pair of id and endpoint is kept where the endpoint belongs.
TrackPairs(tracker, nodes, status) ==
    [id \in DOMAIN tracker \cup {n.id : n \in nodes} |->
        IF id \in DOMAIN tracker THEN tracker[id]
        ELSE [ep |-> CHOOSE n \in nodes : n.id = id, status |-> status]]

\* Mutant: an id already there is written over.
TrackAnew(tracker, nodes, status) ==
    [id \in DOMAIN tracker \cup {n.id : n \in nodes} |->
        IF \E n \in nodes : n.id = id
        THEN [ep |-> (CHOOSE n \in nodes : n.id = id).ep, status |-> status]
        ELSE tracker[id]]

\* nodes_tracker.insert for each node: an id already there stays as it is.
Track(tracker, nodes, status) ==
    [id \in DOMAIN tracker \cup {n.id : n \in nodes} |->
        IF id \in DOMAIN tracker THEN tracker[id]
        ELSE [ep |-> (CHOOSE n \in nodes : n.id = id).ep, status |-> status]]

Tracked(tracker, status) ==
    {[id |-> id, ep |-> tracker[id].ep] :
        id \in {i \in DOMAIN tracker : tracker[i].status = status}}

\* The open entries that the current pass has not come to, in id order.
Ahead(t) == {id \in DOMAIN t.tracker :
                /\ t.tracker[id].status \in {"NO_ACTION", "REQUEST_SENT"}
                /\ \A c \in t.cursor : Less(c, id)}

Visits(p, id, status) ==
    /\ main[p].pc \in {"lookup", "wait"}
    /\ id \in Ahead(main[p]) /\ \A x \in Ahead(main[p]) : ~Less(x, id)
    /\ main[p].tracker[id].status = status

\* responses.find(id), as a set of at most one message.
ResponseOf(p, id) == {r \in responses[p] : IdOf[r.from] = id}

ExpectedType(t) == IF t.pc = "lookup" THEN "FIND_NODE_RESPONSE"
                   ELSE IF t.op = "store" THEN "STORE_RESPONSE"
                   ELSE "FIND_VALUE_RESPONSE"

\* Answers that take longer than TIMEOUT_LIMIT are lost ones unless Late.
MayTimeOut(p, q) == Late \/ ~InFlight(p, q)

-----------------------------------------------------------------------------
\* main.cpp / init_node up to the first datagram of bootstrap: the socket is
\* bound, the receive thread runs, FIND_NODE for the own id goes to boot_ep.
\* Answers to an earlier run that are still on their way are late ones.
Start(p) ==
    /\ p # Boot /\ main[p].pc = "off"
    /\ Late \/ \A q \in Endpoint : ~InFlight(p, q)
    /\ up' = up \cup {p}
    /\ net' = net \cup {Request("FIND_NODE", p, Boot, IdOf[p], NoContent)}
    /\ Become(p, [Parked("first_response") EXCEPT
                     !.op = "bootstrap", !.target = IdOf[p]])
    /\ UNCHANGED <<rt, disk, responses, metadata, retrieved, fault>>

\* bootstrap.cpp: the bootstrap node only serves.
StartBoot ==
    /\ main[Boot].pc = "off"
    /\ up' = up \cup {Boot}
    /\ Become(Boot, Parked("serving"))
    /\ UNCHANGED <<net, rt, disk, responses, metadata, retrieved, fault>>

\* get_first_response: the response with the least id, which stays in the map.
IsFirst(p, m) ==
    /\ main[p].pc = "first_response"
    /\ m \in responses[p]
    /\ \A r \in responses[p] : ~Less(IdOf[r.from], IdOf[m.from])

\* bootstrap with the response it waited for, whoever sent it: the sender's id
\* is filed under boot_ep.
FirstResponse(p, m) ==
    LET boot == [id |-> IdOf[m.from], ep |-> Boot]
    IN  /\ IsFirst(p, m) /\ m.type = "FIND_NODE_RESPONSE"
        /\ rt' = [rt EXCEPT ![p] = InsertNode(IdOf[p], @, boot.id, Boot)]
        /\ Become(p, IF m.nodes = {} THEN Parked("idle")
                     ELSE [main[p] EXCEPT
                             !.pc = "lookup",
                             !.tracker = Track(Track(<<>>, {boot}, "REQUEST_RECEIVED"),
                                               m.nodes, "NO_ACTION")])
        /\ UNCHANGED <<net, up, disk, responses, metadata, retrieved, fault>>

\* The assert on the type of that response (the build is a debug build).
FirstResponseInvalid(p, m) ==
    /\ IsFirst(p, m) /\ m.type # "FIND_NODE_RESPONSE"
    /\ Dies(p, "assert")

\* No response in 10 seconds: exit(1).
FirstResponseTimeout(p) ==
    /\ main[p].pc = "first_response" /\ responses[p] = {}
    /\ MayTimeOut(p, Boot)
    /\ Dies(p, "exit")

\* The two loops at the end of bootstrap: the nodes that answered in id order,
\* then all others; entries that are done leave the tracker.
InsertsNext(p, id) ==
    LET tracker == main[p].tracker
        First(i) == tracker[i].status = "REQUEST_RECEIVED"
    IN  /\ main[p].pc = "insert" /\ id \in DOMAIN tracker
        /\ \A i \in DOMAIN tracker \ {id} :
              IF First(i) = First(id) THEN Less(id, i) ELSE First(id)

Inserted(p, id) ==
    IF DOMAIN main[p].tracker = {id} THEN Parked("idle")
    ELSE [main[p] EXCEPT !.tracker = Restrict(@, DOMAIN @ \ {id})]

InsertNext(p, id) ==
    /\ InsertsNext(p, id) /\ id # IdOf[p]
    /\ rt' = [rt EXCEPT ![p] = InsertNode(IdOf[p], @, id, main[p].tracker[id].ep)]
    /\ Become(p, Inserted(p, id))
    /\ UNCHANGED <<net, up, disk, responses, metadata, retrieved, fault>>

\* insert_node with the own id writes past m_k_buckets, into the member that
\* follows it: the process dies of it, or the table at least is as before.
InsertOwnId(p) ==
    /\ InsertsNext(p, IdOf[p])
    /\ \/ Dies(p, "out_of_bounds")
       \/ /\ Become(p, Inserted(p, IdOf[p]))
          /\ UNCHANGED <<recvVars, metadata, retrieved, fault>>

-----------------------------------------------------------------------------
(***************************************************************************)
(* One visit of find_id_recursively.                                       *)
(***************************************************************************)
\* Mutant: a query does not keep the loop going.
QueriedSilently(t, id) ==
    [t EXCEPT !.cursor = {id}, !.tracker[id].status = "REQUEST_SENT"]

Queried(t, id) == [t EXCEPT !.cursor = {id}, !.completed = FALSE,
                            !.tracker[id].status = "REQUEST_SENT"]

\* NO_ACTION: the request goes out, except to the peer itself.
LookupSend(p, id) ==
    /\ main[p].pc = "lookup" /\ Visits(p, id, "NO_ACTION")
    /\ net' = IF id = IdOf[p] THEN net
              ELSE net \cup {Request("FIND_NODE", p, main[p].tracker[id].ep,
                                     main[p].target, NoContent)}
    /\ Become(p, Queried(main[p], id))
    /\ UNCHANGED <<up, rt, disk, responses, metadata, retrieved, fault>>

\* Mutant: the pass goes on after the nodes that the answer brought.
LearnedSkipping(t, id, nodes) ==
    [t EXCEPT !.cursor  = {i \in {id} \cup {n.id : n \in nodes} :
                              \A n \in nodes : ~Less(i, n.id)},
              !.tracker = Track([@ EXCEPT ![id].status = "REQUEST_RECEIVED"],
                                nodes, "NO_ACTION")]

\* The visited node has answered; std::map keeps the iterator valid, so that new
\* entries with greater ids are visited in the same pass.
Learned(t, id, nodes) ==
    [t EXCEPT !.cursor  = {id},
              !.tracker = Track([@ EXCEPT ![id].status = "REQUEST_RECEIVED"],
                                nodes, "NO_ACTION")]

\* The response is there: its nodes other than the peer itself join the
\* tracker.  node_query_completed stays as it is, so that a pass that ends with
\* such answers is the last one even if the nodes lie behind the cursor.
LookupTake(p, id, m) ==
    /\ main[p].pc = "lookup" /\ Visits(p, id, "REQUEST_SENT")
    /\ m \in ResponseOf(p, id) /\ m.type = "FIND_NODE_RESPONSE"
    /\ responses' = [responses EXCEPT ![p] = @ \ {m}]
    /\ Become(p, Learned(main[p], id, {n \in m.nodes : n.id # IdOf[p]}))
    /\ UNCHANGED <<net, up, rt, disk, metadata, retrieved, fault>>

\* A response of another type is erased and the entry left as it is.
LookupDiscard(p, id, m) ==
    /\ main[p].pc = "lookup" /\ Visits(p, id, "REQUEST_SENT")
    /\ m \in ResponseOf(p, id) /\ m.type # "FIND_NODE_RESPONSE"
    /\ responses' = [responses EXCEPT ![p] = @ \ {m}]
    /\ Become(p, [main[p] EXCEPT !.cursor = {id}])
    /\ UNCHANGED <<net, up, rt, disk, metadata, retrieved, fault>>

(***************************************************************************)
(* Visits that find_id_recursively and wait_for_responses have in common.  *)
(***************************************************************************)
\* Mutant: an old entry is passed by but stays open.
TimedOutNever(t, id) == [t EXCEPT !.cursor = {id}, !.completed = FALSE]

TimedOut(t, id) == [t EXCEPT !.cursor = {id},
                             !.tracker[id].status = "REQUEST_TIMEOUT"]

\* No response, and the entry is older than TIMEOUT_LIMIT.
GiveUp(p, id) ==
    /\ Visits(p, id, "REQUEST_SENT") /\ ResponseOf(p, id) = {}
    /\ MayTimeOut(p, main[p].tracker[id].ep)
    /\ Become(p, TimedOut(main[p], id))
    /\ UNCHANGED <<recvVars, metadata, retrieved, fault>>

\* Mutant: an open entry does not keep the loop going.
PassedBy(t, id) == [t EXCEPT !.cursor = {id}]

StillOpen(t, id) == [t EXCEPT !.cursor = {id}, !.completed = FALSE]

\* No response yet: another pass is needed.
KeepWaiting(p, id) ==
    /\ Visits(p, id, "REQUEST_SENT") /\ ResponseOf(p, id) = {}
    /\ Become(p, StillOpen(main[p], id))
    /\ UNCHANGED <<recvVars, metadata, retrieved, fault>>

PassEnds(p) == main[p].pc \in {"lookup", "wait"} /\ Ahead(main[p]) = {}

\* The pass was not the last one.
NextPass(p) ==
    /\ PassEnds(p) /\ ~main[p].completed
    /\ Become(p, [main[p] EXCEPT !.cursor = {}, !.completed = TRUE])
    /\ UNCHANGED <<recvVars, metadata, retrieved, fault>>

\* One visit of wait_for_responses.  The entry stays REQUEST_SENT: while
\* another one is open it is looked up again, until it times out.
WaitTake(p, id, m) ==
    /\ main[p].pc = "wait" /\ Visits(p, id, "REQUEST_SENT")
    /\ m \in ResponseOf(p, id) /\ m.type = ExpectedType(main[p])
    /\ responses' = [responses EXCEPT ![p] = @ \ {m}]
    /\ Become(p, [main[p] EXCEPT
           !.cursor = {id},
           !.answers = Append(@, [node |-> [id |-> id, ep |-> main[p].tracker[id].ep],
                                  msg  |-> m])])
    /\ UNCHANGED <<net, up, rt, disk, metadata, retrieved, fault>>

\* A response of another type neither blocks the loop nor leaves the map, where
\* it keeps the awaited one out.
WaitMismatch(p, id, m) ==
    /\ main[p].pc = "wait" /\ Visits(p, id, "REQUEST_SENT")
    /\ m \in ResponseOf(p, id) /\ m.type # ExpectedType(main[p])
    /\ Become(p, [main[p] EXCEPT !.cursor = {id}])
    /\ UNCHANGED <<recvVars, metadata, retrieved, fault>>

-----------------------------------------------------------------------------
\* bootstrap after find_id_recursively.
BootstrapLookupDone(p) ==
    /\ main[p].pc = "lookup" /\ main[p].op = "bootstrap"
    /\ PassEnds(p) /\ main[p].completed
    /\ Become(p, [main[p] EXCEPT !.pc = "insert", !.cursor = {}])
    /\ UNCHANGED <<recvVars, metadata, retrieved, fault>>

\* The command `store file` up to the loop over the pieces.
StoreCommand(p, f) ==
    /\ main[p].pc = "idle"
    /\ Become(p, [Parked("store") EXCEPT !.op = "store", !.file = f])
    /\ UNCHANGED <<recvVars, metadata, retrieved, fault>>

\* Mutant: the loop over the pieces stays at the first one.
FirstPiece(t) == Pieces[t.file][1]

CurrentPiece(t) == Pieces[t.file][Len(t.entries) + 1]

\* What ends the process instead: a key equal to the own id makes find_node read
\* past m_k_buckets; the exceptions are character pointers, which nobody catches.
StorePieceFault(p) ==
    LET key   == HashOf[CurrentPiece(main[p])]
        found == FindNode(IdOf[p], rt[p], key)
    IN  IF ~InBounds(IdOf[p], key) THEN "out_of_bounds"
        ELSE IF \E n \in found : n.id = key THEN "id_clash"
        ELSE IF found = {} THEN "nobody_known" ELSE "none"

StorePieceFails(p) ==
    /\ main[p].pc = "store" /\ ~Recording(p) /\ StorePieceFault(p) # "none"
    /\ Dies(p, StorePieceFault(p))

\* client::store_file up to find_id_recursively.
StorePiece(p) ==
    /\ main[p].pc = "store" /\ ~Recording(p) /\ StorePieceFault(p) = "none"
    /\ LET key == HashOf[CurrentPiece(main[p])]
       IN  Become(p, [main[p] EXCEPT
                         !.pc = "lookup", !.target = key,
                         !.tracker = Track(<<>>, FindNode(IdOf[p], rt[p], key),
                                           "NO_ACTION")])
    /\ responses' = [responses EXCEPT ![p] = {}]
    /\ UNCHANGED <<net, up, rt, disk, metadata, retrieved, fault>>

\* candidate_peers, sorted, up to no_of_nodes.
StoreTargets(t, self) ==
    Nearest(t.target,
            {n \in Tracked(t.tracker, "REQUEST_RECEIVED") : n.id # self},
            ReplicaCount)

\* client::store_file after find_id_recursively.
StoreLookupDone(p) ==
    LET chosen == StoreTargets(main[p], IdOf[p])
    IN  /\ main[p].pc = "lookup" /\ main[p].op = "store"
        /\ PassEnds(p) /\ main[p].completed
        /\ net' = net \cup {Request("STORE", p, n.ep, main[p].target,
                                    CurrentPiece(main[p])) : n \in chosen}
        /\ Become(p, [main[p] EXCEPT !.pc = "wait", !.cursor = {},
                                     !.tracker = Track(<<>>, chosen, "REQUEST_SENT")])
        /\ UNCHANGED <<up, rt, disk, responses, metadata, retrieved, fault>>

\* client::store_file after wait_for_responses, whatever the answers say.
StoreWaitDone(p) ==
    LET t     == main[p]
        entry == [key |-> t.target, nodes |-> {a.node : a \in Range(t.answers)}]
    IN  /\ t.pc = "wait" /\ t.op = "store" /\ PassEnds(p) /\ t.completed
        /\ Become(p, [Parked("store") EXCEPT !.op = "store", !.file = t.file,
                          !.entries = Append(t.entries, entry)])
        /\ UNCHANGED <<recvVars, metadata, retrieved, fault>>

\* The metadata file, over that of an earlier file of this name.
RecordMetadata(p) ==
    /\ Recording(p)
    /\ metadata' = [metadata EXCEPT ![p][main[p].file] = main[p].entries]
    /\ Become(p, Parked("idle"))
    /\ UNCHANGED <<recvVars, retrieved, fault>>

-----------------------------------------------------------------------------
Known(p) == {f \in File : metadata[p][f] # NoFile}

\* retrieve_file for one of the files in todo, whichever the directory iterator
\* comes to; then for the others.
RetrieveNext(p, todo) ==
    \/ todo = {} /\ Become(p, Parked("idle"))
    \/ \E f \in todo : Become(p, [Parked("retrieve") EXCEPT
                                  !.op = "retrieve", !.file = f, !.todo = todo \ {f}])

\* Mutant: the copy from an earlier retrieve is removed first.
RetrieveAnew(p, f) ==
    /\ main[p].pc = "idle" /\ f \in Known(p)
    /\ retrieved' = [retrieved EXCEPT ![p][f] = NoFile]
    /\ RetrieveNext(p, {f})
    /\ UNCHANGED <<recvVars, metadata, fault>>

\* The command `retrieve file`.
RetrieveCommand(p, f) ==
    /\ main[p].pc = "idle" /\ f \in Known(p)
    /\ RetrieveNext(p, {f})
    /\ UNCHANGED <<recvVars, metadata, retrieved, fault>>

\* The command `retrieve .`: retrieve_directory.
RetrieveDirectory(p) ==
    /\ main[p].pc = "idle" /\ Known(p) # {}
    /\ RetrieveNext(p, Known(p))
    /\ UNCHANGED <<recvVars, metadata, retrieved, fault>>

\* Mutant: the same line of the metadata file over and over.
FirstEntry(p) == metadata[p][main[p].file][1]

CurrentEntry(p) == metadata[p][main[p].file][Len(main[p].contents) + 1]

\* client::retrieve_file up to wait_for_responses.
RetrievePiece(p) ==
    /\ main[p].pc = "retrieve" /\ ~WritingBack(p)
    /\ LET entry == CurrentEntry(p)
       IN  /\ net' = net \cup {Request("FIND_VALUE", p, n.ep, entry.key, NoContent) :
                                  n \in entry.nodes}
           /\ Become(p, [main[p] EXCEPT
                            !.pc = "wait", !.target = entry.key,
                            !.tracker = Track(<<>>, entry.nodes, "REQUEST_SENT")])
    /\ responses' = [responses EXCEPT ![p] = {}]
    /\ UNCHANGED <<up, rt, disk, metadata, retrieved, fault>>

\* Mutant: the first answer counts, with or without content.
FirstAnswer(answers) == DOMAIN answers

\* Positions of the answers that carry a content.
NonEmpty(answers) == {k \in DOMAIN answers : answers[k].msg.content # NoContent}

RetrieveWaitEnds(p) ==
    /\ main[p].pc = "wait" /\ main[p].op = "retrieve"
    /\ PassEnds(p) /\ main[p].completed

\* The first content that is not empty is the piece.
RetrieveWaitDone(p) ==
    LET t == main[p]
    IN  /\ RetrieveWaitEnds(p)
        /\ \E k \in NonEmpty(t.answers) :
              /\ \A l \in NonEmpty(t.answers) : k <= l
              /\ Become(p, [Parked("retrieve") EXCEPT
                               !.op = "retrieve", !.file = t.file, !.todo = t.todo,
                               !.contents = Append(t.contents, t.answers[k].msg.content)])
        /\ UNCHANGED <<recvVars, metadata, retrieved, fault>>

\* throw(1), caught by interface.cpp's retrieve_file: nothing is written.
RetrieveWaitFails(p) ==
    /\ RetrieveWaitEnds(p) /\ NonEmpty(main[p].answers) = {}
    /\ RetrieveNext(p, main[p].todo)
    /\ UNCHANGED <<recvVars, metadata, retrieved, fault>>

\* The pieces of all lines are there: the file is written.
WriteBack(p) ==
    /\ WritingBack(p)
    /\ retrieved' = [retrieved EXCEPT ![p][main[p].file] = main[p].contents]
    /\ RetrieveNext(p, main[p].todo)
    /\ UNCHANGED <<recvVars, metadata, fault>>

=============================================================================
