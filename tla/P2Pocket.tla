------------------------------ MODULE P2Pocket ------------------------------
(***************************************************************************)
(* The whole program: a bootstrap node and clients, each with its receive  *)
(* thread (Network) and its main thread (Client), over UDP.                *)
(***************************************************************************)
EXTENDS Client

CONSTANTS Users,           \* the clients whose users type commands
          Joined,          \* the clients that have run bootstrap already
          Tables,          \* their routing tables, and that of the bootstrap node
          Lossy,           \* may datagrams be lost?
          MaxCommands,     \* commands typed, over all users
          MaxRestarts,     \* processes started again after they ended
          Mortal,          \* processes that may be stopped, or go deaf
          MaxStops,        \* how many of them are
          SocketErrors     \* may receiving fail?

ASSUME SetUpAssumption ==
    /\ Mortal \subseteq Endpoint
    /\ Users \subseteq Endpoint \ {Boot} /\ Joined \subseteq Endpoint \ {Boot}
    /\ Tables \in [Endpoint -> Table]
    /\ \A p \in Endpoint \ (Joined \cup {Boot}) : Tables[p] = EmptyTable
    /\ Lossy \in BOOLEAN /\ SocketErrors \in BOOLEAN
    /\ MaxCommands \in Nat /\ MaxRestarts \in Nat /\ MaxStops \in Nat

\* The first tables are such as their owners' own bootstrap and receive threads
\* make: contacts under their own ids, in their buckets, and never the owner.
ASSUME TablesAssumption ==
    \A p \in Endpoint :
        /\ WellFormed(IdOf[p], Tables[p])
        /\ \A n \in AllNodes(Tables[p]) : n.id = IdOf[n.ep] /\ n.ep # p

VARIABLE spent             \* how much of each bound is used up

vars == <<recvVars, mainVars, spent>>

Init ==
    /\ net = {} /\ up = Joined \cup {Boot} /\ rt = Tables
    /\ disk = [p \in Endpoint |-> [key \in ID |-> NoContent]]
    /\ responses = [p \in Endpoint |-> {}]
    /\ main = [p \in Endpoint |-> Parked(IF p = Boot THEN "serving"
                                         ELSE IF p \in Joined THEN "idle" ELSE "off")]
    /\ metadata = [p \in Endpoint |-> [f \in File |-> NoFile]]
    /\ retrieved = [p \in Endpoint |-> [f \in File |-> NoFile]]
    /\ fault = [p \in Endpoint |-> "none"]
    /\ spent = [commands |-> 0, restarts |-> 0, stops |-> 0]

-----------------------------------------------------------------------------
Receive(p) == UNCHANGED <<mainVars, spent>> /\ \E m \in net : Handle(p, m)

\* FIND_NODE for the id of the peer that receives it: find_node reads past
\* m_k_buckets.
FindNodeOwnId(p) ==
    /\ \E m \in net : /\ Receives(p, m) /\ m.type = "FIND_NODE"
                      /\ ~InBounds(IdOf[p], m.key)
                      /\ net' = net \ {m}
    /\ Terminate(p, "out_of_bounds")
    /\ UNCHANGED <<disk, spent>>

Bounced == UNCHANGED <<mainVars, spent>> /\ \E m \in net : Bounce(m)

Lost == Lossy /\ UNCHANGED <<mainVars, spent>> /\ \E m \in net : Lose(m)

GivesUp(p) == (\E id \in DOMAIN main[p].tracker : GiveUp(p, id)) /\ UNCHANGED spent

AtRest(p) == main[p].pc \in {"idle", "off", "serving"}

\* What the main thread does next without the user.
Step(p) ==
    /\ ~AtRest(p)
    /\ \/ /\ main[p].pc = "first_response"
          /\ \/ \E m \in responses[p] : FirstResponse(p, m) \/ FirstResponseInvalid(p, m)
             \/ FirstResponseTimeout(p)
       \/ \E id \in DOMAIN main[p].tracker :
             \/ InsertNext(p, id)
             \/ LookupSend(p, id)
             \/ \E m \in ResponseOf(p, id) : \/ LookupTake(p, id, m)
                                            \/ LookupDiscard(p, id, m)
                                            \/ WaitTake(p, id, m)
                                            \/ WaitMismatch(p, id, m)
             \/ KeepWaiting(p, id)
       \/ InsertOwnId(p)
       \/ NextPass(p)
       \/ BootstrapLookupDone(p)
       \/ StorePiece(p) \/ StorePieceFails(p) \/ StoreLookupDone(p) \/ StoreWaitDone(p)
       \/ RecordMetadata(p)
       \/ RetrievePiece(p) \/ RetrieveWaitDone(p) \/ RetrieveWaitFails(p) \/ WriteBack(p)
    /\ UNCHANGED spent

Command(p) ==
    /\ spent.commands < MaxCommands
    /\ \/ \E f \in File : StoreCommand(p, f) \/ RetrieveCommand(p, f)
       \/ RetrieveDirectory(p)
    /\ spent' = [spent EXCEPT !.commands = @ + 1]

Begin(p) ==
    /\ Start(p) \/ (p = Boot /\ StartBoot)
    /\ \/ fault[p] = "none" /\ UNCHANGED spent
       \/ /\ fault[p] # "none" /\ spent.restarts < MaxRestarts
          /\ spent' = [spent EXCEPT !.restarts = @ + 1]

\* Killed, told to quit, or ended by what the unlocked accesses of its two
\* threads did to a container.
Stop(p) ==
    /\ p \in Mortal /\ main[p].pc # "off" /\ spent.stops < MaxStops
    /\ Dies(p, "stopped")
    /\ spent' = [spent EXCEPT !.stops = @ + 1]

\* handle_receive is called with an error and returns without wait(): the
\* receive thread has nothing left to run and ends; the main thread goes on.
ReceiveFails(p) ==
    /\ SocketErrors /\ p \in up \cap Mortal /\ spent.stops < MaxStops
    /\ up' = up \ {p}
    /\ spent' = [spent EXCEPT !.stops = @ + 1]
    /\ UNCHANGED <<net, rt, disk, responses, mainVars>>

Next == \/ \E p \in Endpoint : \/ Receive(p) \/ FindNodeOwnId(p)
                               \/ Step(p) \/ GivesUp(p) \/ Begin(p) \/ Stop(p)
                               \/ ReceiveFails(p)
        \/ \E p \in Users : Command(p)
        \/ Bounced \/ Lost

Spec == Init /\ [][Next]_vars

\* Both threads run, datagrams that are not lost arrive, and the clock passes
\* TIMEOUT_LIMIT: a loop that keeps finding an entry without a response gives
\* up on it in the end, though not at every visit (hence SF).
Delivery == (\E p \in Endpoint : Receive(p) \/ FindNodeOwnId(p)) \/ Bounced

Fairness == /\ WF_vars(Delivery)
            /\ \A p \in Endpoint \ {Boot} : WF_vars(Step(p)) /\ SF_vars(GivesUp(p))

FairSpec == Spec /\ Fairness

-----------------------------------------------------------------------------
\* The lines of a metadata file, if there is one.
Recorded(p, f) == IF f \in Known(p) THEN metadata[p][f] ELSE <<>>

\* Shape of the state.
TrackerOK(tracker) ==
    /\ DOMAIN tracker \subseteq ID
    /\ \A id \in DOMAIN tracker : tracker[id] \in [ep : Endpoint, status : Status]

MainOK(t) ==
    /\ DOMAIN t = DOMAIN Parked("off")
    /\ t.pc \in PCs /\ t.op \in Ops /\ t.file \in File \cup {NoFile}
    /\ \A e \in Range(t.entries) : e.key \in ID /\ e.nodes \subseteq Node
    /\ Range(t.contents) \subseteq Content
    /\ t.todo \subseteq File /\ t.target \in ID /\ TrackerOK(t.tracker)
    /\ t.cursor \subseteq ID /\ Cardinality(t.cursor) < 2
    /\ t.completed \in BOOLEAN
    /\ \A a \in Range(t.answers) : a.node \in Node /\ a.msg \in Message

TypeOK ==
    /\ net \subseteq Message /\ up \subseteq Endpoint
    /\ \A p \in Endpoint :
          /\ rt[p] \in Table
          /\ disk[p] \in [ID -> Content \cup {NoContent}]
          /\ responses[p] \subseteq Message
          /\ MainOK(main[p])
          /\ \A f \in File :
                /\ \A e \in Range(Recorded(p, f)) : e.key \in ID /\ e.nodes \subseteq Node
                /\ retrieved[p][f] # NoFile => Range(retrieved[p][f]) \subseteq Content
    /\ fault \in [Endpoint -> {"none", "stopped", "assert", "exit", "id_clash",
                               "nobody_known", "out_of_bounds"}]

(***************************************************************************)
(* Wherever an id and an endpoint travel together -- routing tables, the   *)
(* nodes of an answer, trackers, answers taken, metadata files -- they     *)
(* belong to the same process.  The pairs are made in handle_communication *)
(* from a header and a socket address, copied through the messages, and    *)
(* used to send to and to look up responses under.                         *)
(***************************************************************************)
KnownNodes ==
    UNION ({AllNodes(rt[p]) : p \in Endpoint} \cup {m.nodes : m \in net}
           \cup {m.nodes : m \in UNION {responses[p] : p \in Endpoint}}
           \cup {Tracked(main[p].tracker, s) : p \in Endpoint, s \in Status}
           \cup {e.nodes : e \in UNION {Range(Recorded(p, f)) : p \in Endpoint, f \in File}})

RoutingSound == \A n \in KnownNodes : n.id = IdOf[n.ep]

(***************************************************************************)
(* "should be below find_node for bootstrappig purposes"                   *)
(* (networking.cpp:220): because the asker is noticed after the search, a  *)
(* process that starts for the first time never gets its own id back from  *)
(* bootstrap, which does not filter it, and never files or queries itself. *)
(***************************************************************************)
NeverOwnId ==
    \A p \in Endpoint : /\ IdOf[p] \notin DOMAIN main[p].tracker
                        /\ \A n \in AllNodes(rt[p]) : n.id # IdOf[p]

(***************************************************************************)
(* What the self-lookup of bootstrap is for: a node that answered the      *)
(* asker's FIND_NODE and has not ended since has the asker in its table,   *)
(* or had no room for it.                                                  *)
(***************************************************************************)
AnswererKnowsAsker ==
    \A p \in Endpoint : main[p].pc = "lookup" =>
        \A n \in Tracked(main[p].tracker, "REQUEST_RECEIVED") :
            LET bucket == rt[n.ep][FindKBucketIndex(n.id, IdOf[p])]
            IN  n.ep \in up => IsNodeInBucket(bucket, IdOf[p]) \/ Len(bucket) = BucketSize

(***************************************************************************)
(* find_id_recursively returns only when no request is open ...            *)
(***************************************************************************)
LookupReturns(p) ==
    main[p].pc = "lookup" /\ PassEnds(p) /\ main[p].completed

LookupAwaitsAll ==
    \A p \in Endpoint : LookupReturns(p) =>
        Tracked(main[p].tracker, "REQUEST_SENT") = {}

(***************************************************************************)
(* ... and what it leaves without a query came too late: an answer taken   *)
(* in the last pass brought it after the pass had gone by its id.          *)
(***************************************************************************)
UnqueriedLieBehind ==
    \A p \in Endpoint : LookupReturns(p) =>
        \A n \in Tracked(main[p].tracker, "NO_ACTION") :
            \E m \in Tracked(main[p].tracker, "REQUEST_RECEIVED") : Less(n.id, m.id)

(***************************************************************************)
(* Why it returns at all: the map it iterates over grows with every        *)
(* answer, but whoever is in it stays, under the endpoint it was entered   *)
(* with, and only moves on from NO_ACTION to REQUEST_SENT and from there   *)
(* to the end, though others keep naming it in their answers.  So one      *)
(* lookup asks nobody twice, and no more nodes than there are ids.         *)
(***************************************************************************)
Onward == {<<"NO_ACTION", "REQUEST_SENT">>, <<"REQUEST_SENT", "REQUEST_RECEIVED">>,
           <<"REQUEST_SENT", "REQUEST_TIMEOUT">>}

MovesOn(old, new) ==
    \A id \in DOMAIN old :
        /\ id \in DOMAIN new /\ new[id].ep = old[id].ep
        /\ \/ new[id].status = old[id].status
           \/ <<old[id].status, new[id].status>> \in Onward

LookupsAdvance ==
    [][\A p \in Endpoint : (main[p].pc = "lookup" /\ main'[p].pc = "lookup") =>
          MovesOn(main[p].tracker, main'[p].tracker)]_main

(***************************************************************************)
(* A response says neither which request it answers nor which piece it is  *)
(* about; wait_for_responses still only takes answers to its own requests, *)
(* from the node asked, as long as no answer outlives TIMEOUT_LIMIT.       *)
(***************************************************************************)
AnswersMatch ==
    \A p \in Endpoint : \A a \in Range(main[p].answers) :
        a.msg.key = main[p].target /\ a.msg.from = a.node.ep

(***************************************************************************)
(* Each node written beside a piece hash in a metadata file has the piece: *)
(* its own copy on disk, with the content the file had.  At worst, where   *)
(* the disk refused a write or the process has been ended at some time,    *)
(* the copy is gone; another content it never is.                          *)
(***************************************************************************)
MayHaveLost(q) == q \in Failing \/ fault[q] # "none"

HoldsPiece(f, entries) ==
    \A k \in DOMAIN entries : \A n \in entries[k].nodes :
        \/ disk[n.ep][entries[k].key] = Pieces[f][k]
        \/ disk[n.ep][entries[k].key] = NoContent /\ MayHaveLost(n.ep)

MetadataSound ==
    \A p \in Endpoint :
        /\ main[p].op = "store" => HoldsPiece(main[p].file, main[p].entries)
        /\ \A f \in File : HoldsPiece(f, Recorded(p, f))

(***************************************************************************)
(* "we need all the piece hash" (interface.cpp:303): a metadata file lists *)
(* the hashes of all pieces of the file in their order, and a content on   *)
(* any disk is filed under its own hash, at whatever step processes were   *)
(* killed, died or were started again, and however late the answers came.  *)
(* Only an empty metadata file may be left behind by a process that ended. *)
(***************************************************************************)
MetadataComplete ==
    /\ \A p \in Endpoint : \A f \in Known(p) :
          LET entries == metadata[p][f]
          IN  \/ [k \in DOMAIN entries |-> entries[k].key]
                     = [k \in DOMAIN Pieces[f] |-> HashOf[Pieces[f][k]]]
              \/ entries = <<>> /\ fault[p] # "none"
    /\ \A p \in Endpoint, key \in ID :
          disk[p][key] # NoContent => HashOf[disk[p][key]] = key

(***************************************************************************)
(* A file that retrieve writes is the file that store read, piece by piece *)
(* and in order, although neither contents nor hashes are compared.  Only  *)
(* an empty file may be there instead, once the process has been ended.    *)
(***************************************************************************)
RetrievedIntact ==
    \A p \in Endpoint, f \in File :
        \/ retrieved[p][f] \in {NoFile, Pieces[f]}
        \/ retrieved[p][f] = <<>> /\ fault[p] # "none"

(***************************************************************************)
(* A process only ends because of its user or because bootstrap got no     *)
(* response: not by an assert, an exception or an access out of bounds.    *)
(***************************************************************************)
NoAbnormalEnd == \A p \in Endpoint : fault[p] \in {"none", "stopped", "exit"}

(***************************************************************************)
(* The comment in store_file: "sort the results by nearest to the          *)
(* file_hash", "send store_request to the `n` nearest nodes"               *)
(* (networking.cpp:273).  Of the nodes the lookup came across, those that  *)
(* did not time out and are not among the chosen are farther away.         *)
(***************************************************************************)
StoresAtNearest ==
    \A p \in Endpoint : (LookupReturns(p) /\ main[p].op = "store") =>
        LET t      == main[p]
            chosen == StoreTargets(t, IdOf[p])
            passed == UNION {Tracked(t.tracker, s) :
                                s \in {"NO_ACTION", "REQUEST_SENT", "REQUEST_RECEIVED"}}
        IN  \A n \in chosen : \A x \in passed \ chosen :
                x.id # IdOf[p] => Closer(t.target, n.id, x.id)

\* find_k_bucket_index (routing_table.cpp:168) looks for "the first
\* non-matching bit": there is one, so that m_k_buckets is indexed in bounds.
BucketInBounds == \A p \in Endpoint : fault[p] # "out_of_bounds"

-----------------------------------------------------------------------------
(***************************************************************************)
(* Each process's table is a RoutingTable from which nobody is removed,    *)
(* whichever of its two threads touches it: it only changes by insert_node *)
(* of an id that is not the owner's, and is given up as a whole when the   *)
(* process ends.                                                           *)
(***************************************************************************)
Inserts(p) ==
    \E id \in ID \ {IdOf[p]}, ep \in Endpoint :
        rt'[p] = InsertNode(IdOf[p], rt[p], id, ep)

TablesAreRoutingTables ==
    [][\A p \in Endpoint :
          \/ UNCHANGED rt[p] \/ Inserts(p)
          \/ main'[p].pc = "off" /\ rt'[p] = EmptyTable]_<<rt, main>>

(***************************************************************************)
(* With answers in time and no process ended, the system is a FileStore:   *)
(* store records nodes that keep the pieces, retrieve yields the file from *)
(* them or nothing, and all else changes nothing that a user sees.         *)
(***************************************************************************)
Store == INSTANCE FileStore WITH
             kept     <- [q \in Endpoint |-> Range(disk[q]) \ {NoContent}],
             recorded <- [p \in Endpoint |-> [f \in File |->
                             IF f \in Known(p)
                             THEN [k \in DOMAIN metadata[p][f] |->
                                      {n.ep : n \in metadata[p][f][k].nodes}]
                             ELSE NoFile]],
             got      <- retrieved

IsFileStore == Store!Spec

(***************************************************************************)
(* Every command and every bootstrap comes to an end, whatever is lost:    *)
(* the loops over a tracker that grows while it is visited terminate.      *)
(***************************************************************************)
CommandsEnd == \A p \in Endpoint \ {Boot} : ~AtRest(p) ~> AtRest(p)

(***************************************************************************)
(* Without loss and late answers, a retrieve of what was stored ends with  *)
(* the file.                                                               *)
(***************************************************************************)
RetrieveSucceeds ==
    \A p \in Users, f \in File :
        (main[p].op = "retrieve" /\ main[p].file = f) ~> retrieved[p][f] = Pieces[f]

=============================================================================
