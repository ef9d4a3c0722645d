# P2Pocket in TLA+

P2Pocket is a peer-to-peer file store on UDP in the manner of Kademlia. A user
stores a file from the command line of a peer: the file is encrypted, cut into
pieces of 100 bytes, each piece is named by the first 16 bits of its SHA-1, and
sent to the two nodes nearest to that name. A metadata file on the user's own
machine says which nodes have which piece; `retrieve` reads it, asks those
nodes and puts the pieces together again.

This directory models the program, checks the model with TLC on small instances,
and proves with TLAPS, for every value of the parameters, the safety properties
of the routing table, of the composed system of processes and datagrams, of the
files a user gets back, of those a process keeps about itself and of the
rendezvous server; and that the composed system is a store that keeps what it is
given.
Paths below are relative to the repository.

## 1. Inventory

| component | source | state | operations |
|---|---|---|---|
| ids and distance | `src/id.cpp`, `include/id.h`, `include/config.h` | none | order of ids, XOR distance, common-prefix index |
| routing table | `src/routing_table.cpp` | `m_k_buckets`: 16 lists of (id, endpoint) | `insert_node` (through `handle_communication`), `remove_node`, `find_node` |
| receive thread | `src/networking.cpp:60-248`, `kademlia/message.*` | `responses` (one message per sender id), socket | a handler per request type; responses go into the map |
| piece storage | `src/storage.cpp` | one file per piece key | `store_piece`, `find_file_piece` |
| main thread | `src/networking.cpp:264-595` | the locals of `bootstrap`, `store_file`, `retrieve_file` and of the loops they call | send requests, poll `responses`, time out |
| commands | `src/interface.cpp` | metadata files, retrieved files | `store`, `retrieve` of a file or a directory, `quit` |
| encryption | `src/crypto.cpp` | two keys | `encrypt`, `decrypt` |
| id and keys on disk | `src/interface.cpp:60`, `src/crypto.cpp:10` | `id.dat`, `encryption_key.dat` | read or create at each start |
| bootstrap node | `bootstrap.cpp` | as a peer | only serves |
| rendezvous | `src/server.cpp`, `src/client.cpp` | `current`: one waiting client per number; the client's own and its peer's address | register, link two clients, say hello (not in the CMake build) |

**Interaction.** Every peer has two threads. The receive thread runs the boost
`io_context`: one datagram, one handler, one answer. The main thread sends
requests and then polls the map `responses`, which the receive thread fills;
both threads use the routing table. Nothing is locked. Peers interact only by
datagrams; a response carries the sender's id and a type, and nothing that
says which request it answers.

**What is hard.** The loops that wait for answers run over a `std::map` that
grows while it is iterated; answers come in any order, late, or never; a late
answer is indistinguishable from a timely one; bootstrap depends on the order
of two calls in a handler of another process; a process that ends and starts
again keeps its id, its port and its pieces, and so meets answers to its
earlier run and its own id in other tables; an own id has no bucket. The list
`hazards` of `PROJECT.json` gives each with its line.

**What makes each component correct.**

* Routing table: a contact is in its bucket, once; buckets are bounded;
  `find_node` gives the nearest contacts it has.
* Receive thread: an id and an endpoint that travel together belong together;
  whoever answered a lookup knows who asked.
* Main thread: loops end, with no request open; answers are those to the
  request; the metadata names nodes that have the piece; a retrieved file is
  the stored file.
* Files: what is encrypted, cut, joined and decrypted is the file again, also
  over a restart; what a process leaves half written is visibly empty.
* Rendezvous: clients are linked in pairs, each is told of its partner, nobody
  is forgotten.

## 2. Modules

```
Ids ── KBuckets ─┬─ RoutingTable ── MCRoutingTable
                 └─ Network ── Client ── P2Pocket ── MCP2Pocket
                                             │ implements
LocalFiles ─┬─ Files                     FileStore
FilePieces ─┘                            Rendezvous ── MCRendezvous

Proofs:
Ids_proofs ── KBuckets_proofs ─┬─ RoutingTable_proofs     FileStore_proofs
                               └─ P2Pocket_proofs         Rendezvous_proofs
                                      └─ Timely_proofs    Files_proofs
```

A line is an EXTENDS. Each proof module also extends the module it is named
after, Timely_proofs extends what P2Pocket_proofs does.

* **Ids** — an id is the function from bit positions to bits that the bitset
  is. The order and the distance are stated on the bits; `CloserIsXorMetric` of
  RoutingTable compares the distance with the number that `to_ulong()` returns.
* **KBuckets** — `m_k_buckets` and its operations as operators on a value:
  `InsertNode`, `DropNode`, `FindNode`. `find_node`'s sort-and-cut is
  `Nearest`: the nodes that fewer than n others precede. Its list is returned
  as a set because every caller inserts it into a map.
* **RoutingTable** — one table as a state machine: what `insert_node`,
  `remove_node` and `find_node` keep true and answer. That the tables of the
  composed system are changed by `insert_node` only is an action property there
  (`TablesAreRoutingTables`), and the lemmas about `InsertNode` and `FindNode`
  in `KBuckets_proofs` serve both.
* **Network** — the receive threads of all peers: one action per handler,
  datagrams as a set (any order, loss by `Lose`, no socket at the other end by
  `Bounce`). Each handler does all its function does: the search, the contact,
  the file, the answer.
* **Client** — the main threads. `main[p]` holds the program counter and the
  locals. `pc = "lookup"` is the loop of `find_id_recursively`, `"wait"` that
  of `wait_for_responses`; each *visit* of an entry is one action, because the
  receive thread may fill `responses` between two visits. Entries that are
  settled are passed by silently: their visit changes nothing. `cursor` is the
  iterator, `completed` is `node_query_completed`.
* **P2Pocket** — the threads together, the user's commands, starts and ends of
  processes, fairness, and all properties of the system.
* **FileStore** — what the system promises its users, without ids, datagrams or
  threads: nodes keep pieces, a record names nodes that keep each piece of a
  file, and what is got back is the file. P2Pocket implements it (`IsFileStore`)
  when answers are in time and no process ends: `kept` is what is on the disks,
  `recorded` the metadata files, `got` the retrieved files. A STORE that is
  handled is `Keep`, the closing of the metadata file `Record`, that of the
  retrieved file `Deliver`; every other step of either thread stutters.
* **LocalFiles** — what a process reads and writes about itself when it
  starts, ended at any point.
* **FilePieces** — operators: how a cipher text is cut and joined, byte by
  byte where a byte is NUL or not, and what of it the stringstream gives out
  (`Streamed`).
* **Files** — the two composed with `encrypt` and `decrypt`: a file is stored in
  one run of a process and retrieved in the same or a later one. A byte of
  the file is its position; decryption goes block by block as CBC does, and
  `DecryptedSizes` is what OpenSSL's last call leaves of a cipher text that is
  not whole.
* **Rendezvous** — `server.cpp` and any number of `client.cpp`, in one module
  because they share nothing but datagrams. One action per datagram that is
  taken; `links` and `run` are history.

Definitions marked *Mutant* are variants with a plausible bug; each property
of a passing run is violated when the definition that follows them is replaced
by one, which shows that the property depends on the code it is about.

### Abstractions

* A process is its endpoint, and `IdOf` its id: `id.dat` outlives the process.
  Ids are different (a clash of two 16-bit ids is possible and not modelled).
* Equal datagrams in flight are one. A reply's `key` says which request it
  answers; the program's messages have no such field and no action reads it.
* Time: an answer that outlives `TIMEOUT_LIMIT` (3 s) is either excluded
  (`Late = FALSE`: an entry times out only when neither the request nor the
  answer is under way, so answers are in time or lost) or allowed
  (`Late = TRUE`). The 10 s of `get_first_response` are treated alike.
* The accesses of the two threads to `responses` and to the routing table are
  atomic in the model. In the program they race; what the race can do to the
  containers is undefined. A response that gets lost and a process that dies
  are in the model (`Lost`, `Stop`); a corrupted map is not, and
  `NoAbnormalEnd` is a statement about the code with atomic accesses.
* The write behind `m_k_buckets` for the own id, also undefined, either ends
  the process or changes nothing that the model has (`InsertOwnId`); the read
  behind it, of a list that is not one, ends it (`FindNodeOwnId`).
* Files. A file is emptied when it is opened and written when it is closed.
  A disk in `Failing` may refuse either (`AfterStorePiece`); a process that
  ends in `store_piece` leaves the piece as it was, empty or written
  (`HandleStoreCut`), and one that ends while its main thread writes a metadata
  or a retrieved file leaves it as it was or empty (`CutShort`). A stream
  writes more than its buffer (8 KB) earlier; a metadata file of more than that
  could be cut in its middle, which is not modelled.
* `ReceiveFails` is a receive error: `handle_receive` returns without
  `wait()`, and the process stays up, deaf, while its main thread goes on.
* `Late = FALSE` also means that no datagram of a run outlives it into the
  next run of the process. `Mortal` are the processes that may end.
* `HashOf` is the name under which `store` files a content. It is computed
  before the last piece goes through `c_str()`, so for a piece with a NUL it is
  not the SHA-1 of what is stored; nothing in the program compares the two.
* Of a rendezvous client's public presence only the owner and the position of
  the colon are kept, since `client.cpp:178` cuts at that position. `sin_addr`
  without an address is any address.
* The comment "NO_ACTION: throw(1)" in `wait_for_responses` has no action: its
  trackers are filled with REQUEST_SENT only.

## 3. Runs

All bounds are CONSTANTs of the configuration. Ids have 3 bits (buckets for
4, 2 and 1 other ids) and buckets two places, so that a bucket can be empty,
single, full and over-subscribed; `find_node` returns three. The program's
values (16 bits, 4 places, 5 nodes) differ only in size; the proofs of section
4 do not depend on them. Deadlock is not checked for the system: users stop
typing when `MaxCommands` is used up, and the event loop then waits for ever.

| run | question | bounds | states |
|---|---|---|---|
| MCRoutingTable | shape of buckets, answers of `find_node`, distance as a number | 3 bits, 2 endpoints per id | 2 223 |
| Join | two first bootstraps at once; do they end? | b, x joined; y, z start; loss; fair | 28 968 |
| StoreRetrieve | two files with a common piece stored and retrieved, also as a directory; a FileStore? | b, x, y; 3 commands; loss | 603 011 |
| TwoUsers | two users at the same time; does a retrieve succeed, is the metadata true? | x, y; 3 commands; no loss; fair | 94 799 |
| Crash | a process that dies and comes back; does everything end? | z mortal, 1 stop, 1 restart, receive errors, 1 command, 1 first bootstrap, late answers; fair | 55 714 |
| Outages | what do kills, refused writes and deaf processes leave on the disks? | b, x, y mortal, 1 stop or receive error, 1 restart, disk of y failing, 3 commands, two pieces | 569 330 |
| Files | which files come back, over restarts? | piece 3, block 2, file up to 9 bytes, 3 runs, binary keys | 3 346 011 |
| Rendezvous | pairing, what clients are told, who waits in vain | 3 clients, 3 starts, 1 loss, any ends, 3 identifications of 1 number | 3 601 418 |

Why the bounds are enough: three peers and the bootstrap node give a lookup that
learns of nodes before and behind its cursor, and a store with `ReplicaCount`
answers of which one is missing; two pieces are what it takes for an answer to
be taken for that of another piece; three commands are store, retrieve, and one
more to meet what the first two left; one stop and one restart at any step give
every place at which one run can meet another. In `Files`, cipher texts of 2 to
10 bytes in pieces of 3 have one to four pieces, multiples of the piece, and
(as with the program's 100 and 16) blocks that straddle pieces; three runs are
the one that makes the keys, one that reads them, and one more that reads the
same. In `Rendezvous` three registrations are a pair and one left over, of three
clients or of one that is started again.

What they show:

* **The bootstrap order works for a first start.** `handle_find_node_request`
  searches before it records the asker ("should be below find_node"): in
  `Join`, with all interleavings of two joins, `NeverOwnId` holds. Whoever
  answered the asker knows it or had no room (`AnswererKnowsAsker`), and what
  a lookup leaves unasked was learned behind its cursor
  (`UnqueriedLieBehind`). The loop over a map that its answers keep growing
  gets on nevertheless: whoever is in the tracker stays there and moves on to
  "asked" and "settled", never back (`LookupsAdvance`), so that one lookup asks
  nobody twice. The interleaved use of a table by two threads stays
  within what `RoutingTable` allows (`TablesAreRoutingTables`).
* **If answers are in time or lost, store and retrieve are right**: although a
  response does not say what it answers, `AnswersMatch` holds, the metadata is
  true (`MetadataSound`) and complete (`MetadataComplete`), and a file comes
  back whole or not at all (`RetrievedIntact`). `TwoUsers` shows the positive
  side: with a second user at work, and nothing lost, every retrieve of a
  stored file ends with it, and the requests of the other user that a node
  serves between the steps of its own store do not get into its metadata
  (`MetadataSound` again). `IsFileStore` says it in one formula: these two
  threads, one datagram at a time, are a store that keeps what it is given.
* **Everything ends.** In `Crash` a client joins while another stores a piece
  whose key is the newcomer's id, which kills one or the other depending on who
  knows whom; besides, the newcomer is killed at any point and comes back with
  its id, its pieces and an empty table, to find answers to its earlier run, and
  receive threads end by an error. `CommandsEnd` holds in all of it. No datagram
  is lost there otherwise than at a process that has ended or gone deaf, or by
  coming after the timeout; `Join` shows `CommandsEnd` for bootstraps where any
  datagram may be lost.
  `MetadataSound` is not among the properties of this run: a restarted process
  that stores a file of two pieces can take an answer to its earlier run for
  one to its second piece, by the same lack of request ids that `LateValue`
  shows.
* **What is on a disk is right or empty.** In `Outages` any process is killed
  at any step, in the middle of writing any of its files, or goes deaf; a disk
  refuses writes that are still answered with "success"; and the user goes on.
  A record then names nodes that have the piece or, where a disk failed or a
  process ended, none of it, but never another content (`MetadataSound`); a
  metadata file lists all pieces or is empty (`MetadataComplete`); and a
  retrieved file is the stored one, or empty after its user's process has ended
  (`RetrievedIntact`). The last exception is not only the file that was open:
  an empty metadata file is retrieved, without an error, as an empty file.
* **Which files come back** (`ComesBack`): those that are not empty and whose
  cipher text is no multiple of `PIECE_SIZE` and has no NUL behind its last whole
  piece, unless they were stored in the run that made the keys and are retrieved
  in a later one. An empty file is stored with success and never comes back:
  `sstream<<fileptr.rdbuf()` inserts nothing and sets failbit
  (`interface.cpp:323`), so that the cipher text is neither inserted (333) nor
  read (379), and what is stored is an empty piece. Cipher texts look random, so with pieces of 100 bytes about one file in
  six has such a NUL; `interface.cpp:376` says "read last piece" of it. What the
  others lose is the end, less than a piece and a block, and the first block
  (`DamageIsBounded`); `decrypt` reports neither. `IdentityKept`: whatever
  interrupted its starts, a process that runs has one id and one first key.
* **Rendezvous.** Registrations are linked in pairs, each once
  (`LinkedInPairs`); whom a client is told has been linked to it
  (`ToldOfPartner`), which may be itself if it has been started twice. There
  are no retries, so a lost datagram leaves a client waiting for good; but one
  datagram one client, and nothing else does, clients may end and start again
  when they like (`ForgottenByLossOnly`). What ends the server is a text
  without a number. No property is spent on whom a client then talks to:
  `client.cpp:178-179` cuts its own presence where the commented lines 181-182
  cut the other's, so the address is its own if both are as long
  (`PeerAddress`).

Runs that end in a violation, each with a finding in `PROJECT.json` that
quotes the comment it refutes:

| run | what TLC finds |
|---|---|
| LateValue | a late FIND_VALUE_RESPONSE is taken for another piece: a wrong file is written |
| NotNearest | nodes learned behind the cursor in the last pass are never asked, though nearer |
| RestartOwnId | a restarted process gets its own id back and indexes out of bounds |
| KeysReadBack | the second key is read one byte too late after a restart |

The model has further behaviours of these kinds that no run is spent on:
`FirstResponse` files whoever has the least id under `boot_ep`, and
`FirstResponseInvalid` fails the assert on its type, both reachable after a
restart; `StorePieceFails` ends a process whose piece hash is the id of a node
it knows. The comment of `routing_table.h:35`, "the head of the list contains
most recently seen node", is refuted by `ContactsStay`: a new contact goes to
the back and a known one never moves.

**Fairness** (`FairSpec`). `WF(Delivery)`: the receive threads run, and what
is neither lost nor addressed to a dead process is handled. `WF(Step(p))`: a
main thread that can go on does. `SF(GivesUp(p))`: a loop that keeps visiting
an entry without an answer times it out in the end, because the clock passes
`TIMEOUT_LIMIT`; weak fairness would not do, since the timeout is enabled only
at the visits of that entry. Nothing is assumed of users, of loss, or of
starts and stops.

## 4. Proofs

TLAPS checks the theorems below for every value of the constants that the named
assumptions allow; TLC evaluates these assumptions in the runs. Where a theorem
needs more than the modules assume, the table says so. The
inductive invariants of the composed system were invariants of TLC runs before
they were proved.

### Ids and the routing table

For every `NoOfBit`, `BucketSize`, `NearestCount` > 0, every owner id and every
set of endpoints (`NoOfBitAssumption`, `SizeAssumption`, `SelfIdAssumption`):

| theorem | module | |
|---|---|---|
| `TypeCorrect` | RoutingTable_proofs | `Spec => []TypeOK` |
| `StaysWellFormed` | RoutingTable_proofs | `Spec => []BucketsWellFormed` |
| `NoContactDisplaced` | RoutingTable_proofs | `Spec => ContactsStay` |
| `ReturnsNearest` | RoutingTable_proofs | `Spec => []FindNodeReturnsNearest` |
| `Usable` | RoutingTable_proofs | `Spec => []FindNodeUsable` |
| `IndexIsPrefix` | RoutingTable_proofs | `Spec => []IndexIsCommonPrefix` |
| `DistanceIsXor` | RoutingTable_proofs | `Spec => []CloserIsXorMetric` |

*The operators.* `KBuckets_proofs` states what each does to any well-formed
table, for use in both state machines. `InsertNode` changes one bucket, so its
lemma rests on one about a list: `PushBack` (a new id, in a bucket with room,
keeps the bucket right). `DropNode` rests on `Erase` (what `RemoveAt` leaves is
the old list with the later elements moved up). Afterwards the id is known or
its bucket is full, and so for every id of which that was true (`InsertNodeKnows`).

*The answers of `find_node`* (`FindNodeNearest`, `FindNodeSomebody`), in three
cases. The contact itself: nothing is nearer to an id than itself
(`SelfIsClosest`), and ids are unique in the whole table (`Contacts`). The
target's bucket: whoever is in it agrees with the target in the bit where the
owner differs, whoever is not, differs from the target there or above
(`SameBucketIsCloser`). The sorted table: distance is a strict total order
(`CloserOrder`), so what fewer than n nodes precede is nearer than what n or
more precede; and a finite non-empty set has a node that none precedes
(`NearestNotEmpty`), by well-founded induction on sets. `Ids_proofs` proves the
facts about ids from the existence of a highest differing bit (`GreatestBit`).

*Ids as numbers.* `ToUlong` reads the bits from the most significant on, doubling
what it has. What it computes takes an induction over the bits; it is carried out
on the set of the numbers for which a statement is true (`EveryNumber`: a set of
numbers that has 0, and with n also n + 1, has them all), by the least number
that is not in it. It shows that the recursive function has a value at all
(`ValueExists`), and that two readings are equal up to the highest differing bit
and apart by at least one from there on (`NumbersFollowBits`).

### The composed system

For all processes, users, ids, files, tables, replica counts, bounds, losses,
failing disks, receive errors, kills and restarts that `FilesAssumption`,
`SetUpAssumption`, `TablesAssumption` and `IdsDiffer` allow:

| theorem | `Spec =>` | under |
|---|---|---|
| `TypeCorrect` | `[]TypeOK` | |
| `MetadataIsComplete` | `[]MetadataComplete` | |
| `NothingSkipped` | `[]UnqueriedLieBehind` | |
| `TablesOnlyInsert` | `TablesAreRoutingTables` | |
| `TablesStayWellFormed` | every table is always `WellFormed` | |
| `LookupsMoveOn` | `LookupsAdvance` | |
| `OwnIdNeverComesBack` | `[]NeverOwnId` | `FirstStarts` |
| `RoutingIsSound` | `[]RoutingSound` | `~Stale` |
| `AskersGetKnown` | `[]AnswererKnowsAsker` | no restarts |
| `EndsAreMeant` | `[]NoAbnormalEnd` | `FirstStarts`, `KeysApart`, `TablesFilled` |
| `LookupWaits` | `[]LookupAwaitsAll` | `~Late` |
| `AnswersAreMatched` | `[]AnswersMatch` | `~Late` |
| `MetadataIsSound` | `[]MetadataSound` | `~Late`, `DistinctHashes` |
| `RetrievedIsIntact` | `[]RetrievedIntact` | `~Late`, `DistinctHashes` |
| `RefinesFileStore` | `IsFileStore` | `~Late`, `DistinctHashes`, `Plain`, `[]NobodyEnded` |

The first ten are in `P2Pocket_proofs`, the last five in `Timely_proofs`.

*The hypotheses* are conditions on the constants (`NobodyEnded`, on executions).
`Join`, `StoreRetrieve`, `TwoUsers`, `LateValue` and `NotNearest` meet all those
of `EndsAreMeant`, and `StoreRetrieve` those of the refinement. Most of them are
needed:

* `~Late`: no answer outlives `TIMEOUT_LIMIT`. With late answers `LateValue`
  refutes `RetrievedIntact`. Only what depends on which request an answer is to
  needs it.
* `~Stale`: answers may be late, or processes may be started again, but not both.
  With both, a process takes a late answer to its earlier run for the bootstrap
  node's (`FirstResponse`) and enters its sender under `boot_ep`.
* `FirstStarts`: no process is started again, and the tables at the beginning
  know the bootstrap node and running processes only. `RestartOwnId` refutes
  `NeverOwnId` without it.
* `KeysApart`: no piece hashes to the id of a process (`StorePieceFails` is what
  happens else); `TablesFilled`: whoever has joined knows somebody, without
  whom `store_file` throws.
* `DistinctHashes`: no two pieces have one hash. The program's hashes have 16
  bits, so this fails for some hundred pieces already; what two pieces with one
  hash do to each other is the hazard at `storage.cpp:31`.
* `Plain`: disks take what they are given, and files have no empty piece, which
  FileStore does not have; and the values that stand for "no file" are neither a
  record nor a list of lines.

*The basic invariant* `Inv`, which holds with late answers, restarts and faults,
has three parts.

* `RecvInv` is about what receive threads handle: a message is never to its
  sender, carries contacts under their own ids and contents under their own
  hash; a table has the shape that `KBuckets_proofs` needs; `responses` has
  replies to its owner. Where there are late answers and restarts (`Stale`) a
  process that has been started again may file an answer to an earlier run under
  `boot_ep`, so `Paired` allows for any id with that endpoint, and only then.
* `Threads` is about the locals: `Control` says which command a thread can be
  in at which place; `Storing` that the lines `store_file` has made are those of
  the first pieces in order; `Retrieving` that `retrieve_file` has read no more
  pieces than the file has; `PassedNone` that a pass has gone by an entry without
  a query only if that entry came with an answer from a node behind it.
* `FilesOK` says that a metadata file is `Complete`, or empty because its
  process has ended.

`Began` adds that a process which waits for its first response has an exchange
with the bootstrap node only (`Beginning`); `get_first_response` needs it to be
right about who answered. If answers are in time, that is because all exchanges
of an earlier run are over when a process starts; if they may be late, because
there was no earlier run (`NoneRestarted`): a process that has not started has
sent nothing that could be answered (`StartsAlone`). The proof has a lemma for each group of actions: receive threads
change tables, disks and network, and of the other parts only `responses`; a
main thread changes its own locals and files. `TypeCorrect`, `MetadataIsComplete`,
`NothingSkipped`, `TablesStayWellFormed` and `RoutingIsSound` are what `Inv` says.

*A lookup gets on.* `LookupsMoveOn` goes through the actions with `Inv`: a visit
changes the entry at the cursor only and moves it on (`StatusMovesOn`), an answer
adds nodes by `map::insert`, which leaves entries alone, and no step leads from
one lookup to another without leaving the loop (`StaysInLookup`). With finitely
many ids it bounds the requests and answers of a lookup; that the passes
between them end too is `CommandsEnd`, which needs the clock, and fairness.

*Who knows whom.* `Newcomers` is the order of the two calls in
`handle_find_node_request` as an invariant: until the bootstrap node has taken
a newcomer's request nobody there knows the newcomer, and the answer was made
before it did. `Acquaints` is the other side of that handler: from a node whose
answer is under way, the asker is in the table already. `Unharmed` needs both
`Inv` and `Newcomers`: with them no process is asked for its own id by another
(`Asks`), and tables, once filled, stay so (`Prepared`).

*What `TIMEOUT_LIMIT` is for.* `InTime` is the invariant of timely answers: a
main thread has one exchange with a node at most (`OneEach`), none is open
between its loops, and one that is not over has the key and the type that the
loop is about, and an entry that waits for it (`Exchanging`). A response needs
to say no more than its sender: there is only one request it can answer.
`LookupWaits` and `AnswersAreMatched` follow. `completed` is true only while
nothing behind the cursor is awaited (`Passed`); this is where the growing map
and the flag `node_query_completed` come in.

*What disks keep.* `AllIntact` follows a piece: a STORE_RESPONSE under way or
kept is from a node that has the piece (`Acknowledged`), and so are the nodes of
each line (`Held`); the pieces a retrieve has read are those of the first lines
(`Fetched`); a retrieved file is right or empty (`Genuine`). It is stated on
hashes, so `DistinctHashes` is needed only at the end, to know a content by its
hash.

*The refinement.* `kept`, `recorded` and `got` of FileStore are read off the
disks, the metadata and the retrieved files. Each action of Network is `Keep` or
a stutter (for the content of a STORE is a piece of some file, `AllOrdered`), each
of Client `Record`, `Deliver` or a stutter. An ended process is outside the
refinement, since what it leaves (empty files) is nothing FileStore has;
`MetadataIsSound` and `RetrievedIsIntact` cover it.

### File store

For any users, nodes, files and pieces, without assumptions:

| theorem | module | |
|---|---|---|
| `RecordsStayTrue` | FileStore_proofs | `Spec => []RecordsTrue` |
| `GotWhatWasStored` | FileStore_proofs | `Spec => []GotIsStored` |
| `NothingIsForgotten` | FileStore_proofs | `Spec => NothingForgotten` |

A record is true when it is made, and nodes only keep more (`KeptGrows`), so it
stays true; `HoldersAreNodes` is what the invariant needs besides. By
`RefinesFileStore` the three hold of the program.

### Id and keys on disk

For any keys, ids, sizes of keys, pieces, blocks and files, and number of runs
(`LocalFilesAssumption`, `SizesAssumption`, and `CipherAssumption`: the second
key is as long as a block):

| theorem | module | |
|---|---|---|
| `IdentityStays` | Files_proofs | `FilesSpec => []IdentityKept` |
| `FilesComeBack` | Files_proofs | `FilesSpec => []ComesBack` |
| `DamageStaysBounded` | Files_proofs | `FilesSpec => []DamageIsBounded` |

The invariant `FilesInv` says that whatever a process has run with is what its
files say, and that a file is only written by a process that found it absent,
before any has run. A key file that was cut short is not `Readable`, and
`crypto_init` throws on it; an id file that was, is read as zeros from then on,
which is an id as good as another.

*What comes back.* `BytesInv`, which was an invariant of the run `Files` before
it was proved, adds to it what a stored file is known by: its pieces are those of
what `Streamed` leaves of its cipher text (`Kept`), it was stored under the first
key that is in the file, and its second key is that of the file if and only if
its run had read the keys instead of making them (`KeysInv`). A file that is
retrieved then meets facts about bytes. `RetrievedIsPrefix`: what `retrieve_file`
joins is the beginning of the cipher text, short of less than a piece, and all of
it if it `Survives`; every piece but the last is whole, the last ends at its
first NUL. That it joins anything is `SurvivorsReturn`, and that it joins nothing
of an empty file is `NulsAreNothing`.
`Blocks` is the arithmetic of padding and whole blocks. `DecryptsWell`: block by
block a beginning of the cipher text decrypts to the beginning of the file; what
decryption drops besides is less than a block, and nothing if it reads the
padding; the second key reaches the first block only.

### Rendezvous

For any clients, addresses, identifications and bounds
(`RendezvousAssumption`):

| theorem | module | |
|---|---|---|
| `TypeCorrect` | Rendezvous_proofs | `Spec => []TypeOK` |
| `RegistrationsPaired` | Rendezvous_proofs | `Spec => []LinkedInPairs` |
| `PartnersTold` | Rendezvous_proofs | `Spec => []ToldOfPartner` |
| `NobodyForgotten` | Rendezvous_proofs | `Spec => []ForgottenByLossOnly` |

`LinkedInPairs` is not inductive: a registration must be known not to come
twice. The invariant says that each is on its way, in the map or linked, and
only one of these (`InOnePlace`), and that a client's next registration is of a
later run than all before (`RunsAreNew`). Steps that send no registration and
leave server and runs alone keep it for one reason (`QuietKeepsPairs`).
`ToldOfPartner` adds that every answer on its way is true (`AnswersTrue`).
`ForgottenByLossOnly` follows from `LossInv`, which adds that the clients that
wait in vain are finitely many. A step leaves nobody waiting unless something
about that client disappears (`OnlyForgets`): a registration that leaves the
network goes to the map, one that leaves the map goes to a link, with which both
clients are told, and only the client itself takes an answer. What is lost is
about one client (`LossForgetsOne`).

### Model-checked only

* `CommandsEnd` and `RetrieveSucceeds`: liveness under fairness, and ENABLED,
  are out of the prover's reach. What safety there is in `CommandsEnd` is proved:
  a lookup moves on (`LookupsMoveOn`), and it returns with nothing open
  (`LookupWaits`).
* The four runs that end in a violation show what is not true; nothing is
  proved about them.

Every other property of a run is a theorem.

## 5. Not modelled

* `sha1.h` (vendored), AES (OpenSSL), boost serialization; `debug.cpp` (manual
  drivers).
* `retrieve` and `persist` of the routing table, `wait_response`,
  `create_metadata_file`, PING requests: never called or sent. `receive thread`
  and `main thread` are listed as *partly* modelled for these alone and for
  the abstract clock.
* `ls`, `pwd`, `help`, output; `store` of a directory (it stores nothing).
* Maps and lists corrupted by a data race; two nodes of one id; two contents of
  one 16-bit hash; two files of one base name; cipher texts of more than 100 MB,
  whose number of pieces is rounded as a float. The races, the shared hashes and
  names, and the rounding are listed as hazards.
* What a NAT lets through.

## 6. Plan

Sections 2 to 4 are done: the components of section 1 are modelled, and every
safety property that a passing run checks is proved. What could follow:

1. `IsFileStore` where processes end: a FileStore whose users lose a record or
   a file when they are interrupted, so that `Outages` could be measured by it.
2. The refinement and `MetadataIsSound` for pieces that share a hash, in a
   FileStore that keeps one content per hash; now they assume `DistinctHashes`.
3. A bound on the passes of a lookup, once the clock is more than the choice
   between an answer and a timeout.
