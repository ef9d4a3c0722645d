---------------------------- MODULE Timely_proofs ----------------------------
EXTENDS P2Pocket_proofs

(***************************************************************************)
(* What TIMEOUT_LIMIT is for: while no answer outlives it (~Late), a main  *)
(* thread has at most one exchange with each node, and one that is not     *)
(* over is one that an entry of its tracker waits for.                     *)
(***************************************************************************)
\* The type of the reply that an exchange ends with.
Wanted(m) == IF m.type \in Requests THEN ReplyType[m.type] ELSE m.type

HasStatus(t, q, status) ==
    IdOf[q] \in DOMAIN t.tracker /\ t.tracker[IdOf[q]].status = status

\* The exchange m is one of the loop that t is in, and its entry waits for it.
Awaited(p, t, m) ==
    /\ m.key = t.target /\ Wanted(m) = ExpectedType(t)
    /\ HasStatus(t, Partner(p, m), "REQUEST_SENT")

\* The response that ended get_first_response, which stays in the map.
Leftover(t, m) ==
    t.op = "bootstrap" /\ m.from = Boot /\ HasStatus(t, Boot, "REQUEST_RECEIVED")

\* What p has not seen of its exchanges is open, or kept in `responses`.
OneEach(p, open, kept) ==
    /\ open \cap kept = {}
    /\ \A m, n \in open \cup kept : Partner(p, m) = Partner(p, n) => m = n

\* Entries that wait for an answer and that the pass has gone by.
Passed(t) == {id \in DOMAIN t.tracker \ Ahead(t) : t.tracker[id].status = "REQUEST_SENT"}

Exchanging(p, open, kept, t) ==
    /\ \A m \in open : Awaited(p, t, m)
    /\ \A m \in kept : Awaited(p, t, m) \/ Leftover(t, m)
    /\ t.completed =>
          IF t.pc = "lookup" THEN Passed(t) = {}
          ELSE \A m \in open \cup kept : IdOf[Partner(p, m)] \notin Passed(t)

Answered(t) ==
    \A k \in DOMAIN t.answers :
        /\ t.answers[k].msg.key = t.target
        /\ t.answers[k].msg.from = t.answers[k].node.ep
        /\ t.answers[k].msg.type = ExpectedType(t)

Timely(p, open, kept, t) ==
    /\ t.pc # "off" => OneEach(p, open, kept)
    /\ t.pc \in {"insert", "idle", "store", "retrieve"} => open = {}
    /\ t.pc \in {"lookup", "wait"} => Exchanging(p, open, kept, t)
    /\ Answered(t)

InTime == \A p \in Endpoint : Timely(p, Open(p), responses[p], main[p])

\* What holds before each step.
SoFar == Inv /\ Began /\ ~Late /\ InTime

TimelyNext(p) == Timely(p, Open(p)', responses'[p], main'[p])

-----------------------------------------------------------------------------
LEMMA Talk ==
    ASSUME Inv, NEW p \in Endpoint, NEW m \in Open(p) \cup responses[p]
    PROVE  /\ m \in Datagram /\ Of(p, m) /\ m.from # m.to
           /\ Partner(p, m) \in Endpoint /\ Partner(p, m) # p
           /\ IdOf[Partner(p, m)] \in ID
           /\ m.type \in Replies => Partner(p, m) = m.from /\ Wanted(m) = m.type
           /\ m \in responses[p] => m.type \in Replies
           /\ m.type \in Requests => Partner(p, m) = m.to /\ Wanted(m) = ReplyType[m.type]
<1>1. m \in Datagram /\ Of(p, m) /\ (m \in responses[p] => m.type \in Replies)
  BY DEF Inv, RecvInv, Incoming, Open, Of
<1>2. m.from \in Endpoint /\ m.to \in Endpoint /\ m.from # m.to
  BY <1>1 DEF Datagram, Message
<1>3. Requests \cap Replies = {}
  BY ReplyTypes DEF Requests
<1>4. m.type \in Replies => Partner(p, m) = m.from /\ Wanted(m) = m.type
  BY <1>1, <1>2, <1>3 DEF Of, Partner, Wanted
<1>5. m.type \in Requests => Partner(p, m) = m.to /\ Wanted(m) = ReplyType[m.type]
  BY <1>1, <1>2, <1>3 DEF Of, Partner, Wanted
<1>6. Partner(p, m) \in Endpoint /\ Partner(p, m) # p
  BY <1>1, <1>2, <1>3 DEF Of, Partner
<1> QED  BY <1>1, <1>2, <1>4, <1>5, <1>6, IdsDiffer

\* In its tracker p finds a node under its own id.
LEMMA Tracks ==
    ASSUME SoFar, NEW p \in Endpoint, NEW id \in DOMAIN main[p].tracker
    PROVE  /\ id \in ID /\ main[p].tracker[id].ep \in Endpoint
           /\ id = IdOf[main[p].tracker[id].ep]
           /\ \A q \in Endpoint : id = IdOf[q] => q = main[p].tracker[id].ep
<1>1. main[p].tracker \in Tracker
  BY DEF SoFar, Inv, Threads, Thread, Local
<1> QED  BY <1>1, TrackerElements, IdsDiffer DEF SoFar, Stale

\* The exchanges of a process whose main thread does nothing.
LEMMA ProceedingTimely ==
    ASSUME SoFar, NEW p \in Endpoint, Proceeds(p)
    PROVE  TimelyNext(p)
<1> DEFINE t == main[p]
           open == Open(p)
           kept == responses[p]
           open2 == Open(p)'
           kept2 == responses'[p]
<1>1. Timely(p, open, kept, t) /\ main'[p] = t
  BY DEF SoFar, InTime, Proceeds
<1>2. t.pc = "off" => p \notin up
  BY DEF SoFar, Began, Beginning, Stale
<1>3. ASSUME NEW m \in open, NEW r, Answers(m, r)
      PROVE  /\ Partner(p, r) = Partner(p, m) /\ Wanted(r) = Wanted(m)
             /\ r.key = m.key
  <2>1. r.type \in Replies /\ r.type \notin Requests
    BY <1>3, ReplyTypes DEF Answers, Requests
  <2> QED  BY <1>3, <2>1, Talk DEF Answers, Partner, Wanted, SoFar
<1> HIDE DEF t, open, kept, open2, kept2
<1>4. CASE open2 \subseteq open /\ kept2 = kept
  <2>1. OneEach(p, open, kept) => OneEach(p, open2, kept2)
    BY <1>4 DEF OneEach
  <2>2. Exchanging(p, open, kept, t) => Exchanging(p, open2, kept2, t)
    BY <1>4 DEF Exchanging
  <2> QED  BY <1>1, <1>4, <2>1, <2>2 DEF Timely, TimelyNext, open2, kept2
<1>5. ASSUME NEW m \in open, NEW r, Answers(m, r),
             open2 \subseteq (open \ {m}) \cup {r}, kept2 = kept
      PROVE  TimelyNext(p)
  <2>1. Partner(p, r) = Partner(p, m) /\ Wanted(r) = Wanted(m) /\ r.key = m.key
    BY <1>3, <1>5
  <2>2. OneEach(p, open, kept) => OneEach(p, open2, kept2)
    BY <1>5, <2>1 DEF OneEach
  <2>3. Exchanging(p, open, kept, t) => Exchanging(p, open2, kept2, t)
    BY <1>5, <2>1 DEF Exchanging, Awaited
  <2> QED  BY <1>1, <1>5, <2>2, <2>3 DEF Timely, TimelyNext, open2, kept2
<1>6. ASSUME NEW m \in open, p \in up,
             open2 \subseteq open \ {m}, kept2 \subseteq kept \cup {m}
      PROVE  TimelyNext(p)
  <2>1. OneEach(p, open, kept) => OneEach(p, open2, kept2)
    BY <1>6 DEF OneEach
  <2>2. Exchanging(p, open, kept, t) => Exchanging(p, open2, kept2, t)
    BY <1>6 DEF Exchanging
  <2> QED  BY <1>1, <1>6, <2>1, <2>2 DEF Timely, TimelyNext, open2, kept2
<1> QED  BY <1>4, <1>5, <1>6 DEF Proceeds, open, kept, open2, kept2

\* The bootstrap node begins none.
LEMMA BootSilent == Inv => Open(Boot) = {} /\ responses[Boot] = {}
<1> SUFFICES ASSUME Inv, NEW m \in Open(Boot) \cup responses[Boot] PROVE FALSE
  OBVIOUS
<1> QED  BY Talk, FilesAssumption DEF Of, Datagram

\* Where no loop runs, there is nothing to wait for.
LEMMA RestTimely ==
    ASSUME NEW p, NEW open, NEW kept, NEW t, OneEach(p, open, kept), open = {},
           t.pc \notin {"lookup", "wait"}, t.answers = <<>>
    PROVE  Timely(p, open, kept, t)
  BY DEF Timely, Answered

LEMMA OverTimely ==
    ASSUME SoFar, NEW p \in Endpoint, main'[p] = Parked("off")
    PROVE  TimelyNext(p)
<1>1. PICK t : t = Parked("off")
  OBVIOUS
<1>2. t.pc = "off" /\ t.answers = <<>>
  BY <1>1 DEF Parked
<1> QED  BY <1>1, <1>2 DEF TimelyNext, Timely, Answered

LEMMA EndsTimely ==
    ASSUME SoFar, NEW p \in Endpoint, NEW why, Terminate(p, why)
    PROVE  TimelyNext(p)
  BY Becomes, OverTimely DEF Terminate, SoFar

LEMMA StartTimely ==
    ASSUME SoFar, NEW p \in Endpoint, Start(p)
    PROVE  TimelyNext(p)
<1>1. PICK t : t = [Parked("first_response") EXCEPT !.op = "bootstrap", !.target = IdOf[p]]
  OBVIOUS
<1>2. t.pc = "first_response" /\ t.answers = <<>> /\ main'[p] = t
  <2>1. Become(p, t)
    BY <1>1 DEF Start
  <2> QED  BY <1>1, <2>1, Becomes DEF Parked, SoFar
<1>3. /\ responses'[p] = {}
      /\ \A m \in Open(p)' : m = Request("FIND_NODE", p, Boot, IdOf[p], NoContent)
  <2>1. responses[p] = {}
    BY DEF SoFar, Began, Beginning, Stale, Start
  <2>2. responses' = responses
    BY DEF Start
  <2>3. \A m \in Open(p)' : m = Request("FIND_NODE", p, Boot, IdOf[p], NoContent)
    BY StartsAlone DEF SoFar, Stale
  <2> QED  BY <2>1, <2>2, <2>3
<1>4. OneEach(p, Open(p)', responses'[p])
  BY <1>3 DEF OneEach
<1> QED  BY <1>2, <1>4 DEF TimelyNext, Timely, Answered

LEMMA StartBootTimely ==
    ASSUME SoFar, StartBoot
    PROVE  TimelyNext(Boot)
<1>1. PICK t : t = Parked("serving")
  OBVIOUS
<1>2. t.pc = "serving" /\ t.answers = <<>> /\ main'[Boot] = t
  BY <1>1, Becomes, FilesAssumption DEF Parked, StartBoot, SoFar
<1>3. Open(Boot)' = {} /\ responses'[Boot] = {}
  BY BootSilent DEF StartBoot, Open, SoFar
<1> QED  BY <1>2, <1>3, RestTimely DEF TimelyNext, OneEach

\* The first response is the only thing there is: it stays behind in the map.
LEMMA FirstResponseTimely ==
    ASSUME SoFar, NEW p \in Endpoint, NEW m, FirstResponse(p, m)
    PROVE  TimelyNext(p)
<1> DEFINE t    == main[p]
           boot == [id |-> IdOf[m.from], ep |-> Boot]
           v    == Track(<<>>, {boot}, "REQUEST_RECEIVED")
           w    == Track(v, m.nodes, "NO_ACTION")
           u    == [t EXCEPT !.pc = "lookup", !.tracker = w]
<1>1. /\ t \in Local(p) /\ t.pc = "first_response" /\ t.op = "bootstrap" /\ t.answers = <<>>
      /\ t.cursor = {} /\ m \in responses[p]
  BY DEF SoFar, Inv, Threads, Thread, Control, FirstResponse, IsFirst
<1>2. m \in Datagram /\ m.from = Boot
  BY <1>1, Talk DEF SoFar, Began, Beginning, Stale, Inv, RecvInv, Incoming
<1>3. Open(p) = {} /\ responses[p] = {m}
  <2>1. \A n \in Open(p) \cup responses[p] : Partner(p, n) = Boot
    BY <1>1 DEF SoFar, Began, Beginning, Stale
  <2>2. OneEach(p, Open(p), responses[p])
    BY <1>1 DEF SoFar, InTime, Timely
  <2> QED  BY <1>1, <2>1, <2>2 DEF OneEach
<1>4. Open(p)' = {} /\ responses'[p] = {m}
  BY <1>3 DEF FirstResponse, Open
<1>5. OneEach(p, Open(p)', responses'[p])
  BY <1>4 DEF OneEach
<1>6. boot \in Paired /\ boot.id = IdOf[Boot] /\ m.nodes \in SUBSET Paired
  BY <1>2, IdsDiffer, FilesAssumption DEF Paired, Node, Datagram
<1> HIDE DEF boot
<1>7. v \in Tracker /\ IdOf[Boot] \in DOMAIN v /\ v[IdOf[Boot]].status = "REQUEST_RECEIVED"
      /\ \A id \in DOMAIN v : v[id].status = "REQUEST_RECEIVED"
  BY <1>6, EmptyTracker, Tracking DEF Status
<1> HIDE DEF v
<1>8. /\ IdOf[Boot] \in DOMAIN w /\ w[IdOf[Boot]].status = "REQUEST_RECEIVED"
      /\ \A id \in DOMAIN w : w[id].status # "REQUEST_SENT"
  BY <1>6, <1>7, Tracking DEF Status
<1> HIDE DEF w
<1>9. /\ u.pc = "lookup" /\ u.tracker = w /\ u.op = "bootstrap" /\ u.answers = <<>>
  BY <1>1 DEF Local
<1>10. Become(p, IF m.nodes = {} THEN Parked("idle") ELSE u)
  BY DEF FirstResponse, u, t, w, v, boot
<1> HIDE DEF u, t
<1>11. CASE m.nodes = {}
  <2>1. PICK s : s = Parked("idle")
    OBVIOUS
  <2>2. s.pc = "idle" /\ s.answers = <<>> /\ main'[p] = s
    BY <1>10, <1>11, <2>1, Becomes DEF Parked, SoFar
  <2> QED  BY <1>4, <1>5, <2>2, RestTimely DEF TimelyNext
<1>12. CASE m.nodes # {}
  <2>1. main'[p] = u
    BY <1>10, <1>12, Becomes DEF SoFar
  <2>2. Leftover(u, m) /\ Passed(u) = {}
    BY <1>2, <1>8, <1>9 DEF Leftover, HasStatus, Passed
  <2>3. Exchanging(p, Open(p)', responses'[p], u)
    BY <1>4, <1>9, <2>2 DEF Exchanging
  <2> QED  BY <1>5, <1>9, <2>1, <2>3 DEF TimelyNext, Timely, Answered
<1> QED  BY <1>11, <1>12

\* The pair of loops at the end of bootstrap.
LEMMA InsertTimely ==
    ASSUME SoFar, NEW p \in Endpoint, NEW id, InsertsNext(p, id), Become(p, Inserted(p, id)),
           UNCHANGED <<net, responses>>
    PROVE  TimelyNext(p)
<1>1. main[p] \in Local(p) /\ main[p].pc = "insert" /\ main[p].answers = <<>>
  BY DEF SoFar, Inv, Threads, Thread, Control, InsertsNext
<1>2. Inserted(p, id).pc \in {"insert", "idle"} /\ Inserted(p, id).answers = <<>>
  BY <1>1 DEF Inserted, Parked, Local
<1>3. OneEach(p, Open(p), responses[p]) /\ Open(p) = {}
  BY <1>1 DEF SoFar, InTime, Timely
<1>4. main'[p] = Inserted(p, id)
  BY Becomes DEF SoFar
<1>5. Open(p)' = Open(p) /\ responses' = responses
  BY DEF Open
<1> QED  BY <1>2, <1>3, <1>4, <1>5, RestTimely DEF TimelyNext

-----------------------------------------------------------------------------
(***************************************************************************)
(* The loop over a tracker.                                                *)
(***************************************************************************)
\* A visit to the least entry ahead passes no other one by.
LEMMA VisitPasses ==
    ASSUME SoFar, NEW p \in Endpoint, NEW id, NEW status, Visits(p, id, status),
           NEW u, u.cursor = {id},
           \A i \in DOMAIN u.tracker : u.tracker[i].status = "REQUEST_SENT" =>
               \/ i = id
               \/ /\ i \in DOMAIN main[p].tracker
                  /\ main[p].tracker[i].status = "REQUEST_SENT"
    PROVE  Passed(u) \subseteq Passed(main[p]) \cup {id}
<1> DEFINE t == main[p]
<1>1. \A x \in Ahead(t) \ {id} : Less(id, x)
  BY VisitFacts DEF SoFar
<1> SUFFICES ASSUME NEW i \in Passed(u), i # id PROVE i \in Passed(t)
  OBVIOUS
<1>2. /\ i \in DOMAIN u.tracker /\ u.tracker[i].status = "REQUEST_SENT" /\ i \notin Ahead(u)
      /\ i \in DOMAIN t.tracker /\ t.tracker[i].status = "REQUEST_SENT"
  BY DEF Passed
<1>3. ~Less(id, i)
  BY <1>2 DEF Ahead
<1> QED  BY <1>1, <1>2, <1>3 DEF Passed

\* What a thread that visits id knows of its exchanges.
LEMMA Visiting ==
    ASSUME SoFar, NEW p \in Endpoint, NEW id, NEW status, Visits(p, id, status)
    PROVE  /\ main[p] \in Local(p) /\ main[p].pc \in {"lookup", "wait"} /\ p # Boot
           /\ main[p].tracker \in Tracker
           /\ id \in DOMAIN main[p].tracker /\ main[p].tracker[id].status = status
           /\ id \in ID
           /\ OneEach(p, Open(p), responses[p]) /\ Answered(main[p])
           /\ Exchanging(p, Open(p), responses[p], main[p])
           /\ main[p].pc = "wait" => main[p].op \in {"store", "retrieve"}
<1>1. Timely(p, Open(p), responses[p], main[p])
  BY DEF SoFar, InTime
<1>2. main[p] \in Local(p) /\ Control(p, main[p])
  BY DEF SoFar, Inv, Threads, Thread
<1>3. /\ p # Boot /\ id \in ID /\ main[p].pc \in {"lookup", "wait"}
      /\ id \in DOMAIN main[p].tracker /\ main[p].tracker[id].status = status
  BY VisitFacts DEF SoFar
<1>4. main[p].tracker \in Tracker
  BY <1>2 DEF Local
<1> QED  BY <1>1, <1>2, <1>3, <1>4 DEF Control, Timely

\* A visit that changes no entry but id, and with which nothing is left to come
\* from there.
LEMMA VisitTimely ==
    ASSUME SoFar, NEW p \in Endpoint, NEW id, NEW status, Visits(p, id, status),
           NEW u, main'[p] = u, u.cursor = {id}, u.pc = main[p].pc, u.op = main[p].op,
           u.target = main[p].target, u.completed = main[p].completed, Answered(u),
           \A i \in DOMAIN main[p].tracker \ {id} :
               i \in DOMAIN u.tracker /\ u.tracker[i] = main[p].tracker[i],
           \A i \in DOMAIN u.tracker : u.tracker[i].status = "REQUEST_SENT" =>
               \/ i = id
               \/ /\ i \in DOMAIN main[p].tracker
                  /\ main[p].tracker[i].status = "REQUEST_SENT",
           u.pc = "lookup" => id \notin Passed(u),
           Open(p)' \subseteq Open(p), responses'[p] \subseteq responses[p],
           \A n \in Open(p)' \cup responses'[p] : IdOf[Partner(p, n)] # id
    PROVE  TimelyNext(p)
<1> DEFINE t == main[p]
           open == Open(p)
           kept == responses[p]
           open2 == Open(p)'
           kept2 == responses'[p]
<1>1. /\ OneEach(p, open, kept) /\ Exchanging(p, open, kept, t)
      /\ t.pc \in {"lookup", "wait"}
  BY Visiting
<1>2. Passed(u) \subseteq Passed(t) \cup {id}
  BY VisitPasses
<1>3. open2 \subseteq open /\ kept2 \subseteq kept
  OBVIOUS
<1>4. \A n \in open2 \cup kept2 : IdOf[Partner(p, n)] # id
  OBVIOUS
<1>5. ExpectedType(u) = ExpectedType(t)
  BY DEF ExpectedType
<1>6. \A i \in DOMAIN t.tracker \ {id} : i \in DOMAIN u.tracker /\ u.tracker[i] = t.tracker[i]
  OBVIOUS
<1> HIDE DEF open, kept, open2, kept2, t
<1>7. OneEach(p, open2, kept2)
  BY <1>1, <1>3 DEF OneEach
<1>8. ASSUME NEW m \in open2 \cup kept2, Awaited(p, t, m) PROVE Awaited(p, u, m)
  BY <1>4, <1>5, <1>6, <1>8 DEF Awaited, HasStatus, t
<1>9. ASSUME NEW m \in kept2, Leftover(t, m) PROVE Leftover(u, m)
  <2>1. Partner(p, m) = m.from
    BY <1>3, Talk DEF SoFar, kept
  <2> QED  BY <1>4, <1>6, <1>9, <2>1 DEF Leftover, HasStatus, t
<1>10. Exchanging(p, open2, kept2, u)
  <2>1. \A m \in open2 : Awaited(p, u, m)
    BY <1>1, <1>3, <1>8 DEF Exchanging
  <2>2. \A m \in kept2 : Awaited(p, u, m) \/ Leftover(u, m)
    BY <1>1, <1>3, <1>8, <1>9 DEF Exchanging
  <2>3. ASSUME u.completed, u.pc = "lookup" PROVE Passed(u) = {}
    BY <1>1, <1>2, <2>3 DEF Exchanging, t
  <2>4. ASSUME u.completed, u.pc # "lookup", NEW m \in open2 \cup kept2
        PROVE  IdOf[Partner(p, m)] \notin Passed(u)
    BY <1>1, <1>2, <1>3, <1>4, <2>4 DEF Exchanging, t
  <2> QED  BY <2>1, <2>2, <2>3, <2>4 DEF Exchanging
<1> QED  BY <1>1, <1>7, <1>10 DEF Timely, TimelyNext, open2, kept2, t

\* A response of the visited node is the answer to its request.
LEMMA Matching ==
    ASSUME SoFar, NEW p \in Endpoint, NEW id, Visits(p, id, "REQUEST_SENT"),
           NEW m \in ResponseOf(p, id)
    PROVE  /\ m.type = ExpectedType(main[p]) /\ m.key = main[p].target
           /\ m.from = main[p].tracker[id].ep
           /\ m \in responses[p] /\ Partner(p, m) = m.from
           /\ \A n \in Open(p) \cup (responses[p] \ {m}) : IdOf[Partner(p, n)] # id
<1> DEFINE t == main[p]
<1>1. /\ Exchanging(p, Open(p), responses[p], t) /\ OneEach(p, Open(p), responses[p])
      /\ id \in DOMAIN t.tracker /\ t.tracker[id].status = "REQUEST_SENT"
  BY Visiting
<1>2. m \in responses[p] /\ IdOf[m.from] = id
  BY DEF ResponseOf
<1>3. m.type \in Replies /\ Partner(p, m) = m.from /\ Wanted(m) = m.type /\ m.from \in Endpoint
  BY <1>2, Talk DEF SoFar
<1>4. m.from = t.tracker[id].ep
  BY <1>1, <1>2, <1>3, Tracks
<1>5. ~Leftover(t, m)
  BY <1>1, <1>2 DEF Leftover, HasStatus
<1>6. Awaited(p, t, m)
  BY <1>1, <1>2, <1>5 DEF Exchanging
<1>7. ASSUME NEW n \in Open(p) \cup (responses[p] \ {m}), IdOf[Partner(p, n)] = id PROVE FALSE
  <2>1. Partner(p, n) \in Endpoint
    BY Talk DEF SoFar
  <2>2. Partner(p, n) = Partner(p, m)
    BY <1>2, <1>3, <1>7, <2>1, IdsDiffer
  <2> QED  BY <1>1, <1>2, <2>2 DEF OneEach
<1> QED  BY <1>2, <1>3, <1>4, <1>6, <1>7 DEF Awaited

LEMMA LookupSendTimely ==
    ASSUME SoFar, NEW p \in Endpoint, NEW id, LookupSend(p, id)
    PROVE  TimelyNext(p)
<1> DEFINE t == main[p]
           u == Queried(t, id)
           q == t.tracker[id].ep
           r == Request("FIND_NODE", p, q, t.target, NoContent)
           open == Open(p)
           kept == responses[p]
           open2 == Open(p)'
<1>1. /\ t \in Local(p) /\ t.pc = "lookup" /\ t.tracker \in Tracker
      /\ id \in DOMAIN t.tracker /\ t.tracker[id].status = "NO_ACTION"
      /\ OneEach(p, open, kept) /\ Answered(t) /\ Exchanging(p, open, kept, t)
  BY Visiting DEF LookupSend
<1>2. /\ u.tracker = [t.tracker EXCEPT ![id].status = "REQUEST_SENT"]
      /\ u.pc = "lookup" /\ u.op = t.op /\ u.target = t.target /\ u.answers = t.answers
      /\ ~u.completed
  BY <1>1 DEF Queried, Local
<1>3. /\ DOMAIN u.tracker = DOMAIN t.tracker
      /\ \A i \in DOMAIN t.tracker :
             u.tracker[i].status = IF i = id THEN "REQUEST_SENT" ELSE t.tracker[i].status
  BY <1>1, <1>2, StatusChange DEF Status
<1>4. main'[p] = u
  <2>1. Become(p, u)
    BY DEF LookupSend
  <2> QED  BY <2>1, Becomes DEF SoFar
<1>5. q \in Endpoint /\ id = IdOf[q]
  BY <1>1, Tracks
<1>6. /\ Partner(p, r) = q /\ Wanted(r) = "FIND_NODE_RESPONSE" /\ r.key = t.target
      /\ r.type \in Requests
  BY ReplyTypes DEF Partner, Wanted, Request, Requests
<1>7. open2 \subseteq open \cup {r} /\ responses'[p] = kept
  BY DEF Open, LookupSend
<1>8. ExpectedType(u) = "FIND_NODE_RESPONSE" /\ ExpectedType(t) = ExpectedType(u)
  BY <1>1, <1>2 DEF ExpectedType
<1>9. \A m \in open : Awaited(p, t, m)
  BY <1>1 DEF Exchanging
<1>10. \A m \in kept : Awaited(p, t, m) \/ Leftover(t, m)
  BY <1>1 DEF Exchanging
<1>11. \A m \in kept : Partner(p, m) = m.from /\ m.type \notin Requests
  BY Talk, ReplyTypes DEF SoFar, Requests
<1>12. Answered(u)
  BY <1>1, <1>2, <1>8 DEF Answered
<1> HIDE DEF u, q, r, open, kept, open2, t
<1>13. Awaited(p, u, r)
  BY <1>1, <1>2, <1>3, <1>5, <1>6, <1>8 DEF Awaited, HasStatus
<1>14. ASSUME NEW m \in open PROVE Awaited(p, u, m) /\ Partner(p, m) # q
  BY <1>1, <1>2, <1>3, <1>5, <1>8, <1>9 DEF Awaited, HasStatus
<1>15. ASSUME NEW m \in kept
       PROVE  (Awaited(p, u, m) \/ Leftover(u, m)) /\ Partner(p, m) # q
  BY <1>1, <1>2, <1>3, <1>5, <1>8, <1>10, <1>11 DEF Awaited, Leftover, HasStatus
<1>16. OneEach(p, open2, kept)
  BY <1>1, <1>6, <1>7, <1>11, <1>14, <1>15 DEF OneEach
<1>17. Exchanging(p, open2, kept, u)
  BY <1>2, <1>7, <1>13, <1>14, <1>15 DEF Exchanging
<1> QED  BY <1>2, <1>4, <1>7, <1>12, <1>16, <1>17 DEF Timely, TimelyNext, open2

LEMMA LookupTakeTimely ==
    ASSUME SoFar, NEW p \in Endpoint, NEW id, NEW m, LookupTake(p, id, m)
    PROVE  TimelyNext(p)
<1> DEFINE t     == main[p]
           nodes == {n \in m.nodes : n.id # IdOf[p]}
           v     == [t.tracker EXCEPT ![id].status = "REQUEST_RECEIVED"]
           w     == Track(v, nodes, "NO_ACTION")
           u     == [t EXCEPT !.cursor = {id}, !.tracker = w]
<1>1. /\ t \in Local(p) /\ t.tracker \in Tracker /\ id \in DOMAIN t.tracker
      /\ Visits(p, id, "REQUEST_SENT") /\ Answered(t) /\ m \in ResponseOf(p, id)
  BY Visiting DEF LookupTake
<1>2. /\ m \in responses[p]
      /\ \A n \in Open(p) \cup (responses[p] \ {m}) : IdOf[Partner(p, n)] # id
  BY <1>1, Matching
<1>3. nodes \in SUBSET Paired
  BY <1>2, Talk DEF SoFar, Datagram
<1> HIDE DEF nodes
<1>4. /\ v \in Tracker /\ DOMAIN v = DOMAIN t.tracker
      /\ v[id].status = "REQUEST_RECEIVED"
      /\ \A i \in DOMAIN t.tracker \ {id} : v[i] = t.tracker[i]
  <2>1. v \in Tracker /\ DOMAIN v = DOMAIN t.tracker /\ v[id].status = "REQUEST_RECEIVED"
    BY <1>1, StatusChange DEF Status
  <2>2. \A i \in DOMAIN t.tracker \ {id} : v[i] = t.tracker[i]
    OBVIOUS
  <2> QED  BY <2>1, <2>2
<1> HIDE DEF v
<1>5. /\ DOMAIN v \subseteq DOMAIN w /\ \A i \in DOMAIN v : w[i] = v[i]
      /\ \A i \in DOMAIN w : i \notin DOMAIN v => w[i].status = "NO_ACTION"
  BY <1>3, <1>4, Tracking DEF Status
<1>6. Become(p, u)
  BY DEF LookupTake, Learned, u, w, v, nodes
<1> HIDE DEF w
<1>7. /\ u.cursor = {id} /\ u.pc = t.pc /\ u.op = t.op /\ u.target = t.target
      /\ u.completed = t.completed /\ u.answers = t.answers /\ u.tracker = w
  BY <1>1 DEF Local
<1> HIDE DEF u
<1>8. Answered(u)
  BY <1>1, <1>7 DEF Answered, ExpectedType
<1>9. \A i \in DOMAIN t.tracker \ {id} : i \in DOMAIN u.tracker /\ u.tracker[i] = t.tracker[i]
  BY <1>4, <1>5, <1>7
<1>10. \A i \in DOMAIN u.tracker : u.tracker[i].status = "REQUEST_SENT" =>
          i \in DOMAIN t.tracker /\ t.tracker[i].status = "REQUEST_SENT"
  BY <1>4, <1>5, <1>7
<1>11. id \notin Passed(u)
  BY <1>1, <1>4, <1>5, <1>7 DEF Passed
<1>12. Open(p)' = Open(p) /\ responses'[p] = responses[p] \ {m}
  BY DEF LookupTake, Open, SoFar, Inv, RecvInv
<1>13. main'[p] = u
  BY <1>6, Becomes DEF SoFar
<1> QED
  BY <1>1, <1>2, <1>7, <1>8, <1>9, <1>10, <1>11, <1>12, <1>13, VisitTimely

\* Nothing that find_id_recursively or wait_for_responses looks up is of another
\* type than the one awaited.
LEMMA NoMismatch ==
    ASSUME SoFar, NEW p \in Endpoint, NEW id, NEW m,
           LookupDiscard(p, id, m) \/ WaitMismatch(p, id, m)
    PROVE  FALSE
<1>1. Visits(p, id, "REQUEST_SENT") /\ m \in ResponseOf(p, id)
  BY DEF LookupDiscard, WaitMismatch
<1>2. m.type = ExpectedType(main[p])
  BY <1>1, Matching
<1> QED  BY <1>2 DEF LookupDiscard, WaitMismatch, ExpectedType

LEMMA GiveUpTimely ==
    ASSUME SoFar, NEW p \in Endpoint, NEW id, GiveUp(p, id)
    PROVE  TimelyNext(p)
<1> DEFINE t == main[p]
           v == [t.tracker EXCEPT ![id].status = "REQUEST_TIMEOUT"]
           u == [t EXCEPT !.cursor = {id}, !.tracker = v]
<1>1. /\ t \in Local(p) /\ t.tracker \in Tracker /\ id \in DOMAIN t.tracker
      /\ Visits(p, id, "REQUEST_SENT") /\ Answered(t)
  BY Visiting DEF GiveUp
<1>2. /\ DOMAIN v = DOMAIN t.tracker /\ v[id].status = "REQUEST_TIMEOUT"
      /\ \A i \in DOMAIN t.tracker \ {id} : v[i] = t.tracker[i]
  <2>1. DOMAIN v = DOMAIN t.tracker /\ v[id].status = "REQUEST_TIMEOUT"
    BY <1>1, StatusChange DEF Status
  <2>2. \A i \in DOMAIN t.tracker \ {id} : v[i] = t.tracker[i]
    OBVIOUS
  <2> QED  BY <2>1, <2>2
<1>3. u = TimedOut(t, id)
  BY <1>1 DEF TimedOut, Local
<1> HIDE DEF v
<1>4. /\ u.cursor = {id} /\ u.pc = t.pc /\ u.op = t.op /\ u.target = t.target
      /\ u.completed = t.completed /\ u.answers = t.answers /\ u.tracker = v
  BY <1>1 DEF Local
<1> HIDE DEF u
<1>5. Answered(u)
  BY <1>1, <1>4 DEF Answered, ExpectedType
<1>6. \A n \in Open(p) \cup responses[p] : IdOf[Partner(p, n)] # id
  <2>1. ASSUME NEW n \in responses[p], IdOf[Partner(p, n)] = id PROVE FALSE
    <3>1. Partner(p, n) = n.from
      BY Talk DEF SoFar
    <3> QED  BY <2>1, <3>1 DEF GiveUp, ResponseOf
  <2>2. ASSUME NEW n \in Open(p), IdOf[Partner(p, n)] = id PROVE FALSE
    <3>1. Partner(p, n) = t.tracker[id].ep
      BY <1>1, <2>2, Talk, Tracks DEF SoFar
    <3>2. n \in net /\ Of(p, n) /\ (n.type \in Replies => Partner(p, n) = n.from)
          /\ (n.type \in Requests => Partner(p, n) = n.to)
      BY Talk DEF SoFar, Open
    <3>3. InFlight(p, Partner(p, n))
      BY <3>2 DEF InFlight, Of
    <3> QED  BY <3>1, <3>3 DEF GiveUp, MayTimeOut, SoFar
  <2> QED  BY <2>1, <2>2
<1>7. Open(p)' = Open(p) /\ responses' = responses
  BY DEF GiveUp, recvVars, Open
<1>8. main'[p] = u
  BY <1>3, Becomes DEF GiveUp, SoFar
<1>9. \A i \in DOMAIN u.tracker : u.tracker[i].status = "REQUEST_SENT" =>
          i \in DOMAIN t.tracker /\ t.tracker[i].status = "REQUEST_SENT"
  BY <1>2, <1>4
<1>10. id \notin Passed(u)
  BY <1>2, <1>4 DEF Passed
<1>11. \A i \in DOMAIN t.tracker \ {id} : i \in DOMAIN u.tracker /\ u.tracker[i] = t.tracker[i]
  BY <1>2, <1>4
<1> QED
  BY <1>1, <1>4, <1>5, <1>6, <1>7, <1>8, <1>9, <1>10, <1>11, VisitTimely

LEMMA KeepWaitingTimely ==
    ASSUME SoFar, NEW p \in Endpoint, NEW id, KeepWaiting(p, id)
    PROVE  TimelyNext(p)
<1> DEFINE t == main[p]
           u == StillOpen(t, id)
<1>1. /\ t \in Local(p) /\ t.pc \in {"lookup", "wait"} /\ Answered(t)
      /\ OneEach(p, Open(p), responses[p]) /\ Exchanging(p, Open(p), responses[p], t)
  BY Visiting DEF KeepWaiting
<1>2. /\ u.pc = t.pc /\ u.op = t.op /\ u.target = t.target /\ u.tracker = t.tracker
      /\ u.answers = t.answers /\ ~u.completed
  BY <1>1 DEF StillOpen, Local
<1>3. main'[p] = u
  BY Becomes DEF KeepWaiting, SoFar
<1>4. Open(p)' = Open(p) /\ responses' = responses
  BY DEF KeepWaiting, recvVars, Open
<1> HIDE DEF u
<1>5. Exchanging(p, Open(p), responses[p], u) /\ Answered(u)
  BY <1>1, <1>2 DEF Exchanging, Awaited, Leftover, HasStatus, Answered, ExpectedType
<1> QED  BY <1>1, <1>2, <1>3, <1>4, <1>5 DEF Timely, TimelyNext

LEMMA NextPassTimely ==
    ASSUME SoFar, NEW p \in Endpoint, NextPass(p)
    PROVE  TimelyNext(p)
<1> DEFINE t == main[p]
           u == [t EXCEPT !.cursor = {}, !.completed = TRUE]
<1>1. t \in Local(p) /\ t.pc \in {"lookup", "wait"}
  BY DEF NextPass, PassEnds, SoFar, Inv, Threads, Thread
<1>2. /\ OneEach(p, Open(p), responses[p]) /\ Exchanging(p, Open(p), responses[p], t)
      /\ Answered(t)
  BY <1>1 DEF SoFar, InTime, Timely
<1>3. /\ u.pc = t.pc /\ u.op = t.op /\ u.target = t.target /\ u.tracker = t.tracker
      /\ u.answers = t.answers /\ u.cursor = {}
  BY <1>1 DEF Local
<1>4. main'[p] = u
  <2>1. Become(p, u)
    BY DEF NextPass
  <2> QED  BY <2>1, Becomes DEF SoFar
<1>5. Open(p)' = Open(p) /\ responses' = responses
  BY DEF NextPass, recvVars, Open
<1> HIDE DEF u
<1>6. Passed(u) = {}
  BY <1>3 DEF Passed, Ahead
<1>7. Exchanging(p, Open(p), responses[p], u) /\ Answered(u)
  BY <1>2, <1>3, <1>6 DEF Exchanging, Awaited, Leftover, HasStatus, Answered, ExpectedType
<1> QED  BY <1>1, <1>2, <1>3, <1>4, <1>5, <1>7 DEF Timely, TimelyNext

LEMMA WaitTakeTimely ==
    ASSUME SoFar, NEW p \in Endpoint, NEW id, NEW m, WaitTake(p, id, m)
    PROVE  TimelyNext(p)
<1> DEFINE t == main[p]
           a == [node |-> [id |-> id, ep |-> t.tracker[id].ep], msg |-> m]
           answers == Append(t.answers, a)
           u == [t EXCEPT !.cursor = {id}, !.answers = answers]
<1>1. /\ t \in Local(p) /\ t.pc = "wait" /\ Visits(p, id, "REQUEST_SENT") /\ Answered(t)
      /\ m \in ResponseOf(p, id)
  BY Visiting DEF WaitTake
<1>2. /\ m.type = ExpectedType(t) /\ m.key = t.target /\ m.from = t.tracker[id].ep
      /\ m \in responses[p]
      /\ \A n \in Open(p) \cup (responses[p] \ {m}) : IdOf[Partner(p, n)] # id
  BY <1>1, Matching
<1>3. Become(p, u)
  BY DEF WaitTake
<1>4. t.answers \in Seq(Taken(p))
  BY <1>1 DEF Local
<1>5. /\ a.msg = m /\ a.node.ep = t.tracker[id].ep
      /\ \A k \in DOMAIN answers : answers[k] = a \/ (k \in DOMAIN t.answers /\ answers[k] = t.answers[k])
  BY <1>4, AppendProperties, LenProperties
<1> HIDE DEF a, answers
<1>6. /\ u.cursor = {id} /\ u.pc = t.pc /\ u.op = t.op /\ u.target = t.target
      /\ u.completed = t.completed /\ u.answers = answers /\ u.tracker = t.tracker
  BY <1>1 DEF Local
<1> HIDE DEF u
<1>7. Answered(u)
  BY <1>1, <1>2, <1>5, <1>6 DEF Answered, ExpectedType
<1>8. Open(p)' = Open(p) /\ responses'[p] = responses[p] \ {m}
  BY DEF WaitTake, Open, SoFar, Inv, RecvInv
<1>9. main'[p] = u
  BY <1>3, Becomes DEF SoFar
<1> QED  BY <1>1, <1>2, <1>6, <1>7, <1>8, <1>9, VisitTimely

\* When a loop ends, no answer is on its way any more.
LEMMA LoopOver ==
    ASSUME SoFar, NEW p \in Endpoint, PassEnds(p), main[p].completed
    PROVE  /\ Open(p) = {} /\ OneEach(p, Open(p), responses[p])
           /\ main[p].op # "bootstrap" => responses[p] = {}
           /\ main[p].pc = "lookup" =>
                  \A id \in DOMAIN main[p].tracker : main[p].tracker[id].status # "REQUEST_SENT"
<1> DEFINE t == main[p]
<1>1. t.pc \in {"lookup", "wait"} /\ Ahead(t) = {}
  BY DEF PassEnds
<1>2. OneEach(p, Open(p), responses[p]) /\ Exchanging(p, Open(p), responses[p], t)
  BY <1>1 DEF SoFar, InTime, Timely
<1>3. \A id \in DOMAIN t.tracker : t.tracker[id].status = "REQUEST_SENT" => id \in Passed(t)
  BY <1>1 DEF Passed
<1>4. t.pc = "lookup" => Passed(t) = {}
  BY <1>2 DEF Exchanging
<1>5. ASSUME NEW m \in Open(p) \cup responses[p], Awaited(p, t, m) PROVE FALSE
  BY <1>1, <1>2, <1>3, <1>4, <1>5 DEF Exchanging, Awaited, HasStatus
<1> QED  BY <1>1, <1>2, <1>3, <1>4, <1>5 DEF Exchanging, Leftover

-----------------------------------------------------------------------------
(***************************************************************************)
(* Between the loops.                                                      *)
(***************************************************************************)
\* What the thread goes on to needs no answers.
LEMMA RestsTimely ==
    ASSUME SoFar, NEW p \in Endpoint, Open(p) = {}, OneEach(p, Open(p), responses[p]),
           NEW u, Become(p, u), u.pc \notin {"lookup", "wait"}, u.answers = <<>>,
           UNCHANGED <<net, responses>>
    PROVE  TimelyNext(p)
<1>1. main'[p] = u
  BY Becomes DEF SoFar
<1>2. Open(p)' = Open(p) /\ responses' = responses
  BY DEF Open
<1> QED  BY <1>1, <1>2, RestTimely DEF TimelyNext

LEMMA Resting ==
    ASSUME SoFar, NEW p \in Endpoint, main[p].pc \in {"insert", "idle", "store", "retrieve"}
    PROVE  Open(p) = {} /\ OneEach(p, Open(p), responses[p])
  BY DEF SoFar, InTime, Timely

LEMMA BootstrapLookupDoneTimely ==
    ASSUME SoFar, NEW p \in Endpoint, BootstrapLookupDone(p)
    PROVE  TimelyNext(p)
<1>1. PICK u : u = [main[p] EXCEPT !.pc = "insert", !.cursor = {}]
  OBVIOUS
<1>2. main[p] \in Local(p) /\ main[p].pc = "lookup" /\ main[p].answers = <<>>
  BY DEF BootstrapLookupDone, SoFar, Inv, Threads, Thread, Control
<1>3. u.pc = "insert" /\ u.answers = <<>>
  BY <1>1, <1>2 DEF Local
<1>4. Become(p, u) /\ UNCHANGED <<net, responses>> /\ PassEnds(p) /\ main[p].completed
  BY <1>1 DEF BootstrapLookupDone, recvVars
<1> QED  BY <1>3, <1>4, LoopOver, RestsTimely

LEMMA StoreCommandTimely ==
    ASSUME SoFar, NEW p \in Endpoint, NEW f, StoreCommand(p, f)
    PROVE  TimelyNext(p)
<1>1. PICK u : u = [Parked("store") EXCEPT !.op = "store", !.file = f]
  OBVIOUS
<1>2. u.pc = "store" /\ u.answers = <<>>
  BY <1>1 DEF Parked
<1>3. Become(p, u) /\ UNCHANGED <<net, responses>> /\ main[p].pc = "idle"
  BY <1>1 DEF StoreCommand, recvVars
<1> QED  BY <1>2, <1>3, Resting, RestsTimely

\* The responses are cleared before the first request of a command goes out.
LEMMA StorePieceTimely ==
    ASSUME SoFar, NEW p \in Endpoint, StorePiece(p)
    PROVE  TimelyNext(p)
<1> DEFINE t     == main[p]
           key   == HashOf[CurrentPiece(t)]
           found == FindNode(IdOf[p], rt[p], key)
           w     == Track(<<>>, found, "NO_ACTION")
           u     == [t EXCEPT !.pc = "lookup", !.target = key, !.tracker = w]
<1>1. t \in Local(p) /\ t.pc = "store" /\ t.answers = <<>>
  BY DEF StorePiece, SoFar, Inv, Threads, Thread, Control
<1>2. Open(p)' = {} /\ responses'[p] = {}
  BY <1>1, Resting DEF StorePiece, Open, SoFar, Inv, RecvInv
<1>3. Become(p, u)
  BY DEF StorePiece
<1>4. \A id \in DOMAIN w : w[id].status = "NO_ACTION"
  BY DEF Track
<1> HIDE DEF w, key
<1>5. u.pc = "lookup" /\ u.tracker = w /\ u.answers = <<>>
  BY <1>1 DEF Local
<1> HIDE DEF u
<1>6. main'[p] = u
  BY <1>3, Becomes DEF SoFar
<1>7. Passed(u) = {}
  BY <1>4, <1>5 DEF Passed
<1>8. OneEach(p, {}, {}) /\ Exchanging(p, {}, {}, u) /\ Answered(u)
  BY <1>5, <1>7 DEF OneEach, Exchanging, Answered
<1> QED  BY <1>2, <1>5, <1>6, <1>8 DEF Timely, TimelyNext

\* Requests go to each of some nodes, none of which anything is expected from.
LEMMA AskedTimely ==
    ASSUME SoFar, NEW p \in Endpoint, Open(p) = {}, responses'[p] = {},
           NEW nodes \in SUBSET Peers(p), NEW type \in Requests,
           NEW u, main'[p] = u, u.pc = "wait", ReplyType[type] = ExpectedType(u),
           u.cursor = {}, u.answers = <<>>, u.tracker = Track(<<>>, nodes, "REQUEST_SENT"),
           \A d \in net' \ net : \E n \in nodes :
               d.type = type /\ d.from = p /\ d.to = n.ep /\ d.key = u.target,
           \A c, d \in net' \ net : c.to = d.to => c = d
    PROVE  TimelyNext(p)
<1> DEFINE open2 == Open(p)'
<1>1. ASSUME NEW d \in open2
      PROVE  \E n \in nodes :
                 d.type = type /\ d.from = p /\ d.to = n.ep /\ d.key = u.target
  <2>1. d \in net' \ net
    BY DEF Open
  <2> QED  BY <2>1
<1>2. \A n \in nodes : n.id = IdOf[n.ep] /\ n.ep # p
  BY DEF Peers, Paired, SoFar, Stale
<1>3. ASSUME NEW d, NEW n \in nodes,
             d.type = type, d.from = p, d.to = n.ep, d.key = u.target
      PROVE  Partner(p, d) = n.ep /\ Wanted(d) = ExpectedType(u) /\ d.key = u.target
  BY <1>3 DEF Partner, Wanted
<1>4. \A n \in nodes : n.id \in DOMAIN u.tracker /\ u.tracker[n.id].status = "REQUEST_SENT"
  <2>1. nodes \in SUBSET Paired /\ "REQUEST_SENT" \in Status
    BY DEF Peers, Status
  <2>2. /\ \A n \in nodes : n.id \in DOMAIN u.tracker
        /\ \A id \in DOMAIN u.tracker : id \notin DOMAIN <<>> =>
               u.tracker[id].status = "REQUEST_SENT"
    BY <2>1, EmptyTracker, Tracking
  <2> QED  BY <2>2
<1> HIDE DEF open2
<1>5. \A d \in open2 : Awaited(p, u, d)
  BY <1>1, <1>2, <1>3, <1>4 DEF Awaited, HasStatus
<1>6. ASSUME NEW c \in open2, NEW d \in open2, Partner(p, c) = Partner(p, d) PROVE c = d
  <2>1. c \in net' \ net /\ d \in net' \ net /\ c.to = d.to
    BY <1>1, <1>3, <1>6 DEF Open, open2
  <2> QED  BY <2>1
<1>7. Passed(u) = {}
  BY DEF Passed, Ahead
<1>8. OneEach(p, open2, {}) /\ Exchanging(p, open2, {}, u) /\ Answered(u)
  BY <1>5, <1>6, <1>7 DEF OneEach, Exchanging, Answered
<1> QED  BY <1>8 DEF Timely, TimelyNext, open2

LEMMA StoreLookupDoneTimely ==
    ASSUME SoFar, NEW p \in Endpoint, StoreLookupDone(p)
    PROVE  TimelyNext(p)
<1> DEFINE t      == main[p]
           chosen == StoreTargets(t, IdOf[p])
           w      == Track(<<>>, chosen, "REQUEST_SENT")
           u      == [t EXCEPT !.pc = "wait", !.cursor = {}, !.tracker = w]
<1>1. /\ t \in Local(p) /\ t.pc = "lookup" /\ t.op = "store" /\ t.answers = <<>>
      /\ PassEnds(p) /\ t.completed
  BY DEF StoreLookupDone, SoFar, Inv, Threads, Thread, Control
<1>2. Open(p) = {} /\ responses'[p] = {}
  BY <1>1, LoopOver DEF StoreLookupDone
<1>3. chosen \in SUBSET Peers(p)
  BY <1>1, StoreTargetsOK DEF Local
<1>4. Become(p, u)
  BY DEF StoreLookupDone
<1>5. \A d \in net' \ net : \E n \in chosen :
          d = Request("STORE", p, n.ep, t.target, CurrentPiece(t))
  BY DEF StoreLookupDone
<1> HIDE DEF chosen
<1>6. /\ u.pc = "wait" /\ u.op = "store" /\ u.cursor = {} /\ u.answers = <<>>
      /\ u.tracker = w /\ u.target = t.target
  BY <1>1 DEF Local
<1> HIDE DEF u, t
<1>7. main'[p] = u
  BY <1>4, Becomes DEF SoFar
<1>8. "STORE" \in Requests /\ ReplyType["STORE"] = ExpectedType(u)
  BY <1>6, ReplyTypes DEF Requests, ExpectedType
<1>9. \A d \in net' \ net : \E n \in chosen :
          d.type = "STORE" /\ d.from = p /\ d.to = n.ep /\ d.key = u.target
  BY <1>5, <1>6 DEF Request
<1>10. \A c, d \in net' \ net : c.to = d.to => c = d
  BY <1>5 DEF Request
<1>11. u.tracker = Track(<<>>, chosen, "REQUEST_SENT")
  BY <1>6
<1> HIDE DEF w
<1> QED  BY <1>2, <1>3, <1>6, <1>7, <1>8, <1>9, <1>10, <1>11, AskedTimely

LEMMA StoreWaitDoneTimely ==
    ASSUME SoFar, NEW p \in Endpoint, StoreWaitDone(p)
    PROVE  TimelyNext(p)
<1> DEFINE t     == main[p]
           entry == [key |-> t.target, nodes |-> {a.node : a \in Range(t.answers)}]
           lines == Append(t.entries, entry)
<1> HIDE DEF entry
<1>1. PICK u : u = [Parked("store") EXCEPT !.op = "store", !.file = t.file,
                                          !.entries = lines]
  OBVIOUS
<1>2. Become(p, u) /\ UNCHANGED <<net, responses>> /\ PassEnds(p) /\ t.completed
  BY <1>1 DEF StoreWaitDone, recvVars, entry
<1> HIDE DEF lines
<1>3. u.pc = "store" /\ u.answers = <<>>
  BY <1>1 DEF Parked
<1> QED  BY <1>2, <1>3, LoopOver, RestsTimely

LEMMA RecordMetadataTimely ==
    ASSUME SoFar, NEW p \in Endpoint, RecordMetadata(p)
    PROVE  TimelyNext(p)
<1>1. PICK u : u = Parked("idle")
  OBVIOUS
<1>2. Become(p, u) /\ UNCHANGED <<net, responses>> /\ main[p].pc = "store"
  BY <1>1 DEF RecordMetadata, Recording, recvVars
<1>3. u.pc = "idle" /\ u.answers = <<>>
  BY <1>1 DEF Parked
<1> QED  BY <1>2, <1>3, Resting, RestsTimely

LEMMA RetrieveNextTimely ==
    ASSUME SoFar, NEW p \in Endpoint, Open(p) = {}, OneEach(p, Open(p), responses[p]),
           NEW todo, RetrieveNext(p, todo), UNCHANGED <<net, responses>>
    PROVE  TimelyNext(p)
<1>1. CASE Become(p, Parked("idle"))
  <2>1. PICK u : u = Parked("idle")
    OBVIOUS
  <2>2. u.pc = "idle" /\ u.answers = <<>>
    BY <2>1 DEF Parked
  <2> QED  BY <1>1, <2>1, <2>2, RestsTimely
<1>2. ASSUME NEW f \in todo,
             Become(p, [Parked("retrieve") EXCEPT
                            !.op = "retrieve", !.file = f, !.todo = todo \ {f}])
      PROVE  TimelyNext(p)
  <2>1. PICK u : u = [Parked("retrieve") EXCEPT
                          !.op = "retrieve", !.file = f, !.todo = todo \ {f}]
    OBVIOUS
  <2>2. u.pc = "retrieve" /\ u.answers = <<>>
    BY <2>1 DEF Parked
  <2> QED  BY <1>2, <2>1, <2>2, RestsTimely
<1> QED  BY <1>1, <1>2, ZenonT(60) DEF RetrieveNext

LEMMA RetrieveStepsTimely ==
    ASSUME SoFar, NEW p \in Endpoint,
           \/ (\E f \in File : RetrieveCommand(p, f)) \/ RetrieveDirectory(p)
           \/ RetrieveWaitDone(p) \/ RetrieveWaitFails(p) \/ WriteBack(p)
    PROVE  TimelyNext(p)
<1>1. CASE \/ (\E f \in File : RetrieveCommand(p, f)) \/ RetrieveDirectory(p)
           \/ WriteBack(p)
  <2>1. /\ UNCHANGED <<net, responses>> /\ main[p].pc \in {"idle", "retrieve"}
        /\ \E todo : RetrieveNext(p, todo)
    BY <1>1 DEF RetrieveCommand, RetrieveDirectory, WriteBack, WritingBack, recvVars
  <2> QED  BY <2>1, Resting, RetrieveNextTimely
<1>2. CASE RetrieveWaitFails(p)
  <2>1. /\ UNCHANGED <<net, responses>> /\ PassEnds(p) /\ main[p].completed
        /\ RetrieveNext(p, main[p].todo)
    BY <1>2 DEF RetrieveWaitFails, RetrieveWaitEnds, recvVars
  <2> QED  BY <2>1, LoopOver, RetrieveNextTimely
<1>3. CASE RetrieveWaitDone(p)
  <2>1. PassEnds(p) /\ main[p].completed
    BY <1>3, ZenonT(60) DEF RetrieveWaitDone, RetrieveWaitEnds
  <2>2. PICK u : Become(p, u) /\ u.pc = "retrieve" /\ u.answers = <<>>
    BY <1>3, RetrieveWaitDoneIs
  <2>3. UNCHANGED <<net, responses>>
    BY <1>3, RetrieveWaitDoneIs
  <2> QED  BY <2>1, <2>2, <2>3, LoopOver, RestsTimely
<1> QED  BY <1>1, <1>2, <1>3

LEMMA RetrievePieceTimely ==
    ASSUME SoFar, NEW p \in Endpoint, RetrievePiece(p)
    PROVE  TimelyNext(p)
<1> DEFINE t     == main[p]
           nodes == CurrentEntry(p).nodes
           key   == CurrentEntry(p).key
           w     == Track(<<>>, nodes, "REQUEST_SENT")
           u     == [t EXCEPT !.pc = "wait", !.target = key, !.tracker = w]
<1>1. /\ t \in Local(p) /\ t.pc = "retrieve" /\ t.answers = <<>> /\ t.cursor = {}
      /\ t.op = "retrieve"
  BY DEF RetrievePiece, SoFar, Inv, Threads, Thread, Control
<1>2. Open(p) = {}
  BY <1>1, Resting
<1>3. responses'[p] = {}
  BY DEF RetrievePiece, SoFar, Inv, RecvInv
<1>4. nodes \in SUBSET Peers(p)
  <2>1. Inv
    BY DEF SoFar
  <2> QED  BY <2>1, CurrentEntryIs
<1>5. Become(p, u)
  BY DEF RetrievePiece
<1>6. \A d \in net' \ net : \E n \in nodes : d = Request("FIND_VALUE", p, n.ep, key, NoContent)
  BY DEF RetrievePiece
<1> HIDE DEF nodes, key
<1>7. /\ u.pc = "wait" /\ u.op = "retrieve" /\ u.cursor = {} /\ u.answers = <<>>
      /\ u.tracker = w /\ u.target = key
  BY <1>1 DEF Local
<1> HIDE DEF u, t
<1>8. main'[p] = u
  BY <1>5, Becomes DEF SoFar
<1>9. "FIND_VALUE" \in Requests /\ ReplyType["FIND_VALUE"] = ExpectedType(u)
  BY <1>7, ReplyTypes DEF Requests, ExpectedType
<1>10. \A d \in net' \ net : \E n \in nodes :
           d.type = "FIND_VALUE" /\ d.from = p /\ d.to = n.ep /\ d.key = u.target
  BY <1>6, <1>7 DEF Request
<1>11. \A c, d \in net' \ net : c.to = d.to => c = d
  BY <1>6 DEF Request
<1> QED  BY <1>2, <1>3, <1>4, <1>7, <1>8, <1>9, <1>10, <1>11, AskedTimely

-----------------------------------------------------------------------------
(***************************************************************************)
(* Every step.                                                             *)
(***************************************************************************)
LEMMA StepTimely ==
    ASSUME SoFar, NEW p \in Endpoint, Step(p)
    PROVE  TimelyNext(p)
<1>1. ASSUME NEW why, Dies(p, why) PROVE TimelyNext(p)
  BY <1>1, EndsTimely DEF Dies
<1>2. ASSUME NEW m, FirstResponse(p, m) \/ FirstResponseInvalid(p, m) PROVE TimelyNext(p)
  BY <1>1, <1>2, FirstResponseTimely DEF FirstResponseInvalid
<1>3. ASSUME NEW id, InsertNext(p, id) PROVE TimelyNext(p)
  BY <1>3, InsertTimely DEF InsertNext
<1>4. ASSUME InsertOwnId(p) PROVE TimelyNext(p)
  BY <1>1, <1>4, InsertTimely DEF InsertOwnId, recvVars
<1>5. ASSUME NEW id, LookupSend(p, id) \/ KeepWaiting(p, id) PROVE TimelyNext(p)
  BY <1>5, LookupSendTimely, KeepWaitingTimely
<1>6. ASSUME NEW id, NEW m, \/ LookupTake(p, id, m) \/ LookupDiscard(p, id, m)
                            \/ WaitTake(p, id, m) \/ WaitMismatch(p, id, m)
      PROVE  TimelyNext(p)
  BY <1>6, LookupTakeTimely, WaitTakeTimely, NoMismatch
<1>7. ASSUME \/ NextPass(p) \/ BootstrapLookupDone(p) \/ StorePiece(p)
             \/ StoreLookupDone(p) \/ StoreWaitDone(p) \/ RecordMetadata(p)
      PROVE  TimelyNext(p)
  BY <1>7, NextPassTimely, BootstrapLookupDoneTimely, StorePieceTimely,
     StoreLookupDoneTimely, StoreWaitDoneTimely, RecordMetadataTimely
<1>8. ASSUME \/ RetrievePiece(p) \/ RetrieveWaitDone(p) \/ RetrieveWaitFails(p)
             \/ WriteBack(p)
      PROVE  TimelyNext(p)
  BY <1>8, RetrievePieceTimely, RetrieveStepsTimely
<1>9. ASSUME FirstResponseTimeout(p) \/ StorePieceFails(p) PROVE TimelyNext(p)
  BY <1>1, <1>9 DEF FirstResponseTimeout, StorePieceFails
<1> QED  BY <1>2, <1>3, <1>4, <1>5, <1>6, <1>7, <1>8, <1>9 DEF Step

\* The one whose step it is.
LEMMA MoverTimely ==
    ASSUME SoFar, NEW p \in Endpoint,
           \/ Step(p) \/ GivesUp(p) \/ (p \in Users /\ Command(p)) \/ Stop(p)
           \/ FindNodeOwnId(p) \/ Start(p) \/ (p = Boot /\ StartBoot)
    PROVE  TimelyNext(p)
<1>1. CASE Step(p)
  BY <1>1, StepTimely
<1>2. CASE GivesUp(p)
  BY <1>2, GiveUpTimely DEF GivesUp
<1>3. CASE Command(p)
  <2>1. ASSUME NEW f \in File, StoreCommand(p, f) PROVE TimelyNext(p)
    BY <2>1, StoreCommandTimely
  <2>2. ASSUME (\E f \in File : RetrieveCommand(p, f)) \/ RetrieveDirectory(p)
        PROVE  TimelyNext(p)
    BY <2>2, RetrieveStepsTimely
  <2> QED  BY <1>3, <2>1, <2>2 DEF Command
<1>4. CASE Stop(p)
  BY <1>4, EndsTimely DEF Stop, Dies
<1>5. CASE FindNodeOwnId(p)
  BY <1>5, EndsTimely DEF FindNodeOwnId
<1>6. CASE Start(p)
  BY <1>6, StartTimely
<1>7. CASE p = Boot /\ StartBoot
  BY <1>7, StartBootTimely
<1> QED  BY <1>1, <1>2, <1>3, <1>4, <1>5, <1>6, <1>7

LEMMA NextTimely == SoFar /\ [Next]_vars => InTime'
<1> SUFFICES ASSUME SoFar, [Next]_vars, NEW p \in Endpoint PROVE TimelyNext(p)
  BY DEF InTime, TimelyNext, Open
<1>1. Inv
  BY DEF SoFar
<1>2. ASSUME NEW q \in Endpoint,
             \/ Step(q) \/ GivesUp(q) \/ (q \in Users /\ Command(q)) \/ Stop(q)
             \/ FindNodeOwnId(q) \/ (q = Boot /\ StartBoot)
      PROVE  TimelyNext(p)
  <2>1. Owns(q)
    BY <1>1, <1>2, MainMoves DEF Moved
  <2>2. CASE p = q
    BY <1>2, <2>2, MoverTimely
  <2>3. CASE p # q
    BY <1>1, <2>1, <2>3, OthersProceed, ProceedingTimely
  <2> QED  BY <2>2, <2>3
<1>3. ASSUME NEW q \in Endpoint, Start(q) PROVE TimelyNext(p)
  <2>1. Owns(q)
    BY <1>1, <1>3, StartOwns
  <2>2. CASE p = q
    BY <1>3, <2>2, MoverTimely
  <2>3. CASE p # q
    BY <1>1, <2>1, <2>3, OthersProceed, ProceedingTimely
  <2> QED  BY <2>2, <2>3
<1>4. CASE \/ Bounced \/ Lost \/ UNCHANGED vars
           \/ \E q \in Endpoint : ReceiveFails(q) \/ Receive(q)
  BY <1>1, <1>4, NetworkProceeds, ProceedingTimely
<1>5. ASSUME NEW q \in Users, Command(q) PROVE TimelyNext(p)
  BY <1>2, <1>5, SetUpAssumption
<1>6. ASSUME NEW q \in Endpoint, Begin(q) PROVE TimelyNext(p)
  BY <1>2, <1>3, <1>6 DEF Begin
<1> QED  BY <1>2, <1>4, <1>5, <1>6 DEF Next

LEMMA InitTimely == Init => InTime
<1> SUFFICES ASSUME Init, NEW p \in Endpoint
             PROVE  Timely(p, Open(p), responses[p], main[p])
  BY DEF InTime
<1>1. PICK t : t = Parked(IF p = Boot THEN "serving" ELSE IF p \in Joined THEN "idle" ELSE "off")
  OBVIOUS
<1>2. t.pc \in {"serving", "idle", "off"} /\ t.answers = <<>> /\ main[p] = t
  BY <1>1 DEF Parked, Init
<1>3. Open(p) = {} /\ responses[p] = {}
  BY DEF Init, Open
<1> QED  BY <1>2, <1>3, RestTimely DEF OneEach

\* While no answer outlives TIMEOUT_LIMIT, the exchanges are in order.
LEMMA Timeliness == ASSUME ~Late PROVE Spec => []SoFar
<1>1. Init => SoFar
  BY InitInv, InitBegan, InitTimely DEF SoFar
<1>2. SoFar /\ [Next]_vars => SoFar'
  BY NextInv, NextBegan, NextTimely DEF SoFar
<1> QED  BY <1>1, <1>2, PTL DEF Spec

-----------------------------------------------------------------------------
(***************************************************************************)
(* While no answer outlives TIMEOUT_LIMIT, find_id_recursively leaves no   *)
(* request open: each node it asked has answered or timed out, whatever    *)
(* was lost and whoever ended (networking.cpp:405).                        *)
(***************************************************************************)
THEOREM LookupWaits == ASSUME ~Late PROVE Spec => []LookupAwaitsAll
<1>1. SoFar => LookupAwaitsAll
  <2> SUFFICES ASSUME SoFar, NEW p \in Endpoint, LookupReturns(p)
               PROVE  Tracked(main[p].tracker, "REQUEST_SENT") = {}
    BY DEF LookupAwaitsAll
  <2>1. \A id \in DOMAIN main[p].tracker : main[p].tracker[id].status # "REQUEST_SENT"
    BY LoopOver DEF LookupReturns
  <2> QED  BY <2>1 DEF Tracked
<1> QED  BY <1>1, Timeliness, PTL

(***************************************************************************)
(* A response names no request, but wait_for_responses takes the ones to   *)
(* its own: of the type it waits for, about the piece it asked for, from   *)
(* the node that the entry is for.                                         *)
(***************************************************************************)
THEOREM AnswersAreMatched == ASSUME ~Late PROVE Spec => []AnswersMatch
<1>1. SoFar => AnswersMatch
  <2> SUFFICES ASSUME SoFar, NEW p \in Endpoint, NEW a \in Range(main[p].answers)
               PROVE  a.msg.key = main[p].target /\ a.msg.from = a.node.ep
    BY DEF AnswersMatch
  <2>1. Answered(main[p])
    BY DEF SoFar, InTime, Timely
  <2> QED  BY <2>1 DEF Answered, Range
<1> QED  BY <1>1, Timeliness, PTL

-----------------------------------------------------------------------------
(***************************************************************************)
(* The pieces that others keep.  A node that has acknowledged a piece has  *)
(* it until it may have lost it: a piece of 16-bit hash `key` can only be  *)
(* overwritten by one of the same hash, and what it is replaced by is      *)
(* empty only where the hash is that of the empty piece.                   *)
(***************************************************************************)
Has(q, key) == disk[q][key] # NoContent \/ MayHaveLost(q) \/ key = HashOf[NoContent]

Acknowledged(m) == m.type = "STORE_RESPONSE" => Has(m.from, m.key)

Held(entries) ==
    \A k \in DOMAIN entries : \A n \in entries[k].nodes : Has(n.ep, entries[k].key)

\* The pieces retrieve_file has read are those of the first lines, and the one
\* it waits for is that of the next.
Fetched(t, lines) ==
    t.op = "retrieve" =>
        /\ \A k \in DOMAIN t.contents :
               HashOf[t.contents[k]] = lines[k].key /\ lines[k].nodes # {}
        /\ t.pc = "wait" =>
               LET line == lines[Len(t.contents) + 1]
               IN  /\ t.target = line.key
                   /\ line.nodes = {} => DOMAIN t.tracker = {} /\ t.answers = <<>>

Genuine(f, contents, why) ==
    contents # NoFile =>
        \/ /\ Len(contents) = Len(Pieces[f])
           /\ \A k \in DOMAIN contents : HashOf[contents[k]] = HashOf[Pieces[f][k]]
        \/ contents = <<>> /\ why # "none"

Intact(p) ==
    /\ \A m \in responses[p] : Acknowledged(m)
    /\ \A k \in DOMAIN main[p].answers : Acknowledged(main[p].answers[k].msg)
    /\ main[p].op = "store" => Held(main[p].entries)
    /\ Fetched(main[p], metadata[p][main[p].file])
    /\ \A f \in File : /\ metadata[p][f] # NoFile => Held(metadata[p][f])
                       /\ Genuine(f, retrieved[p][f], fault[p])

AllIntact == (\A m \in net : Acknowledged(m)) /\ (\A p \in Endpoint : Intact(p))

\* What is had stays had, for all but the receive thread that stores, and the
\* process that ends.
LEMMA HasFrame ==
    ASSUME UNCHANGED <<disk, fault>>, NEW q \in Endpoint, NEW key \in ID
    PROVE  (Has(q, key) => Has(q, key)') /\ (fault[q] # "none" => fault'[q] # "none")
  BY DEF Has, MayHaveLost

LEMMA ReceiveHas ==
    ASSUME Inv, NEW p \in Endpoint, NEW m \in net, Handle(p, m), UNCHANGED mainVars,
           NEW q \in Endpoint, NEW key \in ID
    PROVE  (Has(q, key) => Has(q, key)') /\ (fault[q] # "none" => fault'[q] # "none")
<1>1. fault' = fault /\ disk \in [Endpoint -> Disk] /\ m \in Datagram
  BY DEF mainVars, Inv, RecvInv
<1>2. CASE HandleStore(p, m)
  <2>1. /\ m.to \in Endpoint /\ m.key \in ID /\ HashOf[m.content] = m.key
        /\ disk' \in AfterStorePiece(m)
    BY <1>1, <1>2 DEF HandleStore, Datagram, Message
  <2>2. disk[m.to] = [i \in ID |-> disk[m.to][i]] /\ disk[q] = [i \in ID |-> disk[q][i]]
    BY <1>1, <2>1 DEF Disk
  <2>3. CASE disk' = Written(m)
    <3>1. disk'[q][key] = IF q = m.to /\ key = m.key THEN m.content ELSE disk[q][key]
      BY <1>1, <2>1, <2>2, <2>3 DEF Written
    <3> QED  BY <1>1, <2>1, <3>1 DEF Has, MayHaveLost
  <2>4. CASE m.to \in Failing /\ disk' \in {disk, Emptied(m)}
    <3>1. q # m.to => disk'[q] = disk[q]
      BY <1>1, <2>1, <2>4 DEF Emptied
    <3> QED  BY <1>1, <2>4, <3>1 DEF Has, MayHaveLost
  <2> QED  BY <2>1, <2>3, <2>4 DEF AfterStorePiece
<1>3. CASE ~HandleStore(p, m)
  <2>1. disk' = disk
    BY <1>3 DEF Handle, HandleFindNode, HandleFindValue, HandleResponse
  <2> QED  BY <1>1, <2>1 DEF Has, MayHaveLost
<1> QED  BY <1>2, <1>3

LEMMA EndHas ==
    ASSUME Inv, NEW p \in Endpoint, NEW why \in Ends, Terminate(p, why),
           disk' = disk \/ (\E m \in net : HandleStoreCut(p, m)),
           NEW q \in Endpoint, NEW key \in ID
    PROVE  (Has(q, key) => Has(q, key)') /\ (fault[q] # "none" => fault'[q] # "none")
<1>1. fault'[p] # "none" /\ (q # p => fault'[q] = fault[q])
  BY DEF Terminate, Inv, FilesOK, Ends
<1>2. q # p => disk'[q] = disk[q]
  BY DEF HandleStoreCut, Receives, AfterStorePiece, Written, Emptied, Inv, RecvInv
<1> QED  BY <1>1, <1>2 DEF Has, MayHaveLost

LEMMA DiesHas ==
    ASSUME Inv, NEW p \in Endpoint, NEW why \in Ends, Dies(p, why),
           NEW q \in Endpoint, NEW key \in ID
    PROVE  (Has(q, key) => Has(q, key)') /\ (fault[q] # "none" => fault'[q] # "none")
  BY EndHas DEF Dies

LEMMA StepHas ==
    ASSUME Inv, NEW p \in Endpoint, Step(p), NEW q \in Endpoint, NEW key \in ID
    PROVE  (Has(q, key) => Has(q, key)') /\ (fault[q] # "none" => fault'[q] # "none")
<1> DEFINE Goal == (Has(q, key) => Has(q, key)') /\ (fault[q] # "none" => fault'[q] # "none")
<1>1. ASSUME NEW why \in Ends, Dies(p, why) PROVE Goal
  BY <1>1, DiesHas
<1>2. ASSUME UNCHANGED <<disk, fault>> PROVE Goal
  BY <1>2, HasFrame
<1> HIDE DEF Goal
<1>3. ASSUME NEW m, FirstResponse(p, m) \/ FirstResponseInvalid(p, m) PROVE Goal
  BY <1>1, <1>2, <1>3 DEF FirstResponse, FirstResponseInvalid, Ends
<1>4. ASSUME NEW id, InsertNext(p, id) \/ LookupSend(p, id) \/ KeepWaiting(p, id) PROVE Goal
  BY <1>2, <1>4 DEF InsertNext, LookupSend, KeepWaiting, recvVars
<1>5. ASSUME NEW id, NEW m, \/ LookupTake(p, id, m) \/ LookupDiscard(p, id, m)
                            \/ WaitTake(p, id, m) \/ WaitMismatch(p, id, m)
      PROVE  Goal
  BY <1>2, <1>5 DEF LookupTake, LookupDiscard, WaitTake, WaitMismatch, recvVars
<1>6. ASSUME InsertOwnId(p) \/ FirstResponseTimeout(p) PROVE Goal
  BY <1>1, <1>2, <1>6 DEF InsertOwnId, FirstResponseTimeout, recvVars, Ends
<1>7. ASSUME StorePieceFails(p) PROVE Goal
  BY <1>1, <1>7 DEF StorePieceFails, StorePieceFault, Ends
<1>8. ASSUME \/ NextPass(p) \/ BootstrapLookupDone(p) \/ StorePiece(p)
             \/ StoreLookupDone(p) \/ StoreWaitDone(p) \/ RecordMetadata(p)
      PROVE  Goal
  BY <1>2, <1>8 DEF NextPass, BootstrapLookupDone, StorePiece, StoreLookupDone,
     StoreWaitDone, RecordMetadata, recvVars
<1>9. ASSUME \/ RetrievePiece(p) \/ RetrieveWaitDone(p) \/ RetrieveWaitFails(p)
             \/ WriteBack(p)
      PROVE  Goal
  BY <1>2, <1>9, RetrieveWaitDoneIs DEF RetrievePiece, RetrieveWaitFails, WriteBack, recvVars
<1> QED  BY <1>3, <1>4, <1>5, <1>6, <1>7, <1>8, <1>9 DEF Step, Goal

LEMMA HasStays ==
    ASSUME Inv, [Next]_vars, NEW q \in Endpoint, NEW key \in ID
    PROVE  (Has(q, key) => Has(q, key)') /\ (fault[q] # "none" => fault'[q] # "none")
<1> DEFINE Goal == (Has(q, key) => Has(q, key)') /\ (fault[q] # "none" => fault'[q] # "none")
<1>1. ASSUME UNCHANGED <<disk, fault>> PROVE Goal
  BY <1>1, HasFrame
<1>2. ASSUME NEW p \in Endpoint, Receive(p) PROVE Goal
  BY <1>2, ReceiveHas DEF Receive
<1>3. ASSUME NEW p \in Endpoint, Step(p) PROVE Goal
  BY <1>3, StepHas
<1>4. ASSUME NEW p \in Endpoint, Stop(p) PROVE Goal
  BY <1>4, DiesHas DEF Stop, Ends
<1>5. ASSUME NEW p \in Endpoint, FindNodeOwnId(p) PROVE Goal
  BY <1>5, EndHas DEF FindNodeOwnId, Ends
<1> HIDE DEF Goal
<1>6. ASSUME NEW p, Begin(p) \/ GivesUp(p) PROVE Goal
  BY <1>1, <1>6 DEF Begin, Start, StartBoot, GivesUp, GiveUp, recvVars
<1>7. ASSUME NEW p, Command(p) PROVE Goal
  <2>1. ASSUME NEW f, StoreCommand(p, f) \/ RetrieveCommand(p, f) PROVE Goal
    BY <1>1, <2>1 DEF StoreCommand, RetrieveCommand, recvVars
  <2>2. ASSUME RetrieveDirectory(p) PROVE Goal
    BY <1>1, <2>2 DEF RetrieveDirectory, recvVars
  <2> QED  BY <1>7, <2>1, <2>2 DEF Command
<1>8. ASSUME \/ Bounced \/ Lost \/ UNCHANGED vars
             \/ \E p \in Endpoint : ReceiveFails(p)
      PROVE  Goal
  BY <1>1, <1>8 DEF Bounced, Lost, Bounce, Lose, ReceiveFails, vars, recvVars, mainVars
<1> QED  BY <1>2, <1>3, <1>4, <1>5, <1>6, <1>7, <1>8 DEF Next, Goal

\* What acknowledged messages and the lines of a metadata file say stays true.
LEMMA AcknowledgedStays ==
    ASSUME Inv, [Next]_vars, NEW m \in Datagram, Acknowledged(m)
    PROVE  Acknowledged(m)'
<1>1. m.from \in Endpoint /\ m.key \in ID
  BY DEF Datagram, Message
<1> QED  BY <1>1, HasStays DEF Acknowledged

LEMMA HeldStays ==
    ASSUME Inv, [Next]_vars, NEW p \in Endpoint, NEW lines \in Seq(Entry(p)), Held(lines)
    PROVE  Held(lines)'
<1> SUFFICES ASSUME NEW k \in DOMAIN lines, NEW n \in lines[k].nodes
             PROVE  Has(n.ep, lines[k].key)'
  BY DEF Held
<1>1. lines[k] \in Entry(p)
  BY ElementOfSeq
<1>2. lines[k].key \in ID /\ n.ep \in Endpoint
  BY <1>1 DEF Entry, Peers, Paired, Node
<1> QED  BY <1>2, HasStays DEF Held

\* A thread that goes on with what it has, or drops it.
Keeps(t, u) ==
    /\ u.answers = t.answers \/ u.answers = <<>>
    /\ u.op = "store" => \/ u.entries = <<>>
                         \/ t.op = "store" /\ u.entries = t.entries
    /\ u.op = "retrieve" =>
          \/ u.contents = <<>> /\ u.pc = "retrieve"
          \/ /\ t.op = "retrieve" /\ u.pc = t.pc /\ u.file = t.file /\ u.target = t.target
             /\ u.contents = t.contents /\ DOMAIN u.tracker = DOMAIN t.tracker

LEMMA KeepsFetched ==
    ASSUME NEW t, NEW u, Keeps(t, u), NEW files, Fetched(t, files[t.file])
    PROVE  Fetched(u, files[u.file])
  BY DEF Keeps, Fetched

LEMMA ResponsesStay ==
    ASSUME Inv, [Next]_vars, AllIntact, NEW p \in Endpoint,
           NEW m \in responses[p] \cup net
    PROVE  Acknowledged(m)'
<1>1. m \in Datagram /\ Acknowledged(m)
  BY DEF AllIntact, Intact, Inv, RecvInv, Incoming
<1> QED  BY <1>1, AcknowledgedStays

LEMMA AnswersStay ==
    ASSUME Inv, [Next]_vars, AllIntact, NEW p \in Endpoint,
           NEW k \in DOMAIN main[p].answers, NEW m, m = main[p].answers[k].msg
    PROVE  Acknowledged(m)'
<1>1. main[p].answers \in Seq(Taken(p)) /\ Acknowledged(m)
  BY DEF AllIntact, Intact, Inv, Threads, Thread, Local
<1>2. main[p].answers[k] \in Taken(p)
  BY <1>1, ElementOfSeq
<1>3. m \in Datagram
  BY <1>2 DEF Taken, Incoming
<1> QED  BY <1>1, <1>3, AcknowledgedStays

LEMMA FilesStay ==
    ASSUME Inv, [Next]_vars, AllIntact, NEW p \in Endpoint, NEW f \in File,
           metadata'[p][f] \in {metadata[p][f], <<>>}, metadata'[p][f] # NoFile
    PROVE  Held(metadata[p][f])'
<1>1. CASE metadata'[p][f] = <<>>
  BY <1>1 DEF Held
<1>2. CASE metadata'[p][f] = metadata[p][f]
  <2>1. PICK lines \in Seq(Entry(p)) : lines = metadata[p][f]
    BY <1>2 DEF FileOK, Inv, FilesOK
  <2>2. Held(lines)'
    BY <1>2, <2>1, HeldStays DEF Intact, AllIntact
  <2> QED  BY <1>2, <2>1, <2>2 DEF Held
<1> QED  BY <1>1, <1>2

LEMMA GenuineStays ==
    ASSUME Inv, [Next]_vars, AllIntact, NEW p \in Endpoint, NEW f \in File,
           retrieved'[p][f] = retrieved[p][f]
    PROVE  Genuine(f, retrieved[p][f], fault[p])'
<1>1. fault[p] # "none" => fault'[p] # "none"
  BY HasStays, IdsDiffer
<1> QED  BY <1>1 DEF AllIntact, Intact, Genuine

LEMMA KeepsIntact ==
    ASSUME Inv, [Next]_vars, AllIntact, NEW p \in Endpoint,
           responses'[p] \subseteq responses[p] \cup net, Keeps(main[p], main'[p]),
           metadata'[p] = metadata[p],
           \A f \in File : Genuine(f, retrieved[p][f], fault[p])'
    PROVE  Intact(p)'
<1> DEFINE t == main[p]
           u == main'[p]
<1>1. Intact(p) /\ t.entries \in Seq(Entry(p))
  BY DEF AllIntact, Inv, Threads, Thread, Local
<1>2. ASSUME NEW m \in responses'[p] PROVE Acknowledged(m)'
  BY <1>2, ResponsesStay
<1>3. ASSUME NEW k \in DOMAIN u.answers PROVE Acknowledged(main[p].answers[k].msg)'
  <2>1. u.answers = t.answers
    BY <1>3 DEF Keeps
  <2>2. PICK m : m = t.answers[k].msg
    OBVIOUS
  <2>3. Acknowledged(m)'
    BY <1>3, <2>1, <2>2, AnswersStay
  <2>4. main'[p].answers[k].msg = m
    BY <2>1, <2>2
  <2> QED  BY <2>3, <2>4 DEF Acknowledged, Has, MayHaveLost
<1>4. ASSUME u.op = "store" PROVE Held(main[p].entries)'
  <2>1. CASE u.entries = <<>>
    BY <2>1 DEF Held
  <2>2. CASE t.op = "store" /\ u.entries = t.entries
    <3>1. PICK lines \in Seq(Entry(p)) : lines = t.entries
      BY <1>1
    <3>2. Held(lines)'
      BY <1>1, <2>2, <3>1, HeldStays DEF Intact
    <3> QED  BY <2>2, <3>1, <3>2 DEF Held
  <2> QED  BY <1>4, <2>1, <2>2 DEF Keeps
<1>5. Fetched(u, metadata'[p][u.file])
  <2>1. PICK files : files = metadata[p]
    OBVIOUS
  <2>2. Fetched(t, files[t.file])
    BY <1>1, <2>1 DEF Intact
  <2>3. Fetched(u, files[u.file])
    BY <2>2, KeepsFetched
  <2> QED  BY <2>1, <2>3
<1> QED  BY <1>2, <1>3, <1>4, <1>5, FilesStay DEF Intact

LEMMA StaysIntact ==
    ASSUME Inv, [Next]_vars, AllIntact, NEW p \in Endpoint,
           responses'[p] \subseteq responses[p] \cup net, Keeps(main[p], main'[p]),
           metadata'[p] = metadata[p], retrieved'[p] = retrieved[p]
    PROVE  Intact(p)'
  BY KeepsIntact, GenuineStays

\* A process that ends has nothing more to say; a file it had open is empty.
LEMMA EndIntact ==
    ASSUME Inv, [Next]_vars, AllIntact, NEW p \in Endpoint, NEW why \in Ends,
           Terminate(p, why)
    PROVE  Intact(p)'
<1>1. PICK u : u = Parked("off")
  OBVIOUS
<1>2. main'[p] = u /\ u.answers = <<>> /\ u.op = "none"
  BY <1>1, Becomes DEF Terminate, Parked
<1>3. responses'[p] = {} /\ fault'[p] # "none"
  BY DEF Terminate, Inv, RecvInv, FilesOK, Ends
<1>4. ASSUME NEW f \in File
      PROVE  /\ metadata'[p][f] \in {metadata[p][f], <<>>}
             /\ retrieved'[p][f] \in {retrieved[p][f], <<>>}
  BY DEF Terminate, CutShort, Inv, FilesOK
<1>5. ASSUME NEW f \in File, metadata'[p][f] # NoFile PROVE Held(metadata[p][f])'
  BY <1>4, <1>5, FilesStay
<1>6. ASSUME NEW f \in File PROVE Genuine(f, retrieved[p][f], fault[p])'
  BY <1>3, <1>4 DEF Genuine, Intact, AllIntact
<1> QED  BY <1>2, <1>3, <1>5, <1>6 DEF Intact, Fetched

\* The steps that neither send nor take a piece.
KeepsOn(p) == /\ Keeps(main[p], main'[p]) /\ responses'[p] \subseteq responses[p]
              /\ UNCHANGED <<metadata, retrieved>>

LEMMA KeepsOnIntact ==
    ASSUME Inv, [Next]_vars, AllIntact, NEW p \in Endpoint, KeepsOn(p)
    PROVE  Intact(p)'
  BY StaysIntact DEF KeepsOn

LEMMA VisitKeeps ==
    ASSUME Inv, NEW p \in Endpoint, NEW id, NEW m,
           \/ LookupSend(p, id) \/ LookupTake(p, id, m) \/ LookupDiscard(p, id, m)
           \/ WaitMismatch(p, id, m) \/ KeepWaiting(p, id) \/ GiveUp(p, id)
    PROVE  KeepsOn(p)
<1> DEFINE t == main[p]
           u == main'[p]
<1>1. t \in Local(p) /\ t.pc \in {"lookup", "wait"} /\ Control(p, t)
  BY DEF Inv, Threads, Thread, LookupSend, LookupTake, LookupDiscard, WaitMismatch,
     KeepWaiting, GiveUp, Visits
<1>2. main = [q \in Endpoint |-> main[q]] /\ responses \in [Endpoint -> SUBSET Datagram]
  BY DEF Inv, Threads, RecvInv
<1>3. /\ u.pc = t.pc /\ u.op = t.op /\ u.file = t.file /\ u.target = t.target
      /\ u.entries = t.entries /\ u.contents = t.contents /\ u.answers = t.answers
      /\ t.op = "retrieve" => DOMAIN u.tracker = DOMAIN t.tracker
  <2>1. CASE LookupSend(p, id)
    BY <1>1, <1>2, <2>1 DEF LookupSend, Queried, Become, Local
  <2>2. CASE LookupTake(p, id, m)
    BY <1>1, <1>2, <2>2 DEF LookupTake, Learned, Become, Local, Control
  <2>3. CASE LookupDiscard(p, id, m) \/ WaitMismatch(p, id, m)
    BY <1>1, <1>2, <2>3 DEF LookupDiscard, WaitMismatch, Become, Local
  <2>4. CASE KeepWaiting(p, id)
    BY <1>1, <1>2, <2>4 DEF KeepWaiting, StillOpen, Become, Local
  <2>5. CASE GiveUp(p, id)
    BY <1>1, <1>2, <2>5 DEF GiveUp, TimedOut, Become, Local
  <2> QED  BY <2>1, <2>2, <2>3, <2>4, <2>5
<1>4. responses'[p] \subseteq responses[p] /\ UNCHANGED <<metadata, retrieved>>
  BY <1>2 DEF LookupSend, LookupTake, LookupDiscard, WaitMismatch, KeepWaiting, GiveUp, recvVars
<1> QED  BY <1>3, <1>4 DEF KeepsOn, Keeps

LEMMA BootstrapKeeps ==
    ASSUME Inv, NEW p \in Endpoint, NEW id, NEW m,
           \/ FirstResponse(p, m) \/ InsertNext(p, id) \/ NextPass(p) \/ BootstrapLookupDone(p)
           \/ (Become(p, Inserted(p, id)) /\ UNCHANGED recvVars
               /\ UNCHANGED <<metadata, retrieved>> /\ InsertsNext(p, id))
           \/ Start(p) \/ (p = Boot /\ StartBoot)
    PROVE  KeepsOn(p)
<1> DEFINE t == main[p]
           u == main'[p]
<1>1. t \in Local(p) /\ Control(p, t) /\ main = [q \in Endpoint |-> main[q]]
  BY DEF Inv, Threads, Thread
<1>2. ASSUME Become(p, Inserted(p, id)), InsertsNext(p, id) PROVE Keeps(t, u)
  BY <1>1, <1>2 DEF InsertsNext, Inserted, Become, Parked, Local, Keeps, Control
<1>3. Keeps(t, u)
  <2>1. CASE FirstResponse(p, m)
    BY <1>1, <2>1 DEF FirstResponse, IsFirst, Become, Parked, Local, Keeps, Control
  <2>2. CASE InsertNext(p, id)
    BY <1>2, <2>2 DEF InsertNext
  <2>3. CASE NextPass(p)
    BY <1>1, <2>3 DEF NextPass, Become, Local, Keeps
  <2>4. CASE BootstrapLookupDone(p)
    BY <1>1, <2>4 DEF BootstrapLookupDone, Become, Local, Keeps
  <2>5. CASE Start(p)
    BY <1>1, <2>5 DEF Start, Become, Parked, Keeps
  <2>6. CASE p = Boot /\ StartBoot
    BY <1>1, <2>6 DEF StartBoot, Become, Parked, Keeps
  <2> QED  BY <1>2, <2>1, <2>2, <2>3, <2>4, <2>5, <2>6
<1>4. responses' = responses /\ UNCHANGED <<metadata, retrieved>>
  BY DEF FirstResponse, InsertNext, NextPass, BootstrapLookupDone, Start, StartBoot, recvVars
<1> QED  BY <1>3, <1>4 DEF KeepsOn

LEMMA StoreKeeps ==
    ASSUME Inv, NEW p \in Endpoint, NEW f,
           StoreCommand(p, f) \/ StorePiece(p) \/ StoreLookupDone(p)
    PROVE  KeepsOn(p)
<1> DEFINE t == main[p]
           u == main'[p]
<1>1. t \in Local(p) /\ Control(p, t) /\ main = [q \in Endpoint |-> main[q]]
      /\ responses \in [Endpoint -> SUBSET Datagram]
  BY DEF Inv, Threads, Thread, RecvInv
<1>2. Keeps(t, u)
  <2>1. CASE StoreCommand(p, f)
    BY <1>1, <2>1 DEF StoreCommand, Become, Parked, Keeps
  <2>2. CASE StorePiece(p)
    BY <1>1, <2>2 DEF StorePiece, Become, Local, Keeps, Control
  <2>3. CASE StoreLookupDone(p)
    BY <1>1, <2>3 DEF StoreLookupDone, Become, Local, Keeps
  <2> QED  BY <2>1, <2>2, <2>3
<1>3. responses'[p] \subseteq responses[p] /\ UNCHANGED <<metadata, retrieved>>
  BY <1>1 DEF StoreCommand, StorePiece, StoreLookupDone, recvVars
<1> QED  BY <1>2, <1>3 DEF KeepsOn

LEMMA RetrieveNextKeeps ==
    ASSUME Inv, NEW p \in Endpoint, NEW todo, RetrieveNext(p, todo)
    PROVE  Keeps(main[p], main'[p])
<1>1. CASE Become(p, Parked("idle"))
  <2>1. PICK u : u = Parked("idle")
    OBVIOUS
  <2>2. main'[p] = u /\ u.answers = <<>> /\ u.op = "none"
    BY <1>1, <2>1, Becomes DEF Parked
  <2> QED  BY <2>2 DEF Keeps
<1>2. ASSUME NEW f \in todo,
             Become(p, [Parked("retrieve") EXCEPT
                            !.op = "retrieve", !.file = f, !.todo = todo \ {f}])
      PROVE  Keeps(main[p], main'[p])
  <2>1. PICK u : u = [Parked("retrieve") EXCEPT
                          !.op = "retrieve", !.file = f, !.todo = todo \ {f}]
    OBVIOUS
  <2>2. /\ main'[p] = u /\ u.answers = <<>> /\ u.op = "retrieve" /\ u.contents = <<>>
        /\ u.pc = "retrieve"
    BY <1>2, <2>1, Becomes DEF Parked
  <2> QED  BY <2>2 DEF Keeps
<1> QED  BY <1>1, <1>2, ZenonT(60) DEF RetrieveNext

LEMMA RetrieveKeeps ==
    ASSUME Inv, NEW p \in Endpoint,
           \/ (\E f \in File : RetrieveCommand(p, f)) \/ RetrieveDirectory(p)
           \/ RetrieveWaitFails(p)
    PROVE  KeepsOn(p)
<1>1. /\ UNCHANGED <<responses, metadata, retrieved>> /\ \E todo : RetrieveNext(p, todo)
  BY DEF RetrieveCommand, RetrieveDirectory, RetrieveWaitFails, recvVars
<1> QED  BY <1>1, RetrieveNextKeeps DEF KeepsOn

(***************************************************************************)
(* The steps that take, record or write what came from others.             *)
(***************************************************************************)
LEMMA WaitTakeIntact ==
    ASSUME Inv, [Next]_vars, AllIntact, NEW p \in Endpoint, NEW id, NEW m,
           WaitTake(p, id, m)
    PROVE  Intact(p)'
<1> DEFINE t == main[p]
           a == [node |-> [id |-> id, ep |-> t.tracker[id].ep], msg |-> m]
           answers == Append(t.answers, a)
           u == [t EXCEPT !.cursor = {id}, !.answers = answers]
<1>1. /\ t \in Local(p) /\ t.pc = "wait" /\ id \in DOMAIN t.tracker /\ m \in responses[p]
      /\ t.answers \in Seq(Taken(p)) /\ t.entries \in Seq(Entry(p))
  BY VisitFacts DEF WaitTake, ResponseOf, Inv, Threads, Thread, Local
<1>2. /\ a.msg = m
      /\ \A k \in DOMAIN answers : \/ answers[k] = a
                                   \/ k \in DOMAIN t.answers /\ answers[k] = t.answers[k]
  BY <1>1, AppendProperties, LenProperties
<1> HIDE DEF a
<1>3. main'[p] = u
  <2>1. Become(p, u)
    BY DEF WaitTake, a
  <2> QED  BY <2>1, Becomes
<1> HIDE DEF answers
<1>4. /\ u.pc = "wait" /\ u.op = t.op /\ u.file = t.file /\ u.target = t.target
      /\ u.entries = t.entries /\ u.contents = t.contents /\ u.answers = answers
      /\ u.tracker = t.tracker
  BY <1>1 DEF Local
<1> HIDE DEF u
<1>5. responses'[p] \subseteq responses[p] /\ UNCHANGED <<metadata, retrieved>>
  BY DEF WaitTake, Inv, RecvInv
<1>6. ASSUME NEW n \in responses'[p] PROVE Acknowledged(n)'
  BY <1>5, <1>6, ResponsesStay
<1>7. ASSUME NEW k \in DOMAIN answers, NEW n, n = answers[k].msg PROVE Acknowledged(n)'
  BY <1>1, <1>2, <1>7, ResponsesStay, AnswersStay
<1>8. ASSUME NEW k \in DOMAIN main'[p].answers PROVE Acknowledged(main[p].answers[k].msg)'
  <2>1. PICK n : n = answers[k].msg
    OBVIOUS
  <2>2. main'[p].answers[k].msg = n /\ k \in DOMAIN answers
    BY <1>3, <1>4, <1>8, <2>1
  <2>3. Acknowledged(n)'
    BY <1>7, <2>1, <2>2
  <2> QED  BY <2>2, <2>3 DEF Acknowledged, Has, MayHaveLost
<1>9. ASSUME main'[p].op = "store" PROVE Held(main[p].entries)'
  <2>1. PICK lines \in Seq(Entry(p)) : lines = t.entries
    BY <1>1
  <2>2. Held(lines)'
    BY <1>3, <1>4, <1>9, <2>1, HeldStays DEF AllIntact, Intact
  <2> QED  BY <1>3, <1>4, <2>1, <2>2 DEF Held
<1>10. Fetched(main'[p], metadata'[p][main'[p].file])
  <2>1. PICK files : files = metadata[p]
    OBVIOUS
  <2>2. Fetched(t, files[t.file])
    BY <2>1 DEF AllIntact, Intact
  <2>3. Fetched(u, files[u.file])
    BY <1>1, <1>4, <2>2 DEF Fetched
  <2> QED  BY <1>3, <1>5, <2>1, <2>3
<1> QED  BY <1>5, <1>6, <1>8, <1>9, <1>10, FilesStay, GenuineStays DEF Intact

\* A line of a metadata file names nodes that acknowledged its piece.
LEMMA StoreWaitDoneIntact ==
    ASSUME SoFar, [Next]_vars, AllIntact, NEW p \in Endpoint, StoreWaitDone(p)
    PROVE  Intact(p)'
<1> DEFINE t     == main[p]
           entry == [key |-> t.target, nodes |-> {a.node : a \in Range(t.answers)}]
           lines == Append(t.entries, entry)
<1>1. /\ t \in Local(p) /\ t.pc = "wait" /\ t.op = "store" /\ Answered(t)
      /\ t.answers \in Seq(Taken(p)) /\ t.entries \in Seq(Entry(p)) /\ t.target \in ID
  BY DEF StoreWaitDone, SoFar, Inv, Threads, Thread, Local, InTime, Timely
<1>2. Inv /\ Held(t.entries)
  BY <1>1 DEF AllIntact, Intact, SoFar
<1>3. PICK key : key = t.target
  OBVIOUS
<1>4. ASSUME NEW n \in entry.nodes PROVE Has(n.ep, key)' /\ n.ep \in Endpoint
  <2>1. PICK k \in DOMAIN t.answers : n = t.answers[k].node
    BY <1>4 DEF Range
  <2>2. PICK m : m = t.answers[k].msg
    OBVIOUS
  <2>3. m.type = "STORE_RESPONSE" /\ m.from = n.ep /\ m.key = t.target
    BY <1>1, <2>1, <2>2 DEF Answered, ExpectedType
  <2>4. t.answers[k] \in Taken(p)
    BY <1>1, <2>1, ElementOfSeq
  <2>5. Acknowledged(m) /\ n.ep \in Endpoint
    BY <2>1, <2>2, <2>4 DEF AllIntact, Intact, Taken, Peers, Paired, Node
  <2>6. Has(n.ep, t.target)
    BY <2>3, <2>5 DEF Acknowledged
  <2> QED  BY <1>1, <1>2, <1>3, <2>5, <2>6, HasStays
<1>5. entry.key = key
  BY <1>3
<1> HIDE DEF entry
<1>6. /\ \A k \in DOMAIN lines : \/ lines[k] = entry
                                 \/ k \in DOMAIN t.entries /\ lines[k] = t.entries[k]
  BY <1>1, AppendProperties, LenProperties
<1>7. PICK u : u = [Parked("store") EXCEPT !.op = "store", !.file = t.file,
                                          !.entries = lines]
  OBVIOUS
<1>8. main'[p] = u /\ UNCHANGED <<responses, metadata, retrieved>>
  <2>1. Become(p, u) /\ UNCHANGED <<responses, metadata, retrieved>>
    BY <1>7 DEF StoreWaitDone, recvVars, entry
  <2> QED  BY <1>2, <2>1, Becomes
<1> HIDE DEF lines
<1>9. u.op = "store" /\ u.answers = <<>> /\ u.entries = lines
  BY <1>7 DEF Parked
<1>10. PICK old \in Seq(Entry(p)) : old = t.entries
  BY <1>1
<1>11. Held(old)'
  BY <1>2, <1>10, HeldStays
<1>12. PICK lines2 : lines2 = lines
  OBVIOUS
<1>13. ASSUME NEW k \in DOMAIN lines2, NEW n \in lines2[k].nodes
       PROVE  Has(n.ep, lines2[k].key)'
  <2>1. CASE lines2[k] = entry
    <3>1. PICK e : e = entry
      OBVIOUS
    <3>2. \A x \in e.nodes : Has(x.ep, e.key)'
      BY <1>4, <1>5, <3>1
    <3> QED  BY <1>13, <2>1, <3>1, <3>2
  <2>2. CASE k \in DOMAIN old /\ lines2[k] = old[k]
    BY <1>11, <1>13, <2>2 DEF Held
  <2> QED  BY <1>6, <1>10, <1>12, <1>13, <2>1, <2>2
<1>14. Held(main[p].entries)'
  BY <1>8, <1>9, <1>12, <1>13 DEF Held
<1>15. ASSUME NEW m \in responses'[p] PROVE Acknowledged(m)'
  BY <1>2, <1>8, <1>15, ResponsesStay
<1> QED  BY <1>2, <1>8, <1>9, <1>14, <1>15, FilesStay, GenuineStays DEF Intact, Fetched

LEMMA RecordMetadataIntact ==
    ASSUME Inv, [Next]_vars, AllIntact, NEW p \in Endpoint, RecordMetadata(p)
    PROVE  Intact(p)'
<1> DEFINE t == main[p]
<1>1. /\ t \in Local(p) /\ t.op = "store" /\ Held(t.entries)
      /\ t.entries \in Seq(Entry(p)) /\ t.file \in File
  BY DEF RecordMetadata, Recording, Inv, Threads, Thread, Control, Storing, Local,
     AllIntact, Intact
<1>2. PICK u : u = Parked("idle")
  OBVIOUS
<1>3. /\ main'[p] = u /\ UNCHANGED <<responses, retrieved>>
      /\ metadata' = [metadata EXCEPT ![p][t.file] = t.entries]
  BY <1>2, Becomes DEF RecordMetadata, recvVars
<1>4. u.op = "none" /\ u.answers = <<>>
  BY <1>2 DEF Parked
<1>5. ASSUME NEW f \in File, metadata'[p][f] # NoFile PROVE Held(metadata[p][f])'
  <2>1. CASE f = t.file
    <3>1. PICK lines \in Seq(Entry(p)) : lines = t.entries
      BY <1>1
    <3>2. Held(lines)'
      BY <1>1, <3>1, HeldStays
    <3>3. metadata'[p][f] = lines
      BY <1>1, <1>3, <2>1, <3>1 DEF Inv, FilesOK
    <3> QED  BY <3>2, <3>3 DEF Held
  <2>2. CASE f # t.file
    <3>1. metadata'[p][f] = metadata[p][f]
      BY <1>1, <1>3, <2>2 DEF Inv, FilesOK
    <3> QED  BY <1>5, <3>1, FilesStay
  <2> QED  BY <2>1, <2>2
<1>6. ASSUME NEW m \in responses'[p] PROVE Acknowledged(m)'
  BY <1>3, <1>6, ResponsesStay
<1> QED  BY <1>3, <1>4, <1>5, <1>6, GenuineStays DEF Intact, Fetched

LEMMA RetrievePieceIntact ==
    ASSUME Inv, [Next]_vars, AllIntact, NEW p \in Endpoint, RetrievePiece(p)
    PROVE  Intact(p)'
<1> DEFINE t     == main[p]
           nodes == CurrentEntry(p).nodes
           key   == CurrentEntry(p).key
           w     == Track(<<>>, nodes, "REQUEST_SENT")
           u     == [t EXCEPT !.pc = "wait", !.target = key, !.tracker = w]
<1>1. /\ t \in Local(p) /\ t.pc = "retrieve" /\ t.op = "retrieve" /\ t.answers = <<>>
      /\ Fetched(t, metadata[p][t.file])
  BY DEF RetrievePiece, Inv, Threads, Thread, Control, AllIntact, Intact
<1>2. Become(p, u) /\ UNCHANGED <<metadata, retrieved>> /\ responses'[p] = {}
  BY DEF RetrievePiece, Inv, RecvInv
<1>3. nodes = {} => DOMAIN w = {}
  BY DEF Track
<1>4. metadata[p][t.file][Len(t.contents) + 1] = CurrentEntry(p)
  BY DEF CurrentEntry
<1> HIDE DEF w
<1>5. /\ u.pc = "wait" /\ u.op = "retrieve" /\ u.file = t.file /\ u.contents = t.contents
      /\ u.target = key /\ u.tracker = w /\ u.answers = <<>>
  BY <1>1 DEF Local
<1> HIDE DEF u
<1>6. main'[p] = u
  BY <1>2, Becomes
<1>7. Fetched(u, metadata[p][u.file])
  BY <1>1, <1>3, <1>4, <1>5 DEF Fetched
<1> QED  BY <1>2, <1>5, <1>6, <1>7, FilesStay, GenuineStays DEF Intact

\* The content is that of the line it was asked for.
LEMMA RetrieveWaitDoneIntact ==
    ASSUME SoFar, [Next]_vars, AllIntact, NEW p \in Endpoint, RetrieveWaitDone(p)
    PROVE  Intact(p)'
<1> DEFINE t     == main[p]
           lines == metadata[p][t.file]
           line  == CurrentEntry(p)
<1>1. lines[Len(t.contents) + 1] = line
  BY DEF CurrentEntry
<1> HIDE DEF line
<1>2. Inv /\ t.pc = "wait" /\ t.op = "retrieve"
      /\ UNCHANGED <<responses, metadata, retrieved>>
  BY RetrieveWaitDoneIs DEF SoFar
<1>3. /\ t.contents \in Seq(Content) /\ t.answers \in Seq(Taken(p))
      /\ Answered(t) /\ Fetched(t, lines)
  BY <1>2 DEF SoFar, Inv, Threads, Thread, Local, InTime, Timely, AllIntact, Intact
<1>4. PICK k, u :
          /\ k \in NonEmpty(t.answers) /\ Become(p, u)
          /\ u = [pc |-> "retrieve", op |-> "retrieve", file |-> t.file, entries |-> <<>>,
                  contents |-> Append(t.contents, t.answers[k].msg.content),
                  todo |-> t.todo, target |-> IdOf[Boot], tracker |-> <<>>,
                  cursor |-> {}, completed |-> TRUE, answers |-> <<>>]
  BY RetrieveWaitDoneIs
<1>5. /\ u.pc = "retrieve" /\ u.op = "retrieve" /\ u.file = t.file /\ u.answers = <<>>
       /\ u.contents = Append(t.contents, t.answers[k].msg.content)
  BY <1>4
<1> DEFINE m == t.answers[k].msg
<1>6. k \in DOMAIN t.answers /\ m.content # NoContent
  BY <1>4 DEF NonEmpty
<1>7. HashOf[m.content] = line.key /\ line.nodes # {}
  <2>1. t.answers[k] \in Taken(p)
    BY <1>3, <1>6, ElementOfSeq
  <2>2. m \in Datagram /\ m.type = "FIND_VALUE_RESPONSE" /\ m.key = t.target
    BY <1>2, <1>3, <1>6, <2>1 DEF Taken, Incoming, Answered, ExpectedType
  <2>3. HashOf[m.content] = m.key
    BY <1>6, <2>2 DEF Datagram
  <2>4. t.target = line.key /\ (line.nodes = {} => t.answers = <<>>)
    BY <1>1, <1>2, <1>3 DEF Fetched
  <2>5. t.answers # <<>>
    BY <1>6
  <2> QED  BY <2>2, <2>3, <2>4, <2>5
<1> HIDE DEF m
<1>8. \A i \in DOMAIN u.contents :
          \/ i \in DOMAIN t.contents /\ u.contents[i] = t.contents[i]
          \/ i = Len(t.contents) + 1 /\ u.contents[i] = m.content
  BY <1>3, <1>5, AppendProperties, LenProperties DEF m
<1>9. Fetched(u, lines)
  <2>1. \A i \in DOMAIN t.contents : HashOf[t.contents[i]] = lines[i].key /\ lines[i].nodes # {}
    BY <1>2, <1>3 DEF Fetched
  <2>2. \A i \in DOMAIN u.contents : HashOf[u.contents[i]] = lines[i].key /\ lines[i].nodes # {}
    BY <1>1, <1>7, <1>8, <2>1
  <2> QED  BY <1>5, <2>2 DEF Fetched
<1>10. main'[p] = u
  BY <1>2, <1>4, Becomes
<1>11. ASSUME NEW n \in responses'[p] PROVE Acknowledged(n)'
  BY <1>2, <1>11, ResponsesStay
<1> QED  BY <1>2, <1>9, <1>10, <1>11, <1>5, FilesStay, GenuineStays DEF Intact

LEMMA WriteBackIntact ==
    ASSUME Inv, [Next]_vars, AllIntact, NEW p \in Endpoint, WriteBack(p)
    PROVE  Intact(p)'
<1> DEFINE t     == main[p]
           lines == metadata[p][t.file]
<1>1. /\ t.op = "retrieve" /\ Len(t.contents) = Len(lines) /\ t.file \in File
      /\ t.contents \in Seq(Content) /\ Fetched(t, lines)
      /\ lines # NoFile /\ FileOK(p, t.file, lines, fault[p])
  BY DEF WriteBack, WritingBack, Inv, Threads, Thread, Control, Retrieving, Local, FilesOK,
     AllIntact, Intact
<1>2. Genuine(t.file, t.contents, fault[p])
  <2>1. CASE Complete(t.file, lines)
    <3>1. lines \in Seq(Entry(p)) /\ DOMAIN t.contents = DOMAIN lines
      BY <1>1, LenProperties DEF FileOK
    <3> QED  BY <1>1, <2>1, <3>1 DEF Genuine, Complete, Fetched
  <2>2. CASE lines = <<>> /\ fault[p] # "none"
    <3>1. t.contents = <<>>
      BY <1>1, <2>2
    <3> QED  BY <2>2, <3>1 DEF Genuine
  <2> QED  BY <1>1, <2>1, <2>2 DEF FileOK
<1>3. /\ UNCHANGED <<responses, metadata>> /\ Keeps(t, main'[p])
      /\ retrieved' = [retrieved EXCEPT ![p][t.file] = t.contents] /\ fault' = fault
  BY RetrieveNextKeeps DEF WriteBack, recvVars
<1>4. ASSUME NEW f \in File PROVE Genuine(f, retrieved[p][f], fault[p])'
  <2>1. retrieved'[p][f] = IF f = t.file THEN t.contents ELSE retrieved[p][f]
    BY <1>1, <1>3 DEF Inv, FilesOK
  <2>2. CASE f = t.file
    BY <1>2, <1>3, <2>1, <2>2 DEF Genuine
  <2>3. CASE f # t.file
    BY <2>1, <2>3, GenuineStays
  <2> QED  BY <2>2, <2>3
<1> QED  BY <1>3, <1>4, KeepsIntact

\* Only the receive thread that has stored a piece acknowledges it.
LEMMA ReplyAcknowledged ==
    ASSUME Inv, NEW p \in Endpoint, NEW m \in net, Handle(p, m), UNCHANGED mainVars,
           NEW r \in net' \ net
    PROVE  Acknowledged(r)'
<1>1. m \in Datagram /\ disk \in [Endpoint -> Disk] /\ fault' = fault
  BY DEF Inv, RecvInv, mainVars
<1>2. CASE HandleStore(p, m)
  <2>1. r = Reply(m, NoContent, {}) /\ disk' \in AfterStorePiece(m)
    BY <1>2 DEF HandleStore, Answer
  <2>2. r.from = m.to /\ r.key = m.key
    BY <2>1 DEF Reply
  <2>3. /\ m.to \in Endpoint /\ m.key \in ID /\ m.type = "STORE"
        /\ HashOf[m.content] = m.key
    BY <1>1, <1>2 DEF HandleStore, Datagram, Message
  <2>4. disk' = Written(m) => disk'[m.to][m.key] = m.content
    BY <1>1, <2>3 DEF Written, Disk
  <2>5. m.to \in Failing \/ disk' = Written(m)
    BY <2>1 DEF AfterStorePiece
  <2>6. Has(m.to, m.key)'
    BY <1>1, <2>3, <2>4, <2>5 DEF Has, MayHaveLost
  <2> QED  BY <2>2, <2>6 DEF Acknowledged, Has, MayHaveLost
<1>3. CASE ~HandleStore(p, m)
  <2>1. PICK content, nodes : /\ r = Reply(m, content, nodes)
                              /\ m.type \in {"FIND_NODE", "FIND_VALUE"}
    BY <1>3 DEF Handle, HandleFindNode, HandleFindValue, HandleResponse, Answer
  <2>2. r.type # "STORE_RESPONSE"
    BY <2>1, ReplyTypes DEF Reply
  <2> QED  BY <2>2 DEF Acknowledged
<1> QED  BY <1>2, <1>3

LEMMA NetAcknowledged ==
    ASSUME Inv, [Next]_vars, AllIntact, NEW r \in net'
    PROVE  Acknowledged(r)'
<1>1. ASSUME r \in net PROVE Acknowledged(r)'
  <2>1. r \in Datagram /\ Acknowledged(r)
    BY <1>1 DEF AllIntact, Inv, RecvInv
  <2> QED  BY <2>1, AcknowledgedStays
<1>2. ASSUME NEW p \in Endpoint, Receive(p) PROVE Acknowledged(r)'
  BY <1>1, <1>2, ReplyAcknowledged DEF Receive
<1>3. ASSUME NEW p \in Endpoint, Owns(p) PROVE Acknowledged(r)'
  <2>1. CASE r.type \in Requests
    BY <2>1 DEF Acknowledged, Requests
  <2> QED  BY <1>1, <1>3, <2>1 DEF Owns
<1>4. ASSUME NEW p \in Endpoint,
             \/ Step(p) \/ GivesUp(p) \/ (p \in Users /\ Command(p)) \/ Stop(p)
             \/ FindNodeOwnId(p) \/ Start(p) \/ (p = Boot /\ StartBoot)
      PROVE  Acknowledged(r)'
  <2>1. Owns(p)
    BY <1>4, MainMoves, StartOwns DEF Moved
  <2> QED  BY <1>3, <2>1
<1>5. ASSUME \/ Bounced \/ Lost \/ UNCHANGED vars \/ \E p \in Endpoint : ReceiveFails(p)
      PROVE  Acknowledged(r)'
  <2>1. net' \subseteq net
    BY <1>5 DEF Bounced, Lost, Bounce, Lose, ReceiveFails, vars, recvVars
  <2> QED  BY <1>1, <2>1
<1>6. ASSUME NEW p \in Users, Command(p) PROVE Acknowledged(r)'
  BY <1>4, <1>6, SetUpAssumption
<1>7. ASSUME NEW p \in Endpoint, Begin(p) PROVE Acknowledged(r)'
  BY <1>4, <1>7 DEF Begin
<1> QED  BY <1>2, <1>4, <1>5, <1>6, <1>7 DEF Next

\* What others do leaves a main thread and its files alone.
Elsewhere(p) == /\ main'[p] = main[p] /\ responses'[p] \subseteq responses[p] \cup net
                /\ metadata'[p] = metadata[p] /\ retrieved'[p] = retrieved[p]

LEMMA ElsewhereIntact ==
    ASSUME Inv, [Next]_vars, AllIntact, NEW p \in Endpoint, Elsewhere(p)
    PROVE  Intact(p)'
<1>1. Keeps(main[p], main'[p])
  BY DEF Elsewhere, Keeps
<1> QED  BY <1>1, StaysIntact DEF Elsewhere

LEMMA FilesOfOthers ==
    ASSUME Inv, NEW q \in Endpoint, NEW p \in Endpoint \ {q},
           \/ Step(q) \/ GivesUp(q) \/ Command(q) \/ Stop(q)
           \/ FindNodeOwnId(q) \/ Start(q) \/ (q = Boot /\ StartBoot)
    PROVE  metadata'[p] = metadata[p] /\ retrieved'[p] = retrieved[p]
<1> DEFINE Goal == metadata'[p] = metadata[p] /\ retrieved'[p] = retrieved[p]
<1>1. ASSUME NEW why, Terminate(q, why) PROVE Goal
  BY <1>1 DEF Terminate, CutShort, Inv, FilesOK
<1>2. ASSUME UNCHANGED <<metadata, retrieved>> PROVE Goal
  BY <1>2
<1>3. ASSUME RecordMetadata(q) \/ WriteBack(q) PROVE Goal
  BY <1>3 DEF RecordMetadata, WriteBack, Inv, FilesOK
<1> HIDE DEF Goal
<1>4. ASSUME Step(q) PROVE Goal
  <2>1. ASSUME NEW m, FirstResponse(q, m) \/ FirstResponseInvalid(q, m) PROVE Goal
    BY <1>1, <1>2, <2>1 DEF FirstResponse, FirstResponseInvalid, Dies
  <2>2. ASSUME NEW id, InsertNext(q, id) \/ LookupSend(q, id) \/ KeepWaiting(q, id) PROVE Goal
    BY <1>2, <2>2 DEF InsertNext, LookupSend, KeepWaiting
  <2>3. ASSUME NEW id, NEW m, \/ LookupTake(q, id, m) \/ LookupDiscard(q, id, m)
                              \/ WaitTake(q, id, m) \/ WaitMismatch(q, id, m)
        PROVE  Goal
    BY <1>2, <2>3 DEF LookupTake, LookupDiscard, WaitTake, WaitMismatch
  <2>4. ASSUME InsertOwnId(q) \/ FirstResponseTimeout(q) \/ StorePieceFails(q) PROVE Goal
    BY <1>1, <1>2, <2>4 DEF InsertOwnId, FirstResponseTimeout, StorePieceFails, Dies
  <2>5. ASSUME \/ NextPass(q) \/ BootstrapLookupDone(q) \/ StorePiece(q)
               \/ StoreLookupDone(q) \/ StoreWaitDone(q)
        PROVE  Goal
    BY <1>2, <2>5 DEF NextPass, BootstrapLookupDone, StorePiece, StoreLookupDone, StoreWaitDone
  <2>6. ASSUME RetrievePiece(q) \/ RetrieveWaitDone(q) \/ RetrieveWaitFails(q) PROVE Goal
    BY <1>2, <2>6, RetrieveWaitDoneIs DEF RetrievePiece, RetrieveWaitFails
  <2> QED  BY <1>3, <1>4, <2>1, <2>2, <2>3, <2>4, <2>5, <2>6 DEF Step
<1>5. ASSUME GivesUp(q) PROVE Goal
  BY <1>2, <1>5 DEF GivesUp, GiveUp
<1>6. ASSUME Command(q) PROVE Goal
  <2>1. ASSUME NEW f, StoreCommand(q, f) \/ RetrieveCommand(q, f) PROVE Goal
    BY <1>2, <2>1 DEF StoreCommand, RetrieveCommand
  <2>2. ASSUME RetrieveDirectory(q) PROVE Goal
    BY <1>2, <2>2 DEF RetrieveDirectory
  <2> QED  BY <1>6, <2>1, <2>2 DEF Command
<1>7. ASSUME Stop(q) \/ FindNodeOwnId(q) PROVE Goal
  BY <1>1, <1>7 DEF Stop, FindNodeOwnId, Dies
<1>8. ASSUME Start(q) \/ (q = Boot /\ StartBoot) PROVE Goal
  BY <1>2, <1>8 DEF Start, StartBoot
<1> QED  BY <1>4, <1>5, <1>6, <1>7, <1>8 DEF Goal

LEMMA StepIntact ==
    ASSUME SoFar, [Next]_vars, AllIntact, NEW p \in Endpoint, Step(p)
    PROVE  Intact(p)'
<1>1. Inv
  BY DEF SoFar
<1>2. ASSUME NEW why \in Ends, Dies(p, why) PROVE Intact(p)'
  BY <1>1, <1>2, EndIntact DEF Dies
<1>3. ASSUME KeepsOn(p) PROVE Intact(p)'
  BY <1>1, <1>3, KeepsOnIntact
<1>4. ASSUME NEW m, FirstResponse(p, m) \/ FirstResponseInvalid(p, m) PROVE Intact(p)'
  BY <1>1, <1>2, <1>3, <1>4, BootstrapKeeps DEF FirstResponseInvalid, Ends
<1>5. ASSUME NEW id, InsertNext(p, id) PROVE Intact(p)'
  BY <1>1, <1>3, <1>5, BootstrapKeeps
<1>6. ASSUME NEW id, LookupSend(p, id) \/ KeepWaiting(p, id) PROVE Intact(p)'
  BY <1>1, <1>3, <1>6, VisitKeeps
<1>7. ASSUME NEW id, NEW m, \/ LookupTake(p, id, m) \/ LookupDiscard(p, id, m)
                            \/ WaitTake(p, id, m) \/ WaitMismatch(p, id, m)
      PROVE  Intact(p)'
  BY <1>1, <1>3, <1>7, VisitKeeps, WaitTakeIntact
<1>8. ASSUME InsertOwnId(p) PROVE Intact(p)'
  BY <1>1, <1>2, <1>3, <1>8, BootstrapKeeps DEF InsertOwnId, Ends
<1>9. ASSUME FirstResponseTimeout(p) PROVE Intact(p)'
  BY <1>2, <1>9 DEF FirstResponseTimeout, Ends
<1>10. ASSUME StorePieceFails(p) PROVE Intact(p)'
  BY <1>2, <1>10 DEF StorePieceFails, StorePieceFault, Ends
<1>11. ASSUME NextPass(p) \/ BootstrapLookupDone(p) PROVE Intact(p)'
  BY <1>1, <1>3, <1>11, BootstrapKeeps
<1>12. ASSUME StorePiece(p) \/ StoreLookupDone(p) PROVE Intact(p)'
  BY <1>1, <1>3, <1>12, StoreKeeps
<1>13. ASSUME StoreWaitDone(p) \/ RecordMetadata(p) PROVE Intact(p)'
  BY <1>1, <1>13, StoreWaitDoneIntact, RecordMetadataIntact
<1>14. ASSUME \/ RetrievePiece(p) \/ RetrieveWaitDone(p) \/ RetrieveWaitFails(p)
              \/ WriteBack(p)
       PROVE  Intact(p)'
  BY <1>1, <1>3, <1>14, RetrievePieceIntact, RetrieveWaitDoneIntact, RetrieveKeeps,
     WriteBackIntact
<1> QED  BY <1>4, <1>5, <1>6, <1>7, <1>8, <1>9, <1>10, <1>11, <1>12, <1>13, <1>14 DEF Step

LEMMA MoverIntact ==
    ASSUME SoFar, [Next]_vars, AllIntact, NEW p \in Endpoint,
           \/ Step(p) \/ GivesUp(p) \/ Command(p) \/ Stop(p)
           \/ FindNodeOwnId(p) \/ Start(p) \/ (p = Boot /\ StartBoot)
    PROVE  Intact(p)'
<1>1. Inv
  BY DEF SoFar
<1>2. ASSUME KeepsOn(p) PROVE Intact(p)'
  BY <1>1, <1>2, KeepsOnIntact
<1>3. CASE Step(p)
  BY <1>3, StepIntact
<1>4. CASE GivesUp(p)
  BY <1>1, <1>2, <1>4, VisitKeeps DEF GivesUp
<1>5. CASE Command(p)
  <2>1. ASSUME NEW f \in File, StoreCommand(p, f) PROVE Intact(p)'
    BY <1>1, <1>2, <2>1, StoreKeeps
  <2>2. ASSUME (\E f \in File : RetrieveCommand(p, f)) \/ RetrieveDirectory(p)
        PROVE  Intact(p)'
    BY <1>1, <1>2, <2>2, RetrieveKeeps
  <2> QED  BY <1>5, <2>1, <2>2 DEF Command
<1>6. CASE Stop(p)
  BY <1>1, <1>6, EndIntact DEF Stop, Dies, Ends
<1>7. CASE FindNodeOwnId(p)
  BY <1>1, <1>7, EndIntact DEF FindNodeOwnId, Ends
<1>8. CASE Start(p) \/ (p = Boot /\ StartBoot)
  BY <1>1, <1>2, <1>8, BootstrapKeeps
<1> QED  BY <1>3, <1>4, <1>5, <1>6, <1>7, <1>8

LEMMA NextIntact == SoFar /\ AllIntact /\ [Next]_vars => AllIntact'
<1> SUFFICES ASSUME SoFar, AllIntact, [Next]_vars PROVE AllIntact'
  OBVIOUS
<1>1. Inv
  BY DEF SoFar
<1> SUFFICES ASSUME NEW p \in Endpoint PROVE Intact(p)'
  BY <1>1, NetAcknowledged DEF AllIntact
<1>2. ASSUME NEW q \in Endpoint,
             \/ Step(q) \/ GivesUp(q) \/ (q \in Users /\ Command(q)) \/ Stop(q)
             \/ FindNodeOwnId(q) \/ Start(q) \/ (q = Boot /\ StartBoot)
      PROVE  Intact(p)'
  <2>1. CASE p = q
    BY <1>2, <2>1, MoverIntact
  <2>2. CASE p # q
    <3>1. Owns(q)
      BY <1>1, <1>2, MainMoves, StartOwns DEF Moved
    <3>2. metadata'[p] = metadata[p] /\ retrieved'[p] = retrieved[p]
      BY <1>1, <1>2, <2>2, FilesOfOthers
    <3>3. Elsewhere(p)
      BY <2>2, <3>1, <3>2 DEF Owns, Elsewhere
    <3> QED  BY <1>1, <3>3, ElsewhereIntact
  <2> QED  BY <2>1, <2>2
<1>3. ASSUME NEW q \in Endpoint, Receive(q) PROVE Intact(p)'
  <2>1. PICK m \in net : Handle(q, m)
    BY <1>3 DEF Receive
  <2>2. responses'[p] \subseteq responses[p] \cup {m}
    BY <1>1, <2>1 DEF Handle, HandleStore, HandleFindNode, HandleFindValue, HandleResponse,
       Kept, Inv, RecvInv
  <2>3. Elsewhere(p)
    BY <1>3, <2>1, <2>2 DEF Elsewhere, Receive, mainVars
  <2> QED  BY <1>1, <2>3, ElsewhereIntact
<1>4. ASSUME \/ Bounced \/ Lost \/ UNCHANGED vars \/ \E q \in Endpoint : ReceiveFails(q)
      PROVE  Intact(p)'
  <2>1. Elsewhere(p)
    BY <1>4 DEF Elsewhere, Bounced, Lost, Bounce, Lose, ReceiveFails, vars, recvVars, mainVars
  <2> QED  BY <1>1, <2>1, ElsewhereIntact
<1>5. ASSUME NEW q \in Users, Command(q) PROVE Intact(p)'
  BY <1>2, <1>5, SetUpAssumption
<1>6. ASSUME NEW q \in Endpoint, Begin(q) PROVE Intact(p)'
  BY <1>2, <1>6 DEF Begin
<1> QED  BY <1>2, <1>3, <1>4, <1>5, <1>6 DEF Next

LEMMA InitIntact == Init => AllIntact
<1> SUFFICES ASSUME Init, NEW p \in Endpoint PROVE Intact(p)
  BY DEF Init, AllIntact
<1>1. PICK t : t = Parked(IF p = Boot THEN "serving" ELSE IF p \in Joined THEN "idle" ELSE "off")
  OBVIOUS
<1>2. t.op = "none" /\ t.answers = <<>> /\ main[p] = t
  BY <1>1 DEF Parked, Init
<1>3. \A f \in File : metadata[p][f] = NoFile /\ retrieved[p][f] = NoFile
  BY DEF Init
<1> QED  BY <1>2, <1>3 DEF Init, Intact, Fetched, Genuine

LEMMA Integrity == ASSUME ~Late PROVE Spec => [](SoFar /\ AllIntact)
<1>1. Init => SoFar /\ AllIntact
  BY InitInv, InitBegan, InitTimely, InitIntact DEF SoFar
<1>2. SoFar /\ AllIntact /\ [Next]_vars => (SoFar /\ AllIntact)'
  BY NextInv, NextBegan, NextTimely, NextIntact DEF SoFar
<1> QED  BY <1>1, <1>2, PTL DEF Spec

-----------------------------------------------------------------------------
(***************************************************************************)
(* What the properties say of contents, they say of pieces with different  *)
(* hashes: of two pieces with one hash, of 16 bits in the program, the     *)
(* second replaces the first wherever both are stored.                     *)
(***************************************************************************)
DistinctHashes ==
    \A c, d \in Content \cup {NoContent} : HashOf[c] = HashOf[d] => c = d

LEMMA PieceOfHash ==
    ASSUME DistinctHashes, NEW f \in File, NEW k \in DOMAIN Pieces[f],
           NEW c \in Content \cup {NoContent}, HashOf[c] = HashOf[Pieces[f][k]]
    PROVE  c = Pieces[f][k]
<1>1. Pieces[f][k] \in Content \cup {NoContent}
  BY FilesAssumption, ElementOfSeq
<1> QED  BY <1>1 DEF DistinctHashes

LEMMA HeldHolds ==
    ASSUME Inv, DistinctHashes, NEW p \in Endpoint, NEW f \in File,
           NEW entries \in Seq(Entry(p)), Held(entries),
           \A k \in DOMAIN entries :
               k \in DOMAIN Pieces[f] /\ entries[k].key = HashOf[Pieces[f][k]]
    PROVE  HoldsPiece(f, entries)
<1> SUFFICES ASSUME NEW k \in DOMAIN entries, NEW n \in entries[k].nodes
             PROVE  \/ disk[n.ep][entries[k].key] = Pieces[f][k]
                    \/ disk[n.ep][entries[k].key] = NoContent /\ MayHaveLost(n.ep)
  BY DEF HoldsPiece
<1> DEFINE key == entries[k].key
           copy == disk[n.ep][key]
<1>1. key \in ID /\ n.ep \in Endpoint
  <2>1. entries[k] \in Entry(p)
    BY ElementOfSeq
  <2> QED  BY <2>1 DEF Entry, Peers, Paired, Node
<1>2. k \in DOMAIN Pieces[f] /\ key = HashOf[Pieces[f][k]] /\ Has(n.ep, key)
  BY DEF Held
<1>3. disk[n.ep] \in Disk
  BY <1>1 DEF Inv, RecvInv
<1>4. copy \in Content \cup {NoContent} /\ (copy # NoContent => HashOf[copy] = key)
  BY <1>1, <1>3 DEF Disk
<1> HIDE DEF key
<1>5. copy # NoContent => copy = Pieces[f][k]
  BY <1>2, <1>4, PieceOfHash
<1>6. key = HashOf[NoContent] => NoContent = Pieces[f][k]
  BY <1>2, PieceOfHash
<1> QED  BY <1>2, <1>5, <1>6 DEF Has, key

(***************************************************************************)
(* A line of a metadata file names nodes that have the piece on disk.      *)
(* Since the answers to STORE are all "success", this rests on             *)
(* handle_store_request, which stores before it answers, on answers in     *)
(* time, and on nobody but store_piece touching the copies.                *)
(***************************************************************************)
THEOREM MetadataIsSound == ASSUME ~Late, DistinctHashes PROVE Spec => []MetadataSound
<1>1. SoFar /\ AllIntact => MetadataSound
  <2> SUFFICES ASSUME SoFar, AllIntact, NEW p \in Endpoint
               PROVE  /\ main[p].op = "store" => HoldsPiece(main[p].file, main[p].entries)
                      /\ \A f \in File : HoldsPiece(f, Recorded(p, f))
    BY DEF MetadataSound
  <2>1. Inv /\ Intact(p)
    BY DEF SoFar, AllIntact
  <2>2. ASSUME main[p].op = "store" PROVE HoldsPiece(main[p].file, main[p].entries)
    <3> DEFINE t == main[p]
    <3>1. t.entries \in Seq(Entry(p)) /\ Held(t.entries) /\ Storing(t)
      BY <2>1, <2>2 DEF Inv, Threads, Thread, Local, Intact
    <3>2. /\ t.file \in File /\ Pieces[t.file] \in Seq(Content \cup {NoContent})
          /\ Len(t.entries) <= Len(Pieces[t.file])
      BY <2>2, <3>1, FilesAssumption DEF Storing
    <3>3. \A k \in DOMAIN t.entries : k \in DOMAIN Pieces[t.file]
      BY <3>1, <3>2, LenProperties
    <3> QED  BY <2>1, <2>2, <3>1, <3>2, <3>3, HeldHolds DEF Storing
  <2>3. ASSUME NEW f \in File PROVE HoldsPiece(f, Recorded(p, f))
    <3>1. CASE Recorded(p, f) = <<>>
      BY <3>1 DEF HoldsPiece
    <3>2. CASE f \in Known(p) /\ Complete(f, metadata[p][f])
      <4> DEFINE lines == metadata[p][f]
      <4>1. lines \in Seq(Entry(p)) /\ Held(lines) /\ Recorded(p, f) = lines
        BY <2>1, <3>2 DEF Known, Inv, FilesOK, FileOK, Intact, Recorded
      <4>2. Pieces[f] \in Seq(Content \cup {NoContent})
        BY FilesAssumption
      <4>3. \A k \in DOMAIN lines : k \in DOMAIN Pieces[f]
        BY <3>2, <4>1, <4>2, LenProperties DEF Complete
      <4> QED  BY <2>1, <3>2, <4>1, <4>3, HeldHolds DEF Complete
    <3> QED  BY <2>1, <3>1, <3>2 DEF Recorded, Known, Inv, FilesOK, FileOK
  <2> QED  BY <2>2, <2>3
<1> QED  BY <1>1, Integrity, PTL

(***************************************************************************)
(* What retrieve_file writes is the file that store_file read, although it *)
(* neither compares contents nor knows which piece an answer is about.     *)
(***************************************************************************)
THEOREM RetrievedIsIntact ==
    ASSUME ~Late, DistinctHashes PROVE Spec => []RetrievedIntact
<1>1. SoFar /\ AllIntact => RetrievedIntact
  <2> SUFFICES ASSUME SoFar, AllIntact, NEW p \in Endpoint, NEW f \in File,
                      retrieved[p][f] # NoFile,
                      ~(retrieved[p][f] = <<>> /\ fault[p] # "none")
               PROVE  retrieved[p][f] = Pieces[f]
    BY DEF RetrievedIntact
  <2> DEFINE got == retrieved[p][f]
  <2>1. /\ got \in Seq(Content) /\ Len(got) = Len(Pieces[f])
        /\ \A k \in DOMAIN got : HashOf[got[k]] = HashOf[Pieces[f][k]]
    BY DEF AllIntact, Intact, Genuine, SoFar, Inv, FilesOK
  <2>2. Pieces[f] \in Seq(Content \cup {NoContent})
    BY FilesAssumption
  <2> HIDE DEF got
  <2>3. \A k \in 1 .. Len(got) : got[k] = Pieces[f][k]
    <3> SUFFICES ASSUME NEW k \in 1 .. Len(got) PROVE got[k] = Pieces[f][k]
      OBVIOUS
    <3>1. k \in DOMAIN got /\ k \in DOMAIN Pieces[f]
      BY <2>1, <2>2, LenProperties
    <3>2. got[k] \in Content \cup {NoContent}
      BY <2>1, <3>1, ElementOfSeq
    <3> QED  BY <2>1, <3>1, <3>2, PieceOfHash
  <2>4. got \in Seq(Content \cup {NoContent})
    BY <2>1
  <2> QED  BY <2>1, <2>2, <2>3, <2>4, SeqEqual DEF got
<1> QED  BY <1>1, Integrity, PTL

-----------------------------------------------------------------------------
(***************************************************************************)
(* Refinement.  While nobody ends, what users see of the program is a      *)
(* FileStore.                                                              *)
(***************************************************************************)
NobodyEnded == \A p \in Endpoint : fault[p] = "none"

\* What FileStore leaves to its reader: a disk takes what it is given, no file
\* has an empty piece, which FIND_VALUE could not tell from none, and NoFile is
\* neither a record nor the lines of a metadata file.
Plain ==
    /\ Failing = {}
    /\ \A f \in File : \A k \in DOMAIN Pieces[f] : Pieces[f][k] # NoContent
    /\ \A f \in File : NoFile \notin [DOMAIN Pieces[f] -> SUBSET Endpoint]
    /\ \A p \in Endpoint : NoFile \notin Seq(Entry(p))

\* Pieces of files are all that is stored.
Ordered(m) ==
    m.type = "STORE" => \E f \in File : \E k \in DOMAIN Pieces[f] : m.content = Pieces[f][k]

AllOrdered == \A m \in net : Ordered(m)

LEMMA StepOrdered ==
    ASSUME Inv, NEW p \in Endpoint, Step(p), NEW r \in net' \ net
    PROVE  Ordered(r)
<1>1. ASSUME net' \subseteq net PROVE Ordered(r)
  BY <1>1
<1>2. ASSUME NEW m, FirstResponse(p, m) \/ FirstResponseInvalid(p, m) PROVE Ordered(r)
  BY <1>1, <1>2 DEF FirstResponse, FirstResponseInvalid, Dies, HandleStoreCut
<1>3. ASSUME NEW id, InsertNext(p, id) \/ KeepWaiting(p, id) PROVE Ordered(r)
  BY <1>1, <1>3 DEF InsertNext, KeepWaiting, recvVars
<1>4. ASSUME NEW id, LookupSend(p, id) PROVE Ordered(r)
  BY <1>4 DEF LookupSend, Request, Ordered
<1>5. ASSUME NEW id, NEW m, \/ LookupTake(p, id, m) \/ LookupDiscard(p, id, m)
                            \/ WaitTake(p, id, m) \/ WaitMismatch(p, id, m)
      PROVE  Ordered(r)
  BY <1>1, <1>5 DEF LookupTake, LookupDiscard, WaitTake, WaitMismatch, recvVars
<1>6. ASSUME InsertOwnId(p) \/ FirstResponseTimeout(p) \/ StorePieceFails(p)
      PROVE  Ordered(r)
  BY <1>1, <1>6 DEF InsertOwnId, FirstResponseTimeout, StorePieceFails, Dies,
     HandleStoreCut, recvVars
<1>7. ASSUME \/ NextPass(p) \/ BootstrapLookupDone(p) \/ StorePiece(p)
             \/ StoreWaitDone(p) \/ RecordMetadata(p)
      PROVE  Ordered(r)
  BY <1>1, <1>7 DEF NextPass, BootstrapLookupDone, StorePiece, StoreWaitDone,
     RecordMetadata, recvVars
<1>8. ASSUME StoreLookupDone(p) PROVE Ordered(r)
  <2> DEFINE t == main[p]
  <2>1. /\ t.file \in File /\ t.entries \in Seq(Entry(p))
        /\ Len(t.entries) < Len(Pieces[t.file])
        /\ Pieces[t.file] \in Seq(Content \cup {NoContent})
    BY <1>8, FilesAssumption DEF StoreLookupDone, Inv, Threads, Thread, Storing, Local
  <2>2. Len(t.entries) + 1 \in DOMAIN Pieces[t.file]
    BY <2>1, LenProperties
  <2>3. r.content = Pieces[t.file][Len(t.entries) + 1]
    BY <1>8 DEF StoreLookupDone, Request, CurrentPiece
  <2> QED  BY <2>1, <2>2, <2>3 DEF Ordered
<1>9. ASSUME RetrieveWaitDone(p) \/ RetrieveWaitFails(p) \/ WriteBack(p) PROVE Ordered(r)
  BY <1>1, <1>9, RetrieveWaitDoneIs DEF RetrieveWaitFails, WriteBack, recvVars
<1>10. ASSUME RetrievePiece(p) PROVE Ordered(r)
  BY <1>10 DEF RetrievePiece, Request, Ordered
<1> QED  BY <1>2, <1>3, <1>4, <1>5, <1>6, <1>7, <1>8, <1>9, <1>10 DEF Step

LEMMA NextOrdered == Inv /\ AllOrdered /\ [Next]_vars => AllOrdered'
<1> SUFFICES ASSUME Inv, AllOrdered, [Next]_vars, NEW r \in net' \ net PROVE Ordered(r)
  BY DEF AllOrdered, Ordered
<1>1. ASSUME net' \subseteq net PROVE Ordered(r)
  BY <1>1
<1>2. ASSUME NEW p \in Endpoint, Receive(p) PROVE Ordered(r)
  <2>1. PICK m \in net : Handle(p, m)
    BY <1>2 DEF Receive
  <2>2. net' \subseteq net \/ (m.type \in Requests /\ r.type = ReplyType[m.type])
    BY <2>1 DEF Handle, HandleStore, HandleFindNode, HandleFindValue, HandleResponse,
       Answer, Reply, Requests
  <2> QED  BY <1>1, <2>2, ReplyTypes DEF Ordered, Requests
<1>3. ASSUME NEW p \in Endpoint, Step(p) PROVE Ordered(r)
  BY <1>3, StepOrdered
<1>4. ASSUME NEW p \in Endpoint, Stop(p) \/ FindNodeOwnId(p) \/ ReceiveFails(p)
      PROVE  Ordered(r)
  BY <1>1, <1>4 DEF Stop, FindNodeOwnId, ReceiveFails, Dies, HandleStoreCut
<1>5. ASSUME NEW p, Begin(p) PROVE Ordered(r)
  BY <1>1, <1>5 DEF Begin, Start, StartBoot, Request, Ordered
<1>6. ASSUME NEW p, GivesUp(p) PROVE Ordered(r)
  BY <1>1, <1>6 DEF GivesUp, GiveUp, recvVars
<1>7. ASSUME NEW p, Command(p) PROVE Ordered(r)
  <2>1. ASSUME NEW f, StoreCommand(p, f) \/ RetrieveCommand(p, f) PROVE Ordered(r)
    BY <1>1, <2>1 DEF StoreCommand, RetrieveCommand, recvVars
  <2>2. ASSUME RetrieveDirectory(p) PROVE Ordered(r)
    BY <1>1, <2>2 DEF RetrieveDirectory, recvVars
  <2> QED  BY <1>7, <2>1, <2>2 DEF Command
<1>8. ASSUME Bounced \/ Lost \/ UNCHANGED vars PROVE Ordered(r)
  BY <1>1, <1>8 DEF Bounced, Lost, Bounce, Lose, vars, recvVars
<1> QED  BY <1>2, <1>3, <1>4, <1>5, <1>6, <1>7, <1>8 DEF Next

\* What a FileStore sees of the metadata files.
Holders(lines) == [k \in DOMAIN lines |-> {n.ep : n \in lines[k].nodes}]

KeptThere == [q \in Endpoint |-> Range(disk[q]) \ {NoContent}]

RecordedThere ==
    [p \in Endpoint |-> [f \in File |->
        IF f \in Known(p) THEN Holders(metadata[p][f]) ELSE NoFile]]

\* The actions of FileStore, told in these terms.
LEMMA KeepIs ==
    ASSUME NEW p \in Endpoint
    PROVE  Store!Keep(p) <=>
              /\ \E f \in File : \E k \in DOMAIN Pieces[f] :
                    KeptThere' = [KeptThere EXCEPT ![p] = @ \cup {Pieces[f][k]}]
              /\ RecordedThere' = RecordedThere /\ retrieved' = retrieved
  BY DEF Store!Keep, KeptThere, RecordedThere, Holders

LEMMA RecordIs ==
    ASSUME NEW p \in Endpoint, NEW f \in File
    PROVE  Store!Record(p, f) <=>
              /\ \E holders \in [DOMAIN Pieces[f] -> SUBSET Endpoint] :
                    /\ Store!Truthful(f, holders)
                    /\ RecordedThere' = [RecordedThere EXCEPT ![p][f] = holders]
              /\ KeptThere' = KeptThere /\ retrieved' = retrieved
  BY DEF Store!Record, KeptThere, RecordedThere, Holders

LEMMA DeliverIs ==
    ASSUME NEW p \in Endpoint, NEW f \in File
    PROVE  Store!Deliver(p, f) <=>
              /\ Store!Available(p, f)
              /\ retrieved' = [retrieved EXCEPT ![p][f] = Pieces[f]]
              /\ KeptThere' = KeptThere /\ RecordedThere' = RecordedThere
  BY DEF Store!Deliver, KeptThere, RecordedThere, Holders

LEMMA InitOrdered == Init => AllOrdered
  BY DEF Init, AllOrdered

LEMMA RefinesInit == Init => Store!Init
<1> SUFFICES ASSUME Init PROVE Store!Init
  OBVIOUS
<1>1. \A q \in Endpoint : Range(disk[q]) \ {NoContent} = {}
  <2> SUFFICES ASSUME NEW q \in Endpoint, NEW c \in Range(disk[q]) PROVE c = NoContent
    OBVIOUS
  <2>1. disk[q] = [key \in ID |-> NoContent]
    BY DEF Init
  <2> QED  BY <2>1 DEF Range
<1>2. \A p \in Endpoint : \A f \in File : f \notin Known(p)
  BY DEF Init, Known
<1>3. retrieved = [p \in Endpoint |-> [f \in File |-> NoFile]]
  BY DEF Init
<1> QED  BY <1>1, <1>2, <1>3 DEF Store!Init

\* Steps that touch no disk, no metadata file and no retrieved file.
LEMMA UnseenStutters ==
    ASSUME UNCHANGED <<disk, metadata, retrieved>>
    PROVE  UNCHANGED Store!vars
  BY DEF Store!vars, Known

\* handle_store_request keeps a piece of some file, and loses none by it.
LEMMA RefinesKeep ==
    ASSUME Inv, DistinctHashes, Plain, AllOrdered, NEW p \in Endpoint, NEW m \in net,
           HandleStore(p, m), UNCHANGED <<metadata, retrieved>>
    PROVE  Store!Keep(p)
<1>1. /\ m.to = p /\ m.type = "STORE" /\ disk' = Written(m)
      /\ m \in Datagram
  BY DEF HandleStore, Receives, AfterStorePiece, Plain, Inv, RecvInv
<1>2. PICK f \in File : \E k \in DOMAIN Pieces[f] : m.content = Pieces[f][k]
  BY <1>1 DEF AllOrdered, Ordered
<1>3. PICK k \in DOMAIN Pieces[f] : m.content = Pieces[f][k]
  BY <1>2
<1> DEFINE c   == m.content
           key == m.key
<1>4. /\ c \in Content \cup {NoContent} /\ key \in ID /\ HashOf[c] = key
      /\ c # NoContent
  BY <1>1, <1>3 DEF Datagram, Message, Plain
<1>5. disk \in [Endpoint -> Disk]
  BY DEF Inv, RecvInv
<1>6. disk[p] \in [ID -> Content \cup {NoContent}] /\ disk[p][key] \in {NoContent, c}
  BY <1>4, <1>5 DEF Disk, DistinctHashes
<1>7. /\ \A q \in Endpoint : q # p => disk'[q] = disk[q]
      /\ disk'[p] = [disk[p] EXCEPT ![key] = c]
  BY <1>1, <1>5 DEF Written
<1> HIDE DEF c, key
<1>8. Range(disk'[p]) \ {NoContent} = (Range(disk[p]) \ {NoContent}) \cup {c}
  <2> DEFINE d == disk[p]
             e == disk'[p]
  <2>1. d \in [ID -> Content \cup {NoContent}] /\ e = [d EXCEPT ![key] = c]
        /\ d[key] \in {NoContent, c}
    BY <1>6, <1>7
  <2> HIDE DEF d, e
  <2>2. DOMAIN d = ID /\ DOMAIN e = ID /\ e[key] = c
        /\ \A i \in ID : i # key => e[i] = d[i]
    BY <1>4, <2>1
  <2>3. Range(e) \ {NoContent} = (Range(d) \ {NoContent}) \cup {c}
    BY <1>4, <2>1, <2>2 DEF Range
  <2> QED  BY <2>3 DEF d, e
<1>9. KeptThere' = [KeptThere EXCEPT ![p] = @ \cup {c}]
  BY <1>7, <1>8 DEF KeptThere
<1>10. c = Pieces[f][k]
  BY <1>3 DEF c
<1>11. RecordedThere' = RecordedThere
  BY DEF RecordedThere, Known
<1> QED  BY <1>9, <1>10, <1>11, KeepIs

\* The nodes of a line keep its piece, where no copy can be gone.
LEMMA HoldersKeep ==
    ASSUME Plain, NobodyEnded, NEW p \in Endpoint, NEW f \in File,
           NEW lines \in Seq(Entry(p)), HoldsPiece(f, lines),
           Complete(f, lines), Inv
    PROVE  /\ DOMAIN lines = DOMAIN Pieces[f]
           /\ Holders(lines) \in [DOMAIN Pieces[f] -> SUBSET Endpoint]
           /\ \A k \in DOMAIN Pieces[f] : \A q \in Holders(lines)[k] :
                  Pieces[f][k] \in KeptThere[q]
<1>1. Pieces[f] \in Seq(Content \cup {NoContent}) /\ Len(lines) = Len(Pieces[f])
  BY FilesAssumption DEF Complete
<1>2. DOMAIN lines = DOMAIN Pieces[f]
  BY <1>1, LenProperties
<1>3. ASSUME NEW k \in DOMAIN lines, NEW n \in lines[k].nodes
      PROVE  n.ep \in Endpoint /\ Pieces[f][k] \in KeptThere[n.ep]
  <2>1. lines[k] \in Entry(p)
    BY ElementOfSeq
  <2>2. n.ep \in Endpoint /\ lines[k].key \in ID
    BY <2>1 DEF Entry, Peers, Paired, Node
  <2>3. disk[n.ep] \in Disk
    BY <2>2 DEF Inv, RecvInv
  <2>4. Pieces[f][k] # NoContent /\ disk[n.ep][lines[k].key] = Pieces[f][k]
    BY <1>2, <2>2 DEF HoldsPiece, MayHaveLost, Plain, NobodyEnded
  <2>5. Pieces[f][k] \in Range(disk[n.ep])
    BY <2>2, <2>3, <2>4 DEF Disk, Range
  <2> QED  BY <2>2, <2>4, <2>5 DEF KeptThere
<1>4. ASSUME NEW k \in DOMAIN lines
      PROVE  /\ Holders(lines)[k] = {n.ep : n \in lines[k].nodes}
             /\ Holders(lines)[k] \in SUBSET Endpoint
             /\ \A q \in Holders(lines)[k] : Pieces[f][k] \in KeptThere[q]
  BY <1>3 DEF Holders
<1>5. Holders(lines) = [k \in DOMAIN Pieces[f] |-> Holders(lines)[k]]
  BY <1>2 DEF Holders
<1> HIDE DEF Holders
<1>6. Holders(lines) \in [DOMAIN Pieces[f] -> SUBSET Endpoint]
  BY <1>2, <1>4, <1>5
<1> QED  BY <1>2, <1>4, <1>6

\* store_file writes a record.
LEMMA RefinesRecord ==
    ASSUME Inv, AllIntact, DistinctHashes, Plain, NobodyEnded,
           NEW p \in Endpoint, RecordMetadata(p), NEW f \in File, f = main[p].file
    PROVE  Store!Record(p, f)
<1> DEFINE t == main[p]
           lines == main[p].entries
<1>1. /\ lines \in Seq(Entry(p)) /\ Held(lines) /\ Storing(t)
      /\ t.op = "store" /\ Complete(f, lines)
  BY DEF RecordMetadata, Recording, Inv, Threads, Thread, Control, Storing, Local,
     AllIntact, Intact, Complete
<1>2. /\ metadata' = [metadata EXCEPT ![p][f] = lines]
      /\ UNCHANGED <<disk, retrieved>>
  BY DEF RecordMetadata, recvVars
<1> HIDE DEF lines
<1>3. HoldsPiece(f, lines)
  <2>1. Pieces[f] \in Seq(Content \cup {NoContent}) /\ Len(lines) = Len(Pieces[f])
    BY <1>1, FilesAssumption DEF Complete
  <2>2. DOMAIN lines = DOMAIN Pieces[f]
    BY <1>1, <2>1, LenProperties
  <2> QED  BY <1>1, <2>2, HeldHolds DEF Complete
<1>4. /\ Holders(lines) \in [DOMAIN Pieces[f] -> SUBSET Endpoint]
      /\ \A k \in DOMAIN Pieces[f] : \A q \in Holders(lines)[k] :
             Pieces[f][k] \in KeptThere[q]
  BY <1>1, <1>3, HoldersKeep
<1>5. Store!Truthful(f, Holders(lines))
  BY <1>4 DEF Store!Truthful, KeptThere
<1>6. RecordedThere' = [RecordedThere EXCEPT ![p][f] = Holders(lines)]
  <2>1. lines # NoFile
    BY <1>1 DEF Plain
  <2>2. /\ metadata'[p][f] = lines
        /\ \A u \in Endpoint, g \in File :
              u # p \/ g # f => metadata'[u][g] = metadata[u][g]
    BY <1>1, <1>2 DEF Inv, FilesOK
  <2>3. /\ RecordedThere'[p][f] = Holders(lines)
        /\ \A u \in Endpoint, g \in File :
              u # p \/ g # f => RecordedThere'[u][g] = RecordedThere[u][g]
    BY <1>1, <2>1, <2>2 DEF RecordedThere, Known
  <2>4. /\ RecordedThere = [u \in Endpoint |-> [g \in File |-> RecordedThere[u][g]]]
        /\ RecordedThere' = [u \in Endpoint |-> [g \in File |-> RecordedThere'[u][g]]]
    BY DEF RecordedThere
  <2> HIDE DEF RecordedThere, Holders
  <2> QED  BY <1>1, <2>3, <2>4
<1>7. KeptThere' = KeptThere
  BY <1>2 DEF KeptThere
<1>8. \E holders \in [DOMAIN Pieces[f] -> SUBSET Endpoint] :
        /\ Store!Truthful(f, holders)
        /\ RecordedThere' = [RecordedThere EXCEPT ![p][f] = holders]
  BY <1>4, <1>5, <1>6
<1> QED  BY <1>2, <1>7, <1>8, RecordIs

\* retrieve_file writes the pieces, and every line it read them from has a node.
LEMMA RefinesDeliver ==
    ASSUME Inv, AllIntact, DistinctHashes, Plain, NobodyEnded,
           NEW p \in Endpoint, WriteBack(p), NEW f \in File, f = main[p].file
    PROVE  Store!Deliver(p, f)
<1> DEFINE t     == main[p]
           lines == metadata[p][f]
           got   == main[p].contents
<1>1. /\ t.op = "retrieve" /\ Len(got) = Len(lines) /\ got \in Seq(Content)
      /\ Fetched(t, lines) /\ lines # NoFile /\ FileOK(p, f, lines, fault[p])
      /\ Held(lines)
  BY DEF WriteBack, WritingBack, Inv, Threads, Thread, Control, Retrieving, Local, FilesOK,
     AllIntact, Intact
<1>2. lines \in Seq(Entry(p)) /\ Complete(f, lines)
  BY <1>1 DEF FileOK, NobodyEnded
<1>3. \A k \in DOMAIN got : HashOf[got[k]] = lines[k].key /\ lines[k].nodes # {}
  BY <1>1 DEF Fetched
<1>4. /\ retrieved' = [retrieved EXCEPT ![p][f] = got]
      /\ UNCHANGED <<disk, metadata>>
  BY DEF WriteBack, recvVars
<1> HIDE DEF lines, got
<1>5. /\ Pieces[f] \in Seq(Content \cup {NoContent}) /\ Len(lines) = Len(Pieces[f])
      /\ DOMAIN lines = DOMAIN Pieces[f] /\ DOMAIN got = DOMAIN Pieces[f]
      /\ DOMAIN got = 1 .. Len(got)
  BY <1>1, <1>2, FilesAssumption, LenProperties DEF Complete
<1>6. \A k \in DOMAIN lines : lines[k].key = HashOf[Pieces[f][k]]
  BY <1>2 DEF Complete
<1>7. got = Pieces[f]
  <2>1. ASSUME NEW k \in DOMAIN got PROVE got[k] = Pieces[f][k]
    <3>1. got[k] \in Content \cup {NoContent}
      BY <1>1, ElementOfSeq
    <3> QED  BY <1>3, <1>5, <1>6, <3>1, PieceOfHash
  <2>2. got \in Seq(Content \cup {NoContent})
    BY <1>1
  <2> QED  BY <1>1, <1>5, <2>1, <2>2, SeqEqual
<1>8. HoldsPiece(f, lines)
  BY <1>1, <1>2, <1>5, <1>6, HeldHolds
<1>9. \A k \in DOMAIN Pieces[f] : \A q \in Holders(lines)[k] :
          Pieces[f][k] \in KeptThere[q]
  BY <1>2, <1>8, HoldersKeep
<1>10. \A k \in DOMAIN Pieces[f] : Holders(lines)[k] # {}
  BY <1>3, <1>5 DEF Holders
<1>11. RecordedThere[p][f] = Holders(lines) /\ Holders(lines) # NoFile
  <2>1. Holders(lines) \in [DOMAIN Pieces[f] -> SUBSET Endpoint]
    BY <1>2, <1>8, HoldersKeep
  <2> QED  BY <1>1, <2>1 DEF RecordedThere, Known, Plain, lines
<1>12. \A k \in DOMAIN Pieces[f] : \E q \in RecordedThere[p][f][k] :
           Pieces[f][k] \in KeptThere[q]
  BY <1>9, <1>10, <1>11
<1>13. Store!Available(p, f)
  <2>1. RecordedThere[p][f] # NoFile
    BY <1>11
  <2> QED  BY <1>12, <2>1 DEF Store!Available, RecordedThere, KeptThere, Holders
<1>14. KeptThere' = KeptThere /\ RecordedThere' = RecordedThere
  BY <1>4 DEF KeptThere, RecordedThere, Known
<1> QED  BY <1>4, <1>7, <1>13, <1>14, DeliverIs

\* Whoever ends leaves a fault.
LEMMA EndLeavesFault ==
    ASSUME Inv, NEW p \in Endpoint, NEW why \in Ends, Terminate(p, why)
    PROVE  ~NobodyEnded'
<1>1. fault'[p] = why /\ why # "none"
  BY DEF Terminate, Inv, FilesOK, Ends
<1> QED  BY <1>1 DEF NobodyEnded

\* What users see makes a step of the abstract store, or none.
Follows == Store!Next \/ UNCHANGED Store!vars

LEMMA StepRefines ==
    ASSUME Inv, AllIntact, DistinctHashes, Plain, NobodyEnded, NobodyEnded',
           NEW p \in Endpoint, Step(p)
    PROVE  Follows
<1> USE DEF Follows
<1>1. ASSUME NEW why \in Ends, Dies(p, why) PROVE Follows
  BY <1>1, EndLeavesFault DEF Dies
<1>2. ASSUME UNCHANGED <<disk, metadata, retrieved>> PROVE Follows
  BY <1>2, UnseenStutters
<1> HIDE DEF Follows, NobodyEnded
<1>3. ASSUME NEW m, FirstResponse(p, m) \/ FirstResponseInvalid(p, m) PROVE Follows
  BY <1>1, <1>2, <1>3 DEF FirstResponse, FirstResponseInvalid, Ends
<1>4. ASSUME NEW id, InsertNext(p, id) \/ LookupSend(p, id) \/ KeepWaiting(p, id)
      PROVE  Follows
  BY <1>2, <1>4 DEF InsertNext, LookupSend, KeepWaiting, recvVars
<1>5. ASSUME NEW id, NEW m, \/ LookupTake(p, id, m) \/ LookupDiscard(p, id, m)
                            \/ WaitTake(p, id, m) \/ WaitMismatch(p, id, m)
      PROVE  Follows
  BY <1>2, <1>5 DEF LookupTake, LookupDiscard, WaitTake, WaitMismatch, recvVars
<1>6. ASSUME InsertOwnId(p) \/ FirstResponseTimeout(p) PROVE Follows
  BY <1>1, <1>2, <1>6 DEF InsertOwnId, FirstResponseTimeout, recvVars, Ends
<1>7. ASSUME StorePieceFails(p) PROVE Follows
  BY <1>1, <1>7 DEF StorePieceFails, StorePieceFault, Ends
<1>8. ASSUME \/ NextPass(p) \/ BootstrapLookupDone(p) \/ StorePiece(p)
             \/ StoreLookupDone(p) \/ StoreWaitDone(p)
      PROVE  Follows
  BY <1>2, <1>8 DEF NextPass, BootstrapLookupDone, StorePiece, StoreLookupDone,
     StoreWaitDone, recvVars
<1>9. ASSUME RetrievePiece(p) \/ RetrieveWaitDone(p) \/ RetrieveWaitFails(p)
      PROVE  Follows
  BY <1>2, <1>9, RetrieveWaitDoneIs DEF RetrievePiece, RetrieveWaitFails, recvVars
<1>10. ASSUME RecordMetadata(p) PROVE Follows
  <2>1. main[p].file \in File
    BY <1>10 DEF RecordMetadata, Recording, Inv, Threads, Thread, Control, Storing
  <2>2. PICK f \in File : f = main[p].file
    BY <2>1
  <2>3. Store!Record(p, f)
    BY <1>10, <2>2, RefinesRecord
  <2> QED  BY <2>3 DEF Follows, Store!Next
<1>11. ASSUME WriteBack(p) PROVE Follows
  <2>1. main[p].file \in File
    BY <1>11 DEF WriteBack, WritingBack, Inv, Threads, Thread, Control, Retrieving
  <2>2. PICK f \in File : f = main[p].file
    BY <2>1
  <2>3. Store!Deliver(p, f)
    BY <1>11, <2>2, RefinesDeliver
  <2> QED  BY <2>3 DEF Follows, Store!Next
<1> QED  BY <1>3, <1>4, <1>5, <1>6, <1>7, <1>8, <1>9, <1>10, <1>11 DEF Step

LEMMA NextRefines ==
    ASSUME Inv, AllIntact, AllOrdered, DistinctHashes, Plain, NobodyEnded, NobodyEnded',
           [Next]_vars
    PROVE  Follows
<1>1. ASSUME UNCHANGED <<disk, metadata, retrieved>> PROVE Follows
  BY <1>1, UnseenStutters DEF Follows
<1> HIDE DEF Follows
<1>2. ASSUME NEW p \in Endpoint, Receive(p) PROVE Follows
  <2>1. PICK m \in net : Handle(p, m)
    BY <1>2 DEF Receive
  <2>2. UNCHANGED <<metadata, retrieved>>
    BY <1>2 DEF Receive, mainVars
  <2>3. CASE HandleStore(p, m)
    <3>1. Store!Keep(p)
      BY <2>2, <2>3, RefinesKeep
    <3> QED  BY <3>1 DEF Follows, Store!Next
  <2>4. CASE HandleFindNode(p, m) \/ HandleFindValue(p, m) \/ HandleResponse(p, m)
    BY <1>1, <2>2, <2>4 DEF HandleFindNode, HandleFindValue, HandleResponse
  <2> QED  BY <2>1, <2>3, <2>4 DEF Handle
<1>3. ASSUME NEW p \in Endpoint, Step(p) PROVE Follows
  BY <1>3, StepRefines
<1>4. ASSUME NEW p \in Endpoint, Stop(p) \/ FindNodeOwnId(p) PROVE Follows
  BY <1>4, EndLeavesFault DEF Stop, Dies, FindNodeOwnId, Ends
<1>5. ASSUME NEW p, Begin(p) \/ GivesUp(p) PROVE Follows
  BY <1>1, <1>5 DEF Begin, Start, StartBoot, GivesUp, GiveUp, recvVars
<1>6. ASSUME NEW p, Command(p) PROVE Follows
  <2>1. ASSUME NEW f, StoreCommand(p, f) \/ RetrieveCommand(p, f) PROVE Follows
    BY <1>1, <2>1 DEF StoreCommand, RetrieveCommand, recvVars
  <2>2. ASSUME RetrieveDirectory(p) PROVE Follows
    BY <1>1, <2>2 DEF RetrieveDirectory, recvVars
  <2> QED  BY <1>6, <2>1, <2>2 DEF Command
<1>7. ASSUME \/ Bounced \/ Lost \/ UNCHANGED vars
             \/ \E p \in Endpoint : ReceiveFails(p)
      PROVE  Follows
  BY <1>1, <1>7 DEF Bounced, Lost, Bounce, Lose, ReceiveFails, vars, recvVars, mainVars
<1> QED  BY <1>2, <1>3, <1>4, <1>5, <1>6, <1>7 DEF Next

(***************************************************************************)
(* With answers in time and nobody ended, users see a FileStore: a stored  *)
(* file is recorded with nodes that keep its pieces, retrieve yields that  *)
(* file or nothing, and whatever else the threads do is not seen.          *)
(***************************************************************************)
THEOREM RefinesFileStore ==
    ASSUME ~Late, DistinctHashes, Plain
    PROVE  Spec /\ []NobodyEnded => IsFileStore
<1> DEFINE All == SoFar /\ AllIntact
<1>1. Init => AllOrdered
  BY InitOrdered
<1>2. All /\ AllOrdered /\ [Next]_vars => AllOrdered'
  BY NextOrdered DEF SoFar
<1>3. All /\ AllOrdered /\ NobodyEnded /\ NobodyEnded' /\ [Next]_vars
          => [Store!Next]_(Store!vars)
  BY NextRefines DEF SoFar, Follows
<1>4. Init => Store!Init
  BY RefinesInit
<1>5. Spec => []All
  BY Integrity
<1> HIDE DEF All
<1> QED  BY <1>1, <1>2, <1>3, <1>4, <1>5, PTL DEF Spec, IsFileStore, Store!Spec

=============================================================================
