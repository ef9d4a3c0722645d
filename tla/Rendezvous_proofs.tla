-------------------------- MODULE Rendezvous_proofs --------------------------
(***************************************************************************)
(* The rendezvous server links registrations in pairs, clients are told of *)
(* those they were linked to, and only loss leaves a client waiting: for   *)
(* any number of clients, starts, losses and ends, whatever users enter.   *)
(***************************************************************************)
EXTENDS Rendezvous, FiniteSetTheorems, TLAPS

LEMMA InitTypeOK == Init => TypeOK
<1>. SUFFICES ASSUME Init PROVE TypeOK
  OBVIOUS
<1>1. 0 \in 0 .. MaxStarts /\ 0 \in 0 .. MaxLosses
  BY RendezvousAssumption
<1>2. AnIdent \in Ident
  BY RendezvousAssumption DEF AnIdent
<1>. QED
  BY <1>1, <1>2 DEF Init, TypeOK, Address

\* A step of the server keeps the types.
LEMMA ServeTypeOK == TypeOK /\ Serve => TypeOK'
<1>. SUFFICES ASSUME TypeOK, NEW m \in net, Register(m) \/ Link(m) \/ ServerThrows(m)
              PROVE  TypeOK'
  BY DEF Serve
<1>1. Number(m) # NotANumber => m \in Registration
  BY DEF TypeOK, Number, Answers, Plain
<1>2. CASE Register(m)
  BY <1>1, <1>2 DEF Register, TypeOK, clientVars, Arrives
<1>3. CASE Link(m)
  <2>1. PICK r \in Waiting(m) :
           /\ net' = (net \ {m}) \cup Told(r, m)
           /\ current' = Erased(r)
           /\ links' = links \cup {{r, m}}
    BY <1>3 DEF Link
  <2>2. r \in Registration /\ m \in Registration
    BY <1>1, <1>3 DEF Link, Waiting, TypeOK
  <2>3. Told(r, m) \subseteq Answers
    BY <2>2 DEF Told, Telling, Answers, Registration
  <2>. QED
    BY <1>3, <2>1, <2>2, <2>3 DEF Link, TypeOK, clientVars, Erased
<1>4. CASE ServerThrows(m)
  BY <1>4 DEF ServerThrows, TypeOK, clientVars
<1>. QED
  BY <1>2, <1>3, <1>4

\* A client that ends keeps the types.
LEMMA EndedTypeOK ==
    ASSUME TypeOK, NEW c \in Client, Ended(c)
    PROVE  /\ pc' \in [Client -> {"off", "stun", "register", "find", "talking"}]
           /\ presence' \in [Client -> Client \cup {NoPresence}]
           /\ ident' \in [Client -> Ident]
           /\ endpoint' \in [Client -> Client \cup {NoPresence, Text}]
           /\ peer' \in [Client -> Address]
<1>1. AnIdent \in Ident
  BY RendezvousAssumption DEF AnIdent
<1>. QED
  BY <1>1 DEF Ended, TypeOK, Address

\* What a client sends has the type of a datagram.
LEMMA HelloType ==
    ASSUME NEW c \in Client, NEW a \in Address
    PROVE  Plainly("hello", c, a) \in Plain /\ Plainly("binding", c, a) \in Plain
  BY DEF Plainly, Plain

\* A datagram that a client takes from its socket.
LEMMA TakeTypeOK ==
    ASSUME TypeOK, NEW c \in Client, NEW m \in net, Take(c, m)
    PROVE  TypeOK'
<1>1. CASE TakeStun(c, m)
  <2>1. m.presence \in Client \cup {NoPresence}
    BY <1>1 DEF TakeStun, TypeOK, Registration, Answers, Plain
  <2>. QED
    BY <1>1, <2>1 DEF TakeStun, TypeOK, serverVars
<1>2. CASE StunMismatch(c, m)
  BY <1>2, EndedTypeOK DEF StunMismatch, TypeOK, serverVars
<1>3. CASE TakeEndpoint(c, m)
  <2>1. PICK a \in PeerAddress(presence[c], TextOf(m)) :
           /\ peer' = [peer EXCEPT ![c] = a]
           /\ net' = (net \ {m}) \cup {Plainly("hello", c, a)}
    BY <1>3 DEF TakeEndpoint
  <2>2. a \in Address
    BY <2>1 DEF PeerAddress, TypeOK, Address
  <2>3. TextOf(m) \in Client \cup {NoPresence, Text}
    BY DEF TextOf, TypeOK, Registration, Answers, Plain
  <2>. QED
    BY <1>3, <2>1, <2>2, <2>3, HelloType DEF TakeEndpoint, TypeOK, serverVars
<1>4. CASE TakeEndpointThrows(c, m)
  BY <1>4, EndedTypeOK DEF TakeEndpointThrows, TypeOK, serverVars
<1>5. CASE Receive(c, m)
  BY <1>5 DEF Receive, TypeOK, clientVars, serverVars
<1>. QED
  BY <1>1, <1>2, <1>3, <1>4, <1>5 DEF Take

\* The other steps of a client.
LEMMA StepTypeOK ==
    ASSUME TypeOK, NEW c \in Client, Step(c)
    PROVE  TypeOK'
<1>1. CASE Start(c)
  <2>1. starts + 1 \in 0 .. MaxStarts
    BY <1>1, RendezvousAssumption DEF Start, TypeOK
  <2>2. Stun \in Address
    BY DEF Address
  <2>. QED
    BY <1>1, <2>1, <2>2, HelloType DEF Start, TypeOK, serverVars
<1>2. CASE SayHello(c)
  BY <1>2, HelloType DEF SayHello, TypeOK, clientVars, serverVars
<1>3. CASE End(c)
  BY <1>3, EndedTypeOK DEF End, TypeOK, serverVars
<1>4. ASSUME NEW i \in Ident, SendRegistration(c, i) PROVE TypeOK'
  <2>. DEFINE m == [type |-> "register", from |-> c, to |-> Server,
                    run |-> run[c], ident |-> i, presence |-> presence[c]]
  <2>1. m \in Registration
    BY DEF TypeOK, Registration
  <2>. QED
    BY <1>4, <2>1 DEF SendRegistration, TypeOK, serverVars
<1>. QED
  BY <1>1, <1>2, <1>3, <1>4, TakeTypeOK DEF Step

\* What the STUN server and the network do.
LEMMA NetworkTypeOK ==
    ASSUME TypeOK, NEW m \in net, StunAnswers(m) \/ Bounce(m) \/ Lose(m)
    PROVE  TypeOK'
<1>1. CASE StunAnswers(m)
  <2>1. PICK p \in {m.from, NoPresence} :
           net' = (net \ {m}) \cup {Telling("stun", Stun, m.from, p)}
    BY <1>1 DEF StunAnswers
  <2>2. m.from \in Client
    BY <1>1 DEF StunAnswers, TypeOK, Registration, Answers, Plain
  <2>3. Telling("stun", Stun, m.from, p) \in Answers
    BY <2>2 DEF Telling, Answers
  <2>. QED
    BY <1>1, <2>1, <2>3 DEF StunAnswers, TypeOK, clientVars, serverVars
<1>2. CASE Bounce(m)
  BY <1>2 DEF Bounce, TypeOK, clientVars, serverVars
<1>3. CASE Lose(m)
  <2>1. losses + 1 \in 0 .. MaxLosses
    BY <1>3, RendezvousAssumption DEF Lose, TypeOK
  <2>. QED
    BY <1>3, <2>1 DEF Lose, TypeOK, clientVars, serverVars
<1>. QED
  BY <1>1, <1>2, <1>3

LEMMA NextTypeOK == TypeOK /\ [Next]_vars => TypeOK'
<1>1. TypeOK /\ UNCHANGED vars => TypeOK'
  BY DEF TypeOK, vars, clientVars, serverVars
<1>. QED
  BY <1>1, ServeTypeOK, StepTypeOK, NetworkTypeOK DEF Next

(***************************************************************************)
(* Every variable of the clients, the server and the network has its type. *)
(***************************************************************************)
THEOREM TypeCorrect == Spec => []TypeOK
  BY InitTypeOK, NextTypeOK, PTL DEF Spec

-----------------------------------------------------------------------------
(***************************************************************************)
(* Why a registration is never linked twice: it is in one place at a time, *)
(* on its way, in the server's map, or linked, and a client sends another  *)
(* one only in a later run.                                                *)
(***************************************************************************)
OnItsWay == {m \in net : m.type = "register"}

Sent == OnItsWay \cup current \cup UNION links

InOnePlace == /\ OnItsWay \cap current = {}
              /\ OnItsWay \cap UNION links = {}
              /\ current \cap UNION links = {}

RunsAreNew ==
    /\ \A c \in Client : run[c] <= starts
    /\ \A r \in Sent : /\ r.run <= run[r.from]
                       /\ pc[r.from] \in {"stun", "register"} => r.run < run[r.from]

Pairs == /\ \A l \in links : \E r, s \in l :
               l = {r, s} /\ r # s /\ Number(r) = Number(s)
         /\ \A l, k \in links : l = k \/ l \cap k = {}

PairsInv == TypeOK /\ InOnePlace /\ RunsAreNew /\ Pairs

LEMMA PairsInvInit == Init => PairsInv
<1>1. Init => InOnePlace /\ RunsAreNew /\ Pairs
  BY DEF Init, InOnePlace, RunsAreNew, Pairs, OnItsWay, Sent
<1>. QED
  BY <1>1, InitTypeOK DEF PairsInv

\* A step that sends no registration, leaves server and runs alone, and starts
\* no client.
Quiet == /\ OnItsWay' \subseteq OnItsWay
         /\ UNCHANGED <<current, links, run, starts>>
         /\ \A c \in Client : pc'[c] \in {"stun", "register"} => pc[c] \in {"stun", "register"}

LEMMA QuietKeepsPairs == PairsInv /\ TypeOK' /\ Quiet => PairsInv'
<1>. SUFFICES ASSUME PairsInv, TypeOK', Quiet PROVE PairsInv'
  OBVIOUS
<1>1. Sent' \subseteq Sent /\ \A r \in Sent : r.from \in Client
  BY DEF Quiet, Sent, PairsInv, TypeOK, Registration, OnItsWay, Answers, Plain
<1>2. RunsAreNew'
  BY <1>1 DEF Quiet, PairsInv, RunsAreNew
<1>3. InOnePlace' /\ Pairs'
  BY DEF Quiet, PairsInv, InOnePlace, Pairs, Number
<1>. QED
  BY <1>2, <1>3 DEF PairsInv

\* The server: a registration moves from the network to the map, or to the links
\* together with the one it is linked to.
LEMMA ServeKeepsPairs ==
    ASSUME PairsInv, TypeOK',
           NEW m \in net, Register(m) \/ Link(m) \/ ServerThrows(m)
    PROVE  PairsInv'
<1>1. Number(m) # NotANumber => m \in OnItsWay
  BY DEF Number, OnItsWay
<1>2. CASE Register(m)
  <2>1. OnItsWay' = OnItsWay \ {m} /\ Sent' \subseteq Sent
    BY <1>1, <1>2 DEF Register, OnItsWay, Sent
  <2>2. InOnePlace'
    BY <1>1, <1>2, <2>1 DEF Register, PairsInv, InOnePlace
  <2>3. RunsAreNew'
    BY <1>2, <2>1 DEF Register, clientVars, PairsInv, RunsAreNew
  <2>4. Pairs'
    BY <1>2 DEF Register, PairsInv, Pairs, Number
  <2>. QED
    BY <2>2, <2>3, <2>4 DEF PairsInv
<1>3. CASE Link(m)
  <2>1. PICK r \in Waiting(m) :
           /\ net' = (net \ {m}) \cup Told(r, m)
           /\ current' = Erased(r)
           /\ links' = links \cup {{r, m}}
    BY <1>3 DEF Link
  <2>2. r \in current /\ m \in OnItsWay /\ r # m /\ Number(r) = Number(m)
    BY <1>1, <1>3 DEF Link, Waiting, PairsInv, InOnePlace
  <2>3. OnItsWay' = OnItsWay \ {m}
    BY <2>1 DEF OnItsWay, Told, Telling
  <2>4. /\ current' = current \ {r}
        /\ UNION links' = (UNION links) \cup {r, m}
    BY <2>1 DEF Erased
  <2>. Sent' = Sent
    BY <2>2, <2>3, <2>4 DEF Sent
  <2>5. InOnePlace'
    BY <2>2, <2>3, <2>4 DEF PairsInv, InOnePlace
  <2>6. RunsAreNew'
    BY <1>3, <2>4 DEF Link, clientVars, PairsInv, RunsAreNew
  <2>7. \A l \in links : l \cap {r, m} = {}
    BY <2>2 DEF PairsInv, InOnePlace
  <2>8. Pairs'
    <3>1. ASSUME NEW l \in links'
          PROVE  \E q, s \in l : l = {q, s} /\ q # s /\ Number(q) = Number(s)
      <4>1. CASE l \in links
        BY <4>1 DEF PairsInv, Pairs
      <4>2. CASE l = {r, m}
        BY <4>2, <2>2
      <4>. QED
        BY <4>1, <4>2, <2>1
    <3>2. ASSUME NEW l \in links', NEW k \in links' PROVE l = k \/ l \cap k = {}
      <4>1. CASE l \in links /\ k \in links
        BY <4>1 DEF PairsInv, Pairs
      <4>2. CASE l = {r, m} \/ k = {r, m}
        BY <4>2, <2>1, <2>7
      <4>. QED
        BY <4>1, <4>2, <2>1
    <3>. QED
      BY <3>1, <3>2 DEF Pairs, Number
  <2>. QED
    BY <2>5, <2>6, <2>8 DEF PairsInv
<1>4. CASE ServerThrows(m)
  <2>1. OnItsWay' \subseteq OnItsWay /\ current' = {} /\ links' = links
    BY <1>4 DEF ServerThrows, OnItsWay
  <2>2. Sent' \subseteq Sent
    BY <2>1 DEF Sent
  <2>3. InOnePlace' /\ Pairs'
    BY <2>1 DEF PairsInv, InOnePlace, Pairs, Number
  <2>4. RunsAreNew'
    BY <1>4, <2>2 DEF ServerThrows, clientVars, PairsInv, RunsAreNew
  <2>. QED
    BY <2>3, <2>4 DEF PairsInv
<1>. QED
  BY <1>2, <1>3, <1>4

\* A run that starts is later than all before.
LEMMA StartKeepsPairs ==
    ASSUME PairsInv, TypeOK', NEW c \in Client, Start(c)
    PROVE  PairsInv'
<1>1. OnItsWay' = OnItsWay /\ current' = current /\ links' = links /\ Sent' = Sent
  BY DEF Start, serverVars, OnItsWay, Sent, Plainly
<1>2. InOnePlace' /\ Pairs'
  BY <1>1 DEF PairsInv, InOnePlace, Pairs, Number
<1>3. starts \in Nat /\ starts' = starts + 1
  BY DEF Start, PairsInv, TypeOK
<1>4. \A d \in Client : /\ run[d] \in Nat
                        /\ run'[d] = IF d = c THEN starts + 1 ELSE run[d]
                        /\ pc'[d] = IF d = c THEN "stun" ELSE pc[d]
  BY DEF Start, PairsInv, TypeOK
<1>5. \A r \in Sent : r.from \in Client /\ r.run \in Nat
  BY DEF Sent, PairsInv, TypeOK, Registration, OnItsWay, Answers, Plain
<1>6. RunsAreNew'
  <2>1. \A d \in Client : run'[d] <= starts'
    BY <1>3, <1>4 DEF PairsInv, RunsAreNew
  <2>2. ASSUME NEW r \in Sent
        PROVE  /\ r.run <= run'[r.from]
               /\ pc'[r.from] \in {"stun", "register"} => r.run < run'[r.from]
    <3>1. r.run <= run[r.from] /\ run[r.from] <= starts
      BY <1>5 DEF PairsInv, RunsAreNew
    <3>. QED
      BY <1>3, <1>4, <1>5, <3>1 DEF PairsInv, RunsAreNew
  <2>. QED
    BY <1>1, <2>1, <2>2 DEF RunsAreNew
<1>. QED
  BY <1>2, <1>6 DEF PairsInv

\* The registration a client sends is the first of its run.
LEMMA SendKeepsPairs ==
    ASSUME PairsInv, TypeOK', NEW c \in Client, NEW i \in Ident, SendRegistration(c, i)
    PROVE  PairsInv'
<1>. DEFINE m == [type |-> "register", from |-> c, to |-> Server,
                  run |-> run[c], ident |-> i, presence |-> presence[c]]
<1>1. m \notin Sent
  BY DEF SendRegistration, PairsInv, TypeOK, RunsAreNew
<1>2. /\ OnItsWay' = OnItsWay \cup {m} /\ current' = current /\ links' = links
      /\ Sent' = Sent \cup {m}
  BY DEF SendRegistration, serverVars, OnItsWay, Sent
<1>3. InOnePlace' /\ Pairs'
  BY <1>1, <1>2 DEF PairsInv, InOnePlace, Pairs, Number, Sent
<1>4. \A r \in Sent : r.from \in Client /\ r.run \in Nat
  BY DEF Sent, PairsInv, TypeOK, Registration, OnItsWay, Answers, Plain
<1>5. /\ run' = run /\ starts' = starts
      /\ \A d \in Client : /\ run[d] \in Nat
                           /\ pc'[d] = IF d = c THEN "find" ELSE pc[d]
  BY DEF SendRegistration, PairsInv, TypeOK
<1>6. RunsAreNew'
  BY <1>2, <1>4, <1>5 DEF PairsInv, RunsAreNew
<1>. QED
  BY <1>3, <1>6 DEF PairsInv

\* Everything else a client does is quiet.
LEMMA OthersAreQuiet ==
    ASSUME PairsInv, NEW c \in Client,
           SayHello(c) \/ End(c) \/ \E m \in net : Take(c, m)
    PROVE  Quiet
<1>1. CASE SayHello(c)
  BY <1>1 DEF SayHello, Quiet, OnItsWay, Plainly, clientVars, serverVars
<1>2. CASE End(c)
  BY <1>2 DEF End, Ended, Quiet, OnItsWay, serverVars, PairsInv, TypeOK
<1>3. ASSUME NEW m \in net, Take(c, m) PROVE Quiet
  <2>1. CASE TakeStun(c, m)
    BY <2>1 DEF TakeStun, Quiet, OnItsWay, serverVars, PairsInv, TypeOK
  <2>2. CASE StunMismatch(c, m) \/ TakeEndpointThrows(c, m)
    BY <2>2 DEF StunMismatch, TakeEndpointThrows, Ended, Quiet, OnItsWay,
                serverVars, PairsInv, TypeOK
  <2>3. CASE TakeEndpoint(c, m)
    BY <2>3 DEF TakeEndpoint, Quiet, OnItsWay, Plainly, serverVars, PairsInv, TypeOK
  <2>4. CASE Receive(c, m)
    BY <2>4 DEF Receive, Quiet, OnItsWay, clientVars, serverVars
  <2>. QED
    BY <1>3, <2>1, <2>2, <2>3, <2>4 DEF Take
<1>. QED
  BY <1>1, <1>2, <1>3

\* PairsInv is inductive.
LEMMA PairsInvHolds == Spec => []PairsInv
<1>1. PairsInv /\ [Next]_vars => PairsInv'
  <2>. SUFFICES ASSUME PairsInv, [Next]_vars PROVE PairsInv'
    OBVIOUS
  <2>1. TypeOK'
    BY NextTypeOK DEF PairsInv
  <2>2. CASE UNCHANGED vars
    BY <2>1, <2>2, QuietKeepsPairs DEF vars, clientVars, serverVars, Quiet, OnItsWay
  <2>3. CASE Serve
    BY <2>1, <2>3, ServeKeepsPairs DEF Serve
  <2>4. ASSUME NEW c \in Client, Step(c) PROVE PairsInv'
    BY <2>1, <2>4, StartKeepsPairs, SendKeepsPairs, OthersAreQuiet, QuietKeepsPairs DEF Step
  <2>5. ASSUME NEW m \in net, StunAnswers(m) \/ Bounce(m) \/ Lose(m) PROVE PairsInv'
    <3>1. Quiet
      BY <2>5 DEF StunAnswers, Bounce, Lose, Telling, Quiet, OnItsWay, clientVars, serverVars
    <3>. QED
      BY <2>1, <3>1, QuietKeepsPairs
  <2>. QED
    BY <2>2, <2>3, <2>4, <2>5 DEF Next
<1>. QED
  BY <1>1, PairsInvInit, PTL DEF Spec

(***************************************************************************)
(* LinkedInPairs, for every value of the constants.                        *)
(***************************************************************************)
THEOREM RegistrationsPaired == Spec => []LinkedInPairs
<1>1. PairsInv => LinkedInPairs
  BY DEF PairsInv, InOnePlace, Pairs, LinkedInPairs
<1>. QED
  BY <1>1, PairsInvHolds, PTL

-----------------------------------------------------------------------------
\* The server tells a client only what LinkedTo says, and links are for good.
AnswersTrue == \A m \in net : m.type = "endpoint" => LinkedTo(m.to, m.presence)

ToldInv == PairsInv /\ AnswersTrue /\ ToldOfPartner

\* A step that tells nobody anything new.
LEMMA NothingTold ==
    ASSUME AnswersTrue, ToldOfPartner, links \subseteq links',
           \A m \in net' : m.type = "endpoint" => m \in net,
           \A c \in Client : endpoint'[c] \in {endpoint[c], Text}
    PROVE  AnswersTrue' /\ ToldOfPartner'
  BY DEF AnswersTrue, ToldOfPartner, LinkedTo

LEMMA LinkTellsTruth ==
    ASSUME ToldInv, NEW m \in net, Link(m)
    PROVE  AnswersTrue' /\ ToldOfPartner'
<1>1. PICK r \in Waiting(m) :
         /\ net' = (net \ {m}) \cup Told(r, m)
         /\ links' = links \cup {{r, m}}
  BY DEF Link
<1>2. r # m
  BY DEF Link, Waiting, Number, ToldInv, PairsInv, InOnePlace, OnItsWay
<1>3. LinkedTo(m.from, r.presence)' /\ LinkedTo(r.from, m.presence)'
  <2>1. {r, m} \in links' /\ r \in {r, m} /\ m \in {r, m}
    BY <1>1
  <2>2. LinkedTo(m.from, r.presence)'
    BY <1>2, <2>1 DEF LinkedTo
  <2>3. LinkedTo(r.from, m.presence)'
    BY <1>2, <2>1 DEF LinkedTo
  <2>. QED
    BY <2>2, <2>3
<1>4. \A c, p : LinkedTo(c, p) => LinkedTo(c, p)'
  BY <1>1 DEF LinkedTo
<1>5. AnswersTrue'
  BY <1>1, <1>3, <1>4 DEF AnswersTrue, ToldInv, Told, Telling
<1>6. ToldOfPartner'
  BY <1>4 DEF ToldOfPartner, ToldInv, Link, clientVars
<1>. QED
  BY <1>5, <1>6

LEMMA TakeBelievesTruth ==
    ASSUME ToldInv, NEW c \in Client, NEW m \in net, Take(c, m)
    PROVE  AnswersTrue' /\ ToldOfPartner'
<1>1. CASE TakeEndpoint(c, m)
  <2>1. \A n \in net' : n.type = "endpoint" => n \in net
    BY <1>1 DEF TakeEndpoint, Plainly
  <2>2. AnswersTrue'
    BY <1>1, <2>1 DEF TakeEndpoint, serverVars, ToldInv, AnswersTrue, LinkedTo
  <2>3. TextOf(m) # Text => LinkedTo(c, TextOf(m))'
    BY <1>1 DEF TakeEndpoint, serverVars, TextOf, ToldInv, AnswersTrue, LinkedTo
  <2>4. ASSUME NEW d \in Client, endpoint'[d] # Text PROVE LinkedTo(d, endpoint[d])'
    <3>1. CASE d = c
      BY <1>1, <2>3, <2>4, <3>1 DEF TakeEndpoint, ToldInv, PairsInv, TypeOK
    <3>2. CASE d # c
      BY <1>1, <2>4, <3>2 DEF TakeEndpoint, serverVars, ToldInv, PairsInv, TypeOK,
                              ToldOfPartner, LinkedTo
    <3>. QED
      BY <3>1, <3>2
  <2>. QED
    BY <2>2, <2>4 DEF ToldOfPartner
<1>2. CASE StunMismatch(c, m) \/ TakeEndpointThrows(c, m)
  BY <1>2, NothingTold DEF StunMismatch, TakeEndpointThrows, Ended, serverVars,
                           ToldInv, PairsInv, TypeOK
<1>3. CASE TakeStun(c, m) \/ Receive(c, m)
  BY <1>3, NothingTold DEF TakeStun, Receive, clientVars, serverVars, ToldInv
<1>. QED
  BY <1>1, <1>2, <1>3 DEF Take

(***************************************************************************)
(* ToldOfPartner, for every value of the constants.                        *)
(***************************************************************************)
THEOREM PartnersTold == Spec => []ToldOfPartner
<1>1. Init => ToldInv
  BY PairsInvInit DEF Init, ToldInv, AnswersTrue, ToldOfPartner
<1>2. ToldInv /\ PairsInv' /\ [Next]_vars => ToldInv'
  <2>. SUFFICES ASSUME ToldInv, [Next]_vars PROVE AnswersTrue' /\ ToldOfPartner'
    BY DEF ToldInv
  <2>1. CASE UNCHANGED vars
    BY <2>1, NothingTold DEF vars, clientVars, serverVars, ToldInv
  <2>2. ASSUME NEW m \in net, Register(m) \/ ServerThrows(m)
        PROVE  AnswersTrue' /\ ToldOfPartner'
    BY <2>2, NothingTold DEF Register, ServerThrows, clientVars, ToldInv
  <2>3. ASSUME NEW c \in Client, Start(c) PROVE AnswersTrue' /\ ToldOfPartner'
    BY <2>3, NothingTold DEF Start, Plainly, serverVars, ToldInv
  <2>4. ASSUME NEW c \in Client, NEW i \in Ident, SendRegistration(c, i)
        PROVE  AnswersTrue' /\ ToldOfPartner'
    BY <2>4, NothingTold DEF SendRegistration, serverVars, ToldInv
  <2>5. ASSUME NEW c \in Client, SayHello(c) PROVE AnswersTrue' /\ ToldOfPartner'
    BY <2>5, NothingTold DEF SayHello, Plainly, clientVars, serverVars, ToldInv
  <2>6. ASSUME NEW c \in Client, End(c) PROVE AnswersTrue' /\ ToldOfPartner'
    BY <2>6, NothingTold DEF End, Ended, serverVars, ToldInv, PairsInv, TypeOK
  <2>7. ASSUME NEW m \in net, StunAnswers(m) \/ Bounce(m) \/ Lose(m)
        PROVE  AnswersTrue' /\ ToldOfPartner'
    BY <2>7, NothingTold DEF StunAnswers, Bounce, Lose, Telling, clientVars,
                             serverVars, ToldInv
  <2>. QED
    BY <2>1, <2>2, <2>3, <2>4, <2>5, <2>6, <2>7, LinkTellsTruth, TakeBelievesTruth
       DEF Next, Serve, Step
<1>. QED
  BY <1>1, <1>2, PairsInvHolds, PTL DEF Spec, ToldInv

-----------------------------------------------------------------------------
(***************************************************************************)
(* Why only loss leaves a client waiting: its registration goes from the   *)
(* network to the map, which has room for one of a number only, and from   *)
(* there, or from the network, to a link, with which both are told.        *)
(***************************************************************************)
LossInv == /\ \A r, s \in current : Number(r) = Number(s) => r = s
           /\ serverUp => IsFiniteSet(Forgotten) /\ Cardinality(Forgotten) <= losses

\* What keeps a client that waits from being forgotten.
About(m, d) == \/ m.type = "register" /\ m.from = d
               \/ m.type = "endpoint" /\ m.to = d

\* Nothing that is about anybody but X, waiting clients that is, disappears.
LEMMA OnlyForgets ==
    ASSUME NEW X, UNCHANGED current,
           \A d \in Client \ X : pc'[d] = "find" =>
              /\ pc[d] = "find" /\ run'[d] = run[d]
              /\ \A m \in net : About(m, d) => m \in net'
    PROVE  Forgotten' \subseteq Forgotten \cup X
<1>. SUFFICES ASSUME NEW d \in Client, d \in Forgotten', d \notin X PROVE d \in Forgotten
  BY DEF Forgotten
<1>1. pc'[d] = "find" /\ OfThisRun(d)' = {} /\ AnswersTo(d)' = {}
  BY DEF Forgotten
<1>2. /\ pc[d] = "find" /\ run'[d] = run[d]
      /\ \A m \in net : About(m, d) => m \in net'
  BY <1>1
<1>3. OfThisRun(d) \subseteq OfThisRun(d)' /\ AnswersTo(d) \subseteq AnswersTo(d)'
  BY <1>2 DEF OfThisRun, AnswersTo, About
<1>. QED
  BY <1>1, <1>2, <1>3 DEF Forgotten

\* If nobody is forgotten, the bound stays.
LEMMA NobodyMore ==
    ASSUME TypeOK, LossInv, serverUp' => serverUp, losses' = losses,
           serverUp' => Forgotten' \subseteq Forgotten,
           \A r, s \in current' : Number(r) = Number(s) => r = s
    PROVE  LossInv'
<1>1. \A r, s \in current' : (Number(r) = Number(s))' => r = s
  BY DEF Number
<1>2. ASSUME serverUp'
      PROVE  IsFiniteSet(Forgotten') /\ Cardinality(Forgotten') <= losses'
  <2>1. IsFiniteSet(Forgotten) /\ Cardinality(Forgotten) <= losses
    BY <1>2 DEF LossInv
  <2>2. Forgotten' \subseteq Forgotten
    BY <1>2
  <2>3. /\ IsFiniteSet(Forgotten')
        /\ Cardinality(Forgotten') <= Cardinality(Forgotten)
    BY <2>1, <2>2, FS_Subset
  <2>4. /\ Cardinality(Forgotten) \in Nat /\ Cardinality(Forgotten') \in Nat
        /\ losses \in Nat
    BY <2>1, <2>3, FS_CardinalityType, RendezvousAssumption DEF TypeOK
  <2>. QED
    BY <2>1, <2>3, <2>4
<1>. QED
  BY <1>1, <1>2 DEF LossInv

\* Registering moves a registration into the map, and linking takes two out of it
\* or the network but tells both clients.
LEMMA ServerForgetsNobody ==
    ASSUME TypeOK, LossInv, NEW m \in net, Register(m) \/ Link(m) \/ ServerThrows(m)
    PROVE  LossInv'
<1>1. Server \notin Client
  BY RendezvousAssumption
<1>2. CASE Register(m)
  <2>1. \A r, s \in current' : Number(r) = Number(s) => r = s
    BY <1>2 DEF Register, LossInv, Waiting
  <2>2. Forgotten' \subseteq Forgotten
    <3>. SUFFICES ASSUME NEW d \in Client
                  PROVE  /\ OfThisRun(d) \subseteq OfThisRun(d)'
                         /\ AnswersTo(d) \subseteq AnswersTo(d)'
      BY <1>2 DEF Register, clientVars, Forgotten
    <3>1. net \cup current \subseteq net' \cup current' /\ run' = run
      BY <1>2 DEF Register, clientVars
    <3>2. m.to # d
      BY <1>1, <1>2 DEF Register, Arrives
    <3>. QED
      BY <1>2, <3>1, <3>2 DEF Register, OfThisRun, AnswersTo
  <2>. QED
    BY <1>2, <2>1, <2>2, NobodyMore DEF Register
<1>3. CASE Link(m)
  <2>1. PICK r \in Waiting(m) :
           net' = (net \ {m}) \cup Told(r, m) /\ current' = Erased(r)
    BY <1>3 DEF Link
  <2>2. \A q, s \in current' : Number(q) = Number(s) => q = s
    BY <2>1 DEF Erased, LossInv
  <2>3. ASSUME NEW d \in Client, d \in Forgotten' PROVE d \in Forgotten
    <3>1. /\ pc[d] = "find" /\ run' = run
          /\ OfThisRun(d)' = {} /\ AnswersTo(d)' = {}
      BY <1>3, <2>3 DEF Link, clientVars, Forgotten
    <3>2. \A k \in Told(r, m) : k.to # d
      BY <2>1, <3>1 DEF AnswersTo, Told, Telling
    <3>3. m.from # d /\ r.from # d
      BY <3>2 DEF Told, Telling
    <3>4. OfThisRun(d) \subseteq OfThisRun(d)'
      BY <2>1, <3>1, <3>3 DEF OfThisRun, Erased
    <3>5. AnswersTo(d) \subseteq AnswersTo(d)'
      BY <1>1, <1>3, <2>1 DEF Link, Arrives, AnswersTo
    <3>. QED
      BY <3>1, <3>4, <3>5 DEF Forgotten
  <2>4. Forgotten' \subseteq Forgotten
    BY <2>3 DEF Forgotten
  <2>. QED
    BY <1>3, <2>2, <2>4, NobodyMore DEF Link
<1>4. CASE ServerThrows(m)
  BY <1>4, NobodyMore DEF ServerThrows
<1>. QED
  BY <1>2, <1>3, <1>4

\* A client takes only what was sent to it, and does not wait then.
LEMMA TakeForgetsNobody ==
    ASSUME TypeOK, LossInv, NEW c \in Client, NEW m \in net, Take(c, m)
    PROVE  LossInv'
<1>1. m.to = c /\ Server # c
  BY RendezvousAssumption
     DEF Take, TakeStun, StunMismatch, TakeEndpoint, TakeEndpointThrows, Receive
<1>2. \A d \in Client : d # c => ~About(m, d)
  BY <1>1 DEF About, TypeOK, Registration, Answers, Plain
<1>3. /\ net \ {m} \subseteq net' /\ UNCHANGED <<run, serverVars, losses>>
      /\ pc'[c] # "find"
      /\ \A d \in Client : d # c => pc'[d] = pc[d]
  <2>1. CASE TakeStun(c, m) \/ TakeEndpoint(c, m)
    BY <2>1 DEF TakeStun, TakeEndpoint, TypeOK
  <2>2. CASE StunMismatch(c, m) \/ TakeEndpointThrows(c, m)
    BY <2>2 DEF StunMismatch, TakeEndpointThrows, Ended, TypeOK
  <2>3. CASE Receive(c, m)
    BY <2>3 DEF Receive, clientVars
  <2>. QED
    BY <2>1, <2>2, <2>3 DEF Take
<1>4. Forgotten' \subseteq Forgotten \cup {}
  BY <1>2, <1>3, OnlyForgets DEF serverVars
<1>. QED
  BY <1>3, <1>4, NobodyMore DEF serverVars, LossInv

\* A client that registers has its registration on its way.
LEMMA SendingForgetsNobody ==
    ASSUME TypeOK, LossInv, NEW c \in Client, NEW i \in Ident, SendRegistration(c, i)
    PROVE  LossInv'
<1>1. c \notin Forgotten'
  <2>1. OfThisRun(c)' # {}
    <3>. DEFINE m == [type |-> "register", from |-> c, to |-> Server,
                      run |-> run[c], ident |-> i, presence |-> presence[c]]
    <3>1. m \in net' /\ run' = run
      BY DEF SendRegistration
    <3>2. m.type = "register" /\ m.from = c /\ m.run = run[c]
      OBVIOUS
    <3>. HIDE DEF m
    <3>. QED
      BY <3>1, <3>2 DEF OfThisRun
  <2>. QED
    BY <2>1 DEF Forgotten
<1>2. Forgotten' \subseteq Forgotten \cup {c}
  BY OnlyForgets DEF SendRegistration, serverVars, TypeOK
<1>. QED
  BY <1>1, <1>2, NobodyMore DEF SendRegistration, serverVars, LossInv

\* A lost datagram is about one client at most.
LEMMA LossForgetsOne ==
    ASSUME TypeOK, LossInv, NEW m \in net, Lose(m)
    PROVE  LossInv'
<1>. DEFINE x == IF m.type = "register" THEN m.from ELSE m.to
<1>1. \A d : d # x => ~About(m, d)
  BY DEF About
<1>2. Forgotten' \subseteq Forgotten \cup {x}
  <2>. HIDE DEF x
  <2>. QED
    BY <1>1, OnlyForgets DEF Lose, clientVars, serverVars
<1>. HIDE DEF x
<1>3. ASSUME serverUp'
      PROVE  IsFiniteSet(Forgotten') /\ Cardinality(Forgotten') <= losses'
  <2>1. IsFiniteSet(Forgotten) /\ Cardinality(Forgotten) <= losses
    BY <1>3 DEF Lose, serverVars, LossInv
  <2>2. /\ Cardinality(Forgotten) \in Nat /\ losses \in Nat /\ losses' = losses + 1
    BY <2>1, FS_CardinalityType, RendezvousAssumption DEF Lose, TypeOK
  <2>3. /\ IsFiniteSet(Forgotten \cup {x})
        /\ Cardinality(Forgotten \cup {x}) \in {Cardinality(Forgotten), Cardinality(Forgotten) + 1}
    BY <2>1, FS_AddElement
  <2>4. /\ IsFiniteSet(Forgotten')
        /\ Cardinality(Forgotten') <= Cardinality(Forgotten \cup {x})
    BY <1>2, <2>3, FS_Subset
  <2>5. Cardinality(Forgotten') \in Nat /\ Cardinality(Forgotten \cup {x}) \in Nat
    BY <2>3, <2>4, FS_CardinalityType
  <2>. QED
    BY <2>1, <2>2, <2>3, <2>4, <2>5
<1>4. \A r, s \in current' : (Number(r) = Number(s))' => r = s
  BY DEF Lose, serverVars, LossInv, Number
<1>. QED
  BY <1>3, <1>4 DEF LossInv

LEMMA LossInvHolds == Spec => []LossInv
<1>1. Init => LossInv
  <2>. SUFFICES ASSUME Init PROVE LossInv
    OBVIOUS
  <2>1. Forgotten = {}
    BY DEF Init, Forgotten
  <2>. QED
    BY <2>1, FS_EmptySet DEF Init, LossInv
<1>2. TypeOK /\ LossInv /\ [Next]_vars => LossInv'
  <2>. SUFFICES ASSUME TypeOK, LossInv, [Next]_vars PROVE LossInv'
    OBVIOUS
  <2>1. ASSUME UNCHANGED <<serverVars, losses>>, Forgotten' \subseteq Forgotten \cup {}
        PROVE  LossInv'
    BY <2>1, NobodyMore DEF serverVars, LossInv
  <2>2. CASE UNCHANGED vars
    BY <2>1, <2>2, OnlyForgets DEF vars, clientVars, serverVars
  <2>3. ASSUME NEW c \in Client, Start(c) PROVE LossInv'
    BY <2>1, <2>3, OnlyForgets DEF Start, serverVars, TypeOK
  <2>4. ASSUME NEW c \in Client, SayHello(c) PROVE LossInv'
    BY <2>1, <2>4, OnlyForgets DEF SayHello, clientVars, serverVars
  <2>5. ASSUME NEW c \in Client, End(c) PROVE LossInv'
    BY <2>1, <2>5, OnlyForgets DEF End, Ended, serverVars, TypeOK
  <2>6. ASSUME NEW m \in net, StunAnswers(m) PROVE LossInv'
    <3>1. \A d \in Client : ~About(m, d)
      BY <2>6 DEF StunAnswers, About
    <3>. QED
      BY <2>1, <2>6, <3>1, OnlyForgets DEF StunAnswers, clientVars, serverVars
  <2>7. ASSUME NEW m \in net, Bounce(m) PROVE LossInv'
    <3>1. CASE serverUp
      <4>1. ASSUME NEW d \in Client, pc[d] = "find" PROVE ~About(m, d)
        BY <2>7, <3>1, <4>1, RendezvousAssumption
           DEF Bounce, About, TypeOK, Registration, Answers, Plain
      <4>. QED
        BY <2>1, <2>7, <4>1, OnlyForgets DEF Bounce, clientVars, serverVars
    <3>2. CASE ~serverUp
      BY <2>7, <3>2, NobodyMore DEF Bounce, serverVars, LossInv
    <3>. QED
      BY <3>1, <3>2
  <2>. QED
    BY <2>2, <2>3, <2>4, <2>5, <2>6, <2>7, ServerForgetsNobody, TakeForgetsNobody,
       SendingForgetsNobody, LossForgetsOne DEF Next, Serve, Step
<1>. QED
  BY <1>1, <1>2, TypeCorrect, PTL DEF Spec

(***************************************************************************)
(* ForgottenByLossOnly, for every value of the constants.                  *)
(***************************************************************************)
THEOREM NobodyForgotten == Spec => []ForgottenByLossOnly
<1>1. LossInv => ForgottenByLossOnly
  BY DEF LossInv, ForgottenByLossOnly
<1>. QED
  BY <1>1, LossInvHolds, PTL

=============================================================================
