----------------------------- MODULE Rendezvous -----------------------------
(***************************************************************************)
(* The NAT experiment beside the CMake build: server.cpp pairs two clients *)
(* that send it the same number, client.cpp asks a STUN server for its     *)
(* public address ("public presence"), registers, and sends hellos to what *)
(* it takes for its peer.  There are no timeouts and no retries.           *)
(*                                                                         *)
(* A public presence is named by the client it belongs to; NoPresence is   *)
(* the string "error" that stunRequestResponse returns without an address. *)
(* What a NAT lets through is left out: a datagram arrives or is lost.     *)
(***************************************************************************)
EXTENDS Integers, FiniteSets

CONSTANTS Client,
          Server, Stun,    \* the addresses of the two servers
          Elsewhere,       \* every other address
          NoPresence,
          Text,            \* what is no presence, where one is expected
          Colon,           \* position of ":" in the presence of a client
          Ident,           \* what users enter as identification
          NumberOf,        \* stoi of it
          NotANumber,      \* stoi throws
          MaxStarts,       \* bound on how often clients are started
          MaxLosses        \* bound on datagrams lost

Address == Client \cup {Server, Stun, Elsewhere}

ASSUME RendezvousAssumption ==
    /\ {Server, Stun, Elsewhere, NoPresence, Text} \cap Client = {} /\ NoPresence # Text
    /\ Server # Stun /\ Elsewhere \notin {Server, Stun}
    /\ Colon \in [Client -> Nat \ {0}]
    /\ Ident # {} /\ NumberOf \in [Ident -> Int \cup {NotANumber}] /\ NotANumber \notin Int
    /\ MaxStarts \in Nat /\ MaxLosses \in Nat

VARIABLES pc,              \* main thread of each client
          presence,        \* own_public_presence
          ident,           \* indentification
          endpoint,        \* what a client was told: a presence, or other text
          peer,            \* other_address
          run,             \* history: tells the runs of all clients apart
          serverUp,
          current,         \* the server's map, as the set of what is in it
          links,           \* history: the pairs of registrations it linked
          net,             \* datagrams in flight
          starts,          \* how much of MaxStarts ...
          losses           \* ... and how much of MaxLosses is used up

clientVars == <<pc, presence, ident, endpoint, peer, run>>
serverVars == <<serverUp, current, links>>
vars == <<clientVars, serverVars, net, starts, losses>>

\* "<indentification> <public presence>".  `run` tells the registrations of one
\* client apart; the program does not have it.
Registration == [type : {"register"}, from : Client, to : {Server},
                 run : 0 .. MaxStarts, ident : Ident,
                 presence : Client \cup {NoPresence}]

\* What has a presence for its text: the response of either server ...
Answers == [type : {"stun", "endpoint"}, from : {Stun, Server}, to : Client,
            presence : Client \cup {NoPresence}]

\* ... and what has none: the binding request, "HI" and "Hello <i>".
Plain == [type : {"binding", "hello"}, from : Client, to : Address]

Plainly(type, c, a) == [type |-> type, from |-> c, to |-> a]

Telling(type, s, c, p) == [type |-> type, from |-> s, to |-> c, presence |-> p]

AnIdent == CHOOSE i \in Ident : TRUE

Init == /\ pc = [c \in Client |-> "off"]
        /\ presence = [c \in Client |-> NoPresence]
        /\ ident = [c \in Client |-> AnIdent]
        /\ endpoint = [c \in Client |-> Text]
        /\ peer = [c \in Client |-> Elsewhere]
        /\ run = [c \in Client |-> 0]
        /\ serverUp = TRUE /\ current = {} /\ links = {}
        /\ net = {} /\ starts = 0 /\ losses = 0

-----------------------------------------------------------------------------
\* server.cpp.  A datagram is a registration, or what a client with a wrong
\* other_address sends there.
Number(m) == IF m.type = "register" THEN NumberOf[m.ident] ELSE NotANumber

Arrives(m) == m \in net /\ m.to = Server /\ serverUp

\* current.find(id), as a set of at most one registration.
Waiting(m) == {r \in current : Number(r) = Number(m)}

\* Nobody waits under this number.
Register(m) ==
    /\ Arrives(m) /\ Number(m) # NotANumber /\ Waiting(m) = {}
    /\ current' = current \cup {m}
    /\ net' = net \ {m}
    /\ UNCHANGED <<clientVars, serverUp, links, starts, losses>>

\* Mutant: each is told what it sent itself.
Echoed(r, m) == {Telling("endpoint", Server, m.from, m.presence),
                 Telling("endpoint", Server, r.from, r.presence)}

\* Mutant: only the newcomer is told.
ToldNewcomer(r, m) == {Telling("endpoint", Server, m.from, r.presence)}

\* Mutant: sender and receiver are swapped.
ToldBackwards(r, m) == {Telling("endpoint", m.from, Server, r.presence),
                        Telling("endpoint", r.from, Server, m.presence)}

\* Each of the two is told what the other sent.
Told(r, m) == {Telling("endpoint", Server, m.from, r.presence),
               Telling("endpoint", Server, r.from, m.presence)}

\* Mutant: the first registration stays for the next one.
LeftWaiting(r) == current

\* current.erase(id).
Erased(r) == current \ {r}

Link(m) ==
    /\ Arrives(m) /\ Number(m) # NotANumber
    /\ \E r \in Waiting(m) :
          /\ net' = (net \ {m}) \cup Told(r, m)
          /\ current' = Erased(r)
          /\ links' = links \cup {{r, m}}
    /\ UNCHANGED <<clientVars, serverUp, starts, losses>>

\* stoi throws what nobody catches: the server ends and the map is gone.
ServerThrows(m) ==
    /\ Arrives(m) /\ Number(m) = NotANumber
    /\ serverUp' = FALSE /\ current' = {}
    /\ net' = net \ {m}
    /\ UNCHANGED <<clientVars, links, starts, losses>>

Serve == \E m \in net : Register(m) \/ Link(m) \/ ServerThrows(m)

-----------------------------------------------------------------------------
\* client.cpp, which has one socket for everybody.
Start(c) ==
    /\ pc[c] = "off" /\ starts < MaxStarts
    /\ pc' = [pc EXCEPT ![c] = "stun"]
    /\ starts' = starts + 1 /\ run' = [run EXCEPT ![c] = starts + 1]
    /\ net' = net \cup {Plainly("binding", c, Stun)}
    /\ UNCHANGED <<presence, ident, endpoint, peer, serverVars, losses>>

\* A process has its variables for one run.
Ended(c) == /\ pc' = [pc EXCEPT ![c] = "off"]
            /\ presence' = [presence EXCEPT ![c] = NoPresence]
            /\ ident' = [ident EXCEPT ![c] = AnIdent]
            /\ endpoint' = [endpoint EXCEPT ![c] = Text]
            /\ peer' = [peer EXCEPT ![c] = Elsewhere]

\* The first datagram that comes is taken for the STUN response.  One without
\* XOR-MAPPED-ADDRESS is as good as any; the transaction id never changes, so
\* that an answer to an earlier run is one too.
TakeStun(c, m) ==
    /\ pc[c] = "stun" /\ m \in net /\ m.to = c /\ m.type = "stun"
    /\ presence' = [presence EXCEPT ![c] = m.presence]
    /\ pc' = [pc EXCEPT ![c] = "register"]
    /\ net' = net \ {m}
    /\ UNCHANGED <<ident, endpoint, peer, run, serverVars, starts, losses>>

\* "Magic cookie mismatch": exit.
StunMismatch(c, m) ==
    /\ pc[c] = "stun" /\ m \in net /\ m.to = c /\ m.type # "stun"
    /\ Ended(c)
    /\ net' = net \ {m}
    /\ UNCHANGED <<run, serverVars, starts, losses>>

\* The user enters the identification, and it is sent once.
SendRegistration(c, i) ==
    /\ pc[c] = "register"
    /\ ident' = [ident EXCEPT ![c] = i]
    /\ pc' = [pc EXCEPT ![c] = "find"]
    /\ net' = net \cup {[type |-> "register", from |-> c, to |-> Server,
                         run |-> run[c], ident |-> i, presence |-> presence[c]]}
    /\ UNCHANGED <<presence, endpoint, peer, run, serverVars, starts, losses>>

\* What the client takes for an endpoint: the text of any datagram.
TextOf(m) == IF m.type = "endpoint" THEN m.presence ELSE Text

\* The address of the peer, cut out of the OWN presence at the place where the
\* other one has its colon.  Where that gives no IP address, sin_addr keeps what
\* was on the stack; where no number begins behind that place, stoi throws, which
\* is the empty set here.
PeerAddress(own, text) ==
    IF own = NoPresence THEN {}
    ELSE IF text \in Client /\ Colon[text] = Colon[own] THEN {own}
    ELSE IF text \in Client /\ Colon[text] = Colon[own] - 1 THEN {}
    ELSE Address

\* A late STUN response may have a ":" anywhere.
MayThrow(own, m) ==
    own # NoPresence =>
        \/ m.type = "stun"
        \/ TextOf(m) \in Client /\ Colon[TextOf(m)] # Colon[own]

\* The first datagram that comes ends the loop; the peer gets "HI".
TakeEndpoint(c, m) ==
    /\ pc[c] = "find" /\ m \in net /\ m.to = c
    /\ \E a \in PeerAddress(presence[c], TextOf(m)) :
          /\ peer' = [peer EXCEPT ![c] = a]
          /\ net' = (net \ {m}) \cup {Plainly("hello", c, a)}
    /\ endpoint' = [endpoint EXCEPT ![c] = TextOf(m)]
    /\ pc' = [pc EXCEPT ![c] = "talking"]
    /\ UNCHANGED <<presence, ident, run, serverVars, starts, losses>>

TakeEndpointThrows(c, m) ==
    /\ pc[c] = "find" /\ m \in net /\ m.to = c
    /\ MayThrow(presence[c], m)
    /\ Ended(c)
    /\ net' = net \ {m}
    /\ UNCHANGED <<run, serverVars, starts, losses>>

\* The endless loop of main, and the thread of receiving().
SayHello(c) ==
    /\ pc[c] = "talking"
    /\ net' = net \cup {Plainly("hello", c, peer[c])}
    /\ UNCHANGED <<clientVars, serverVars, starts, losses>>

Receive(c, m) ==
    /\ pc[c] = "talking" /\ m \in net /\ m.to = c
    /\ net' = net \ {m}
    /\ UNCHANGED <<clientVars, serverVars, starts, losses>>

-----------------------------------------------------------------------------
\* The STUN server, which may have no address to give.
StunAnswers(m) ==
    /\ m \in net /\ m.type = "binding"
    /\ \E p \in {m.from, NoPresence} :
          net' = (net \ {m}) \cup {Telling("stun", Stun, m.from, p)}
    /\ UNCHANGED <<clientVars, serverVars, starts, losses>>

\* Nobody has a socket there.
Bounce(m) ==
    /\ m \in net
    /\ \/ m.to = Server /\ ~serverUp
       \/ m.to = Elsewhere
       \/ m.to = Stun /\ m.type # "binding"
       \/ m.to \in Client /\ pc[m.to] = "off"
    /\ net' = net \ {m}
    /\ UNCHANGED <<clientVars, serverVars, starts, losses>>

Lose(m) ==
    /\ m \in net /\ losses < MaxLosses
    /\ net' = net \ {m} /\ losses' = losses + 1
    /\ UNCHANGED <<clientVars, serverVars, starts>>

End(c) ==
    /\ pc[c] # "off"
    /\ Ended(c)
    /\ UNCHANGED <<run, serverVars, net, starts, losses>>

Take(c, m) == \/ TakeStun(c, m)     \/ StunMismatch(c, m)
              \/ TakeEndpoint(c, m) \/ TakeEndpointThrows(c, m)
              \/ Receive(c, m)

Step(c) == \/ Start(c) \/ SayHello(c) \/ End(c)
           \/ \E i \in Ident : SendRegistration(c, i)
           \/ \E m \in net : Take(c, m)

Next == \/ Serve
        \/ \E c \in Client : Step(c)
        \/ \E m \in net : StunAnswers(m) \/ Bounce(m) \/ Lose(m)

Spec == Init /\ [][Next]_vars

-----------------------------------------------------------------------------
TypeOK == /\ pc \in [Client -> {"off", "stun", "register", "find", "talking"}]
          /\ presence \in [Client -> Client \cup {NoPresence}]
          /\ ident \in [Client -> Ident]
          /\ endpoint \in [Client -> Client \cup {NoPresence, Text}]
          /\ peer \in [Client -> Address]
          /\ run \in [Client -> 0 .. MaxStarts]
          /\ serverUp \in BOOLEAN
          /\ current \in SUBSET Registration
          /\ links \in SUBSET SUBSET Registration
          /\ net \in SUBSET (Registration \cup Answers \cup Plain)
          /\ starts \in 0 .. MaxStarts /\ losses \in 0 .. MaxLosses

(***************************************************************************)
(* The server links registrations in pairs: two different ones of one      *)
(* number, and each registration once, so that a third client waits for a  *)
(* fourth; and whoever waits has not been linked (server.cpp:45-54).       *)
(***************************************************************************)
LinkedInPairs ==
    /\ \A l \in links : \E r, s \in l :
          l = {r, s} /\ r # s /\ Number(r) = Number(s)
    /\ \A l, k \in links : l = k \/ l \cap k = {}
    /\ \A r \in current : r \notin UNION links

(***************************************************************************)
(* Whom a client is told as its peer has registered under a number under   *)
(* which the client has, and the server linked those two.  A client is     *)
(* told of itself only if it has been started twice.                       *)
(***************************************************************************)
LinkedTo(c, p) ==
    \E l \in links : \E r, s \in l : r # s /\ r.from = c /\ s.presence = p

ToldOfPartner ==
    \A c \in Client : endpoint[c] # Text =>
        LinkedTo(c, endpoint[c])

(***************************************************************************)
(* Nothing is sent twice and nobody times out, so a lost datagram leaves a *)
(* client waiting for good: but one client only, and nobody waits in vain  *)
(* for another reason.  Whoever waits has its registration of this run on  *)
(* its way or in the server's map, or the server's answer on its way; and  *)
(* no two registrations of one number wait in the map.  Only the end of    *)
(* the server, by a text without a number, leaves everybody waiting.       *)
(***************************************************************************)
OfThisRun(c) == {m \in net \cup current :
                    m.type = "register" /\ m.from = c /\ m.run = run[c]}

AnswersTo(c) == {m \in net : m.type = "endpoint" /\ m.to = c}

Forgotten == {c \in Client : pc[c] = "find" /\ OfThisRun(c) = {} /\ AnswersTo(c) = {}}

ForgottenByLossOnly ==
    serverUp => /\ Cardinality(Forgotten) <= losses
                /\ \A r, s \in current : Number(r) = Number(s) => r = s

=============================================================================
