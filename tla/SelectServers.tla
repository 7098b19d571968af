--------------------------- MODULE SelectServers ---------------------------
(***************************************************************************)
(* The programs together: a behaviour is one of a relay, the client list,  *)
(* a name server, hangman or the chat in lockstep, each with its clients,  *)
(* or of the HTTP or the mail client with a server from outside.           *)
(***************************************************************************)
EXTENDS ChatRelay, ClientList, NameServer, Hangman, Lockstep,
        HttpClient, MailClient

Init ==
    /\ LoopInit
    /\ \/ program \in Relays /\ data \in RelayStart
       \/ program = "multi_chat" /\ data \in ListStart
       \/ program \in NameServers /\ data \in NamesStart
       \/ program = "hangman" /\ data \in HangmanStart
       \/ program = "lab7" /\ data \in LockstepStart
       \/ program = "lab10" /\ data \in HttpStart
       \/ program = "lab11" /\ data \in MailStart

Server ==
    \/ StartPass \/ RecvFails
    \/ RelayServer \/ ListServer \/ NamesServer \/ HangmanServer \/ LockstepServer

\* The server writes behind the end of an array.
Overruns == LongName \/ LongWord \/ ManyPlaces \/ ManyAddresses

Receive(c) ==
    \/ RelayReceive(c) \/ ListReceive(c) \/ NamesReceive(c) \/ HangmanReceive(c)
    \/ LockstepReceive(c) \/ receive_from_server(c) \/ send_command(c)

\* What servers that are not the repository's do.
FromOutside ==
    \/ OutsideAccept \/ OutsideEnds
    \/ \E c \in Client : HttpSends(c) \/ SmtpGreets(c) \/ SmtpReplies(c)

\* What the programs do within their arrays.
Usual ==
    \/ Server
    \/ Quit \/ Stop \/ FromOutside
    \/ \E c \in Client :
          \/ Registers(c) \/ RelayConnect(c) \/ ListConnect(c) \/ NamesConnect(c)
          \/ HangmanConnect(c) \/ LockstepConnect(c) \/ HttpConnect(c) \/ MailConnect(c)
          \/ ConnectFails(c)
          \/ TypeName(c) \/ TypeList(c) \/ TypeMail(c) \/ TypeTurn(c)
          \/ \E word \in Word \cup {NoWord} : TypeWord(c, word)
          \/ \E letter \in Letter : TypeGuess(c, letter)
          \/ \E f \in Fd : TypeLine(c, f)
          \/ \E kind \in Kind, h \in Host : TypeGet(c, kind, h)
          \/ \E kind \in Kind, h \in Host, v \in Value : TypeAdd(c, kind, h, v)
          \/ Leave(c)
          \/ Receive(c)

Next ==
    \/ Overruns
    \/ Usual /\ UNCHANGED overrun

Spec == Init /\ [][Next]_vars

\* The select loops run on; nobody need type or leave.  Only finitely many
\* messages are sent, so it is enough that some client reads what it can.
FairSpec ==
    /\ Spec
    /\ WF_vars(Overruns \/ (Server /\ UNCHANGED overrun))
    /\ WF_vars((\E c \in Client : Receive(c)) /\ UNCHANGED overrun)

-----------------------------------------------------------------------------
(***************************************************************************)
(* Properties.                                                             *)
(***************************************************************************)

\* A server that nobody left, nobody stopped and no text of a client overran is
\* up.  The exception is the relay whose send_msg was negative before anything
\* was sent.
NobodyLeftServerUp ==
    server = "down" =>
        \/ quit \/ overrun \/ \E c \in Client : client[c].state = "ended"
        \/ program \in Relays /\ data.negative

\* As long as no two lines came in one recv, the two clients of lab7 keep in
\* step: the lines under way to one are the other's, and the first has the
\* number of the line it waits for an answer to, or is going to send next.
InStep ==
    program = "lab7" /\ merged = {} =>
        \A c \in Client : Running(c) \/ client[c].state = "waiting" =>
            \A k \in DOMAIN conn[c].toClient :
                LET line == conn[c].toClient[k]
                    sent == Cardinality(client[c].own) - IF Running(c) THEN 0 ELSE 1
                IN  line.nth # Garbage => line.from # c /\ line.nth = sent + k

\* A letter of the word that was found has been shown, or is on its way, to
\* everybody who was connected, unless the server failed while it told them or
\* wrote behind its arrays, or the client read it behind the news of a wrong
\* guess.
LettersTold ==
    program = "hangman" /\ ~overrun /\ (server = "up" \/ quit) =>
        \A c \in Client, l \in Letter :
            <<c, l>> \in added /\ Running(c) /\ c \notin merged =>
                \/ l \in client[c].own
                \/ \E k \in DOMAIN conn[c].toClient :
                      LET m == conn[c].toClient[k] IN m.kind = "litera" /\ m.letter = l

\* A line that was relayed is not delivered twice, though msg holds a
\* descriptor once for each time it was given to a client.
DeliveredOnce ==
    program \in Relays =>
        \A c \in Client : \A j, k \in DOMAIN conn[c].toClient :
            j # k => conn[c].toClient[j].id # conn[c].toClient[k].id

\* Whoever is connected and has been asked for a name is on the list of
\* multi_chat with that descriptor, however many have come and gone, as long as
\* no name was too long.
EverybodyListed ==
    program = "multi_chat" /\ server = "up" /\ ~overrun =>
        \A f \in Fd : sock[f] # Free /\ f # newcomer =>
            \E k \in DOMAIN data.clients :
                data.clients[k].sockfd = f /\ data.clients[k].name \in {sock[f], NoName}

\* The comment at the loop of multi_chat: the client that left is erased from
\* the list.
OnlyConnectedListed ==
    program = "multi_chat" /\ server = "up" /\ ~overrun =>
        \A k \in DOMAIN data.clients : sock[data.clients[k].sockfd] # Free

\* As long as no two commands came in one recv and all addresses had room, an
\* answer of the name server holds only what somebody typed for that key, and a
\* host's addresses include those the client itself had added when it asked.
AnswersRight ==
    program = "dns_server" /\ merged = {} /\ ~overrun =>
        \A c \in Client : \A k \in DOMAIN conn[c].toClient :
            LET r == conn[c].toClient[k]
            IN  /\ \A v \in ToSet(r.values) : <<r.kind, r.host, v>> \in added
                /\ r.own \subseteq ToSet(r.values)

\* What the client of lab10 takes for the response is all of it, or all that
\* was sent before the connection ended; when the client of lab11 has come to
\* its end, the server has accepted each of its commands, though it reads one
\* line for each where a reply may have several.
OutsideUnderstood ==
    /\ program = "lab10" /\ data.returned =>
          \/ data.size = Header + data.body
          \/ server = "down" /\ data.size = data.sent
    /\ program = "lab11" /\ data.returned => data.accepted = DOMAIN Expected

\* Requests that wait for somebody else: for the name of a newcomer at the
\* server, for the turn of another client of lab7, for the rest of a response.
Waiting ==
    \/ newcomer # NoFd
    \/ program = "lab7" /\ server = "up" /\ \A c \in Client : client[c].state # "ended"
    \/ program = "lab10" /\ ~Complete

\* In the end every request has been answered, or its client has ended, but
\* for those that wait for somebody else and clients of which two messages came
\* in one recv, and as long as the server kept within its arrays.  The client of
\* lab10 does not wait for the end of the connection when the length was
\* announced.
RequestsAnswered ==
    <>[](\/ Waiting \/ overrun
         \/ \A c \in Client : IF program = "lab10" THEN ~Running(c)
                              ELSE client[c].waits = {} \/ c \in merged)

\* When the server has ended, so will every client but the one of lab8 in C,
\* which takes a recv that returned 0 for a message, the one of lab7, which
\* reads only after it has sent, and those that have not given their name; nor
\* does a client that came too late and goes on without a connection.
EndReachesAll ==
    <>[](server = "down" =>
            \A c \in Client :
                Running(c) => program \in {"lab8c", "lab7"} \/ conn[c].end = "refused")

=============================================================================
