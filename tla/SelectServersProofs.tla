------------------------ MODULE SelectServersProofs ------------------------
(***************************************************************************)
(* What the select servers and their clients guarantee for every number of *)
(* clients and of lines.  The connections and the descriptors are common   *)
(* to the programs and come first; each program adds what it keeps in its  *)
(* own variables.                                                          *)
(***************************************************************************)
EXTENDS SelectServers, SocketLemmas

\* A connection and a client program, whatever is on its way between them.
IsConnection(k) ==
    k \in [toServer : {k.toServer}, toClient : {k.toClient}, peer : Knowledge, end : Heard]

IsClient(q) ==
    q \in [state : {"new", "naming", "running", "waiting", "ended"},
           lost : {q.lost}, waits : {q.waits}, own : {q.own}]

AreConnections(k) ==
    k \in [Client -> {k[c] : c \in Client}] /\ \A c \in Client : IsConnection(k[c])

AreClients(q) ==
    q \in [Client -> {q[c] : c \in Client}] /\ \A c \in Client : IsClient(q[c])

Shape ==
    /\ program \in Program /\ server \in {"up", "down"}
    /\ sock \in [Fd -> Client \cup {Free}] /\ backlog \in Seq(Client)
    /\ newcomer \in Fd \cup {NoFd}
    /\ AreConnections(conn) /\ AreClients(client)

\* The server may notice that a client has ended, never that before.
Peers == \A c \in Client : conn[c].peer # "open" => client[c].state = "ended"

\* Each client has one descriptor at most.
Seats ==
    /\ \A f, g \in Fd : sock[f] # Free /\ sock[f] = sock[g] => f = g
    /\ \A f \in Fd : sock[f] # Free => client[sock[f]].state # "new"
    /\ newcomer # NoFd => sock[newcomer] # Free

\* Who waits in the backlog waits there once, and has no descriptor.
Queued ==
    /\ \A m, n \in DOMAIN backlog : backlog[m] = backlog[n] => m = n
    /\ \A n \in DOMAIN backlog :
          client[backlog[n]].state # "new" /\ \A f \in Fd : sock[f] # backlog[n]
    /\ Listen \in todo => backlog # <<>>
    /\ program \in {"lab7", "lab10", "lab11"} => todo = {}

SomebodyLeft == \E c \in Client : client[c].state = "ended"

\* A relay sends to descriptors that are open, or were closed when somebody left.
Named ==
    program \in Relays =>
        /\ data \in [names : Seq(Fd), negative : BOOLEAN]
        /\ server = "up" => \A k \in DOMAIN data.names :
                               sock[data.names[k]] # Free \/ SomebodyLeft

\* The chat of lab7 keeps its two connections.
InChat ==
    Chat7 =>
        /\ data \in [connfd : Seq(Fd), turn : {1, 2}]
        /\ server = "up" => \A k \in DOMAIN data.connfd : sock[data.connfd[k]] # Free

-----------------------------------------------------------------------------
(* The number of clients.                                                  *)

LEMMA NIsNat == N \in Nat \ {0}
<1> USE SelectLoopAssumption DEF SelectLoopAssumption
<1> DEFINE Bounds == {n \in Nat : \A p \in Program : Clients[p] <= n}
<1>1. Bounds # {}
  <2> DEFINE b == Clients["lab8cpp"] + Clients["lab8c"] + Clients["tema2"]
                  + Clients["multi_chat"] + Clients["dns_server"] + Clients["smtp_server"]
                  + Clients["hangman"] + Clients["lab7"] + Clients["lab10"] + Clients["lab11"]
  <2>1. b \in Bounds
    BY DEF Program
  <2>2. QED
    BY <2>1
<1>2. PICK b \in Bounds : \A n \in Bounds : b <= n
  <2>1. Bounds \in SUBSET Nat
    OBVIOUS
  <2>2. QED
    BY <1>1, <2>1, LeastExists
<1>3. \E p \in Program : Clients[p] = b
  <2> SUFFICES ASSUME \A p \in Program : Clients[p] # b PROVE FALSE
    OBVIOUS
  <2>1. \A p \in Program : Clients[p] <= b - 1 /\ Clients[p] \in Nat \ {0}
    BY <1>2
  <2>2. "lab7" \in Program
    BY DEF Program
  <2>3. b - 1 \in Bounds
    BY <1>2, <2>1, <2>2
  <2>4. QED
    BY <1>2, <2>3
<1>4. \E n \in {Clients[p] : p \in Program} : \A p \in Program : Clients[p] <= n
  BY <1>2, <1>3
<1>5. N \in {Clients[p] : p \in Program}
  BY <1>4 DEF N
<1>6. QED
  BY <1>5

-----------------------------------------------------------------------------
(* The system calls on a connection, whatever it carries.                  *)

LEMMA SendsShape ==
  ASSUME NEW k, IsConnection(k), NEW msgs
  PROVE  /\ IsConnection(ServerSends(k, msgs))
         /\ ServerSends(k, msgs).peer = "open" <=> k.peer = "open"
         /\ ServerSends(k, msgs).end = k.end
<1>1. CASE k.peer = "open"
  BY <1>1 DEF ServerSends, IsConnection, Knowledge, Heard
<1>2. CASE k.peer # "open"
  <2>1. ServerSends(k, msgs) = k \/ ServerSends(k, msgs) = [k EXCEPT !.peer = "dead"]
    BY <1>2 DEF ServerSends, IsConnection, Knowledge, Heard
  <2>2. QED
    BY <1>2, <2>1 DEF IsConnection, Knowledge, Heard
<1>3. QED
  BY <1>1, <1>2

LEMMA ClosesShape ==
  ASSUME NEW k, IsConnection(k)
  PROVE  /\ IsConnection(ServerCloses(k)) /\ ServerCloses(k).peer = k.peer
<1>1. CASE k.end # "open"
  BY <1>1 DEF ServerCloses
<1>2. CASE k.end = "open"
  BY <1>2 DEF ServerCloses, IsConnection, Knowledge, Heard
<1>3. QED
  BY <1>1, <1>2

LEMMA ClientSendsShape ==
  ASSUME NEW k, IsConnection(k), NEW m
  PROVE  /\ IsConnection(ClientSends(k, m)) /\ ClientSends(k, m).peer = k.peer
<1>1. CASE k.end = "open"
  BY <1>1 DEF ClientSends, IsConnection, Knowledge, Heard
<1>2. CASE k.end # "open"
  BY <1>2 DEF ClientSends, IsConnection, Knowledge, Heard
<1>3. QED
  BY <1>1, <1>2

LEMMA EndsShape ==
  ASSUME NEW k, IsConnection(k), NEW seen \in ClientEnds(k)
  PROVE  IsConnection(seen)
<1>1. PICK p \in {"fin", "reset", "dead"} :
        seen = [k EXCEPT !.peer = p, !.toClient = <<>>]
  BY Zenon DEF ClientEnds
<1>2. QED
  BY <1>1 DEF IsConnection, Knowledge, Heard

\* The changes the programs make to a connection themselves.
LEMMA FieldShape ==
  ASSUME NEW k, IsConnection(k), NEW s, NEW p \in Knowledge
  PROVE  /\ IsConnection([k EXCEPT !.toServer = s]) /\ [k EXCEPT !.toServer = s].peer = k.peer
         /\ IsConnection([k EXCEPT !.toClient = s]) /\ [k EXCEPT !.toClient = s].peer = k.peer
         /\ IsConnection([k EXCEPT !.end = p]) /\ [k EXCEPT !.end = p].peer = k.peer
         /\ IsConnection([k EXCEPT !.peer = p]) /\ [k EXCEPT !.peer = p].peer = p
<1>1. p \in Heard
  BY DEF Heard
<1>2. QED
  BY <1>1 DEF IsConnection

LEMMA UpdateShape ==
  ASSUME NEW k, AreConnections(k), NEW c \in Client, NEW v, IsConnection(v)
  PROVE  /\ AreConnections([k EXCEPT ![c] = v])
         /\ [k EXCEPT ![c] = v][c] = v
         /\ \A d \in Client : d # c => [k EXCEPT ![c] = v][d] = k[d]
BY DEF AreConnections

LEMMA ClientShape ==
  ASSUME NEW q, AreClients(q), NEW c \in Client, NEW v, IsClient(v)
  PROVE  /\ AreClients([q EXCEPT ![c] = v])
         /\ [q EXCEPT ![c] = v][c] = v
         /\ \A d \in Client : d # c => [q EXCEPT ![c] = v][d] = q[d]
BY DEF AreClients

-----------------------------------------------------------------------------
(* The steps, program by program.                                          *)

RelayNext ==
    /\ program \in Relays
    /\ \/ RelayServer
       \/ \E c \in Client :
             \/ Registers(c) \/ RelayConnect(c) \/ RelayReceive(c)
             \/ \E f \in Fd : TypeLine(c, f)

ListNext ==
    /\ Chat
    /\ \/ ListServer
       \/ \E c \in Client : ListConnect(c) \/ TypeName(c) \/ TypeList(c) \/ ListReceive(c)

NamesNext ==
    /\ program \in NameServers
    /\ \/ NamesServer \/ Quit
       \/ \E c \in Client :
             \/ NamesConnect(c) \/ NamesReceive(c) \/ TypeMail(c)
             \/ \E kind \in Kind, h \in Host : TypeGet(c, kind, h)
             \/ \E kind \in Kind, h \in Host, v \in Value : TypeAdd(c, kind, h, v)

HangmanNext ==
    /\ Game
    /\ \/ HangmanServer \/ Stop
       \/ \E c \in Client :
             \/ HangmanConnect(c) \/ HangmanReceive(c)
             \/ \E word \in Word \cup {NoWord} : TypeWord(c, word)
             \/ \E letter \in Letter : TypeGuess(c, letter)

LockstepNext ==
    /\ Chat7
    /\ \/ LockstepServer
       \/ \E c \in Client : LockstepConnect(c) \/ TypeTurn(c) \/ LockstepReceive(c)

HttpNext ==
    /\ Http
    /\ \/ OutsideAccept \/ OutsideEnds
       \/ \E c \in Client : HttpSends(c) \/ HttpConnect(c) \/ receive_from_server(c)

MailNext ==
    /\ Smtp
    /\ \/ OutsideAccept \/ OutsideEnds
       \/ \E c \in Client :
             SmtpGreets(c) \/ SmtpReplies(c) \/ MailConnect(c) \/ send_command(c)

\* A server that wrote behind the end of an array ends.
OverrunEnds ==
    /\ server = "up" /\ overrun' = TRUE
    /\ UNCHANGED <<quit, added>> /\ merged \subseteq merged'
    /\ \/ /\ program \in NameServers \cup {"hangman"}
          /\ \E i \in Fd : \E c \in Client : At(i, c) /\ ServerEnds(Read(c))
       \/ Chat /\ \E c : ServerEnds([conn EXCEPT ![c].toServer = Tail(@)])

\* What is common to all of them.
CommonNext ==
    \/ StartPass \/ RecvFails \/ OverrunEnds
    \/ \E c \in Client : Leave(c) \/ ConnectFails(c)

LEMMA UsualCases ==
  ASSUME Usual
  PROVE  \/ RelayNext \/ ListNext \/ NamesNext \/ HangmanNext \/ LockstepNext
         \/ HttpNext \/ MailNext \/ CommonNext
<1>1. CASE Server
  <2>1. RelayServer => program \in Relays
    BY Zenon DEF RelayServer, RelayAccept, RelayHangup, RelayServe
  <2>2. ListServer => Chat
    BY Zenon DEF ListServer, ListAccept, RecvName, ListHangup, ListServe
  <2>3. NamesServer => program \in NameServers
    BY Zenon DEF NamesServer, NamesAccept, NamesHangup, NamesServe
  <2>4. HangmanServer => Game
    BY Zenon DEF HangmanServer, HangmanAccept, HangmanHangup, SetWord, GuessLetter
  <2>5. LockstepServer => Chat7
    BY Zenon DEF LockstepServer, LockstepAccept, receive_and_send
  <2>6. QED
    BY <1>1, <2>1, <2>2, <2>3, <2>4, <2>5
       DEF Server, RelayNext, ListNext, NamesNext, HangmanNext, LockstepNext, CommonNext
<1>2. CASE Quit \/ Stop
  <2>1. (Quit => program \in NameServers) /\ (Stop => Game)
    BY DEF Quit, Stop
  <2>2. QED
    BY <1>2, <2>1 DEF NamesNext, HangmanNext
<1>3. CASE FromOutside
  <2>1. /\ OutsideAccept \/ OutsideEnds => Http \/ Smtp
        /\ \A c \in Client : /\ HttpSends(c) => Http
                             /\ SmtpGreets(c) \/ SmtpReplies(c) => Smtp
    BY Zenon DEF OutsideAccept, OutsideEnds, Outside, Http, Smtp, HttpSends, SmtpGreets, SmtpReplies
  <2>2. QED
    BY <1>3, <2>1 DEF FromOutside, HttpNext, MailNext
<1>4. ASSUME NEW c \in Client,
             \/ Registers(c) \/ RelayConnect(c) \/ ListConnect(c) \/ NamesConnect(c)
             \/ HangmanConnect(c) \/ LockstepConnect(c) \/ HttpConnect(c) \/ MailConnect(c)
      PROVE  RelayNext \/ ListNext \/ NamesNext \/ HangmanNext \/ LockstepNext
             \/ HttpNext \/ MailNext
  <2>1. Registers(c) \/ RelayConnect(c) => program \in Relays
    BY DEF Registers, RelayConnect, Relays
  <2>2. /\ ListConnect(c) => Chat
        /\ NamesConnect(c) => program \in NameServers
        /\ HangmanConnect(c) => Game
        /\ LockstepConnect(c) => Chat7
        /\ HttpConnect(c) => Http
        /\ MailConnect(c) => Smtp
    BY DEF ListConnect, NamesConnect, HangmanConnect, LockstepConnect, HttpConnect, MailConnect
  <2>3. QED
    BY <1>4, <2>1, <2>2
       DEF RelayNext, ListNext, NamesNext, HangmanNext, LockstepNext, HttpNext, MailNext
<1>5. ASSUME NEW c \in Client,
             \/ TypeName(c) \/ TypeList(c) \/ TypeMail(c) \/ TypeTurn(c)
             \/ \E word \in Word \cup {NoWord} : TypeWord(c, word)
             \/ \E letter \in Letter : TypeGuess(c, letter)
             \/ \E f \in Fd : TypeLine(c, f)
             \/ \E kind \in Kind, h \in Host : TypeGet(c, kind, h)
             \/ \E kind \in Kind, h \in Host, v \in Value : TypeAdd(c, kind, h, v)
      PROVE  RelayNext \/ ListNext \/ NamesNext \/ HangmanNext \/ LockstepNext
  <2>1. TypeName(c) \/ TypeList(c) => ListNext
    BY DEF TypeName, TypeList, ListNext
  <2>2. TypeMail(c) => NamesNext
    BY DEF TypeMail, NamesNext, NameServers
  <2>3. TypeTurn(c) => LockstepNext
    BY Zenon DEF TypeTurn, LockstepNext
  <2>4. (\E word \in Word \cup {NoWord} : TypeWord(c, word)) => HangmanNext
    BY DEF TypeWord, HangmanNext
  <2>5. (\E letter \in Letter : TypeGuess(c, letter)) => HangmanNext
    BY DEF TypeGuess, HangmanNext
  <2>6. (\E f \in Fd : TypeLine(c, f)) => RelayNext
    BY DEF TypeLine, RelayNext
  <2>7. (\E kind \in Kind, h \in Host : TypeGet(c, kind, h)) => NamesNext
    <3>1. (\E kind \in Kind, h \in Host : TypeGet(c, kind, h)) => program \in NameServers
      BY DEF TypeGet, NameServers
    <3>2. QED
      BY <3>1 DEF NamesNext
  <2>8. (\E kind \in Kind, h \in Host, v \in Value : TypeAdd(c, kind, h, v)) => NamesNext
    <3>1. (\E kind \in Kind, h \in Host, v \in Value : TypeAdd(c, kind, h, v))
             => program \in NameServers
      BY DEF TypeAdd, NameServers
    <3>2. QED
      BY <3>1 DEF NamesNext
  <2>9. QED
    BY <1>5, <2>1, <2>2, <2>3, <2>4, <2>5, <2>6, <2>7, <2>8
<1>6. ASSUME NEW c \in Client, Receive(c)
      PROVE  \/ RelayNext \/ ListNext \/ NamesNext \/ HangmanNext \/ LockstepNext
             \/ HttpNext \/ MailNext
  <2>1. /\ RelayReceive(c) => program \in Relays
        /\ ListReceive(c) => Chat
        /\ NamesReceive(c) => program \in NameServers
        /\ HangmanReceive(c) => Game
        /\ LockstepReceive(c) => Chat7
        /\ receive_from_server(c) => Http
        /\ send_command(c) => Smtp
    BY DEF RelayReceive, Relays, ListReceive, NamesReceive, HangmanReceive, LockstepReceive,
           receive_from_server, send_command
  <2>2. QED
    BY <1>6, <2>1
       DEF Receive, RelayNext, ListNext, NamesNext, HangmanNext, LockstepNext, HttpNext, MailNext
<1>7. (\E c \in Client : Leave(c) \/ ConnectFails(c)) => CommonNext
  BY DEF CommonNext
<1>8. QED
  BY <1>1, <1>2, <1>3, <1>4, <1>5, <1>6, <1>7 DEF Usual

\* Behind the end of an array, the server does what it usually does, or ends.
LEMMA NextCases ==
  ASSUME Next
  PROVE  \/ RelayNext \/ ListNext \/ NamesNext \/ HangmanNext \/ LockstepNext
         \/ HttpNext \/ MailNext \/ CommonNext
<1>1. CASE LongName
  <2>1. \/ RecvName
        \/ /\ Chat /\ server = "up" /\ overrun' = TRUE /\ UNCHANGED histories
           /\ ServerEnds([conn EXCEPT ![sock[newcomer]].toServer = Tail(@)])
    BY <1>1 DEF LongName
  <2>2. Chat
    BY <1>1 DEF LongName
  <2>3. RecvName => ListNext
    BY <2>2 DEF ListNext, ListServer
  <2>4. QED
    BY <2>1, <2>3 DEF OverrunEnds, CommonNext, histories
<1>2. CASE LongWord
  <2>1. PICK i \in Fd, c \in Client :
          /\ Game /\ Taken(i, c) /\ overrun' = TRUE
          /\ SetWord \/ ServerEnds(Read(c))
    BY <1>2 DEF LongWord
  <2>2. At(i, c) /\ server = "up" /\ merged \subseteq merged' /\ UNCHANGED <<quit, added>>
    BY <2>1 DEF Taken, Arrived, At, MergedIf
  <2>3. SetWord => HangmanNext
    BY <2>1 DEF HangmanNext, HangmanServer
  <2>4. ServerEnds(Read(c)) => CommonNext
    BY <2>1, <2>2 DEF OverrunEnds, CommonNext, Game
  <2>5. QED
    BY <2>1, <2>3, <2>4
<1>3. CASE ManyPlaces
  <2>1. PICK i \in Fd, c \in Client :
          /\ Game /\ Arrived(i, c) /\ overrun' = TRUE
          /\ GuessLetter \/ (ServerEnds(Read(c)) /\ UNCHANGED <<quit, added>>)
    BY Zenon, <1>3 DEF ManyPlaces
  <2>2. At(i, c) /\ server = "up" /\ merged \subseteq merged'
    BY <2>1 DEF Arrived, At, MergedIf
  <2>3. GuessLetter => HangmanNext
    BY <2>1 DEF HangmanNext, HangmanServer
  <2>4. ServerEnds(Read(c)) /\ UNCHANGED <<quit, added>> => CommonNext
    BY <2>1, <2>2 DEF OverrunEnds, CommonNext, Game
  <2>5. QED
    BY <2>1, <2>3, <2>4
<1>4. CASE ManyAddresses
  <2>1. PICK i \in Fd, c \in Client :
          /\ program \in NameServers /\ Taken(i, c) /\ overrun' = TRUE
          /\ NamesServe \/ ServerEnds(Read(c))
    BY <1>4 DEF ManyAddresses
  <2>2. At(i, c) /\ server = "up" /\ merged \subseteq merged' /\ UNCHANGED <<quit, added>>
    BY <2>1 DEF Taken, Arrived, At, MergedIf
  <2>3. NamesServe => NamesNext
    BY <2>1 DEF NamesNext, NamesServer
  <2>4. ServerEnds(Read(c)) => CommonNext
    BY <2>1, <2>2 DEF OverrunEnds, CommonNext
  <2>5. QED
    BY <2>1, <2>3, <2>4
<1>5. QED
  BY <1>1, <1>2, <1>3, <1>4, UsualCases DEF Next, Overruns

\* That it has written there is not forgotten.
LEMMA OverrunStays ==
  ASSUME Next, overrun
  PROVE  overrun'
BY DEF Next, Overruns, LongName, LongWord, ManyPlaces, ManyAddresses

-----------------------------------------------------------------------------
(* What the steps do to the connections and the clients.                   *)

\* A client that the server finds gone has ended, and what has ended has ended
\* for good.
Moved ==
    /\ AreConnections(conn') /\ AreClients(client')
    /\ \A c \in Client :
          /\ conn'[c].peer # "open" => conn[c].peer # "open" \/ client'[c].state = "ended"
          /\ client[c].state = "ended" => client'[c].state = "ended"
          /\ client[c].state # "new" => client'[c].state # "new"

\* In the state k the server knows of no other end than before.
KeepsPeers(k) ==
    AreConnections(k) /\ \A c \in Client : k[c].peer # "open" => conn[c].peer # "open"

LEMMA ReadKeeps ==
  ASSUME Shape, NEW c \in Client
  PROVE  KeepsPeers(conn) /\ KeepsPeers(Read(c))
<1>1. IsConnection(conn[c]) /\ AreConnections(conn)
  BY DEF Shape, AreConnections
<1>2. /\ IsConnection([conn[c] EXCEPT !.toServer = <<>>])
      /\ [conn[c] EXCEPT !.toServer = <<>>].peer = conn[c].peer
  BY <1>1 DEF IsConnection
<1> DEFINE v == [conn[c] EXCEPT !.toServer = <<>>]
<1>3. Read(c) = [conn EXCEPT ![c] = v]
  BY <1>1 DEF Read
<1>4. IsConnection(v) /\ v.peer = conn[c].peer
  BY <1>2
<1> HIDE DEF v
<1>5. /\ AreConnections(Read(c)) /\ Read(c)[c] = v
      /\ \A d \in Client : d # c => Read(c)[d] = conn[d]
  BY <1>1, <1>3, <1>4 DEF AreConnections
<1>6. QED
  BY <1>1, <1>4, <1>5 DEF KeepsPeers

LEMMA UpdateKeeps ==
  ASSUME Shape, NEW k, KeepsPeers(k), NEW c \in Client, NEW v, IsConnection(v),
         v.peer # "open" => conn[c].peer # "open"
  PROVE  KeepsPeers([k EXCEPT ![c] = v])
BY UpdateShape DEF KeepsPeers

\* A send to whoever is behind a descriptor, or to nobody.
LEMMA SendKeeps ==
  ASSUME Shape, NEW k, KeepsPeers(k), NEW d, NEW msgs
  PROVE  KeepsPeers([k EXCEPT ![d] = ServerSends(k[d], msgs)])
<1>1. CASE d \in Client
  <2>1. IsConnection(k[d]) /\ (k[d].peer # "open" => conn[d].peer # "open")
    BY <1>1 DEF KeepsPeers, AreConnections
  <2>2. /\ IsConnection(ServerSends(k[d], msgs))
        /\ ServerSends(k[d], msgs).peer = "open" <=> k[d].peer = "open"
    BY <2>1, SendsShape
  <2>3. QED
    BY <1>1, <2>1, <2>2, UpdateKeeps
<1>2. CASE d \notin Client
  <2>1. [k EXCEPT ![d] = ServerSends(k[d], msgs)] = k
    BY <1>2 DEF KeepsPeers, AreConnections
  <2>2. QED
    BY <2>1
<1>3. QED
  BY <1>1, <1>2

LEMMA ServerMoves ==
  ASSUME Shape, UNCHANGED client, KeepsPeers(conn')
  PROVE  Moved
BY DEF Shape, KeepsPeers, Moved, AreConnections, AreClients, IsConnection, IsClient

LEMMA NothingMoves ==
  ASSUME Shape, UNCHANGED <<conn, client>>
  PROVE  Moved
<1>1. conn' = conn /\ client' = client
  OBVIOUS
<1>2. QED
  BY <1>1 DEF Shape, Moved, AreConnections, AreClients, IsConnection, IsClient

LEMMA ServerEndsMoves ==
  ASSUME Shape, NEW k, KeepsPeers(k), ServerEnds(k)
  PROVE  Moved
<1>1. /\ conn' = [c \in Client |->
                    IF client[c].state = "new" THEN k[c] ELSE ServerCloses(k[c])]
      /\ client' = client
  BY DEF ServerEnds
<1>2. \A c \in Client : IsConnection(k[c]) /\ (k[c].peer # "open" => conn[c].peer # "open")
  BY DEF KeepsPeers, AreConnections
<1>3. \A c \in Client : /\ IsConnection(ServerCloses(k[c]))
                        /\ ServerCloses(k[c]).peer = k[c].peer
  BY <1>2, ClosesShape
<1>4. /\ conn' \in [Client -> {conn'[c] : c \in Client}]
      /\ \A c \in Client : /\ conn'[c] \in {k[c], ServerCloses(k[c])}
                           /\ IsConnection(conn'[c])
                           /\ conn'[c].peer # "open" => conn[c].peer # "open"
  BY <1>1, <1>2, <1>3
<1>5. KeepsPeers(conn')
  BY <1>4 DEF KeepsPeers, AreConnections
<1>6. QED
  BY <1>1, <1>5, ServerMoves

LEMMA HangupMoves ==
  ASSUME Shape, NEW i, NEW c \in Client, Hangup(i, c)
  PROVE  Moved
<1>1. conn' = [conn EXCEPT ![c] = ServerCloses(conn[c])] /\ client' = client
  BY DEF Hangup
<1>2. IsConnection(conn[c]) /\ KeepsPeers(conn)
  BY ReadKeeps DEF Shape, AreConnections
<1>3. IsConnection(ServerCloses(conn[c])) /\ ServerCloses(conn[c]).peer = conn[c].peer
  BY <1>2, ClosesShape
<1>4. KeepsPeers(conn')
  BY <1>1, <1>2, <1>3, UpdateKeeps
<1>5. QED
  BY <1>1, <1>4, ServerMoves

LEMMA ServedMoves ==
  ASSUME Shape, NEW i, NEW k, KeepsPeers(k), Served(i, k)
  PROVE  Moved
BY ServerMoves DEF Served

\* One client acts, alone.
LEMMA ClientMoves ==
  ASSUME Shape, NEW c \in Client, NEW l, NEW q, IsConnection(l), IsClient(q),
         conn' = [conn EXCEPT ![c] = l], client' = [client EXCEPT ![c] = q],
         l.peer # "open" => conn[c].peer # "open" \/ q.state = "ended",
         client[c].state = "ended" => q.state = "ended",
         client[c].state # "new" => q.state # "new"
  PROVE  Moved
<1> DEFINE ks == [conn EXCEPT ![c] = l]
           qs == [client EXCEPT ![c] = q]
<1>1. /\ AreConnections(ks) /\ ks[c] = l
      /\ \A d \in Client : d # c => ks[d] = conn[d]
  <2>1. AreConnections(conn)
    BY DEF Shape
  <2>2. QED
    BY <2>1 DEF AreConnections
<1>2. /\ AreClients(qs) /\ qs[c] = q
      /\ \A d \in Client : d # c => qs[d] = client[d]
  <2>1. AreClients(client)
    BY DEF Shape
  <2>2. QED
    BY <2>1 DEF AreClients
<1>3. conn' = ks /\ client' = qs
  OBVIOUS
<1> HIDE DEF ks, qs
<1>4. QED
  BY <1>1, <1>2, <1>3 DEF Moved

LEMMA EndsMoves ==
  ASSUME Shape, NEW c \in Client, NEW k, IsConnection(k), EndsAt(c, k)
  PROVE  Moved /\ client'[c].state = "ended"
<1> DEFINE q == [NewClient EXCEPT !.state = "ended"]
<1>1. IsClient(q) /\ q.state = "ended"
  BY DEF NewClient, IsClient
<1>2. PICK seen \in ClientEnds(k) : conn' = [conn EXCEPT ![c] = seen]
  BY DEF EndsAt
<1>3. client' = [client EXCEPT ![c] = q]
  BY DEF EndsAt
<1>4. IsConnection(seen)
  BY EndsShape
<1> HIDE DEF q
<1>5. Moved
  BY <1>1, <1>2, <1>3, <1>4, ClientMoves
<1>6. QED
  BY <1>1, <1>3, <1>5, ClientShape DEF Shape

\* What the client programs have in common.
LEMMA ConnectMoves ==
  ASSUME Shape, NEW c \in Client, NEW state \in {"naming", "running"}, NEW first,
         Connect(c, state, first)
  PROVE  Moved
<1> DEFINE l == [conn[c] EXCEPT !.toServer = first]
           q == [client[c] EXCEPT !.state = state]
<1>1. IsConnection(conn[c]) /\ IsClient(client[c])
  BY DEF Shape, AreConnections, AreClients
<1>2. IsConnection(l) /\ l.peer = conn[c].peer
  BY <1>1 DEF IsConnection
<1>3. IsClient(q) /\ q.state = state
  BY <1>1 DEF IsClient
<1>4. /\ conn' = [conn EXCEPT ![c] = l] /\ client' = [client EXCEPT ![c] = q]
      /\ client[c].state = "new"
  BY DEF Connect
<1> HIDE DEF l, q
<1>5. QED
  BY <1>2, <1>3, <1>4, ClientMoves

LEMMA TypeMoves ==
  ASSUME Shape, NEW c \in Client, NEW m, NEW q, IsClient(q), q.state = client[c].state,
         TypeAndSend(c, m, q)
  PROVE  Moved
<1>1. IsConnection(conn[c])
  BY DEF Shape, AreConnections
<1>2. CASE EndsAt(c, conn[c])
  BY <1>1, <1>2, EndsMoves
<1>3. CASE /\ conn' = [conn EXCEPT ![c] = ClientSends(conn[c], m)]
           /\ client' = [client EXCEPT ![c] = q]
  BY <1>1, <1>3, ClientSendsShape, ClientMoves
<1>4. QED
  BY <1>2, <1>3 DEF TypeAndSend, Ends

LEMMA LeaveMoves ==
  ASSUME Shape, NEW c \in Client, Leave(c)
  PROVE  Moved
<1>1. IsConnection(conn[c])
  BY DEF Shape, AreConnections
<1>2. QED
  BY <1>1, EndsMoves DEF Leave, Ends

\* connect() fails.
LEMMA FailsMoves ==
  ASSUME Shape, NEW c \in Client, ConnectFails(c)
  PROVE  Moved
<1> DEFINE l == Unconnected(conn[c])
           s == IF program = "multi_chat" THEN "naming" ELSE "running"
           q == [client[c] EXCEPT !.state = s]
<1>1. IsConnection(conn[c]) /\ IsClient(client[c]) /\ client[c].state = "new"
  BY DEF Shape, AreConnections, AreClients, ConnectFails
<1>2. IsConnection(l) /\ l.peer = conn[c].peer
  BY <1>1 DEF IsConnection, Unconnected, Knowledge, Heard
<1>3. IsClient(q) /\ q.state = s /\ s # "new"
  BY <1>1 DEF IsClient
<1>4. \/ EndsAt(c, conn[c])
      \/ conn' = [conn EXCEPT ![c] = l] /\ client' = [client EXCEPT ![c] = q]
  BY DEF ConnectFails, Ends
<1> HIDE DEF l, q, s
<1>5. QED
  BY <1>1, <1>2, <1>3, <1>4, EndsMoves, ClientMoves

LEMMA OverrunMoves ==
  ASSUME Shape, OverrunEnds
  PROVE  Moved
<1>1. ASSUME NEW c, ServerEnds([conn EXCEPT ![c].toServer = Tail(@)]) PROVE Moved
  <2> DEFINE v == [conn[c] EXCEPT !.toServer = Tail(@)]
             k == [conn EXCEPT ![c] = v]
  <2>1. CASE c \in Client
    <3>1. IsConnection(conn[c])
      BY <2>1 DEF Shape, AreConnections
    <3>2. IsConnection(v) /\ v.peer = conn[c].peer
      BY <3>1 DEF IsConnection
    <3>3. ServerEnds(k)
      BY <1>1
    <3> HIDE DEF v
    <3>4. KeepsPeers(k)
      BY <2>1, <3>2, ReadKeeps, UpdateKeeps
    <3> HIDE DEF k
    <3>5. QED
      BY <3>3, <3>4, ServerEndsMoves
  <2>2. CASE c \notin Client
    <3>1. conn \in [Client -> {conn[d] : d \in Client}]
      BY DEF Shape, AreConnections
    <3>2. k = conn
      <4> HIDE DEF v
      <4>1. \A q \in [Client -> {conn[d] : d \in Client}] : [q EXCEPT ![c] = v] = q
        BY <2>2
      <4>2. QED
        BY <3>1, <4>1
    <3>3. ServerEnds(k)
      BY <1>1
    <3> HIDE DEF k
    <3>4. ServerEnds(conn)
      BY <3>2, <3>3 DEF ServerEnds
    <3>5. 1 \in Client
      BY NIsNat DEF Client
    <3>6. QED
      BY <3>4, <3>5, ReadKeeps, ServerEndsMoves
  <2>3. QED
    BY <2>1, <2>2
<1>2. ASSUME NEW c \in Client, ServerEnds(Read(c)) PROVE Moved
  BY <1>2, ReadKeeps, ServerEndsMoves
<1>3. QED
  BY <1>1, <1>2 DEF OverrunEnds

LEMMA ShowsMoves ==
  ASSUME Shape, NEW c \in Client, NEW n, Shows(c, n)
  PROVE  Moved
<1> DEFINE rest == SubSeq(conn[c].toClient, n + 1, Len(conn[c].toClient))
           l == [conn[c] EXCEPT !.toClient = rest]
           left == client[c].waits \ {conn[c].toClient[k].id : k \in 1 .. n}
           q == [client[c] EXCEPT !.waits = left]
<1>1. IsConnection(conn[c]) /\ IsClient(client[c])
  BY DEF Shape, AreConnections, AreClients
<1>2. conn' = [conn EXCEPT ![c] = l] /\ client' = [client EXCEPT ![c] = q]
  BY DEF Shows
<1>3. IsConnection(l) /\ l.peer = conn[c].peer
  <2> HIDE DEF rest
  <2>1. QED
    BY <1>1 DEF IsConnection
<1>4. IsClient(q) /\ q.state = client[c].state
  <2> HIDE DEF left
  <2>1. QED
    BY <1>1 DEF IsClient
<1> HIDE DEF l, q
<1>5. QED
  BY <1>2, <1>3, <1>4, ClientMoves

LEMMA ReportsMoves ==
  ASSUME Shape, NEW c \in Client, ReportsReset(c)
  PROVE  Moved
<1> DEFINE l == [conn[c] EXCEPT !.end = "dead"]
<1>1. IsConnection(conn[c])
  BY DEF Shape, AreConnections
<1>2. conn' = [conn EXCEPT ![c] = l] /\ client' = client
  BY DEF ReportsReset
<1>3. IsConnection(l) /\ l.peer = conn[c].peer
  BY <1>1 DEF IsConnection, Knowledge, Heard
<1> HIDE DEF l
<1>4. KeepsPeers(conn')
  BY <1>2, <1>3, ReadKeeps, UpdateKeeps
<1>5. QED
  BY <1>2, <1>4, ServerMoves

LEMMA NoticesMoves ==
  ASSUME Shape, NEW c \in Client, NEW how, NoticesEnd(c, how)
  PROVE  Moved
<1>1. IsConnection(conn[c])
  BY DEF Shape, AreConnections
<1>2. QED
  BY <1>1, EndsMoves DEF NoticesEnd, Ends

LEMMA CommonMoves ==
  ASSUME Shape, CommonNext
  PROVE  Moved
<1>1. CASE StartPass
  BY <1>1, NothingMoves DEF StartPass
<1>2. CASE RecvFails
  <2>1. ServerEnds(conn) /\ \E c \in Client : TRUE
    BY <1>2 DEF RecvFails
  <2>2. QED
    BY <2>1, ReadKeeps, ServerEndsMoves
<1>3. CASE \E c \in Client : Leave(c) \/ ConnectFails(c)
  BY <1>3, LeaveMoves, FailsMoves
<1>4. QED
  BY <1>1, <1>2, <1>3, OverrunMoves DEF CommonNext

LEMMA RelayMoves ==
  ASSUME Shape, RelayNext
  PROVE  Moved
<1>1. CASE RelayAccept
  BY <1>1, NothingMoves DEF RelayAccept, Accept
<1>2. CASE RelayHangup
  <2>1. PICK i \in Fd, c \in Client : ServerEnds(conn) \/ Hangup(i, c)
    BY <1>2 DEF RelayHangup
  <2>2. KeepsPeers(conn)
    BY ReadKeeps
  <2>3. QED
    BY <2>1, <2>2, ServerEndsMoves, HangupMoves
<1>3. CASE RelayServe
  <2>1. PICK i \in Fd, c \in Client :
          \/ ServerEnds(Read(c))
          \/ Served(i, Read(c))
          \/ \E d : \E sent :
                Served(i, [Read(c) EXCEPT ![d] = ServerSends(Read(c)[d], sent)])
    BY <1>3 DEF RelayServe
  <2>2. KeepsPeers(Read(c))
    BY ReadKeeps
  <2>3. QED
    BY <2>1, <2>2, SendKeeps, ServerEndsMoves, ServedMoves
<1>4. ASSUME NEW c \in Client, Registers(c) \/ RelayConnect(c) PROVE Moved
  BY <1>4, ConnectMoves DEF Registers, RelayConnect
<1>5. ASSUME NEW c \in Client, NEW f \in Fd, TypeLine(c, f) PROVE Moved
  <2>1. IsClient(client[c])
    BY DEF Shape, AreClients
  <2>2. QED
    BY <1>5, <2>1, TypeMoves DEF TypeLine
<1>6. ASSUME NEW c \in Client, RelayReceive(c) PROVE Moved
  BY <1>6, ShowsMoves, ReportsMoves, NoticesMoves
     DEF RelayReceive, ShowsAll, ReceiveCpp, ReceiveC, ReceiveTema2
<1>7. QED
  BY <1>1, <1>2, <1>3, <1>4, <1>5, <1>6 DEF RelayNext, RelayServer

LEMMA ListMoves ==
  ASSUME Shape, newcomer # NoFd => sock[newcomer] # Free, ListNext
  PROVE  Moved
<1>1. CASE ListAccept
  BY <1>1, NothingMoves DEF ListAccept, Accept
<1>2. CASE RecvName
  <2> DEFINE c == sock[newcomer]
  <2>1. c \in Client
    BY <1>2 DEF RecvName, Shape
  <2>2. IsConnection(conn[c]) /\ KeepsPeers(conn)
    BY <2>1, ReadKeeps DEF Shape, AreConnections
  <2>3. PICK l : /\ conn' = [conn EXCEPT ![c] = l] /\ client' = client
                 /\ \/ l = [conn[c] EXCEPT !.toServer = Tail(conn[c].toServer)]
                    \/ l = [conn[c] EXCEPT !.peer =
                              IF conn[c].peer = "reset" THEN "dead" ELSE conn[c].peer]
    BY <1>2 DEF RecvName
  <2>4. IsConnection(l) /\ (l.peer # "open" => conn[c].peer # "open")
    BY <2>2, <2>3 DEF IsConnection, Knowledge, Heard
  <2>5. KeepsPeers(conn')
    BY <2>1, <2>2, <2>3, <2>4, UpdateKeeps
  <2>6. QED
    BY <2>3, <2>5, ServerMoves
<1>3. CASE ListHangup
  BY <1>3, HangupMoves DEF ListHangup
<1>4. CASE ListServe
  <2>1. PICK i \in Fd, c \in Client :
          \/ ServerEnds(Read(c))
          \/ Served(i, Read(c))
          \/ \E sent : Served(i, [Read(c) EXCEPT ![c] = ServerSends(Read(c)[c], sent)])
    BY <1>4 DEF ListServe
  <2>2. KeepsPeers(Read(c))
    BY ReadKeeps
  <2>3. QED
    BY <2>1, <2>2, SendKeeps, ServerEndsMoves, ServedMoves
<1>5. ASSUME NEW c \in Client, ListConnect(c) PROVE Moved
  BY <1>5, ConnectMoves DEF ListConnect
<1>6. ASSUME NEW c \in Client, TypeName(c) PROVE Moved
  <2> DEFINE q == [client[c] EXCEPT !.state = "running"]
  <2>1. IsConnection(conn[c]) /\ IsClient(client[c])
    BY DEF Shape, AreConnections, AreClients
  <2>0. CASE EndsAt(c, conn[c])
    BY <2>0, <2>1, EndsMoves
  <2> SUFFICES ASSUME ~EndsAt(c, conn[c]) PROVE Moved
    BY <2>0
  <2>2. PICK l : /\ conn' = [conn EXCEPT ![c] = l]
                 /\ \/ l = ClientSends(conn[c], [id |-> 0])
                    \/ l = [conn[c] EXCEPT !.end = "dead"]
    BY <1>6 DEF TypeName, Ends
  <2>3. client' = [client EXCEPT ![c] = q] /\ client[c].state = "naming"
    BY <1>6 DEF TypeName, Ends
  <2>4. IsConnection(l) /\ l.peer = conn[c].peer
    <3>1. /\ IsConnection(ClientSends(conn[c], [id |-> 0]))
          /\ ClientSends(conn[c], [id |-> 0]).peer = conn[c].peer
      BY <2>1, ClientSendsShape
    <3>2. /\ IsConnection([conn[c] EXCEPT !.end = "dead"])
          /\ [conn[c] EXCEPT !.end = "dead"].peer = conn[c].peer
      BY <2>1 DEF IsConnection, Knowledge, Heard
    <3>3. QED
      BY <2>2, <3>1, <3>2
  <2>5. IsClient(q) /\ q.state = "running"
    BY <2>1 DEF IsClient
  <2> HIDE DEF q
  <2>6. QED
    BY <2>2, <2>3, <2>4, <2>5, ClientMoves
<1>7. ASSUME NEW c \in Client, TypeList(c) PROVE Moved
  <2> DEFINE q == [client[c] EXCEPT !.waits = client[c].waits \cup {typed + 1}]
             l == [conn[c] EXCEPT !.end = "dead"]
  <2>1. IsConnection(conn[c]) /\ IsClient(client[c])
    BY DEF Shape, AreConnections, AreClients
  <2>2. IsClient(q) /\ q.state = client[c].state
    BY <2>1 DEF IsClient
  <2>3. IsConnection(l) /\ l.peer = conn[c].peer
    BY <2>1, FieldShape DEF Knowledge, Heard
  <2>4. CASE TypeAndSend(c, [id |-> typed + 1], q)
    <3> HIDE DEF q
    <3>1. QED
      BY <2>2, <2>4, TypeMoves
  <2>5. CASE conn' = [conn EXCEPT ![c] = l] /\ client' = client
    <3> HIDE DEF l
    <3>1. KeepsPeers(conn')
      BY <2>3, <2>5, ReadKeeps, UpdateKeeps
    <3>2. QED
      BY <2>5, <3>1, ServerMoves
  <2>6. QED
    BY <1>7, <2>4, <2>5 DEF TypeList
<1>8. ASSUME NEW c \in Client, ListReceive(c) PROVE Moved
  BY <1>8, ShowsMoves, NoticesMoves DEF ListReceive
<1>9. QED
  BY <1>1, <1>2, <1>3, <1>4, <1>5, <1>6, <1>7, <1>8 DEF ListNext, ListServer

LEMMA NamesMoves ==
  ASSUME Shape, NamesNext
  PROVE  Moved
<1>1. CASE NamesAccept
  BY <1>1, NothingMoves DEF NamesAccept, Accept
<1>2. CASE NamesHangup
  BY <1>2, HangupMoves DEF NamesHangup
<1>3. CASE Quit
  <2>1. KeepsPeers(conn)
    BY NIsNat, ReadKeeps DEF Client
  <2>2. QED
    BY <1>3, <2>1, ServerEndsMoves DEF Quit
<1>4. CASE NamesServe
  <2>1. PICK i \in Fd, c \in Client :
          \/ ServerEnds(Read(c))
          \/ Served(i, Read(c))
          \/ \E sent : Served(i, [Read(c) EXCEPT ![c] = ServerSends(Read(c)[c], sent)])
    BY <1>4 DEF NamesServe
  <2>2. KeepsPeers(Read(c))
    BY ReadKeeps
  <2>3. QED
    BY <2>1, <2>2, SendKeeps, ServerEndsMoves, ServedMoves
<1>5. ASSUME NEW c \in Client, NamesConnect(c) PROVE Moved
  BY <1>5, ConnectMoves DEF NamesConnect
<1>6. ASSUME NEW c \in Client, NamesReceive(c) PROVE Moved
  BY <1>6, ShowsMoves, ReportsMoves, NoticesMoves DEF NamesReceive, ShowsAll
<1>7. ASSUME NEW c \in Client, NEW m, NEW q, TypeAndSend(c, m, q),
             \/ q = client[c]
             \/ \E w : q = [client[c] EXCEPT !.waits = w]
             \/ \E w : q = [client[c] EXCEPT !.own = w]
      PROVE  Moved
  <2>1. IsClient(client[c])
    BY DEF Shape, AreClients
  <2>2. IsClient(q) /\ q.state = client[c].state
    BY <1>7, <2>1 DEF IsClient
  <2>3. QED
    BY <1>7, <2>2, TypeMoves
<1>8. ASSUME NEW c \in Client, TypeMail(c) PROVE Moved
  BY <1>7, <1>8 DEF TypeMail
<1>9. ASSUME NEW c \in Client, NEW kind, NEW h, TypeGet(c, kind, h) PROVE Moved
  BY <1>7, <1>9 DEF TypeGet
<1>10. ASSUME NEW c \in Client, NEW kind, NEW h, NEW v, TypeAdd(c, kind, h, v) PROVE Moved
  BY <1>7, <1>10 DEF TypeAdd
<1>11. QED
  BY <1>1, <1>2, <1>3, <1>4, <1>5, <1>6, <1>8, <1>9, <1>10 DEF NamesNext, NamesServer

\* The letter, and the congratulations, reach a set of the clients.
LEMMA SentToAllKeeps ==
  ASSUME Shape, NEW k, KeepsPeers(k), NEW m
  PROVE  KeepsPeers(SentToAll(k, m).conn)
<1> DEFINE told == SentToAll(k, m).conn
<1>1. /\ told \in [Client -> {told[c] : c \in Client}]
      /\ \A c \in Client : told[c] = k[c] \/ told[c] = ServerSends(k[c], <<m>>)
  BY DEF SentToAll
<1>2. \A c \in Client : IsConnection(k[c]) /\ (k[c].peer # "open" => conn[c].peer # "open")
  BY DEF KeepsPeers, AreConnections
<1>3. \A c \in Client :
         /\ IsConnection(ServerSends(k[c], <<m>>))
         /\ (ServerSends(k[c], <<m>>).peer = "open") <=> (k[c].peer = "open")
  BY <1>2, SendsShape
<1> HIDE DEF told
<1>4. KeepsPeers(told)
  BY <1>1, <1>2, <1>3 DEF KeepsPeers, AreConnections
<1>5. QED
  BY <1>4 DEF told

LEMMA AnswerMoves ==
  ASSUME Shape, NEW i, NEW c \in Client, NEW m, Answer(i, c, m)
  PROVE  Moved
<1>1. KeepsPeers(Read(c))
  BY ReadKeeps
<1>2. \/ ServerEnds(Read(c))
      \/ Served(i, [Read(c) EXCEPT ![c] = ServerSends(Read(c)[c], <<m>>)])
  BY DEF Answer
<1>3. QED
  BY <1>1, <1>2, SendKeeps, ServerEndsMoves, ServedMoves

LEMMA HangmanMoves ==
  ASSUME Shape, HangmanNext
  PROVE  Moved
<1>1. CASE HangmanAccept
  BY <1>1, NothingMoves DEF HangmanAccept, Accept
<1>2. KeepsPeers(conn)
  BY NIsNat, ReadKeeps DEF Client
<1>3. CASE HangmanHangup \/ Stop
  BY <1>2, <1>3, HangupMoves, ServerEndsMoves DEF HangmanHangup, Stop
<1>4. CASE SetWord
  <2>1. PICK i \in Fd, c \in Client : (\E m : Answer(i, c, m)) \/ Served(i, Read(c))
    BY <1>4 DEF SetWord
  <2>2. QED
    BY <2>1, AnswerMoves, ReadKeeps, ServedMoves
<1>5. CASE GuessLetter
  <2>1. PICK i \in Fd, c \in Client :
          \/ \E m : Answer(i, c, m)
          \/ \E m, n : LET told == SentToAll(Read(c), m)
                       IN  \/ ServerEnds(told.conn)
                           \/ ServerEnds(SentToAll(told.conn, n).conn)
                           \/ Served(i, told.conn)
    BY <1>5 DEF GuessLetter
  <2>2. KeepsPeers(Read(c))
    BY ReadKeeps
  <2>3. QED
    BY <2>1, <2>2, AnswerMoves, SentToAllKeeps, ServerEndsMoves, ServedMoves
<1>6. ASSUME NEW c \in Client, HangmanConnect(c) PROVE Moved
  BY <1>6, ConnectMoves DEF HangmanConnect
<1>7. ASSUME NEW c \in Client, NEW m, NEW q, TypeAndSend(c, m, q),
             q = client[c] \/ \E w : q = [client[c] EXCEPT !.waits = w]
      PROVE  Moved
  <2>1. IsClient(client[c])
    BY DEF Shape, AreClients
  <2>2. IsClient(q) /\ q.state = client[c].state
    BY <1>7, <2>1 DEF IsClient
  <2>3. QED
    BY <1>7, <2>2, TypeMoves
<1>8. ASSUME NEW c \in Client, NEW w, TypeWord(c, w) \/ TypeGuess(c, w) PROVE Moved
  BY <1>7, <1>8 DEF TypeWord, TypeGuess
<1>9. ASSUME NEW c \in Client, HangmanShows(c) PROVE Moved
  <2> DEFINE l == [conn[c] EXCEPT !.toClient = <<>>]
  <2>1. IsConnection(conn[c]) /\ IsClient(client[c])
    BY DEF Shape, AreConnections, AreClients
  <2>2. IsConnection(l) /\ l.peer = conn[c].peer
    BY <2>1 DEF IsConnection
  <2> DEFINE inbox == conn[c].toClient
             wrong == Head(inbox).kind = "gresit"
             ids   == {inbox[k].id : k \in DOMAIN inbox}
             shown == {inbox[k].letter : k \in {n \in DOMAIN inbox : inbox[n].kind = "litera"}}
             waits == IF wrong THEN {Head(inbox).id} ELSE ids
             q == [client[c] EXCEPT !.waits = @ \ waits,
                                    !.lost = IF wrong THEN @ + 1 ELSE @,
                                    !.own = IF wrong THEN @ ELSE @ \cup shown]
  <2>3. \/ EndsAt(c, l)
        \/ /\ conn' = [conn EXCEPT ![c] = l]
           /\ client' = [client EXCEPT
                            ![c].waits = @ \ waits,
                            ![c].lost = IF wrong THEN @ + 1 ELSE @,
                            ![c].own = IF wrong THEN @ ELSE @ \cup shown]
    BY Zenon, <1>9 DEF HangmanShows
  <2> HIDE DEF l, waits, shown, wrong
  <2>4. CASE EndsAt(c, l)
    BY <2>2, <2>4, EndsMoves
  <2>5. CASE /\ conn' = [conn EXCEPT ![c] = l]
             /\ client' = [client EXCEPT
                              ![c].waits = @ \ waits,
                              ![c].lost = IF wrong THEN @ + 1 ELSE @,
                              ![c].own = IF wrong THEN @ ELSE @ \cup shown]
    <3>1. client' = [client EXCEPT ![c] = q]
      BY <2>5 DEF Shape, AreClients
    <3>2. IsClient(q) /\ q.state = client[c].state
      BY <2>1 DEF IsClient
    <3> HIDE DEF q
    <3>3. QED
      BY <2>2, <2>5, <3>1, <3>2, ClientMoves
  <2>6. QED
    BY Zenon, <2>3, <2>4, <2>5
<1>10. ASSUME NEW c \in Client, HangmanReceive(c) PROVE Moved
  BY <1>9, <1>10, ReportsMoves, NoticesMoves DEF HangmanReceive
<1>11. QED
  BY <1>1, <1>3, <1>4, <1>5, <1>6, <1>8, <1>10 DEF HangmanNext, HangmanServer

\* The two of the chat are clients.
LEMMA ChatClients ==
  ASSUME Shape, InChat, Chat7, server = "up", Len(data.connfd) = 2
  PROVE  /\ data.turn \in {1, 2} /\ Target(data.turn) \in {1, 2}
         /\ \A k \in {1, 2} : sock[data.connfd[k]] \in Client
<1>1. /\ data.connfd \in Seq(Fd) /\ data.turn \in {1, 2}
      /\ \A k \in DOMAIN data.connfd : sock[data.connfd[k]] # Free
  BY DEF InChat
<1>2. \A k \in {1, 2} : k \in DOMAIN data.connfd /\ data.connfd[k] \in Fd
  BY <1>1
<1>3. QED
  BY <1>1, <1>2 DEF Shape, Target

LEMMA LockstepMoves ==
  ASSUME Shape, InChat, LockstepNext
  PROVE  Moved
<1>1. CASE LockstepAccept
  BY <1>1, NothingMoves DEF LockstepAccept
<1>2. CASE receive_and_send
  <2> DEFINE c == sock[data.connfd[data.turn]]
             n == conn[c].toServer
             failed == n = <<>> /\ conn[c].peer = "reset"
             block == IF n # <<>> THEN Head(n) ELSE [id |-> 0, from |-> c, nth |-> Garbage]
             seen == IF failed THEN "dead" ELSE Read(c)[c].peer
             v == [Read(c)[c] EXCEPT !.peer = seen]
             read == [Read(c) EXCEPT ![c].peer = IF failed THEN "dead" ELSE @]
  <2>1. c \in Client
    BY Zenon, <1>2, ChatClients DEF LockstepNext, receive_and_send
  <2>2. AreConnections(Read(c)) /\ IsConnection(Read(c)[c])
        /\ Read(c)[c].peer = conn[c].peer
    <3>1. KeepsPeers(Read(c))
      BY <2>1, ReadKeeps
    <3>2. Read(c)[c].peer = conn[c].peer
      BY SMTT(30), <2>1 DEF Read, Shape, AreConnections, IsConnection
    <3>3. QED
      BY Zenon, <2>1, <3>1, <3>2 DEF KeepsPeers, AreConnections
  <2>3. read = [Read(c) EXCEPT ![c] = v]
    BY <2>1, <2>2 DEF AreConnections
  <2>4. IsConnection(v) /\ (v.peer # "open" => conn[c].peer # "open")
    BY Zenon, <2>2 DEF IsConnection, Knowledge, Heard
  <2>5. KeepsPeers(read)
    <3> HIDE DEF read, v, c
    <3>1. KeepsPeers([Read(c) EXCEPT ![c] = v])
      BY <2>1, <2>4, ReadKeeps, UpdateKeeps
    <3>2. QED
      BY <2>3, <3>1
  <2>6. \/ ServerEnds(read)
        \/ \E d, sent : LET k == [read EXCEPT ![d] = ServerSends(read[d], sent)]
                        IN  ServerEnds(k) \/ (conn' = k /\ UNCHANGED client)
    BY ZenonT(30), <1>2 DEF receive_and_send
  <2> HIDE DEF read
  <2>7. \A d, sent : KeepsPeers([read EXCEPT ![d] = ServerSends(read[d], sent)])
    BY <2>5, SendKeeps
  <2>8. ASSUME NEW d, NEW sent,
               LET k == [read EXCEPT ![d] = ServerSends(read[d], sent)]
               IN  ServerEnds(k) \/ (conn' = k /\ UNCHANGED client)
        PROVE  Moved
    <3> DEFINE k == [read EXCEPT ![d] = ServerSends(read[d], sent)]
    <3>1. KeepsPeers(k)
      BY <2>7
    <3>2. ServerEnds(k) \/ (conn' = k /\ UNCHANGED client)
      BY <2>8
    <3> HIDE DEF k
    <3>3. QED
      BY <3>1, <3>2, ServerEndsMoves, ServerMoves
  <2>9. QED
    BY Zenon, <2>5, <2>6, <2>8, ServerEndsMoves
<1>3. ASSUME NEW c \in Client, LockstepConnect(c) PROVE Moved
  BY <1>3, ConnectMoves DEF LockstepConnect
<1>4. ASSUME NEW c \in Client, TypeTurn(c) PROVE Moved
  <2> DEFINE line == [id |-> typed + 1, from |-> c, nth |-> Cardinality(client[c].own) + 1]
             l == ClientSends(conn[c], line)
             q == [client[c] EXCEPT !.state = "waiting", !.waits = {typed + 1},
                                    !.own = @ \cup {typed + 1}]
  <2>1. IsConnection(conn[c]) /\ IsClient(client[c])
    BY DEF Shape, AreConnections, AreClients
  <2>2. CASE EndsAt(c, conn[c])
    BY <2>1, <2>2, EndsMoves
  <2>3. CASE /\ conn' = [conn EXCEPT ![c] = ClientSends(@, line)]
             /\ client' = [client EXCEPT ![c].state = "waiting", ![c].waits = {typed + 1},
                                         ![c].own = @ \cup {typed + 1}]
    <3>1. conn' = [conn EXCEPT ![c] = l]
      BY <2>3
    <3>2. client' = [client EXCEPT ![c] = q]
      BY <2>3 DEF Shape, AreClients
    <3>3. IsConnection(l) /\ l.peer = conn[c].peer
      BY <2>1, ClientSendsShape
    <3>4. IsClient(q) /\ q.state = "waiting"
      BY <2>1 DEF IsClient
    <3>5. client[c].state = "running"
      BY <1>4 DEF TypeTurn, Running
    <3> HIDE DEF l, q
    <3>6. QED
      BY <3>1, <3>2, <3>3, <3>4, <3>5, ClientMoves
  <2>4. QED
    BY <1>4, <2>2, <2>3 DEF TypeTurn, Ends
<1>5. ASSUME NEW c \in Client, LockstepReceive(c) PROVE Moved
  <2> DEFINE q == [client[c] EXCEPT !.state = "running", !.waits = {}]
  <2>1. IsConnection(conn[c]) /\ IsClient(client[c])
    BY DEF Shape, AreConnections, AreClients
  <2>2. PICK l : /\ conn' = [conn EXCEPT ![c] = l]
                 /\ \/ l = [conn[c] EXCEPT !.toClient = Tail(conn[c].toClient)]
                    \/ l = [conn[c] EXCEPT !.end =
                              IF conn[c].end = "reset" THEN "dead" ELSE conn[c].end]
    BY <1>5 DEF LockstepReceive
  <2>3. client' = [client EXCEPT ![c] = q] /\ client[c].state = "waiting"
    BY <1>5 DEF LockstepReceive, Shape, AreClients
  <2>4. IsConnection(l) /\ l.peer = conn[c].peer
    BY <2>1, <2>2 DEF IsConnection, Knowledge, Heard
  <2>5. IsClient(q) /\ q.state = "running"
    BY <2>1 DEF IsClient
  <2> HIDE DEF q
  <2>6. QED
    BY <2>2, <2>3, <2>4, <2>5, ClientMoves
<1>6. QED
  BY <1>1, <1>2, <1>3, <1>4, <1>5 DEF LockstepNext, LockstepServer

\* The clients of lab10 and lab11 and what answers them.
LEMMA UpdateMoves ==
  ASSUME Shape, NEW c \in Client, NEW l, IsConnection(l), l.peer = conn[c].peer,
         conn' = [conn EXCEPT ![c] = l], UNCHANGED client
  PROVE  Moved
<1>1. KeepsPeers(conn')
  BY ReadKeeps, UpdateKeeps
<1>2. QED
  BY <1>1, ServerMoves

LEMMA OutsideMoves ==
  ASSUME Shape, OutsideAccept \/ OutsideEnds
  PROVE  Moved
<1>1. CASE OutsideAccept
  BY <1>1, NothingMoves DEF OutsideAccept
<1>2. CASE OutsideEnds
  <2>1. KeepsPeers(conn)
    BY NIsNat, ReadKeeps DEF Client
  <2>2. QED
    BY <1>2, <2>1, ServerEndsMoves DEF OutsideEnds
<1>3. QED
  BY <1>1, <1>2

LEMMA HttpMoves ==
  ASSUME Shape, HttpNext
  PROVE  Moved
<1>1. CASE OutsideAccept \/ OutsideEnds
  BY <1>1, OutsideMoves
<1>2. ASSUME NEW c \in Client, HttpSends(c) PROVE Moved
  <2> DEFINE l == [conn[c] EXCEPT !.toServer = <<>>, !.toClient = Append(@, "piece")]
  <2>1. IsConnection(conn[c])
    BY DEF Shape, AreConnections
  <2>2. IsConnection(l) /\ l.peer = conn[c].peer
    BY <2>1 DEF IsConnection
  <2>3. conn' = [conn EXCEPT ![c] = l] /\ client' = client
    BY <1>2 DEF HttpSends, OutsideServes
  <2> HIDE DEF l
  <2>4. QED
    BY <2>2, <2>3, UpdateMoves
<1>3. ASSUME NEW c \in Client, HttpConnect(c) PROVE Moved
  BY <1>3, ConnectMoves DEF HttpConnect
<1>4. ASSUME NEW c \in Client, receive_from_server(c) PROVE Moved
  <2>1. IsConnection(conn[c]) /\ IsConnection(Emptied(c)) /\ Emptied(c).peer = conn[c].peer
    BY DEF Shape, AreConnections, IsConnection, Emptied
  <2>2. CASE \E k \in {conn[c], Emptied(c)} : \E d : GoesOn(c, k, d)
    BY <2>1, <2>2, UpdateMoves DEF GoesOn
  <2>3. CASE Returns(c)
    BY <2>1, <2>3, EndsMoves DEF Returns, Finishes
  <2>4. CASE ReadFails(c)
    BY <2>4, NoticesMoves DEF ReadFails
  <2>5. QED
    BY <1>4, <2>2, <2>3, <2>4 DEF receive_from_server, ReadHeader, HeaderEof, ReadBody
<1>5. QED
  BY <1>1, <1>2, <1>3, <1>4 DEF HttpNext

LEMMA MailMoves ==
  ASSUME Shape, MailNext
  PROVE  Moved
<1>1. CASE OutsideAccept \/ OutsideEnds
  BY <1>1, OutsideMoves
<1>2. ASSUME NEW c \in Client, NEW k, NEW lines, NEW d, IsConnection(k), k.peer = conn[c].peer,
             OutsideServes(c, ServerSends(k, lines), d)
      PROVE  Moved
  <2>1. /\ conn' = [conn EXCEPT ![c] = ServerSends(k, lines)] /\ client' = client
        /\ conn[c].peer = "open"
    BY <1>2 DEF OutsideServes
  <2>2. IsConnection(ServerSends(k, lines)) /\ ServerSends(k, lines).peer = "open"
    BY <1>2, <2>1, SendsShape
  <2>3. QED
    BY <2>1, <2>2, UpdateMoves
<1>3. ASSUME NEW c \in Client, SmtpGreets(c) \/ SmtpReplies(c) PROVE Moved
  <2>1. IsConnection(conn[c])
    BY DEF Shape, AreConnections
  <2> DEFINE k == [conn[c] EXCEPT !.toServer = Tail(@)]
  <2>2. IsConnection(k) /\ k.peer = conn[c].peer
    BY <2>1 DEF IsConnection
  <2>3. \E lines, d : OutsideServes(c, ServerSends(conn[c], lines), d)
                      \/ OutsideServes(c, ServerSends(k, lines), d)
    BY <1>3 DEF SmtpGreets, SmtpReplies
  <2> HIDE DEF k
  <2>4. QED
    BY <1>2, <2>1, <2>2, <2>3
<1>4. ASSUME NEW c \in Client, MailConnect(c) PROVE Moved
  BY <1>4, ConnectMoves DEF MailConnect
<1>5. ASSUME NEW c \in Client, NEW l, NEW d, IsConnection(l), l.peer = conn[c].peer,
             GoesOn(c, l, d) \/ Finishes(c, l, d) \/ Passes(c, l, d)
      PROVE  Moved
  <2>1. CASE \E e : GoesOn(c, l, e)
    BY <1>5, <2>1, UpdateMoves DEF GoesOn
  <2>2. CASE EndsAt(c, l)
    BY <1>5, <2>2, EndsMoves
  <2>3. QED
    BY <1>5, <2>1, <2>2 DEF Passes, Finishes
<1>6. ASSUME NEW c \in Client, send_command(c) PROVE Moved
  <2> DEFINE k == conn[c]
             tail == [conn[c] EXCEPT !.toClient = Tail(@)]
             dead == [conn[c] EXCEPT !.end = "dead"]
             seen == [conn[c] EXCEPT !.end = IF @ = "reset" THEN "dead" ELSE @]
             sent == ClientSends(conn[c], data.command + 1)
  <2>1. IsConnection(k)
    BY DEF Shape, AreConnections
  <2>2. \A l \in {k, tail, dead, seen, sent} : IsConnection(l) /\ l.peer = conn[c].peer
    <3>1. IsConnection(sent) /\ sent.peer = conn[c].peer
      BY <2>1, ClientSendsShape
    <3>2. IsConnection(tail) /\ tail.peer = conn[c].peer
      BY <2>1 DEF IsConnection
    <3>3. IsConnection(dead) /\ dead.peer = conn[c].peer
      BY <2>1 DEF IsConnection, Knowledge, Heard
    <3>4. IsConnection(seen) /\ seen.peer = conn[c].peer
      BY <2>1 DEF IsConnection, Knowledge, Heard
    <3> HIDE DEF tail, dead, seen, sent
    <3>5. QED
      BY <2>1, <3>1, <3>2, <3>3, <3>4
  <2>3. \E l \in {k, tail, dead, seen, sent} : \E d :
           GoesOn(c, l, d) \/ Finishes(c, l, d) \/ Passes(c, l, d)
    BY <1>6 DEF send_command, ReadGreeting, WriteCommand, ReadReply
  <2> HIDE DEF k, tail, dead, seen, sent
  <2>4. QED
    BY <1>5, <2>2, <2>3
<1>7. QED
  BY <1>1, <1>3, <1>4, <1>6 DEF MailNext

LEMMA NextMoves ==
  ASSUME Shape, InChat, newcomer # NoFd => sock[newcomer] # Free, Next
  PROVE  Moved
BY NextCases, RelayMoves, ListMoves, NamesMoves, HangmanMoves, LockstepMoves, HttpMoves,
   MailMoves, CommonMoves

-----------------------------------------------------------------------------
(* What the steps do to the descriptors.                                   *)

\* The server ends.
Cleared ==
    /\ server' = "down" /\ todo' = {} /\ newcomer' = NoFd /\ backlog' = <<>>
    /\ sock' = [f \in Fd |-> Free]

\* The first of the backlog gets the lowest free descriptor.
Seated ==
    /\ server = "up" /\ backlog # <<>>
    /\ sock' = [sock EXCEPT ![NewFd] = Head(backlog)]
    /\ backlog' = Tail(backlog)
    /\ todo' \subseteq todo /\ Listen \notin todo'
    /\ newcomer' \in {newcomer, NewFd}
    /\ UNCHANGED server

\* A client that has ended gives its descriptor back.
Freed ==
    \E i \in Fd : \E c \in Client :
        /\ sock' = [sock EXCEPT ![i] = Free]
        /\ c = sock[i] /\ conn[c].peer # "open" /\ newcomer = NoFd
        /\ todo' \subseteq todo
        /\ UNCHANGED <<server, newcomer, backlog>>

Joined ==
    \E c \in Client :
        /\ client[c].state = "new" /\ client'[c].state # "new"
        /\ backlog' = Append(backlog, c)
        /\ UNCHANGED <<server, todo, sock, newcomer>>

Stayed ==
    /\ UNCHANGED <<server, sock, backlog>>
    /\ newcomer' \in {newcomer, NoFd}
    /\ \/ todo' \subseteq todo
       \/ /\ program \notin {"lab7", "lab10", "lab11"}
          /\ Listen \in todo' => backlog # <<>>

SeatStep == UNCHANGED program /\ (Cleared \/ Seated \/ Freed \/ Joined \/ Stayed)

\* The building blocks of the actions.
LEMMA LoopSeats ==
  ASSUME Shape, Queued
  PROVE  /\ \A k : ServerEnds(k) => SeatStep
         /\ Accept /\ newcomer' \in {newcomer, NewFd} => SeatStep
         /\ \A i \in Fd, c \in Client : Hangup(i, c) => SeatStep
         /\ \A i, k : Served(i, k) => SeatStep
<1>1. ASSUME NEW k, ServerEnds(k) PROVE SeatStep
  BY <1>1 DEF ServerEnds, SeatStep, Cleared
<1>2. ASSUME Accept, newcomer' \in {newcomer, NewFd} PROVE SeatStep
  <2>1. /\ server = "up" /\ Listen \in todo /\ todo' = todo \ {Listen}
        /\ sock' = [sock EXCEPT ![NewFd] = Head(backlog)]
        /\ backlog' = Tail(backlog) /\ UNCHANGED <<program, server>>
    BY <1>2 DEF Accept
  <2>2. backlog # <<>>
    BY <2>1 DEF Queued
  <2>3. Seated
    BY <1>2, <2>1, <2>2 DEF Seated
  <2>4. QED
    BY <2>1, <2>3 DEF SeatStep
<1>3. ASSUME NEW i \in Fd, NEW c \in Client, Hangup(i, c) PROVE SeatStep
  <2>1. Freed
    BY <1>3 DEF Hangup, EndOf, At, Freed
  <2>2. QED
    BY <1>3, <2>1 DEF Hangup, SeatStep
<1>4. ASSUME NEW i, NEW k, Served(i, k) PROVE SeatStep
  BY <1>4 DEF Served, SeatStep, Stayed
<1>5. QED
  BY <1>1, <1>2, <1>3, <1>4

\* A client acts and the server's variables stay as they are.
LEMMA StaySeats ==
  ASSUME UNCHANGED <<program, server, todo, sock, newcomer, backlog>>
  PROVE  SeatStep
BY DEF SeatStep, Stayed

LEMMA ConnectSeats ==
  ASSUME Shape, NEW c \in Client, NEW state \in {"naming", "running"}, NEW first,
         Connect(c, state, first)
  PROVE  SeatStep
<1>1. /\ client' = [client EXCEPT ![c].state = state] /\ client[c].state = "new"
      /\ backlog' = Append(backlog, c)
      /\ UNCHANGED <<program, server, todo, sock, newcomer>>
  BY DEF Connect
<1>2. client'[c].state = state
  BY <1>1 DEF Shape, AreClients, IsClient
<1>3. Joined
  BY <1>1, <1>2 DEF Joined
<1>4. QED
  BY <1>1, <1>3 DEF SeatStep

LEMMA ClientSeats ==
  ASSUME NEW c \in Client,
         \/ \E m, q : TypeAndSend(c, m, q)
         \/ Leave(c)
         \/ \E n : Shows(c, n)
         \/ ReportsReset(c)
         \/ \E how : NoticesEnd(c, how)
  PROVE  SeatStep
<1>1. UNCHANGED program /\ UNCHANGED serverVars
  BY DEF TypeAndSend, Leave, Shows, ReportsReset, NoticesEnd
<1>2. QED
  BY <1>1, StaySeats DEF serverVars

LEMMA CommonSeats ==
  ASSUME Shape, Queued, CommonNext
  PROVE  SeatStep
<1>1. CASE StartPass
  <2>1. /\ program \notin {"lab7", "lab10", "lab11"}
        /\ UNCHANGED <<program, server, sock, newcomer, backlog>>
        /\ Listen \in todo' => backlog # <<>>
    BY <1>1, NIsNat DEF StartPass, Readable, Listen, Fd
  <2>2. QED
    BY <2>1 DEF SeatStep, Stayed
<1>2. CASE RecvFails \/ OverrunEnds
  BY <1>2, LoopSeats DEF RecvFails, OverrunEnds
<1>3. CASE \E c \in Client : Leave(c)
  BY <1>3, ClientSeats
<1>4. CASE \E c \in Client : ConnectFails(c)
  <2>1. UNCHANGED program /\ UNCHANGED serverVars
    BY <1>4 DEF ConnectFails
  <2>2. QED
    BY <2>1, StaySeats DEF serverVars
<1>5. QED
  BY <1>1, <1>2, <1>3, <1>4 DEF CommonNext

LEMMA RelaySeats ==
  ASSUME Shape, Queued, RelayNext
  PROVE  SeatStep
<1>1. CASE RelayServer
  BY Zenon, <1>1, LoopSeats DEF RelayServer, RelayAccept, RelayHangup, RelayServe
<1>2. ASSUME NEW c \in Client, Registers(c) \/ RelayConnect(c) PROVE SeatStep
  BY <1>2, ConnectSeats DEF Registers, RelayConnect
<1>3. ASSUME NEW c \in Client, NEW f, TypeLine(c, f) PROVE SeatStep
  BY <1>3, ClientSeats DEF TypeLine
<1>4. ASSUME NEW c \in Client, RelayReceive(c) PROVE SeatStep
  BY <1>4, ClientSeats DEF RelayReceive, ShowsAll, ReceiveCpp, ReceiveC, ReceiveTema2
<1>5. QED
  BY <1>1, <1>2, <1>3, <1>4 DEF RelayNext

LEMMA ListSeats ==
  ASSUME Shape, Queued, ListNext
  PROVE  SeatStep
<1>1. CASE ListServer
  <2>1. CASE RecvName
    BY <2>1 DEF RecvName, SeatStep, Stayed
  <2>2. QED
    BY <1>1, <2>1, LoopSeats DEF ListServer, ListAccept, ListHangup, ListServe
<1>2. ASSUME NEW c \in Client, ListConnect(c) PROVE SeatStep
  BY <1>2, ConnectSeats DEF ListConnect
<1>3. ASSUME NEW c \in Client, TypeName(c) \/ TypeList(c) PROVE SeatStep
  <2>1. UNCHANGED program /\ UNCHANGED serverVars
    BY <1>3 DEF TypeName, TypeList, TypeAndSend
  <2>2. QED
    BY <2>1, StaySeats DEF serverVars
<1>4. ASSUME NEW c \in Client, ListReceive(c) PROVE SeatStep
  BY <1>4, ClientSeats DEF ListReceive
<1>5. QED
  BY <1>1, <1>2, <1>3, <1>4 DEF ListNext

LEMMA NamesSeats ==
  ASSUME Shape, Queued, NamesNext
  PROVE  SeatStep
<1>1. CASE NamesServer \/ Quit
  BY Zenon, <1>1, LoopSeats DEF NamesServer, NamesAccept, NamesHangup, NamesServe, Quit
<1>2. ASSUME NEW c \in Client, NamesConnect(c) PROVE SeatStep
  BY <1>2, ConnectSeats DEF NamesConnect
<1>3. ASSUME NEW c \in Client, NEW kind, NEW h, NEW v,
             TypeMail(c) \/ TypeGet(c, kind, h) \/ TypeAdd(c, kind, h, v)
      PROVE  SeatStep
  BY <1>3, ClientSeats DEF TypeMail, TypeGet, TypeAdd
<1>4. ASSUME NEW c \in Client, NamesReceive(c) PROVE SeatStep
  BY <1>4, ClientSeats DEF NamesReceive, ShowsAll
<1>5. QED
  BY <1>1, <1>2, <1>3, <1>4 DEF NamesNext

LEMMA HangmanSeats ==
  ASSUME Shape, Queued, HangmanNext
  PROVE  SeatStep
<1>1. CASE HangmanServer \/ Stop
  BY Zenon, <1>1, LoopSeats
     DEF HangmanServer, HangmanAccept, HangmanHangup, SetWord, GuessLetter, Answer, Stop
<1>2. ASSUME NEW c \in Client, HangmanConnect(c) PROVE SeatStep
  BY <1>2, ConnectSeats DEF HangmanConnect
<1>3. ASSUME NEW c \in Client, NEW w, TypeWord(c, w) \/ TypeGuess(c, w) PROVE SeatStep
  BY <1>3, ClientSeats DEF TypeWord, TypeGuess
<1>4. ASSUME NEW c \in Client, HangmanReceive(c) PROVE SeatStep
  <2>1. CASE HangmanShows(c)
    <3>1. UNCHANGED program /\ UNCHANGED serverVars
      BY Zenon, <2>1 DEF HangmanShows
    <3>2. QED
      BY <3>1, StaySeats DEF serverVars
  <2>2. QED
    BY <1>4, <2>1, ClientSeats DEF HangmanReceive
<1>5. QED
  BY <1>1, <1>2, <1>3, <1>4 DEF HangmanNext

LEMMA LockstepSeats ==
  ASSUME Shape, Queued, LockstepNext
  PROVE  SeatStep
<1>1. CASE LockstepAccept
  <2>1. Listen \notin todo
    BY DEF LockstepNext, Chat7, Queued
  <2>2. Seated
    BY <1>1, <2>1 DEF LockstepAccept, Seated
  <2>3. QED
    BY <1>1, <2>2 DEF LockstepAccept, SeatStep
<1>2. CASE receive_and_send
  <2>1. (\E k : ServerEnds(k)) \/ UNCHANGED <<program, server, todo, sock, newcomer, backlog>>
    BY Zenon, <1>2 DEF receive_and_send
  <2>2. QED
    BY <2>1, LoopSeats, StaySeats
<1>3. ASSUME NEW c \in Client, LockstepConnect(c) PROVE SeatStep
  BY <1>3, ConnectSeats DEF LockstepConnect
<1>4. ASSUME NEW c \in Client, TypeTurn(c) \/ LockstepReceive(c) PROVE SeatStep
  <2>1. UNCHANGED program /\ UNCHANGED serverVars
    BY <1>4 DEF TypeTurn, LockstepReceive
  <2>2. QED
    BY <2>1, StaySeats DEF serverVars
<1>5. QED
  BY <1>1, <1>2, <1>3, <1>4 DEF LockstepNext, LockstepServer

LEMMA OutsideSeats ==
  ASSUME Shape, Queued, HttpNext \/ MailNext
  PROVE  SeatStep
<1>1. CASE OutsideAccept
  <2>1. Listen \notin todo
    BY DEF HttpNext, Http, MailNext, Smtp, Queued
  <2>2. Seated
    BY <1>1, <2>1 DEF OutsideAccept, Seated
  <2>3. QED
    BY <1>1, <2>2 DEF OutsideAccept, SeatStep
<1>2. CASE OutsideEnds
  BY <1>2, LoopSeats DEF OutsideEnds
<1>3. ASSUME NEW c \in Client, HttpConnect(c) \/ MailConnect(c) PROVE SeatStep
  BY <1>3, ConnectSeats DEF HttpConnect, MailConnect
<1>4. ASSUME NEW c \in Client, NEW l, NEW d,
             OutsideServes(c, l, d) \/ GoesOn(c, l, d) \/ Finishes(c, l, d) \/ Passes(c, l, d)
      PROVE  SeatStep
  <2>1. UNCHANGED <<program, server, todo, sock, newcomer, backlog>>
    BY <1>4 DEF OutsideServes, GoesOn, Finishes, Passes
  <2>2. QED
    BY <2>1, StaySeats
<1>5. ASSUME NEW c \in Client, HttpSends(c) \/ SmtpGreets(c) \/ SmtpReplies(c)
      PROVE  SeatStep
  BY <1>4, <1>5 DEF HttpSends, SmtpGreets, SmtpReplies
<1>6. ASSUME NEW c \in Client, receive_from_server(c) PROVE SeatStep
  BY <1>4, <1>6, ClientSeats
     DEF receive_from_server, ReadHeader, HeaderEof, ReadBody, Returns, ReadFails
<1>7. ASSUME NEW c \in Client, send_command(c) PROVE SeatStep
  BY <1>4, <1>7 DEF send_command, ReadGreeting, WriteCommand, ReadReply
<1>8. QED
  BY <1>1, <1>2, <1>3, <1>5, <1>6, <1>7 DEF HttpNext, MailNext

LEMMA NextSeats ==
  ASSUME Shape, Queued, Next
  PROVE  SeatStep
BY NextCases, RelaySeats, ListSeats, NamesSeats, HangmanSeats, LockstepSeats, OutsideSeats,
   CommonSeats

\* Who has no descriptor yet finds one free.
LEMMA NewFdFree ==
  ASSUME Shape, Seats, NEW c \in Client, \A f \in Fd : sock[f] # c
  PROVE  NewFd \in Fd /\ sock[NewFd] = Free
<1> DEFINE FreeFds == {f \in Fd : sock[f] = Free}
<1>1. \E f \in Fd : sock[f] = Free
  <2>1. /\ N \in Nat /\ sock \in [4 .. 3 + N -> 1 .. N \cup {0}] /\ c \in 1 .. N
        /\ \A f, g \in 4 .. 3 + N : sock[f] # 0 /\ sock[f] = sock[g] => f = g
        /\ \A f \in 4 .. 3 + N : sock[f] # c
    BY NIsNat DEF Shape, Seats, Fd, Client, Free
  <2>2. QED
    BY <2>1, FreeDescriptor DEF Fd, Free
<1>2. FreeFds \in SUBSET Nat /\ FreeFds # {}
  BY <1>1, NIsNat DEF Fd
<1> HIDE DEF FreeFds
<1>3. \E f \in FreeFds : \A g \in FreeFds : f <= g
  BY <1>2, LeastExists
<1>4. Least(FreeFds) \in FreeFds
  BY <1>3 DEF Least
<1>5. QED
  BY <1>4 DEF FreeFds, NewFd

LEMMA SeatedKeeps ==
  ASSUME Shape, Seats, Queued, Moved, Seated, UNCHANGED program
  PROVE  /\ sock' \in [Fd -> Client \cup {Free}] /\ backlog' \in Seq(Client)
         /\ newcomer' \in Fd \cup {NoFd}
         /\ Seats' /\ Queued'
<1> DEFINE new == NewFd
           c   == Head(backlog)
<1>1. /\ sock \in [Fd -> Client \cup {Free}] /\ backlog \in Seq(Client)
      /\ newcomer \in Fd \cup {NoFd} /\ Free \notin Client /\ Fd \subseteq Nat /\ NoFd \notin Fd
  BY NIsNat DEF Shape, Free, Client, Fd, NoFd
<1>2. /\ backlog # <<>> /\ sock' = [sock EXCEPT ![new] = c] /\ backlog' = Tail(backlog)
      /\ todo' \subseteq todo /\ Listen \notin todo' /\ newcomer' \in {newcomer, new}
  BY DEF Seated
<1>3. /\ 1 \in DOMAIN backlog /\ c = backlog[1] /\ c \in Client
      /\ DOMAIN backlog = 1 .. Len(backlog) /\ Len(backlog) \in Nat
      /\ backlog' \in Seq(Client) /\ DOMAIN (backlog') = 1 .. Len(backlog) - 1
      /\ \A n \in 1 .. Len(backlog) - 1 : backlog'[n] = backlog[n + 1]
  BY <1>1, <1>2, HeadTailProperties
<1>4. client[c].state # "new" /\ \A f \in Fd : sock[f] # c
  BY <1>3 DEF Queued
<1>5. new \in Fd /\ sock[new] = Free
  BY <1>3, <1>4, NewFdFree
<1> HIDE DEF new, c
<1>6. /\ sock' \in [Fd -> Client \cup {Free}]
      /\ sock'[new] = c /\ \A f \in Fd : f # new => sock'[f] = sock[f]
  BY <1>1, <1>2, <1>3, <1>5
<1>7. Seats'
  <2>1. \A f, g \in Fd : sock'[f] # Free /\ sock'[f] = sock'[g] => f = g
    BY <1>4, <1>6 DEF Seats
  <2>2. ASSUME NEW f \in Fd, sock'[f] # Free PROVE client'[sock'[f]].state # "new"
    <3>1. sock'[f] \in Client /\ client[sock'[f]].state # "new"
      BY <1>3, <1>4, <1>6, <2>2 DEF Seats
    <3>2. QED
      BY <3>1 DEF Moved
  <2>3. newcomer' # NoFd => sock'[newcomer'] # Free
    BY <1>1, <1>2, <1>3, <1>5, <1>6 DEF Seats
  <2>4. QED
    BY <2>1, <2>2, <2>3 DEF Seats
<1>8. Queued'
  <2>1. \A m, n \in DOMAIN (backlog') : backlog'[m] = backlog'[n] => m = n
    <3>1. \A m, n \in 1 .. Len(backlog) : backlog[m] = backlog[n] => m = n
      BY <1>3 DEF Queued
    <3>2. QED
      BY <1>3, <3>1
  <2>2. ASSUME NEW n \in DOMAIN (backlog')
        PROVE  client'[backlog'[n]].state # "new" /\ \A f \in Fd : sock'[f] # backlog'[n]
    <3>1. n + 1 \in DOMAIN backlog /\ backlog'[n] = backlog[n + 1] /\ n + 1 # 1
      BY <1>3
    <3>2. backlog[n + 1] # c
      BY <1>3, <3>1 DEF Queued
    <3>3. /\ client[backlog[n + 1]].state # "new" /\ \A f \in Fd : sock[f] # backlog[n + 1]
          /\ backlog[n + 1] \in Client
      BY <1>1, <1>3, <3>1 DEF Queued
    <3>4. \A f \in Fd : sock'[f] # backlog'[n]
      BY <1>6, <3>1, <3>2, <3>3
    <3>5. QED
      BY <3>1, <3>3, <3>4 DEF Moved
  <2>3. program \in {"lab7", "lab10", "lab11"} => todo' = {}
    BY <1>2 DEF Queued
  <2>4. QED
    BY <1>2, <2>1, <2>2, <2>3 DEF Queued
<1>9. newcomer' \in Fd \cup {NoFd}
  BY <1>1, <1>2, <1>5
<1>10. QED
  BY <1>3, <1>6, <1>7, <1>8, <1>9

LEMMA FreedKeeps ==
  ASSUME Shape, Seats, Queued, Moved, Freed, UNCHANGED program
  PROVE  sock' \in [Fd -> Client \cup {Free}] /\ Seats' /\ Queued'
<1>1. PICK i \in Fd : sock' = [sock EXCEPT ![i] = Free]
  BY DEF Freed
<1>2. newcomer' = NoFd /\ todo' \subseteq todo /\ backlog' = backlog
  BY DEF Freed
<1>3. /\ sock \in [Fd -> Client \cup {Free}] /\ Free \notin Client
      /\ backlog \in Seq(Client) /\ DOMAIN backlog = 1 .. Len(backlog)
  BY DEF Shape, Free, Client
<1>4. \A f \in Fd : sock'[f] = IF f = i THEN Free ELSE sock[f]
  BY <1>1, <1>3
<1>5. Seats'
  <2>1. \A f, g \in Fd : sock'[f] # Free /\ sock'[f] = sock'[g] => f = g
    BY <1>4 DEF Seats
  <2>2. \A f \in Fd : sock'[f] # Free => client'[sock'[f]].state # "new"
    BY <1>3, <1>4 DEF Seats, Moved
  <2>3. QED
    BY <1>2, <2>1, <2>2 DEF Seats
<1>6. Queued'
  <2>1. ASSUME NEW n \in DOMAIN backlog
        PROVE  client'[backlog[n]].state # "new" /\ \A f \in Fd : sock'[f] # backlog[n]
    <3>1. /\ backlog[n] \in Client /\ client[backlog[n]].state # "new"
          /\ \A f \in Fd : sock[f] # backlog[n]
      BY <1>3 DEF Queued
    <3>2. \A f \in Fd : sock'[f] # backlog[n]
      BY <1>3, <1>4, <3>1
    <3>3. QED
      BY <3>1, <3>2 DEF Moved
  <2>2. \A m, n \in DOMAIN backlog : backlog[m] = backlog[n] => m = n
    BY DEF Queued
  <2>3. (Listen \in todo' => backlog # <<>>)
        /\ (program \in {"lab7", "lab10", "lab11"} => todo' = {})
    BY <1>2 DEF Queued
  <2>4. QED
    BY <1>2, <2>1, <2>2, <2>3 DEF Queued
<1>7. sock' \in [Fd -> Client \cup {Free}]
  BY <1>1, <1>3
<1>8. QED
  BY <1>5, <1>6, <1>7

LEMMA JoinedKeeps ==
  ASSUME Shape, Seats, Queued, Moved, Joined, UNCHANGED program
  PROVE  backlog' \in Seq(Client) /\ Seats' /\ Queued'
<1>1. PICK c \in Client :
        client[c].state = "new" /\ client'[c].state # "new" /\ backlog' = Append(backlog, c)
  BY DEF Joined
<1>2. sock' = sock /\ newcomer' = newcomer /\ todo' = todo
  BY DEF Joined
<1>3. /\ sock \in [Fd -> Client \cup {Free}] /\ Free \notin Client
      /\ backlog \in Seq(Client) /\ DOMAIN backlog = 1 .. Len(backlog) /\ Len(backlog) \in Nat
      /\ \A n \in DOMAIN backlog : backlog[n] \in Client
  <2>1. backlog \in Seq(Client) /\ sock \in [Fd -> Client \cup {Free}]
    BY DEF Shape
  <2>2. DOMAIN backlog = 1 .. Len(backlog) /\ Len(backlog) \in Nat
        /\ \A n \in DOMAIN backlog : backlog[n] \in Client
    BY <2>1
  <2>3. QED
    BY <2>1, <2>2 DEF Free, Client
<1>4. /\ backlog' \in Seq(Client) /\ DOMAIN (backlog') = 1 .. Len(backlog) + 1
      /\ backlog'[Len(backlog) + 1] = c
      /\ \A n \in 1 .. Len(backlog) : backlog'[n] = backlog[n]
  BY <1>1, <1>3, AppendProperties
<1>5. (\A f \in Fd : sock[f] # c) /\ \A n \in 1 .. Len(backlog) : backlog[n] # c
  BY <1>1, <1>3 DEF Seats, Queued, Free
<1>6. Seats'
  <2>1. \A f \in Fd : sock[f] # Free => client'[sock[f]].state # "new"
    BY <1>3 DEF Seats, Moved
  <2>2. QED
    BY <1>2, <2>1 DEF Seats
<1>7. Queued'
  <2>1. \A m, n \in DOMAIN (backlog') : backlog'[m] = backlog'[n] => m = n
    <3>1. \A m, n \in 1 .. Len(backlog) : backlog[m] = backlog[n] => m = n
      BY <1>3 DEF Queued
    <3>2. QED
      BY <1>3, <1>4, <1>5, <3>1
  <2>2. ASSUME NEW n \in DOMAIN (backlog')
        PROVE  client'[backlog'[n]].state # "new" /\ \A f \in Fd : sock'[f] # backlog'[n]
    <3>1. CASE n \in 1 .. Len(backlog)
      <4>1. /\ backlog'[n] = backlog[n] /\ backlog[n] \in Client
            /\ client[backlog[n]].state # "new" /\ \A f \in Fd : sock[f] # backlog[n]
        BY <1>3, <1>4, <3>1 DEF Queued
      <4>2. QED
        BY <1>2, <4>1 DEF Moved
    <3>2. CASE n = Len(backlog) + 1
      BY <1>1, <1>2, <1>4, <1>5, <3>2
    <3>3. QED
      BY <1>3, <1>4, <2>2, <3>1, <3>2
  <2>3. backlog' # <<>>
    BY <1>3, <1>4
  <2>4. program \in {"lab7", "lab10", "lab11"} => todo = {}
    BY DEF Queued
  <2>5. QED
    BY <1>2, <2>1, <2>2, <2>3, <2>4 DEF Queued
<1>8. QED
  BY <1>4, <1>6, <1>7

LEMMA StayedKeeps ==
  ASSUME Shape, Seats, Queued, Moved, Stayed, UNCHANGED program
  PROVE  Seats' /\ Queued'
<1>1. sock' = sock /\ backlog' = backlog /\ newcomer' \in {newcomer, NoFd}
  BY DEF Stayed
<1>2. /\ sock \in [Fd -> Client \cup {Free}]
      /\ backlog \in Seq(Client) /\ \A n \in DOMAIN backlog : backlog[n] \in Client
  BY DEF Shape
<1>3. Seats'
  <2>1. \A f \in Fd : sock[f] # Free => client'[sock[f]].state # "new"
    BY <1>2 DEF Seats, Moved
  <2>2. newcomer' # NoFd => sock[newcomer'] # Free
    BY <1>1 DEF Seats
  <2>3. QED
    BY <1>1, <2>1, <2>2 DEF Seats
<1>4. Queued'
  <2>1. \A n \in DOMAIN backlog : client'[backlog[n]].state # "new"
    BY <1>2 DEF Queued, Moved
  <2>2. /\ Listen \in todo' => backlog # <<>>
        /\ program \in {"lab7", "lab10", "lab11"} => todo' = {}
    BY DEF Stayed, Queued
  <2>3. QED
    BY <1>1, <2>1, <2>2 DEF Queued
<1>5. QED
  BY <1>3, <1>4

LEMMA ClearedKeeps ==
  ASSUME Shape, Cleared
  PROVE  /\ sock' \in [Fd -> Client \cup {Free}] /\ backlog' \in Seq(Client)
         /\ newcomer' \in Fd \cup {NoFd} /\ server' \in {"up", "down"}
         /\ Seats' /\ Queued'
<1>1. /\ todo' = {} /\ newcomer' = NoFd /\ backlog' = <<>> /\ server' = "down"
      /\ sock' = [f \in Fd |-> Free] /\ \A f \in Fd : sock'[f] = Free
  BY DEF Cleared
<1>2. DOMAIN <<>> = {} /\ <<>> \in Seq(Client)
  OBVIOUS
<1>3. Seats'
  BY <1>1 DEF Seats
<1>4. Queued'
  BY <1>1, <1>2 DEF Queued
<1>5. QED
  BY <1>1, <1>2, <1>3, <1>4

-----------------------------------------------------------------------------
\* The invariant of the loop, and of its clients.
Loop == Shape /\ Peers /\ Seats /\ Queued

LEMMA NextLoop ==
  ASSUME Loop, InChat, Next
  PROVE  Loop'
<1> USE DEF Loop
<1>1. Moved /\ SeatStep
  BY NextMoves, NextSeats DEF Seats
<1>2. Peers'
  BY <1>1 DEF Peers, Moved
<1>3. /\ sock' \in [Fd -> Client \cup {Free}] /\ backlog' \in Seq(Client)
      /\ newcomer' \in Fd \cup {NoFd} /\ server' \in {"up", "down"}
      /\ Seats' /\ Queued'
  <2>1. CASE Cleared
    BY <2>1, ClearedKeeps
  <2>2. CASE Seated
    <3>1. server' \in {"up", "down"}
      BY <2>2 DEF Seated, Shape
    <3>2. QED
      BY <1>1, <2>2, <3>1, SeatedKeeps DEF SeatStep
  <2>3. CASE Freed
    <3>1. server' = server /\ newcomer' = newcomer /\ backlog' = backlog
      BY <2>3 DEF Freed
    <3>2. QED
      BY <1>1, <2>3, <3>1, FreedKeeps DEF SeatStep, Shape
  <2>4. CASE Joined
    <3>1. server' = server /\ newcomer' = newcomer /\ sock' = sock
      BY <2>4 DEF Joined
    <3>2. QED
      BY <1>1, <2>4, <3>1, JoinedKeeps DEF SeatStep, Shape
  <2>5. CASE Stayed
    <3>1. server' = server /\ newcomer' \in {newcomer, NoFd} /\ sock' = sock /\ backlog' = backlog
      BY <2>5 DEF Stayed
    <3>2. QED
      BY <1>1, <2>5, <3>1, StayedKeeps DEF SeatStep, Shape
  <2>6. QED
    BY <1>1, <2>1, <2>2, <2>3, <2>4, <2>5 DEF SeatStep
<1>4. program' \in Program
  BY <1>1 DEF SeatStep, Shape
<1>5. Shape'
  BY <1>1, <1>3, <1>4 DEF Shape, Moved
<1>6. QED
  BY <1>2, <1>3, <1>5

LEMMA LeftStays ==
  ASSUME Moved, SomebodyLeft
  PROVE  SomebodyLeft'
BY DEF Moved, SomebodyLeft

\* What the relays remember of their clients.
LEMMA NamedKeeps ==
  ASSUME Loop, Named, InChat, Next
  PROVE  Named'
<1>1. Moved /\ SeatStep
  BY NextMoves, NextSeats DEF Loop, Seats
<1> SUFFICES ASSUME program \in Relays PROVE Named'
  BY <1>1 DEF SeatStep, Named
<1>2. \/ RelayAccept \/ RelayServe
      \/ UNCHANGED data
  <2>1. CASE RelayNext
    <3>1. RelayHangup => UNCHANGED data
      BY DEF RelayHangup, ServerEnds
    <3>2. \A c \in Client : Registers(c) \/ RelayConnect(c) \/ RelayReceive(c) => UNCHANGED data
      BY DEF Registers, RelayConnect, Connect, RelayReceive, ShowsAll, Shows, ReceiveCpp, ReceiveC,
             ReceiveTema2, ReportsReset, NoticesEnd, serverVars
    <3>3. \A c \in Client : \A f \in Fd : TypeLine(c, f) => UNCHANGED data
      BY DEF TypeLine, TypeAndSend, serverVars
    <3>4. QED
      BY <2>1, <3>1, <3>2, <3>3 DEF RelayNext, RelayServer
  <2>2. CASE CommonNext
    BY <2>2 DEF CommonNext, StartPass, RecvFails, OverrunEnds, ServerEnds, Leave, ConnectFails,
            serverVars
  <2>3. ~ListNext /\ ~NamesNext /\ ~HangmanNext /\ ~LockstepNext /\ ~HttpNext /\ ~MailNext
    BY DEF ListNext, NamesNext, HangmanNext, LockstepNext, HttpNext, MailNext, Chat, NameServers,
           Game, Chat7, Http, Smtp, Relays
  <2>4. QED
    BY <2>1, <2>2, <2>3, NextCases
<1>3. /\ data \in [names : Seq(Fd), negative : BOOLEAN]
      /\ server = "up" => \A k \in DOMAIN data.names :
                             sock[data.names[k]] # Free \/ SomebodyLeft
  BY DEF Named
<1>4. /\ sock \in [Fd -> Client \cup {Free}] /\ backlog \in Seq(Client)
      /\ data.names \in Seq(Fd) /\ Free \notin Client
      /\ DOMAIN data.names = 1 .. Len(data.names) /\ Len(data.names) \in Nat
      /\ \A k \in DOMAIN data.names : data.names[k] \in Fd
  BY <1>3 DEF Loop, Shape, Free, Client
\* A descriptor keeps its client, or somebody has left.
<1>5. server' = "up" =>
        /\ server = "up"
        /\ \A f \in Fd : sock[f] # Free => sock'[f] # Free \/ SomebodyLeft
  <2>1. CASE Cleared
    BY <2>1 DEF Cleared
  <2>2. CASE Seated
    <3>1. \A f \in Fd : sock'[f] = sock[f] \/ sock'[f] = Head(backlog)
      BY <1>4, <2>2 DEF Seated
    <3>2. server' = server /\ Head(backlog) \in Client
      BY <1>4, <2>2 DEF Seated
    <3>3. QED
      BY <1>4, <3>1, <3>2
  <2>3. CASE Freed
    <3>1. SomebodyLeft
      BY <2>3 DEF Freed, Loop, Peers, SomebodyLeft
    <3>2. server' = server
      BY <2>3 DEF Freed
    <3>3. QED
      BY <3>1, <3>2
  <2>4. CASE Joined \/ Stayed
    BY <2>4 DEF Joined, Stayed
  <2>5. QED
    BY <1>1, <2>1, <2>2, <2>3, <2>4 DEF SeatStep
<1>6. CASE RelayAccept
  <2> DEFINE new == NewFd
             names == Append(data.names, new)
  <2>1. Listen \in todo /\ data' = [data EXCEPT !.names = names]
        /\ sock' = [sock EXCEPT ![new] = Head(backlog)]
    BY <1>6 DEF RelayAccept, Accept
  <2>2. /\ 1 \in DOMAIN backlog /\ Head(backlog) = backlog[1] /\ Head(backlog) \in Client
    BY <1>4, <2>1 DEF Loop, Queued
  <2>3. new \in Fd
    BY <2>2, NewFdFree DEF Loop, Queued
  <2> HIDE DEF new
  <2>4. /\ names \in Seq(Fd) /\ DOMAIN names = 1 .. Len(data.names) + 1
        /\ names[Len(data.names) + 1] = new
        /\ \A k \in 1 .. Len(data.names) : names[k] = data.names[k]
    BY <1>4, <2>3, AppendProperties
  <2> HIDE DEF names
  <2>5. data' \in [names : Seq(Fd), negative : BOOLEAN] /\ data'.names = names
    BY <1>3, <2>1, <2>4
  <2>6. sock'[new] # Free
    BY <1>4, <2>1, <2>2, <2>3
  <2>7. ASSUME server' = "up", NEW k \in DOMAIN names
        PROVE  sock'[names[k]] # Free \/ SomebodyLeft'
    <3>1. CASE k \in 1 .. Len(data.names)
      <4>1. names[k] \in Fd /\ (sock[names[k]] # Free \/ SomebodyLeft)
        BY <1>3, <1>4, <1>5, <2>4, <2>7, <3>1
      <4>2. sock'[names[k]] # Free \/ SomebodyLeft
        BY <1>5, <2>7, <4>1
      <4>3. QED
        BY <1>1, <4>2, LeftStays
    <3>2. CASE k = Len(data.names) + 1
      BY <2>4, <2>6, <3>2
    <3>3. QED
      BY <1>4, <2>4, <2>7, <3>1, <3>2
  <2>8. QED
    BY <2>5, <2>7 DEF Named
<1>7. CASE RelayServe \/ UNCHANGED data
  <2>1. data' \in [names : Seq(Fd), negative : BOOLEAN] /\ data'.names = data.names
    <3>1. data' = data \/ data' = [data EXCEPT !.negative = FALSE]
      BY Zenon, <1>7 DEF RelayServe, ServerEnds
    <3>2. QED
      BY Zenon, <1>3, <3>1
  <2>2. ASSUME server' = "up", NEW k \in DOMAIN data.names
        PROVE  sock'[data.names[k]] # Free \/ SomebodyLeft'
    <3>1. sock'[data.names[k]] # Free \/ SomebodyLeft
      BY <1>3, <1>4, <1>5, <2>2
    <3>2. QED
      BY <1>1, <3>1, LeftStays
  <2>3. QED
    BY <2>1, <2>2 DEF Named
<1>8. QED
  BY <1>2, <1>6, <1>7

\* The two connections of the chat of lab7.
LEMMA InChatKeeps ==
  ASSUME Loop, InChat, Next
  PROVE  InChat'
<1>1. UNCHANGED program
  BY NextSeats DEF Loop, SeatStep
<1> SUFFICES ASSUME Chat7 PROVE InChat'
  BY <1>1 DEF InChat, Chat7
<1>2. /\ data \in [connfd : Seq(Fd), turn : {1, 2}]
      /\ server = "up" => \A k \in DOMAIN data.connfd : sock[data.connfd[k]] # Free
  BY DEF InChat
<1>3. /\ sock \in [Fd -> Client \cup {Free}] /\ backlog \in Seq(Client)
      /\ data.connfd \in Seq(Fd) /\ Free \notin Client
      /\ DOMAIN data.connfd = 1 .. Len(data.connfd) /\ Len(data.connfd) \in Nat
      /\ \A k \in DOMAIN data.connfd : data.connfd[k] \in Fd
  BY <1>2 DEF Loop, Shape, Free, Client
<1>4. \/ LockstepAccept
      \/ /\ data' = data \/ data' = [data EXCEPT !.turn = 3 - data.turn]
         /\ server' = "down" \/ UNCHANGED <<server, sock>>
  <2>1. CASE LockstepNext
    <3>1. CASE receive_and_send
      BY Zenon, <3>1 DEF receive_and_send, ServerEnds
    <3>2. \A c \in Client : LockstepConnect(c) \/ TypeTurn(c) \/ LockstepReceive(c)
                               => UNCHANGED <<data, server, sock>>
      BY DEF LockstepConnect, Connect, TypeTurn, LockstepReceive, serverVars
    <3>3. QED
      BY <2>1, <3>1, <3>2 DEF LockstepNext, LockstepServer
  <2>2. CASE CommonNext
    BY <2>2 DEF CommonNext, StartPass, RecvFails, OverrunEnds, ServerEnds, Leave, ConnectFails,
            serverVars
  <2>3. ~RelayNext /\ ~ListNext /\ ~NamesNext /\ ~HangmanNext /\ ~HttpNext /\ ~MailNext
    BY DEF RelayNext, ListNext, NamesNext, HangmanNext, HttpNext, MailNext, Chat, NameServers,
           Game, Chat7, Http, Smtp, Relays
  <2>4. QED
    BY <2>1, <2>2, <2>3, NextCases
<1>5. CASE LockstepAccept
  <2> DEFINE new == NewFd
             connfd == Append(data.connfd, new)
  <2>1. backlog # <<>> /\ data' = [data EXCEPT !.connfd = connfd] /\ server = "up"
        /\ sock' = [sock EXCEPT ![new] = Head(backlog)]
    BY <1>5 DEF LockstepAccept
  <2>2. /\ 1 \in DOMAIN backlog /\ Head(backlog) = backlog[1] /\ Head(backlog) \in Client
    BY <1>3, <2>1
  <2>3. new \in Fd
    BY <2>2, NewFdFree DEF Loop, Queued
  <2> HIDE DEF new
  <2>4. /\ connfd \in Seq(Fd) /\ DOMAIN connfd = 1 .. Len(data.connfd) + 1
        /\ connfd[Len(data.connfd) + 1] = new
        /\ \A k \in 1 .. Len(data.connfd) : connfd[k] = data.connfd[k]
    BY <1>3, <2>3, AppendProperties
  <2> HIDE DEF connfd
  <2>5. data' \in [connfd : Seq(Fd), turn : {1, 2}] /\ data'.connfd = connfd
    BY <1>2, <2>1, <2>4
  <2>6. sock'[new] # Free /\ \A f \in Fd : sock'[f] = sock[f] \/ sock'[f] # Free
    BY <1>3, <2>1, <2>2, <2>3
  <2>7. ASSUME NEW k \in DOMAIN connfd
        PROVE  sock'[connfd[k]] # Free
    <3>1. CASE k \in 1 .. Len(data.connfd)
      <4>1. connfd[k] \in Fd /\ sock[connfd[k]] # Free
        BY <1>2, <1>3, <2>1, <2>4, <3>1
      <4>2. QED
        BY <2>6, <4>1
    <3>2. CASE k = Len(data.connfd) + 1
      BY <2>4, <2>6, <3>2
    <3>3. QED
      BY <1>3, <2>4, <2>7, <3>1, <3>2
  <2>8. QED
    BY <2>5, <2>7 DEF InChat
<1>6. CASE /\ data' = data \/ data' = [data EXCEPT !.turn = 3 - data.turn]
           /\ server' = "down" \/ UNCHANGED <<server, sock>>
  <2>1. data' \in [connfd : Seq(Fd), turn : {1, 2}] /\ data'.connfd = data.connfd
    <3>1. data.turn \in {1, 2} /\ 3 - data.turn \in {1, 2}
      BY <1>2
    <3>2. QED
      BY <1>2, <1>6, <3>1
  <2>2. server' = "up" => \A k \in DOMAIN data.connfd : sock'[data.connfd[k]] # Free
    BY <1>2, <1>6
  <2>3. QED
    BY <2>1, <2>2 DEF InChat
<1>7. QED
  BY <1>4, <1>5, <1>6

-----------------------------------------------------------------------------
(* The server comes down for a reason.                                     *)

Excuse ==
    quit' \/ overrun' \/ SomebodyLeft \/ (program \in Relays /\ data.negative /\ UNCHANGED data)

\* The server stays up, or was down and nothing that excuses it changes.
Lasts ==
    \/ server = "up" /\ server' = "up"
    \/ UNCHANGED <<server, quit>> /\ (program \in Relays => UNCHANGED data)

\* A client that the server has found gone.
LEMMA FoundGone ==
  ASSUME Loop, NEW c \in Client, conn[c].peer # "open"
  PROVE  SomebodyLeft
BY DEF Loop, Peers, SomebodyLeft

LEMMA ClientLasts ==
  ASSUME NEW c \in Client,
         \/ \E state, first : Connect(c, state, first)
         \/ \E m, q : TypeAndSend(c, m, q)
         \/ Leave(c)
         \/ \E n : Shows(c, n)
         \/ ReportsReset(c)
         \/ \E how : NoticesEnd(c, how)
  PROVE  Lasts
<1>1. UNCHANGED <<server, data, quit>>
  <2>1. \A state, first : Connect(c, state, first) => UNCHANGED <<server, data, quit>>
    BY DEF Connect, histories
  <2>2. \A m, q : TypeAndSend(c, m, q) => UNCHANGED <<server, data, quit>>
    BY DEF TypeAndSend, serverVars
  <2>3. Leave(c) \/ (\E n : Shows(c, n)) \/ ReportsReset(c) \/ (\E how : NoticesEnd(c, how))
          => UNCHANGED <<server, data, quit>>
    BY DEF Leave, Shows, ReportsReset, NoticesEnd, serverVars, histories
  <2>4. QED
    BY <2>1, <2>2, <2>3
<1>2. QED
  BY <1>1 DEF Lasts

LEMMA LoopLasts ==
  ASSUME Loop
  PROVE  /\ Accept => Lasts
         /\ \A i \in Fd, c \in Client : Hangup(i, c) => Lasts
         /\ \A i \in Fd, c \in Client : \A k : At(i, c) /\ Served(i, k) => Lasts
         /\ \A i \in Fd, c \in Client : EndOf(i, c) => SomebodyLeft
         /\ \A c \in Client : SendFails(c) => SomebodyLeft
<1>1. Accept => Lasts
  BY DEF Accept, Lasts
<1>2. \A i \in Fd, c \in Client : Hangup(i, c) => Lasts
  BY DEF Hangup, EndOf, At, Lasts
<1>3. \A i \in Fd, c \in Client : \A k : At(i, c) /\ Served(i, k) => Lasts
  BY DEF At, Served, Lasts
<1>4. \A i \in Fd, c \in Client : EndOf(i, c) => SomebodyLeft
  BY FoundGone DEF EndOf
<1>5. \A c \in Client : SendFails(c) => SomebodyLeft
  BY FoundGone DEF SendFails
<1>6. QED
  BY <1>1, <1>2, <1>3, <1>4, <1>5

LEMMA CommonExcuse ==
  ASSUME Loop, CommonNext
  PROVE  Lasts \/ Excuse
<1>1. CASE StartPass
  BY <1>1 DEF StartPass, Lasts
<1>2. CASE RecvFails \/ OverrunEnds
  BY <1>2, FoundGone DEF RecvFails, OverrunEnds, Excuse
<1>3. CASE \E c \in Client : Leave(c)
  BY <1>3, ClientLasts
<1>4. CASE \E c \in Client : ConnectFails(c)
  <2>1. UNCHANGED <<server, data, quit>>
    BY <1>4 DEF ConnectFails, serverVars, histories
  <2>2. QED
    BY <2>1 DEF Lasts
<1>5. QED
  BY <1>1, <1>2, <1>3, <1>4 DEF CommonNext

LEMMA RelayExcuse ==
  ASSUME Loop, Named, RelayNext
  PROVE  Lasts \/ Excuse
<1>1. CASE RelayAccept
  BY <1>1, LoopLasts DEF RelayAccept
<1>2. CASE RelayHangup
  <2>1. PICK i \in Fd, c \in Client : EndOf(i, c) \/ Hangup(i, c)
    BY <1>2 DEF RelayHangup
  <2>2. QED
    BY <2>1, LoopLasts DEF Excuse
<1>3. CASE RelayServe
  <2>1. PICK i \in Fd, c \in Client :
          LET f == conn[c].toServer[1].to
              d == sock[f]
          IN  /\ Taken(i, c)
              /\ \/ NoSendFails(f) /\ ServerEnds(Read(c))
                 \/ \E k : Served(i, k)
                 \/ Entries(f) # {} /\ (d # Free => SendFails(d))
    BY Zenon, <1>3 DEF RelayServe
  <2> DEFINE f == conn[c].toServer[1].to
             d == sock[f]
  <2> HIDE DEF f
  <2>2. At(i, c) /\ server = "up"
    BY <2>1 DEF Taken, Arrived, At
  <2>3. CASE \E k : Served(i, k)
    BY <2>2, <2>3, LoopLasts
  <2>4. CASE NoSendFails(f) /\ ServerEnds(Read(c))
    BY <2>4 DEF NoSendFails, ServerEnds, Excuse, RelayNext
  <2>5. CASE Entries(f) # {} /\ (d # Free => SendFails(d))
    <3>1. PICK k \in DOMAIN data.names : data.names[k] = f
      BY <2>5 DEF Entries, EveryEntry
    <3>2. f \in Fd /\ (d # Free \/ SomebodyLeft)
      BY <2>2, <3>1 DEF Named, RelayNext
    <3>3. d # Free => d \in Client
      BY <3>2 DEF Loop, Shape
    <3>4. QED
      BY <2>5, <3>2, <3>3, LoopLasts DEF Excuse
  <2>6. QED
    BY <2>1, <2>3, <2>4, <2>5 DEF f
<1>4. ASSUME NEW c \in Client, Registers(c) \/ RelayConnect(c) PROVE Lasts
  BY <1>4, ClientLasts DEF Registers, RelayConnect
<1>5. ASSUME NEW c \in Client, NEW f, TypeLine(c, f) PROVE Lasts
  BY <1>5, ClientLasts DEF TypeLine
<1>6. ASSUME NEW c \in Client, RelayReceive(c) PROVE Lasts
  BY <1>6, ClientLasts DEF RelayReceive, ShowsAll, ReceiveCpp, ReceiveC, ReceiveTema2
<1>7. QED
  BY <1>1, <1>2, <1>3, <1>4, <1>5, <1>6 DEF RelayNext, RelayServer

LEMMA ListExcuse ==
  ASSUME Loop, ListNext
  PROVE  Lasts \/ Excuse
<1>1. CASE ListAccept \/ ListHangup
  BY <1>1, LoopLasts DEF ListAccept, ListHangup
<1>2. CASE RecvName
  BY <1>2 DEF RecvName, Lasts
<1>3. CASE ListServe
  <2>1. PICK i \in Fd, c \in Client :
          At(i, c) /\ ((\E k : Served(i, k)) \/ conn[c].peer # "open")
    BY <1>3 DEF ListServe, Taken, Arrived
  <2>2. QED
    BY <2>1, LoopLasts, FoundGone DEF Excuse
<1>4. ASSUME NEW c \in Client, ListConnect(c) PROVE Lasts
  BY <1>4, ClientLasts DEF ListConnect
<1>5. ASSUME NEW c \in Client, TypeName(c) \/ TypeList(c) PROVE Lasts
  <2>1. UNCHANGED <<server, data, quit>>
    BY <1>5 DEF TypeName, TypeList, TypeAndSend, serverVars, histories
  <2>2. QED
    BY <2>1 DEF Lasts
<1>6. ASSUME NEW c \in Client, ListReceive(c) PROVE Lasts
  BY <1>6, ClientLasts DEF ListReceive
<1>7. QED
  BY <1>1, <1>2, <1>3, <1>4, <1>5, <1>6 DEF ListNext, ListServer

LEMMA NamesExcuse ==
  ASSUME Loop, NamesNext
  PROVE  Lasts \/ Excuse
<1>1. CASE NamesAccept \/ NamesHangup
  BY <1>1, LoopLasts DEF NamesAccept, NamesHangup
<1>2. CASE Quit
  BY <1>2 DEF Quit, Excuse
<1>3. CASE NamesServe
  <2>1. PICK i \in Fd, c \in Client : At(i, c) /\ ((\E k : Served(i, k)) \/ SendFails(c))
    BY <1>3 DEF NamesServe, Taken, Arrived
  <2>2. QED
    BY SMTT(30), <2>1, LoopLasts DEF Excuse
<1>4. ASSUME NEW c \in Client, NamesConnect(c) PROVE Lasts
  BY <1>4, ClientLasts DEF NamesConnect
<1>5. ASSUME NEW c \in Client, NEW kind, NEW h, NEW v,
             TypeMail(c) \/ TypeGet(c, kind, h) \/ TypeAdd(c, kind, h, v)
      PROVE  Lasts
  BY <1>5, ClientLasts DEF TypeMail, TypeGet, TypeAdd
<1>6. ASSUME NEW c \in Client, NamesReceive(c) PROVE Lasts
  BY <1>6, ClientLasts DEF NamesReceive, ShowsAll
<1>7. QED
  BY <1>1, <1>2, <1>3, <1>4, <1>5, <1>6 DEF NamesNext, NamesServer

\* Not everybody was reached: somebody had been found gone.
LEMMA NotReached ==
  ASSUME Loop, NEW k, KeepsPeers(k), NEW m, ~SentToAll(k, m).alive
  PROVE  SomebodyLeft
<1>1. Reached(k) # Everybody
  BY DEF SentToAll
<1>2. PICK g \in Fd : sock[g] # Free /\ k[sock[g]].peer \in {"reset", "dead"}
  BY <1>1 DEF Reached, Everybody
<1>3. sock[g] \in Client
  BY <1>2 DEF Loop, Shape
<1>4. QED
  BY <1>2, <1>3, FoundGone DEF KeepsPeers

LEMMA HangmanExcuse ==
  ASSUME Loop, HangmanNext
  PROVE  Lasts \/ Excuse
<1>1. CASE HangmanAccept
  BY <1>1, LoopLasts DEF HangmanAccept
<1>2. CASE HangmanHangup
  BY <1>2, LoopLasts DEF HangmanHangup, Excuse
<1>3. CASE Stop
  BY <1>3 DEF Stop, Excuse
<1>4. CASE SetWord
  <2>1. PICK i \in Fd, c \in Client : At(i, c) /\ ((\E k : Served(i, k)) \/ SendFails(c))
    BY <1>4 DEF SetWord, Answer, Taken, Arrived
  <2>2. QED
    BY <2>1, LoopLasts DEF Excuse
<1>5. CASE GuessLetter
  <2> DEFINE Tells(c) == \E m, n : LET told == SentToAll(Read(c), m)
                                       won  == SentToAll(told.conn, n)
                                   IN  \/ ~told.alive
                                       \/ quit' = won.alive
  <2>1. PICK i \in Fd, c \in Client :
          At(i, c) /\ ((\E k : Served(i, k)) \/ SendFails(c) \/ Tells(c))
    BY <1>5 DEF GuessLetter, Answer, Arrived
  <2>2. CASE (\E k : Served(i, k)) \/ SendFails(c)
    BY <2>1, <2>2, LoopLasts DEF Excuse
  <2>3. ASSUME NEW m, ~SentToAll(Read(c), m).alive PROVE SomebodyLeft
    BY <2>3, NotReached, ReadKeeps DEF Loop
  <2>4. ASSUME NEW m, NEW n, ~SentToAll(SentToAll(Read(c), m).conn, n).alive
        PROVE  SomebodyLeft
    <3>1. KeepsPeers(SentToAll(Read(c), m).conn)
      BY ReadKeeps, SentToAllKeeps DEF Loop
    <3>2. QED
      BY <2>4, <3>1, NotReached
  <2>5. ASSUME NEW m, NEW n,
               \/ ~SentToAll(Read(c), m).alive
               \/ quit' = SentToAll(SentToAll(Read(c), m).conn, n).alive
        PROVE  Excuse
    <3>1. CASE ~SentToAll(Read(c), m).alive
      BY <2>3, <3>1 DEF Excuse
    <3>2. CASE quit' = SentToAll(SentToAll(Read(c), m).conn, n).alive
      BY <2>4, <3>2 DEF Excuse
    <3>3. QED
      BY <2>5, <3>1, <3>2
  <2>6. CASE Tells(c)
    BY Zenon, <2>5, <2>6
  <2> HIDE DEF Tells
  <2>7. QED
    BY <2>1, <2>2, <2>6
<1>6. ASSUME NEW c \in Client, HangmanConnect(c) PROVE Lasts
  BY <1>6, ClientLasts DEF HangmanConnect
<1>7. ASSUME NEW c \in Client, NEW w, TypeWord(c, w) \/ TypeGuess(c, w) PROVE Lasts
  BY <1>7, ClientLasts DEF TypeWord, TypeGuess
<1>8. ASSUME NEW c \in Client, HangmanReceive(c) PROVE Lasts
  <2>1. CASE HangmanShows(c)
    BY Zenon, <2>1 DEF HangmanShows, serverVars, Lasts
  <2>2. QED
    BY <1>8, <2>1, ClientLasts DEF HangmanReceive
<1>9. QED
  BY <1>1, <1>2, <1>3, <1>4, <1>5, <1>6, <1>7, <1>8 DEF HangmanNext, HangmanServer

LEMMA LockstepExcuse ==
  ASSUME Loop, InChat, LockstepNext
  PROVE  Lasts \/ Excuse
<1>1. CASE LockstepAccept
  BY <1>1 DEF LockstepAccept, Lasts
<1>2. CASE receive_and_send
  <2> DEFINE c == sock[data.connfd[data.turn]]
             d == sock[data.connfd[Target(data.turn)]]
             failed == conn[c].toServer = <<>> /\ conn[c].peer = "reset"
             read == [Read(c) EXCEPT ![c].peer = IF failed THEN "dead" ELSE @]
  <2>1. c \in Client /\ d \in Client
    BY Zenon, <1>2, ChatClients DEF LockstepNext, receive_and_send, Loop
  <2>2. \/ BreaksPipe(read[d])
        \/ conn[c].toServer = <<>> /\ ServerReadable(conn[c])
        \/ UNCHANGED server
    BY Zenon, <1>2 DEF receive_and_send
  <2>3. CASE BreaksPipe(read[d])
    <3>1. conn[d].peer # "open"
      BY Zenon, <2>1, <2>3 DEF BreaksPipe, Read, Loop, Shape, AreConnections, IsConnection
    <3>2. QED
      BY <2>1, <3>1, FoundGone DEF Excuse
  <2>4. CASE conn[c].toServer = <<>> /\ ServerReadable(conn[c])
    BY <2>1, <2>4, FoundGone DEF ServerReadable, Excuse
  <2>5. CASE UNCHANGED server
    BY Zenon, <1>2, <2>5 DEF receive_and_send, Lasts
  <2>6. QED
    BY Zenon, <2>2, <2>3, <2>4, <2>5
<1>3. ASSUME NEW c \in Client, LockstepConnect(c) PROVE Lasts
  BY <1>3, ClientLasts DEF LockstepConnect
<1>4. ASSUME NEW c \in Client, TypeTurn(c) \/ LockstepReceive(c) PROVE Lasts
  <2>1. UNCHANGED <<server, data, quit>>
    BY <1>4 DEF TypeTurn, LockstepReceive, serverVars, histories
  <2>2. QED
    BY <2>1 DEF Lasts
<1>5. QED
  BY <1>1, <1>2, <1>3, <1>4 DEF LockstepNext, LockstepServer

LEMMA OutsideExcuse ==
  ASSUME Loop, HttpNext \/ MailNext
  PROVE  Lasts \/ Excuse
<1>1. CASE OutsideAccept
  BY <1>1 DEF OutsideAccept, Lasts
<1>2. CASE OutsideEnds
  BY <1>2 DEF OutsideEnds, Excuse
<1>3. ASSUME NEW c \in Client, HttpConnect(c) \/ MailConnect(c) PROVE Lasts
  BY <1>3, ClientLasts DEF HttpConnect, MailConnect
<1>4. ASSUME NEW c \in Client, NEW l, NEW d,
             OutsideServes(c, l, d) \/ GoesOn(c, l, d) \/ Finishes(c, l, d) \/ Passes(c, l, d)
      PROVE  Lasts
  <2>1. UNCHANGED <<server, quit>>
    BY <1>4 DEF OutsideServes, GoesOn, Finishes, Passes, histories
  <2>2. program \notin Relays
    BY DEF HttpNext, MailNext, Http, Smtp, Relays
  <2>3. QED
    BY <2>1, <2>2 DEF Lasts
<1>5. ASSUME NEW c \in Client, HttpSends(c) \/ SmtpGreets(c) \/ SmtpReplies(c)
      PROVE  Lasts
  BY <1>4, <1>5 DEF HttpSends, SmtpGreets, SmtpReplies
<1>6. ASSUME NEW c \in Client, receive_from_server(c) PROVE Lasts
  BY <1>4, <1>6, ClientLasts
     DEF receive_from_server, ReadHeader, HeaderEof, ReadBody, Returns, ReadFails
<1>7. ASSUME NEW c \in Client, send_command(c) PROVE Lasts
  BY <1>4, <1>7 DEF send_command, ReadGreeting, WriteCommand, ReadReply
<1>8. QED
  BY <1>1, <1>2, <1>3, <1>5, <1>6, <1>7 DEF HttpNext, MailNext

LEMMA NextExcuse ==
  ASSUME Loop, Named, InChat, NobodyLeftServerUp, Next
  PROVE  NobodyLeftServerUp'
<1>1. Lasts \/ Excuse
  BY NextCases, CommonExcuse, RelayExcuse, ListExcuse, NamesExcuse, HangmanExcuse,
     LockstepExcuse, OutsideExcuse
<1>2. Moved /\ UNCHANGED program
  BY NextMoves, NextSeats DEF Loop, Seats, SeatStep
<1>3. CASE SomebodyLeft \/ overrun
  BY <1>2, <1>3, LeftStays, OverrunStays DEF NobodyLeftServerUp, SomebodyLeft
<1>4. CASE ~SomebodyLeft /\ Excuse
  BY <1>2, <1>4 DEF Excuse, NobodyLeftServerUp
<1>5. CASE ~SomebodyLeft /\ ~overrun /\ Lasts
  BY <1>2, <1>5 DEF Lasts, NobodyLeftServerUp, SomebodyLeft
<1>6. QED
  BY <1>1, <1>3, <1>4, <1>5

-----------------------------------------------------------------------------
(* The list of multi_chat.                                                 *)

\* The list names clients, each with a descriptor.
Entry == [name : Client \cup {NoName}, sockfd : Fd]
Listed == Chat => data \in [clients : Seq(Entry)]

\* No descriptor is 0 or 1, so that nobody is ever erased.
LEMMA NothingPruned ==
  ASSUME NEW i \in Fd
  PROVE  Pruned(i) = data.clients
<1>1. i # 0 /\ i # 1
  BY NIsNat DEF Fd
<1>2. \A k \in DOMAIN data.clients : ~Erases(i, k)
  BY <1>1 DEF Erases
<1>3. QED
  BY <1>2 DEF Pruned

\* What a step does to the list and the descriptors.
LEMMA ListSteps ==
  ASSUME Loop, Listed, Chat, Next
  PROVE  \/ server' = "down" /\ UNCHANGED data
         \/ ListAccept
         \/ RecvName
         \/ /\ UNCHANGED <<server, newcomer, data>> /\ newcomer = NoFd
            /\ \E i \in Fd : sock' = [sock EXCEPT ![i] = Free]
         \/ UNCHANGED <<server, sock, newcomer, data>>
<1>1. CASE ListServer
  <2>1. CASE ListHangup
    <3>1. PICK i \in Fd, c \in Client :
            Hangup(i, c) /\ data' = [data EXCEPT !.clients = Pruned(i)]
      BY <2>1 DEF ListHangup
    <3>2. data' = [data EXCEPT !.clients = data.clients]
      BY <3>1, NothingPruned
    <3>3. UNCHANGED data
      BY <3>2 DEF Listed
    <3>4. QED
      BY <3>1, <3>3 DEF Hangup, EndOf, At
  <2>2. CASE ListServe
    BY <2>2 DEF ListServe, ServerEnds, Served, Taken, Arrived, At
  <2>3. QED
    BY <1>1, <2>1, <2>2 DEF ListServer
<1>2. ASSUME NEW c \in Client, ListConnect(c) \/ TypeName(c) \/ TypeList(c) \/ ListReceive(c)
      PROVE  UNCHANGED <<server, sock, newcomer, data>>
  BY <1>2 DEF ListConnect, Connect, TypeName, TypeList, TypeAndSend, ListReceive, Shows,
              NoticesEnd, serverVars
<1>3. CASE CommonNext
  BY <1>3 DEF CommonNext, StartPass, RecvFails, OverrunEnds, ServerEnds, Leave, ConnectFails,
          serverVars
<1>4. ~RelayNext /\ ~NamesNext /\ ~HangmanNext /\ ~LockstepNext /\ ~HttpNext /\ ~MailNext
  BY DEF RelayNext, NamesNext, HangmanNext, LockstepNext, HttpNext, MailNext, Chat, NameServers,
         Game, Chat7, Http, Smtp, Relays
<1>5. CASE ListNext
  BY <1>1, <1>2, <1>5 DEF ListNext
<1>6. QED
  BY <1>3, <1>4, <1>5, NextCases

\* EverybodyListed, whatever was written where.
AlwaysListed ==
    Chat /\ server = "up" =>
        \A f \in Fd : sock[f] # Free /\ f # newcomer =>
            \E k \in DOMAIN data.clients :
                data.clients[k].sockfd = f /\ data.clients[k].name \in {sock[f], NoName}

LEMMA ListKeeps ==
  ASSUME Loop, Listed, AlwaysListed, Next
  PROVE  Listed' /\ AlwaysListed'
<1>1. UNCHANGED program
  BY NextSeats DEF Loop, SeatStep
<1> SUFFICES ASSUME Chat PROVE Listed' /\ AlwaysListed'
  BY <1>1 DEF Listed, AlwaysListed, Chat
<1>2. /\ data \in [clients : Seq(Entry)] /\ data.clients \in Seq(Entry)
      /\ DOMAIN data.clients = 1 .. Len(data.clients) /\ Len(data.clients) \in Nat
  BY DEF Listed
<1>3. sock \in [Fd -> Client \cup {Free}] /\ NoFd \notin Fd /\ newcomer \in Fd \cup {NoFd}
      /\ Free \notin Client
  BY NIsNat DEF Loop, Shape, NoFd, Fd, Free, Client
<1>4. server = "up" =>
        \A f \in Fd : sock[f] # Free /\ f # newcomer =>
            \E k \in DOMAIN data.clients :
                data.clients[k].sockfd = f /\ data.clients[k].name \in {sock[f], NoName}
  BY DEF AlwaysListed
<1>5. CASE server' = "down" /\ UNCHANGED data
  BY <1>2, <1>5 DEF Listed, AlwaysListed
<1>6. CASE ListAccept
  <2>1. /\ data' = data /\ newcomer = NoFd /\ server = "up"
        /\ sock' = [sock EXCEPT ![newcomer'] = Head(backlog)]
    BY <1>6 DEF ListAccept, Accept
  <2>2. \A f \in Fd : f # newcomer' => sock'[f] = sock[f] /\ f # newcomer
    BY <1>3, <2>1
  <2>3. QED
    BY <1>2, <1>4, <2>1, <2>2 DEF Listed, AlwaysListed
<1>7. CASE RecvName
  <2> DEFINE c == sock[newcomer]
  <2>1. PICK name \in {c, NoName} :
          data' = [data EXCEPT !.clients =
                     Append(data.clients, [name |-> name, sockfd |-> newcomer])]
    BY <1>7 DEF RecvName
  <2>2. sock' = sock /\ server = "up" /\ newcomer' = NoFd /\ newcomer \in Fd
    BY <1>3, <1>7 DEF RecvName
  <2>3. c \in Client
    BY <1>3, <2>2 DEF Loop, Seats
  <2> DEFINE e == [name |-> name, sockfd |-> newcomer]
             clients == Append(data.clients, e)
  <2>4. e \in Entry /\ e.sockfd = newcomer /\ e.name \in {c, NoName}
    BY <2>1, <2>2, <2>3 DEF Entry
  <2> HIDE DEF e
  <2>5. /\ clients \in Seq(Entry) /\ DOMAIN clients = 1 .. Len(data.clients) + 1
        /\ clients[Len(data.clients) + 1] = e
        /\ \A k \in 1 .. Len(data.clients) : clients[k] = data.clients[k]
    BY <1>2, <2>4, AppendProperties
  <2>6. data' = [data EXCEPT !.clients = clients]
    BY <2>1 DEF e
  <2> HIDE DEF clients
  <2>7. data' \in [clients : Seq(Entry)] /\ data'.clients = clients
    BY <1>2, <2>5, <2>6
  <2>8. ASSUME NEW f \in Fd, sock[f] # Free
        PROVE  \E k \in DOMAIN clients :
                 clients[k].sockfd = f /\ clients[k].name \in {sock[f], NoName}
    <3>1. CASE f = newcomer
      <4>1. Len(data.clients) + 1 \in DOMAIN clients
        BY <1>2, <2>5
      <4>2. QED
        BY <2>4, <2>5, <3>1, <4>1
    <3>2. CASE f # newcomer
      <4>1. PICK k \in DOMAIN data.clients :
              data.clients[k].sockfd = f /\ data.clients[k].name \in {sock[f], NoName}
        BY <1>4, <2>2, <2>8, <3>2
      <4>2. k \in DOMAIN clients /\ clients[k] = data.clients[k]
        BY <1>2, <2>5
      <4>3. QED
        BY <4>1, <4>2
    <3>3. QED
      BY <3>1, <3>2
  <2>9. QED
    BY <2>2, <2>7, <2>8 DEF Listed, AlwaysListed
<1>8. CASE /\ UNCHANGED <<server, newcomer, data>> /\ newcomer = NoFd
           /\ \E i \in Fd : sock' = [sock EXCEPT ![i] = Free]
  <2>1. PICK i \in Fd : sock' = [sock EXCEPT ![i] = Free]
    BY <1>8
  <2>2. \A f \in Fd : sock'[f] # Free => sock'[f] = sock[f]
    BY <1>3, <2>1
  <2>3. QED
    BY <1>2, <1>4, <1>8, <2>2 DEF Listed, AlwaysListed
<1>9. CASE UNCHANGED <<server, sock, newcomer, data>>
  BY <1>2, <1>4, <1>9 DEF Listed, AlwaysListed
<1>10. QED
  BY <1>5, <1>6, <1>7, <1>8, <1>9, ListSteps

-----------------------------------------------------------------------------
(* The clients of lab10 and lab11, with the servers from outside.          *)

\* One client is all that ever connects.
Alone == program \in Outside => \A c \in Client : c # 1 => client[c].state = "new"

\* What the client of lab10 has read and what is on its way to it is what the
\* server has sent; it knows the length, or is at the end of the connection.
HttpRead ==
    Http =>
        /\ data \in [body : Body, announced : BOOLEAN, sent : Nat, size : Nat,
                     header_end : {0, -1, Header}, content_length : {0} \cup Body,
                     reading : {"header", "body"}, returned : BOOLEAN]
        /\ conn[1] \in Connection({"request"}, {"piece"})
        /\ client[1].state = "ended" => conn[1].peer # "open"
        /\ conn[1].end # "open" => server = "down"
        /\ data.sent <= Header + data.body
        /\ client[1].state # "ended" => data.size + Len(conn[1].toClient) = data.sent
        /\ data.reading = "body" =>
              \/ data.announced /\ data.header_end = Header /\ data.content_length = data.body
              \/ server = "down" /\ data.size = data.sent
        /\ data.returned =>
              /\ client[1].state = "ended"
              /\ data.size = Header + data.body \/ (server = "down" /\ data.size = data.sent)

Code == {Greeting, Refused} \cup {Expected[k] : k \in DOMAIN Expected}

\* The commands under way are the next the server answers.  As long as the
\* client runs, a refusal is on its way to it if there was one, and nothing
\* follows the answer to QUIT.
MailAnswered ==
    Smtp =>
        /\ data \in [answered : 0 .. 9, accepted : SUBSET (1 .. 9), greeted : BOOLEAN,
                     command : 0 .. 9, writing : BOOLEAN, recvbuf : {0} \cup Code,
                     returned : BOOLEAN]
        /\ conn[1] \in Connection(1 .. 9, Code)
        /\ client[1].state = "ended" => conn[1].peer # "open"
        /\ conn[1].end # "open" => server = "down"
        /\ data.returned => client[1].state = "ended" /\ data.accepted = 1 .. 9
        /\ ~data.greeted => data.answered = 0 /\ conn[1].toClient = <<>>
        /\ data.accepted \subseteq 1 .. data.answered
        /\ data.answered <= data.command
        /\ client[1].state = "new" => data.command = 0
        /\ client[1].state # "ended" =>
              /\ data.recvbuf # 221
              /\ data.writing => data.command < 9
              /\ server = "up" =>
                    /\ data.answered + Len(conn[1].toServer) = data.command
                    /\ \A k \in 1 .. Len(conn[1].toServer) :
                          conn[1].toServer[k] = data.answered + k
              /\ data.accepted # 1 .. data.answered =>
                    \E k \in 1 .. Len(conn[1].toClient) : conn[1].toClient[k] = Refused
              /\ \A k \in 1 .. Len(conn[1].toClient) :
                    conn[1].toClient[k] = 221 =>
                        /\ data.answered = 9
                        /\ \A j \in k .. Len(conn[1].toClient) : conn[1].toClient[j] = 221

LEMMA TheOne == 1 \in Client
BY NIsNat DEF Client

\* The steps that are left when there is one client.
LEMMA OutsideSteps ==
  ASSUME Loop, Alone, program \in Outside, Next
  PROVE  \/ UNCHANGED <<server, data, conn, client>>
         \/ ServerEnds(conn)
         \/ Connect(1, "running", IF Http THEN <<"request">> ELSE <<>>)
         \/ HttpSends(1) \/ SmtpGreets(1) \/ SmtpReplies(1)
         \/ receive_from_server(1) \/ send_command(1)
         \/ Leave(1) \/ ConnectFails(1)
<1>1. program \in {"lab10", "lab11"} /\ todo = {}
  BY DEF Outside, Loop, Queued
<1>2. ASSUME NEW c \in Client, client[c].state # "new" PROVE c = 1
  BY <1>2 DEF Alone
<1>3. CASE CommonNext
  <2>0. ~OverrunEnds
    BY <1>1 DEF OverrunEnds, NameServers, Chat
  <2>1. ~StartPass
    BY <1>1 DEF StartPass
  <2>2. RecvFails => ServerEnds(conn)
    BY DEF RecvFails
  <2>3. \A c \in Client : Leave(c) => c = 1
    BY <1>2 DEF Leave
  <2>4. ASSUME NEW c \in Client, ConnectFails(c) PROVE ConnectFails(1)
    <3>1. c <= Clients[program] /\ Clients[program] = 1
      BY <2>4, OutsideAssumption DEF ConnectFails
    <3>2. c = 1
      BY <3>1, NIsNat DEF Client
    <3>3. QED
      BY <2>4, <3>2
  <2>5. QED
    BY <1>3, <2>0, <2>1, <2>2, <2>3, <2>4 DEF CommonNext
<1>4. CASE HttpNext \/ MailNext
  <2>1. OutsideAccept => UNCHANGED <<server, data, conn, client>>
    BY DEF OutsideAccept
  <2>2. OutsideEnds => ServerEnds(conn)
    BY DEF OutsideEnds
  <2>3. ASSUME NEW c \in Client, HttpConnect(c) \/ MailConnect(c)
        PROVE  Connect(1, "running", IF Http THEN <<"request">> ELSE <<>>)
    <3>1. c <= Clients[program] /\ Clients[program] = 1
      BY <2>3, OutsideAssumption DEF HttpConnect, MailConnect, Connect
    <3>2. c = 1
      BY <3>1, NIsNat DEF Client
    <3>3. Smtp => ~Http
      BY DEF Smtp, Http
    <3>4. QED
      BY <2>3, <3>2, <3>3 DEF HttpConnect, MailConnect
  <2>4. ASSUME NEW c \in Client, HttpSends(c) \/ SmtpGreets(c) \/ SmtpReplies(c) PROVE c = 1
    <3>1. \E f \in Fd : sock[f] = c
      BY <2>4 DEF HttpSends, SmtpGreets, SmtpReplies, OutsideServes
    <3>2. c # Free
      BY DEF Client, Free
    <3>3. QED
      BY <1>2, <3>1, <3>2 DEF Loop, Seats
  <2>5. ASSUME NEW c \in Client, receive_from_server(c) \/ send_command(c) PROVE c = 1
    BY <1>2, <2>5 DEF receive_from_server, send_command, Running
  <2>6. CASE HttpNext
    BY <2>1, <2>2, <2>3, <2>4, <2>5, <2>6 DEF HttpNext
  <2>7. CASE MailNext
    BY <2>1, <2>2, <2>3, <2>4, <2>5, <2>7 DEF MailNext
  <2>8. QED
    BY <1>4, <2>6, <2>7
<1>5. ~RelayNext /\ ~ListNext /\ ~NamesNext /\ ~HangmanNext /\ ~LockstepNext
  BY <1>1 DEF RelayNext, ListNext, NamesNext, HangmanNext, LockstepNext, Chat, NameServers,
              Game, Chat7, Relays
<1>6. QED
  BY <1>3, <1>4, <1>5, NextCases

\* What the connection and the client become.
LEMMA OutsideEffect ==
  ASSUME Loop, NEW R, NEW P, conn[1] \in Connection(R, P)
  PROVE  /\ ServerEnds(conn) =>
              /\ conn'[1] \in Connection(R, P)
              /\ conn'[1].peer = conn[1].peer /\ conn'[1].toClient = conn[1].toClient
              /\ server' = "down" /\ UNCHANGED <<client, data>>
         /\ \A k : EndsAt(1, k) /\ k \in Connection(R, P) =>
              /\ conn'[1] \in Connection(R, P)
              /\ conn'[1].peer # "open" /\ conn'[1].end = k.end /\ conn'[1].toClient = <<>>
              /\ client'[1].state = "ended"
              /\ \A c \in Client : c # 1 => client'[c] = client[c]
         /\ \A k : conn' = [conn EXCEPT ![1] = k] => conn'[1] = k
<1>1. 1 \in Client /\ AreConnections(conn) /\ AreClients(client)
  BY TheOne DEF Loop, Shape
<1>2. ASSUME ServerEnds(conn)
      PROVE  /\ conn'[1] \in Connection(R, P)
             /\ conn'[1].peer = conn[1].peer /\ conn'[1].toClient = conn[1].toClient
             /\ server' = "down" /\ UNCHANGED <<client, data>>
  <2>1. conn'[1] = conn[1] \/ conn'[1] = ServerCloses(conn[1])
    BY <1>1, <1>2 DEF ServerEnds
  <2>2. server' = "down" /\ UNCHANGED <<client, data>>
    BY <1>2 DEF ServerEnds
  <2>3. QED
    BY <2>1, <2>2, ServerClosesEffect
<1>3. ASSUME NEW k, EndsAt(1, k), k \in Connection(R, P)
      PROVE  /\ conn'[1] \in Connection(R, P)
             /\ conn'[1].peer # "open" /\ conn'[1].end = k.end /\ conn'[1].toClient = <<>>
             /\ client'[1].state = "ended"
             /\ \A c \in Client : c # 1 => client'[c] = client[c]
  <2>1. PICK seen \in ClientEnds(k) : conn' = [conn EXCEPT ![1] = seen]
    BY <1>3 DEF EndsAt
  <2>2. conn'[1] = seen
    BY <1>1, <2>1 DEF AreConnections
  <2>3. client'[1].state = "ended" /\ \A c \in Client : c # 1 => client'[c] = client[c]
    BY <1>1, <1>3 DEF EndsAt, AreClients, NewClient
  <2>4. QED
    BY <1>3, <2>2, <2>3, ClientEndsEffect
<1>4. \A k : conn' = [conn EXCEPT ![1] = k] => conn'[1] = k
  BY <1>1 DEF AreConnections
<1>5. QED
  BY <1>2, <1>3, <1>4

LEMMA AloneKeeps ==
  ASSUME Loop, Alone, Next
  PROVE  Alone'
<1>1. UNCHANGED program
  BY NextSeats DEF Loop, SeatStep
<1> SUFFICES ASSUME program \in Outside PROVE Alone'
  BY <1>1 DEF Alone
<1>2. 1 \in Client /\ AreClients(client)
  BY TheOne DEF Loop, Shape
<1>3. \A k : EndsAt(1, k) => \A c \in Client : c # 1 => client'[c] = client[c]
  BY <1>2 DEF EndsAt, AreClients
<1>4. \A s, m : Connect(1, s, m) => \A c \in Client : c # 1 => client'[c] = client[c]
  BY <1>2 DEF Connect, AreClients
<1>5. \/ UNCHANGED client
      \/ \E k : EndsAt(1, k)
      \/ \E s, m : Connect(1, s, m)
      \/ \E s : client' = [client EXCEPT ![1].state = s]
  <2>1. CASE UNCHANGED <<server, data, conn, client>> \/ ServerEnds(conn)
    BY <2>1 DEF ServerEnds
  <2>2. CASE HttpSends(1) \/ SmtpGreets(1) \/ SmtpReplies(1)
    BY <2>2 DEF HttpSends, SmtpGreets, SmtpReplies, OutsideServes
  <2>3. CASE receive_from_server(1)
    BY <2>3 DEF receive_from_server, ReadHeader, HeaderEof, ReadBody, Returns, ReadFails, GoesOn,
                Finishes, NoticesEnd, Ends
  <2>4. CASE send_command(1)
    BY <2>4 DEF send_command, ReadGreeting, WriteCommand, ReadReply, Passes, GoesOn, Finishes
  <2>5. CASE Leave(1) \/ ConnectFails(1)
    BY <2>5 DEF Leave, ConnectFails, Ends
  <2>6. QED
    BY <2>1, <2>2, <2>3, <2>4, <2>5, OutsideSteps
<1>6. \A c \in Client : c # 1 => client'[c] = client[c]
  BY <1>2, <1>3, <1>4, <1>5 DEF AreClients
<1>7. QED
  BY <1>1, <1>6 DEF Alone

\* The client of lab10 and its server: a step of either.
LEMMA HttpKeeps ==
  ASSUME Loop, Alone, HttpRead, Next
  PROVE  HttpRead'
<1> DEFINE k == conn[1]
           Data == [body : Body, announced : BOOLEAN, sent : Nat, size : Nat,
                    header_end : {0, -1, Header}, content_length : {0} \cup Body,
                    reading : {"header", "body"}, returned : BOOLEAN]
           Conns == Connection({"request"}, {"piece"})
<1>1. UNCHANGED program /\ server' \in {"up", "down"} /\ (server' = "up" => server = "up")
  <2>1. SeatStep
    BY NextSeats DEF Loop
  <2>2. UNCHANGED program
    BY <2>1 DEF SeatStep
  <2>3. server' = "down" \/ server' = server
    BY <2>1 DEF SeatStep, Cleared, Seated, Freed, Joined, Stayed
  <2>4. server \in {"up", "down"}
    BY DEF Loop, Shape
  <2>5. QED
    BY <2>2, <2>3, <2>4
<1> SUFFICES ASSUME Http PROVE HttpRead'
  BY <1>1 DEF HttpRead, Http
<1>2. program \in Outside /\ ~Smtp
  BY DEF Http, Smtp, Outside
<1>3. /\ data \in Data /\ k \in Conns
      /\ client[1].state = "ended" => k.peer # "open"
      /\ k.end # "open" => server = "down"
      /\ data.sent <= Header + data.body
      /\ client[1].state # "ended" => data.size + Len(k.toClient) = data.sent
      /\ data.reading = "body" =>
            \/ data.announced /\ data.header_end = Header /\ data.content_length = data.body
            \/ server = "down" /\ data.size = data.sent
      /\ data.returned =>
            /\ client[1].state = "ended"
            /\ data.size = Header + data.body \/ (server = "down" /\ data.size = data.sent)
  BY DEF HttpRead
<1>4. /\ 1 \in Client /\ Header \in Nat \ {0} /\ Body \subseteq Nat
      /\ k.toClient \in Seq({"piece"}) /\ Len(k.toClient) \in Nat
      /\ k.toServer \in Seq({"request"})
      /\ AreConnections(conn) /\ AreClients(client)
  BY <1>3, TheOne, HttpAssumption DEF Connection, Loop, Shape
<1>5. data.body \in Nat /\ data.sent \in Nat /\ data.size \in Nat
  <2>1. data.body \in Body /\ data.sent \in Nat /\ data.size \in Nat
    BY <1>3
  <2>2. Header \in Nat /\ Body \subseteq Nat
    BY <1>4
  <2>3. QED
    BY <2>1, <2>2
<1> HIDE DEF k, Conns
\* Putting it together again.
<1>6. ASSUME data' \in Data, conn'[1] \in Conns,
             client'[1].state = "ended" => conn'[1].peer # "open",
             conn'[1].end # "open" => server' = "down",
             data'.sent <= Header + data'.body,
             client'[1].state # "ended" => data'.size + Len(conn'[1].toClient) = data'.sent,
             data'.reading = "body" =>
                \/ /\ data'.announced /\ data'.header_end = Header
                   /\ data'.content_length = data'.body
                \/ server' = "down" /\ data'.size = data'.sent,
             data'.returned =>
                /\ client'[1].state = "ended"
                /\ \/ data'.size = Header + data'.body
                   \/ server' = "down" /\ data'.size = data'.sent
      PROVE  HttpRead'
  BY <1>6 DEF HttpRead, Conns
<1>7. CASE UNCHANGED <<server, data, conn, client>>
  BY <1>3, <1>6, <1>7 DEF k
<1>8. CASE ServerEnds(conn)
  <2>1. /\ conn'[1] \in Conns /\ conn'[1].peer = k.peer /\ conn'[1].toClient = k.toClient
        /\ server' = "down" /\ data' = data /\ client' = client
    BY <1>3, <1>8, OutsideEffect DEF Conns, k
  <2>2. QED
    BY <1>3, <1>6, <2>1
<1>9. CASE Connect(1, "running", IF Http THEN <<"request">> ELSE <<>>)
  <2> DEFINE first == <<"request">>
  <2>1. /\ server = "up" /\ UNCHANGED <<server, data>> /\ client[1].state = "new"
        /\ conn' = [conn EXCEPT ![1].toServer = first]
        /\ client' = [client EXCEPT ![1].state = "running"]
    BY <1>9 DEF Connect
  <2>2. first \in Seq({"request"})
    OBVIOUS
  <2> HIDE DEF first
  <2>3. conn'[1] = [k EXCEPT !.toServer = first]
    BY <1>4, <2>1 DEF AreConnections, k
  <2>4. client'[1].state = "running"
    BY <1>4, <2>1 DEF AreClients, IsClient
  <2>5. /\ conn'[1] \in Conns /\ conn'[1].end = k.end /\ conn'[1].toClient = k.toClient
    BY <1>3, <2>2, <2>3 DEF Conns, Connection
  <2>6. QED
    BY <1>3, <1>6, <2>1, <2>4, <2>5
<1>10. CASE HttpSends(1)
  <2> DEFINE inbox == Append(k.toClient, "piece")
             l == [k EXCEPT !.toServer = <<>>, !.toClient = inbox]
  <2>1. /\ data.sent < Header + data.body /\ server = "up" /\ k.peer = "open"
        /\ conn' = [conn EXCEPT ![1] = l]
        /\ data' = [data EXCEPT !.sent = @ + 1]
        /\ UNCHANGED <<server, client>>
    BY <1>10 DEF HttpSends, OutsideServes, k
  <2>2. /\ inbox \in Seq({"piece"}) /\ Len(inbox) = Len(k.toClient) + 1
        /\ <<>> \in Seq({"request"})
    BY <1>4, AppendProperties
  <2> HIDE DEF inbox
  <2>3. l \in Conns /\ l.end = k.end /\ l.toClient = inbox
    BY <1>3, <2>2 DEF Conns, Connection
  <2> HIDE DEF l
  <2>4. conn'[1] = l
    BY <1>4, <2>1 DEF AreConnections
  <2>5. /\ data' \in Data /\ data'.sent = data.sent + 1 /\ data'.size = data.size
        /\ data'.body = data.body /\ data'.reading = data.reading
        /\ data'.announced = data.announced /\ data'.header_end = data.header_end
        /\ data'.content_length = data.content_length /\ data'.returned = data.returned
    BY <1>3, <2>1
  <2>6. client[1].state # "ended" /\ ~data.returned
    BY <1>3, <2>1
  <2> HIDE DEF Data
  <2>7. data'.size + Len(conn'[1].toClient) = data'.sent
    <3>1. Len(conn'[1].toClient) = Len(k.toClient) + 1
      BY <2>2, <2>3, <2>4
    <3>2. data.size + Len(k.toClient) = data.sent
      BY <1>3, <2>6
    <3>3. data.size + (Len(k.toClient) + 1) = data.sent + 1
      BY <1>4, <1>5, <3>2
    <3>4. QED
      BY <2>5, <3>1, <3>3
  <2>8. data'.sent <= Header + data'.body
    BY <1>4, <1>5, <2>1, <2>5
  <2>9. QED
    BY <1>3, <1>6, <2>1, <2>3, <2>4, <2>5, <2>6, <2>7, <2>8
\* The process ends with nothing returned.
<1>11. ASSUME Ends(1), UNCHANGED <<server, data>>, client[1].state # "ended" PROVE HttpRead'
  <2>1. /\ conn'[1] \in Conns /\ conn'[1].peer # "open" /\ conn'[1].end = k.end
        /\ client'[1].state = "ended"
    BY <1>3, <1>11, OutsideEffect DEF Ends, Conns, k
  <2>2. QED
    BY <1>3, <1>6, <1>11, <2>1
<1>12. CASE Leave(1) \/ ConnectFails(1)
  BY <1>11, <1>12 DEF Leave, ConnectFails, DiesOnConnect, Http, serverVars
\* The client has read all that had arrived.
<1>13. ASSUME conn' = [conn EXCEPT ![1] = [k EXCEPT !.toClient = <<>>]],
              UNCHANGED <<server, client>>, client[1].state # "ended",
              data' \in Data, data'.size = data.sent,
              data'.sent = data.sent, data'.body = data.body, data'.returned = data.returned,
              data'.reading = "body" =>
                \/ /\ data'.announced /\ data'.header_end = Header
                   /\ data'.content_length = data'.body
                \/ server = "down"
       PROVE  HttpRead'
  <2> DEFINE l == [k EXCEPT !.toClient = <<>>]
  <2>1. <<>> \in Seq({"piece"}) /\ Len(<<>>) = 0
    OBVIOUS
  <2>2. l \in Conns /\ l.end = k.end /\ l.peer = k.peer /\ l.toClient = <<>>
    BY <1>3, <2>1 DEF Conns, Connection
  <2> HIDE DEF l
  <2>3. conn'[1] = l
    BY <1>4, <1>13 DEF AreConnections, l
  <2> HIDE DEF Data
  <2>4. data'.size + Len(conn'[1].toClient) = data'.sent
    BY <1>5, <1>13, <2>1, <2>2, <2>3
  <2>5. QED
    BY <1>3, <1>6, <1>13, <2>2, <2>3, <2>4
<1>14. CASE receive_from_server(1)
  <2>1. Running(1) /\ client[1].state # "ended" /\ ~data.returned
    BY <1>3, <1>14 DEF receive_from_server, Running
  <2>2. buffer_add(1) = data.sent
    BY <1>3, <1>4, <1>5, <2>1 DEF buffer_add, k
  <2>3. CASE ReadHeader(1)
    <3> DEFINE h     == HeaderEnd(data.sent)
               found == h = Header /\ data.announced
               n     == IF found THEN data.body ELSE data.content_length
               r     == IF found THEN "body" ELSE data.reading
    <3>1. /\ conn' = [conn EXCEPT ![1] = [k EXCEPT !.toClient = <<>>]]
          /\ UNCHANGED <<server, client>>
      BY <2>3 DEF ReadHeader, GoesOn, Emptied, k
    <3>2. data' = [data EXCEPT !.size = data.sent, !.header_end = h, !.content_length = n,
                               !.reading = r]
      BY <2>2, <2>3 DEF ReadHeader, GoesOn
    <3>3. data.reading = "header"
      BY <2>3 DEF ReadHeader
    <3>4. h \in {-1, Header} /\ n \in {0} \cup Body /\ r \in {"header", "body"}
      BY <1>3 DEF HeaderEnd
    <3>5. r = "body" => data.announced /\ h = Header /\ n = data.body
      BY <3>3
    <3> HIDE DEF h, n, r
    <3>6. /\ data' \in Data /\ data'.size = data.sent /\ data'.sent = data.sent
          /\ data'.body = data.body /\ data'.returned = data.returned
          /\ data'.announced = data.announced
          /\ data'.header_end = h /\ data'.content_length = n /\ data'.reading = r
      BY <1>3, <1>5, <3>2, <3>4
    <3> HIDE DEF Data
    <3>7. QED
      BY <1>13, <2>1, <3>1, <3>5, <3>6
  <2>4. CASE HeaderEof(1)
    <3>1. /\ k.toClient = <<>> /\ k.end # "open"
          /\ conn' = [conn EXCEPT ![1] = k]
          /\ data' = [data EXCEPT !.reading = "body"]
          /\ UNCHANGED <<server, client>>
      BY <2>4 DEF HeaderEof, GoesOn, k
    <3>2. conn'[1] = k
      BY <1>4, <3>1 DEF AreConnections
    <3>3. data.size = data.sent /\ server = "down"
      BY <1>3, <1>4, <1>5, <2>1, <3>1
    <3>4. /\ data' \in Data /\ data'.size = data.size /\ data'.sent = data.sent
          /\ data'.body = data.body /\ data'.returned = data.returned
      BY <1>3, <3>1
    <3> HIDE DEF Data
    <3>5. QED
      BY <1>3, <1>6, <2>1, <3>1, <3>2, <3>3, <3>4
  <2>5. CASE ReadBody(1)
    <3>1. /\ conn' = [conn EXCEPT ![1] = [k EXCEPT !.toClient = <<>>]]
          /\ UNCHANGED <<server, client>>
          /\ data' = [data EXCEPT !.size = data.sent]
          /\ data.reading = "body"
      BY <2>2, <2>5 DEF ReadBody, GoesOn, Emptied, k
    <3>2. /\ data' \in Data /\ data'.size = data.sent /\ data'.sent = data.sent
          /\ data'.body = data.body /\ data'.returned = data.returned
          /\ data'.announced = data.announced /\ data'.header_end = data.header_end
          /\ data'.content_length = data.content_length
      BY <1>3, <1>5, <3>1
    <3> HIDE DEF Data
    <3>3. QED
      BY <1>3, <1>13, <2>1, <3>1, <3>2
  <2>6. CASE Returns(1)
    <3>1. /\ data.reading = "body" /\ EndsAt(1, k) /\ data' = [data EXCEPT !.returned = TRUE]
          /\ UNCHANGED server
          /\ \/ data.size >= Total
             \/ k.toClient = <<>> /\ k.end # "open"
      BY <2>6 DEF Returns, Finishes, k
    <3>2. /\ conn'[1] \in Conns /\ conn'[1].peer # "open" /\ conn'[1].end = k.end
          /\ client'[1].state = "ended"
      BY <1>3, <3>1, OutsideEffect DEF Conns, k
    <3>3. /\ data' \in Data /\ data'.size = data.size /\ data'.sent = data.sent
          /\ data'.body = data.body /\ data'.reading = data.reading
          /\ data'.announced = data.announced /\ data'.header_end = data.header_end
          /\ data'.content_length = data.content_length
      BY <1>3, <3>1
    <3>4. data.size = Header + data.body \/ (server = "down" /\ data.size = data.sent)
      <4>1. data.size + Len(k.toClient) = data.sent
        BY <1>3, <2>1
      <4>2. CASE k.toClient = <<>> /\ k.end # "open"
        BY <1>3, <1>5, <4>1, <4>2
      <4>3. CASE data.size >= Total /\ ~(server = "down" /\ data.size = data.sent)
        <5>1. data.header_end = Header /\ data.content_length = data.body
          BY <1>3, <3>1, <4>3
        <5>2. Total = data.body + Header
          BY <1>4, <5>1 DEF Total
        <5>3. QED
          BY <1>3, <1>4, <1>5, <4>1, <4>3, <5>2
      <4>4. QED
        BY <3>1, <4>2, <4>3
    <3> HIDE DEF Data
    <3>5. QED
      BY <1>3, <1>6, <3>1, <3>2, <3>3, <3>4
  <2>7. CASE ReadFails(1)
    BY <1>11, <2>1, <2>7 DEF ReadFails, NoticesEnd, serverVars
  <2>8. QED
    BY <1>14, <2>3, <2>4, <2>5, <2>6, <2>7 DEF receive_from_server
<1>15. ~SmtpGreets(1) /\ ~SmtpReplies(1) /\ ~send_command(1)
  BY <1>2 DEF SmtpGreets, SmtpReplies, send_command
<1>16. QED
  BY <1>2, <1>7, <1>8, <1>9, <1>10, <1>12, <1>14, <1>15, OutsideSteps

\* The codes of the nine commands: none is a refusal, the last alone is 221.
LEMMA ExpectedCodes ==
  /\ DOMAIN Expected = 1 .. 9 /\ Len(Expected) = 9
  /\ \A n \in 1 .. 9 : /\ Expected[n] \in Code /\ Expected[n] # Refused
                       /\ (Expected[n] = 221) <=> (n = 9)
<1>1. DOMAIN Expected = 1 .. 9 /\ Len(Expected) = 9
  BY DEF Expected
<1>2. ASSUME NEW n \in 1 .. 9
      PROVE  Expected[n] # Refused /\ ((Expected[n] = 221) <=> (n = 9))
  <2>1. n \in {1, 2, 3, 4, 5, 6, 7, 8, 9}
    OBVIOUS
  <2>2. QED
    BY <2>1 DEF Expected, Refused
<1>3. \A n \in 1 .. 9 : Expected[n] \in Code
  BY <1>1 DEF Code
<1>4. QED
  BY <1>1, <1>2, <1>3

\* The client of lab11 and its server: a step of either.
LEMMA MailKeeps ==
  ASSUME Loop, Alone, MailAnswered, Next
  PROVE  MailAnswered'
<1> DEFINE k == conn[1]
           Data == [answered : 0 .. 9, accepted : SUBSET (1 .. 9), greeted : BOOLEAN,
                    command : 0 .. 9, writing : BOOLEAN, recvbuf : {0} \cup Code,
                    returned : BOOLEAN]
           Conns == Connection(1 .. 9, Code)
           inbox == k.toClient
           orders == k.toServer
<1>1. UNCHANGED program /\ (server' = "down" \/ server' = server) /\ server \in {"up", "down"}
  <2>1. SeatStep
    BY NextSeats DEF Loop
  <2>2. server' = "down" \/ server' = server
    BY <2>1 DEF SeatStep, Cleared, Seated, Freed, Joined, Stayed
  <2>3. QED
    BY <2>1, <2>2 DEF SeatStep, Loop, Shape
<1> SUFFICES ASSUME Smtp PROVE MailAnswered'
  BY <1>1 DEF MailAnswered, Smtp
<1>2. program \in Outside /\ ~Http
  BY DEF Http, Smtp, Outside
<1>3. /\ data \in Data /\ k \in Conns
      /\ client[1].state = "ended" => k.peer # "open"
      /\ k.end # "open" => server = "down"
      /\ data.returned => client[1].state = "ended" /\ data.accepted = 1 .. 9
      /\ ~data.greeted => data.answered = 0 /\ inbox = <<>>
      /\ data.accepted \subseteq 1 .. data.answered
      /\ data.answered <= data.command
      /\ client[1].state = "new" => data.command = 0
  BY DEF MailAnswered
<1>4. client[1].state # "ended" =>
        /\ data.recvbuf # 221
        /\ data.writing => data.command < 9
        /\ server = "up" =>
              /\ data.answered + Len(orders) = data.command
              /\ \A n \in 1 .. Len(orders) : orders[n] = data.answered + n
        /\ data.accepted # 1 .. data.answered => \E n \in 1 .. Len(inbox) : inbox[n] = Refused
        /\ \A n \in 1 .. Len(inbox) :
              inbox[n] = 221 =>
                  data.answered = 9 /\ \A j \in n .. Len(inbox) : inbox[j] = 221
  BY DEF MailAnswered
<1>5. /\ 1 \in Client /\ AreConnections(conn) /\ AreClients(client)
      /\ inbox \in Seq(Code) /\ Len(inbox) \in Nat /\ orders \in Seq(1 .. 9) /\ Len(orders) \in Nat
  <2>1. AreConnections(conn) /\ AreClients(client)
    BY DEF Loop, Shape
  <2>2. inbox \in Seq(Code) /\ orders \in Seq(1 .. 9)
    BY <1>3 DEF Connection
  <2>3. QED
    BY <2>1, <2>2, TheOne, LenProperties
<1>6. data.answered \in Nat /\ data.command \in Nat /\ data.command <= 9
  BY <1>3
<1> HIDE DEF k, Conns, inbox, orders
\* Putting it together again: while the client runs, and when it has ended.
<1>7. ASSUME data' \in Data, conn'[1] \in Conns, client'[1].state # "ended",
             conn'[1].end # "open" => server' = "down",
             ~data'.returned,
             ~data'.greeted => data'.answered = 0 /\ conn'[1].toClient = <<>>,
             data'.accepted \subseteq 1 .. data'.answered,
             data'.answered <= data'.command,
             client'[1].state = "new" => data'.command = 0,
             data'.recvbuf # 221,
             data'.writing => data'.command < 9,
             server' = "up" =>
                /\ data'.answered + Len(conn'[1].toServer) = data'.command
                /\ \A n \in 1 .. Len(conn'[1].toServer) :
                      conn'[1].toServer[n] = data'.answered + n,
             data'.accepted # 1 .. data'.answered =>
                \E n \in 1 .. Len(conn'[1].toClient) : conn'[1].toClient[n] = Refused,
             \A n \in 1 .. Len(conn'[1].toClient) :
                conn'[1].toClient[n] = 221 =>
                    /\ data'.answered = 9
                    /\ \A j \in n .. Len(conn'[1].toClient) : conn'[1].toClient[j] = 221
      PROVE  MailAnswered'
  BY <1>7 DEF MailAnswered, Conns
<1>8. ASSUME NEW l \in Conns, EndsAt(1, l), l.end = k.end, UNCHANGED server,
             data' \in Data, data'.answered = data.answered, data'.accepted = data.accepted,
             data'.greeted = data.greeted, data'.command = data.command,
             data'.returned => data.accepted = 1 .. 9
      PROVE  MailAnswered'
  <2>1. /\ conn'[1] \in Conns /\ conn'[1].peer # "open" /\ conn'[1].end = k.end
        /\ conn'[1].toClient = <<>> /\ client'[1].state = "ended"
    BY <1>3, <1>8, OutsideEffect DEF Conns, k
  <2> HIDE DEF Data
  <2>2. /\ conn'[1].end # "open" => server' = "down"
        /\ ~data'.greeted => data'.answered = 0
        /\ data'.accepted \subseteq 1 .. data'.answered
        /\ data'.answered <= data'.command
        /\ data'.returned => data'.accepted = 1 .. 9
    BY <1>3, <1>8, <2>1
  <2>3. QED
    BY <1>8, <2>1, <2>2 DEF MailAnswered, Conns, Data
<1>9. CASE UNCHANGED <<server, data, conn, client>>
  BY <1>9, <1>1 DEF MailAnswered, Smtp
<1>10. CASE ServerEnds(conn)
  <2>1. /\ conn'[1] \in Conns /\ conn'[1].peer = k.peer /\ conn'[1].toClient = inbox
        /\ server' = "down" /\ data' = data /\ client' = client
    BY <1>3, <1>10, OutsideEffect DEF Conns, k, inbox
  <2>2. CASE client[1].state = "ended"
    <3> HIDE DEF Data
    <3>1. QED
      BY <1>3, <2>1, <2>2 DEF MailAnswered, Conns, Data
  <2>3. CASE client[1].state # "ended"
    <3> HIDE DEF Data
    <3>1. QED
      BY <1>3, <1>4, <1>7, <2>1, <2>3
  <2>4. QED
    BY <2>2, <2>3
<1>11. CASE Connect(1, "running", IF Http THEN <<"request">> ELSE <<>>)
  <2>1. /\ server = "up" /\ UNCHANGED <<server, data>> /\ client[1].state = "new"
        /\ conn' = [conn EXCEPT ![1].toServer = <<>>]
        /\ client' = [client EXCEPT ![1].state = "running"]
    BY <1>2, <1>11 DEF Connect
  <2> DEFINE none == <<>>
  <2>2. conn'[1] = [k EXCEPT !.toServer = none]
    BY <1>5, <2>1 DEF AreConnections, k
  <2>3. client'[1].state = "running"
    BY <1>5, <2>1 DEF AreClients, IsClient
  <2>4. none \in Seq(1 .. 9) /\ Len(none) = 0
    OBVIOUS
  <2> HIDE DEF none
  <2>5. /\ conn'[1] \in Conns /\ conn'[1].end = k.end /\ conn'[1].toClient = inbox
        /\ conn'[1].toServer = none
    BY <1>3, <2>2, <2>4 DEF Conns, Connection, inbox
  <2>6. data.command = 0 /\ data.answered = 0 /\ ~data.returned
    BY <1>3, <1>6, <2>1
  <2>7. /\ data'.answered + Len(conn'[1].toServer) = data'.command
        /\ \A n \in 1 .. Len(conn'[1].toServer) : conn'[1].toServer[n] = data'.answered + n
    BY <2>1, <2>4, <2>5, <2>6
  <2> HIDE DEF Data
  <2>8. QED
    BY <1>3, <1>4, <1>7, <2>1, <2>3, <2>5, <2>6, <2>7
<1>12. ASSUME NEW code \in Code, NEW lines \in Reply(code), k.peer = "open"
       PROVE  /\ lines \in Seq(Code) /\ (Len(lines) = 1 \/ Len(lines) = 2)
              /\ \A n \in 1 .. Len(lines) : lines[n] = code
              /\ Len(inbox \o lines) = Len(inbox) + Len(lines)
              /\ \A n \in 1 .. Len(inbox) + Len(lines) :
                    (inbox \o lines)[n] = IF n <= Len(inbox) THEN inbox[n] ELSE code
  <2>1. lines = <<code>> \/ lines = <<code, code>>
    BY <1>12 DEF Reply
  <2>2. /\ lines \in Seq(Code) /\ (Len(lines) = 1 \/ Len(lines) = 2)
        /\ \A n \in 1 .. Len(lines) : lines[n] = code
    <3>1. CASE lines = <<code>>
      BY <3>1
    <3>2. CASE lines = <<code, code>>
      <4>1. lines \in Seq(Code) /\ Len(lines) = 2 /\ lines[1] = code /\ lines[2] = code
        BY <3>2
      <4>2. QED
        BY <4>1
    <3>3. QED
      BY <2>1, <3>1, <3>2
  <2>3. /\ Len(inbox \o lines) = Len(inbox) + Len(lines)
        /\ \A n \in 1 .. Len(inbox) + Len(lines) :
              (inbox \o lines)[n] = IF n <= Len(inbox) THEN inbox[n] ELSE lines[n - Len(inbox)]
    BY <1>5, <2>2, ConcatProperties
  <2>4. ASSUME NEW n \in 1 .. Len(inbox) + Len(lines), ~(n <= Len(inbox))
        PROVE  lines[n - Len(inbox)] = code
    <3>1. n - Len(inbox) \in 1 .. Len(lines)
      BY <1>5, <2>2, <2>4
    <3>2. QED
      BY <2>2, <3>1
  <2>5. QED
    BY <2>2, <2>3, <2>4
<1>13. CASE SmtpGreets(1)
  <2>1. PICK lines \in Reply(Greeting) :
          OutsideServes(1, ServerSends(k, lines), [data EXCEPT !.greeted = TRUE])
    BY <1>13 DEF SmtpGreets, k
  <2>2. /\ server = "up" /\ k.peer = "open" /\ UNCHANGED <<server, client>> /\ ~data.greeted
        /\ conn' = [conn EXCEPT ![1] = ServerSends(k, lines)]
        /\ data' = [data EXCEPT !.greeted = TRUE]
    BY <1>13, <2>1 DEF SmtpGreets, OutsideServes, k
  <2>3. Greeting \in Code /\ Greeting # 221
    BY DEF Code, Greeting
  <2>4. /\ lines \in Seq(Code) /\ (Len(lines) = 1 \/ Len(lines) = 2)
        /\ \A n \in 1 .. Len(lines) : lines[n] = Greeting
        /\ Len(inbox \o lines) = Len(inbox) + Len(lines)
        /\ \A n \in 1 .. Len(inbox) + Len(lines) :
              (inbox \o lines)[n] = IF n <= Len(inbox) THEN inbox[n] ELSE Greeting
    BY <1>12, <2>2, <2>3
  <2>5. conn'[1] = ServerSends(k, lines)
    BY <1>5, <2>2 DEF AreConnections
  <2> DEFINE s == inbox \o lines
  <2>6. /\ conn'[1] \in Conns /\ conn'[1].end = k.end /\ conn'[1].toServer = orders
        /\ conn'[1].toClient = s
    BY <1>3, <2>2, <2>4, <2>5, ServerSendsEffect DEF Conns, inbox, orders
  <2> HIDE DEF s
  <2>7. inbox = <<>> /\ data.answered = 0
    BY <1>3, <2>2
  <2>8. \A n \in 1 .. Len(s) : s[n] = Greeting
    BY <1>5, <2>4, <2>7 DEF s
  <2>9. /\ data' \in Data /\ data'.greeted /\ data'.answered = data.answered
        /\ data'.accepted = data.accepted /\ data'.command = data.command
        /\ data'.writing = data.writing /\ data'.recvbuf = data.recvbuf
        /\ data'.returned = data.returned
    BY <1>3, <2>2
  <2>10. client[1].state # "ended" /\ ~data.returned
    BY <1>3, <2>2
  <2>11. data.accepted = 1 .. data.answered
    BY <1>3, <2>7
  <2>12. \A n \in 1 .. Len(s) : s[n] # 221
    BY <2>3, <2>8
  <2> HIDE DEF Data
  <2>13. data.answered + Len(orders) = data.command
         /\ \A n \in 1 .. Len(orders) : orders[n] = data.answered + n
    BY <1>4, <2>2, <2>10
  <2>14. QED
    BY <1>3, <1>4, <1>7, <2>2, <2>6, <2>9, <2>10, <2>11, <2>12, <2>13
<1>14. CASE SmtpReplies(1)
  <2> DEFINE h == Head(orders)
             rest == Tail(orders)
             l == [k EXCEPT !.toServer = rest]
  <2>0. PICK code \in {Expected[h], Refused} : \E lines \in Reply(code) :
          OutsideServes(1, ServerSends(l, lines),
              [data EXCEPT !.answered = @ + 1,
                           !.accepted = IF code = Refused THEN @ ELSE @ \cup {h}])
    BY <1>14 DEF SmtpReplies, k, orders
  <2>1. PICK lines \in Reply(code) :
          OutsideServes(1, ServerSends(l, lines),
              [data EXCEPT !.answered = @ + 1,
                           !.accepted = IF code = Refused THEN @ ELSE @ \cup {h}])
    BY <2>0
  <2>2. /\ server = "up" /\ k.peer = "open" /\ UNCHANGED <<server, client>> /\ data.greeted
        /\ orders # <<>>
        /\ conn' = [conn EXCEPT ![1] = ServerSends(l, lines)]
        /\ data' = [data EXCEPT !.answered = @ + 1,
                                !.accepted = IF code = Refused THEN @ ELSE @ \cup {h}]
    BY <1>14, <2>1 DEF SmtpReplies, OutsideServes, k, orders
  <2>3. client[1].state # "ended" /\ ~data.returned
    BY <1>3, <2>2
  <2>4. /\ h = orders[1] /\ 1 \in 1 .. Len(orders)
        /\ rest \in Seq(1 .. 9) /\ Len(rest) = Len(orders) - 1
        /\ \A n \in 1 .. Len(orders) - 1 : rest[n] = orders[n + 1]
    BY <1>5, <2>2, HeadTailProperties
  <2>5. /\ data.answered + Len(orders) = data.command
        /\ \A n \in 1 .. Len(orders) : orders[n] = data.answered + n
    BY <1>4, <2>2, <2>3
  <2>6. h = data.answered + 1 /\ h \in 1 .. 9 /\ h <= data.command
    BY <1>5, <1>6, <2>4, <2>5
  <2>7. /\ code \in Code /\ Expected[h] # Refused /\ (code = 221 => h = 9)
        /\ code # Refused => code = Expected[h]
    BY <2>0, <2>6, ExpectedCodes DEF Code, Refused
  <2> HIDE DEF h, rest
  <2> DEFINE s == inbox \o lines
             accepted == IF code = Refused THEN data.accepted ELSE data.accepted \cup {h}
  <2>8. /\ lines \in Seq(Code) /\ (Len(lines) = 1 \/ Len(lines) = 2)
        /\ Len(s) = Len(inbox) + Len(lines)
        /\ \A n \in 1 .. Len(inbox) + Len(lines) :
              s[n] = IF n <= Len(inbox) THEN inbox[n] ELSE code
    BY <1>12, <2>2, <2>7
  <2>9. l \in Conns /\ l.peer = "open" /\ l.end = k.end /\ l.toServer = rest /\ l.toClient = inbox
    BY <1>3, <2>2, <2>4 DEF Conns, Connection, inbox
  <2> HIDE DEF l
  <2>10. conn'[1] = ServerSends(l, lines)
    BY <1>5, <2>2 DEF AreConnections
  <2>11. /\ conn'[1] \in Conns /\ conn'[1].end = k.end /\ conn'[1].toServer = rest
         /\ conn'[1].toClient = s
    <3> DEFINE sent == ServerSends(l, lines)
    <3>1. lines \in Seq(Code)
      BY <2>8
    <3>2. ASSUME NEW q \in Connection(1 .. 9, Code), NEW m \in Seq(Code), q.peer = "open"
          PROVE  /\ ServerSends(q, m) \in Connection(1 .. 9, Code)
                 /\ ServerSends(q, m).toServer = q.toServer /\ ServerSends(q, m).end = q.end
                 /\ ServerSends(q, m).toClient = q.toClient \o m
      BY <3>2, ServerSendsEffect
    <3>3. /\ sent \in Conns /\ sent.toServer = l.toServer /\ sent.end = l.end
          /\ sent.toClient = l.toClient \o lines
      BY <2>9, <3>1, <3>2 DEF Conns
    <3> HIDE DEF sent
    <3>4. QED
      BY <2>9, <2>10, <3>3 DEF sent
  <2> HIDE DEF s
  <2>12. accepted \subseteq 1 .. h /\ accepted \in SUBSET (1 .. 9)
    <3>1. data.accepted \subseteq 1 .. data.answered
      BY <1>3
    <3>2. QED
      BY <1>6, <2>6, <3>1
  <2>13. data' = [data EXCEPT !.answered = data.answered + 1, !.accepted = accepted]
    BY <2>2
  <2> HIDE DEF accepted
  <2>14. data.answered + 1 \in 0 .. 9
    BY <1>6, <2>6
  <2>15. /\ data' \in Data /\ data'.greeted = data.greeted /\ data'.answered = data.answered + 1
         /\ data'.accepted = accepted /\ data'.command = data.command
         /\ data'.writing = data.writing /\ data'.recvbuf = data.recvbuf
         /\ data'.returned = data.returned
    BY <1>3, <2>12, <2>13, <2>14
  <2> HIDE DEF Data
  <2>16. /\ data'.answered + Len(rest) = data.command
         /\ \A n \in 1 .. Len(rest) : rest[n] = data'.answered + n
    <3>1. data'.answered + Len(rest) = data.command
      BY <1>5, <1>6, <2>4, <2>5, <2>15
    <3>2. ASSUME NEW n \in 1 .. Len(rest) PROVE rest[n] = data'.answered + n
      <4>1. n \in 1 .. Len(orders) - 1 /\ n + 1 \in 1 .. Len(orders)
        BY <1>5, <2>4
      <4>2. rest[n] = data.answered + (n + 1)
        BY <2>4, <2>5, <4>1
      <4>3. data.answered + (n + 1) = (data.answered + 1) + n
        BY <1>6
      <4>4. QED
        BY <2>15, <4>2, <4>3
    <3>3. QED
      BY <3>1, <3>2
  <2>17. accepted # 1 .. h => \E n \in 1 .. Len(s) : s[n] = Refused
    <3>1. CASE code = Refused
      <4>1. Len(lines) \in Nat /\ Len(lines) >= 1 /\ Len(inbox) \in Nat
        <5>1. Len(lines) = 1 \/ Len(lines) = 2
          BY <2>8
        <5>2. \A n : n = 1 \/ n = 2 => n \in Nat /\ n >= 1
          OBVIOUS
        <5>3. Len(lines) \in Nat /\ Len(lines) >= 1
          BY <5>1, <5>2
        <5>4. QED
          BY <1>5, <5>3
      <4>2. Len(inbox) + 1 \in 1 .. Len(inbox) + Len(lines) /\ ~(Len(inbox) + 1 <= Len(inbox))
        BY <4>1
      <4>3. Len(inbox) + 1 \in 1 .. Len(s) /\ s[Len(inbox) + 1] = Refused
        BY <2>8, <3>1, <4>2
      <4>4. QED
        BY <4>3
    <3>2. CASE code # Refused
      <4>1. SUFFICES ASSUME accepted # 1 .. h PROVE \E n \in 1 .. Len(s) : s[n] = Refused
        OBVIOUS
      <4>2. 1 .. h = (1 .. data.answered) \cup {h}
        BY <1>6, <2>6
      <4>3. data.accepted # 1 .. data.answered
        BY <3>2, <4>1, <4>2 DEF accepted
      <4>4. PICK n \in 1 .. Len(inbox) : inbox[n] = Refused
        BY <1>4, <2>3, <4>3
      <4>5. n \in 1 .. Len(s) /\ s[n] = Refused
        BY <1>5, <2>8, <4>4
      <4>6. QED
        BY <4>5
    <3>3. QED
      BY <3>1, <3>2
  <2>18. ASSUME NEW n \in 1 .. Len(s), s[n] = 221
         PROVE  h = 9 /\ \A j \in n .. Len(s) : s[j] = 221
    <3>1. n \in 1 .. Len(inbox) + Len(lines)
      BY <2>8
    <3>2. ~(n <= Len(inbox))
      <4>1. SUFFICES ASSUME n \in 1 .. Len(inbox) PROVE FALSE
        BY <1>5, <3>1
      <4>2. inbox[n] = 221
        BY <1>5, <2>8, <2>18, <3>1, <4>1
      <4>3. data.answered = 9
        BY <1>4, <2>3, <4>1, <4>2
      <4>4. QED
        BY <2>6, <4>3
    <3>3. code = 221
      BY <2>8, <2>18, <3>1, <3>2
    <3>4. ASSUME NEW j \in n .. Len(s) PROVE s[j] = 221
      <4>1. j \in 1 .. Len(inbox) + Len(lines) /\ ~(j <= Len(inbox))
        BY <1>5, <2>8, <3>1, <3>2
      <4>2. QED
        BY <2>8, <3>3, <4>1
    <3>5. QED
      BY <2>7, <3>3, <3>4
  <2>19. data'.answered = h
    BY <2>6, <2>15
  <2>20. /\ client'[1].state # "ended" /\ ~data'.returned /\ data'.greeted
         /\ conn'[1].end # "open" => server' = "down"
         /\ client'[1].state = "new" => data'.command = 0
         /\ data'.recvbuf # 221
         /\ data'.writing => data'.command < 9
    BY <1>3, <1>4, <2>2, <2>3, <2>11, <2>15
  <2>21. /\ data'.accepted \subseteq 1 .. data'.answered /\ data'.answered <= data'.command
         /\ data'.answered + Len(conn'[1].toServer) = data'.command
         /\ \A n \in 1 .. Len(conn'[1].toServer) :
               conn'[1].toServer[n] = data'.answered + n
    BY <2>6, <2>11, <2>12, <2>15, <2>16, <2>19
  <2>22. /\ data'.accepted # 1 .. data'.answered =>
               \E n \in 1 .. Len(conn'[1].toClient) : conn'[1].toClient[n] = Refused
         /\ \A n \in 1 .. Len(conn'[1].toClient) :
               conn'[1].toClient[n] = 221 =>
                   /\ data'.answered = 9
                   /\ \A j \in n .. Len(conn'[1].toClient) : conn'[1].toClient[j] = 221
    BY <2>11, <2>15, <2>17, <2>18, <2>19
  <2>23. data' \in Data /\ conn'[1] \in Conns
    BY <2>11, <2>15
  <2>24. QED
    BY <1>7, <2>20, <2>21, <2>22, <2>23
<1>15. CASE Leave(1)
  <2>1. EndsAt(1, k) /\ UNCHANGED <<server, data>> /\ client[1].state # "ended"
    BY <1>15 DEF Leave, Ends, serverVars, k
  <2>2. QED
    BY <1>3, <1>8, <2>1
<1>16. CASE ConnectFails(1)
  <2> DEFINE l == Unconnected(k)
  <2>1. /\ server = "down" /\ UNCHANGED <<server, data>> /\ client[1].state = "new"
        /\ conn' = [conn EXCEPT ![1] = l] /\ client' = [client EXCEPT ![1].state = "running"]
    BY <1>16 DEF ConnectFails, DiesOnConnect, Smtp, serverVars, k
  <2>2. conn'[1] = l /\ client'[1].state = "running"
    BY <1>5, <2>1 DEF AreConnections, AreClients, IsClient
  <2>3. l \in Conns /\ l.end = "refused" /\ l.toClient = inbox
    BY <1>3 DEF Conns, Connection, Unconnected, Heard, inbox
  <2> HIDE DEF Data, l
  <2>4. QED
    BY <1>3, <1>4, <1>7, <2>1, <2>2, <2>3
<1>17. CASE send_command(1)
  <2>1. client[1].state = "running" /\ ~data.returned
    BY <1>3, <1>17 DEF send_command, Running
  <2>2. /\ data.recvbuf # 221
        /\ data.writing => data.command < 9
        /\ server = "up" =>
              /\ data.answered + Len(orders) = data.command
              /\ \A n \in 1 .. Len(orders) : orders[n] = data.answered + n
        /\ data.accepted # 1 .. data.answered => \E n \in 1 .. Len(inbox) : inbox[n] = Refused
        /\ \A n \in 1 .. Len(inbox) :
              inbox[n] = 221 =>
                  data.answered = 9 /\ \A j \in n .. Len(inbox) : inbox[j] = 221
    BY <1>4, <2>1
  <2> DEFINE s == Tail(inbox)
             rest == [k EXCEPT !.toClient = s]
  \* The first line is taken: the others stay, and so do their places.
  <2>3. ASSUME inbox # <<>>
        PROVE  /\ rest \in Conns /\ rest.end = k.end /\ rest.toServer = orders
               /\ rest.toClient = s
               /\ 1 \in 1 .. Len(inbox) /\ Head(inbox) = inbox[1] /\ Len(s) = Len(inbox) - 1
               /\ \A n \in 1 .. Len(s) : s[n] = inbox[n + 1] /\ n + 1 \in 1 .. Len(inbox)
               /\ \A n \in 1 .. Len(s) :
                     s[n] = 221 => data.answered = 9 /\ \A j \in n .. Len(s) : s[j] = 221
               /\ Head(inbox) \in Code
    <3>1. /\ s \in Seq(Code) /\ Len(s) = Len(inbox) - 1
          /\ 1 \in 1 .. Len(inbox) /\ Head(inbox) = inbox[1]
          /\ \A n \in 1 .. Len(inbox) - 1 : s[n] = inbox[n + 1]
      BY <1>5, <2>3, HeadTailProperties
    <3> HIDE DEF s
    <3>2. rest \in Conns /\ rest.end = k.end /\ rest.toServer = orders /\ rest.toClient = s
      BY <1>3, <3>1 DEF Conns, Connection, orders
    <3>3. \A n \in 1 .. Len(s) : s[n] = inbox[n + 1] /\ n + 1 \in 1 .. Len(inbox)
      BY <1>5, <3>1
    <3>4. ASSUME NEW n \in 1 .. Len(s), s[n] = 221
          PROVE  data.answered = 9 /\ \A j \in n .. Len(s) : s[j] = 221
      <4>1. n + 1 \in 1 .. Len(inbox) /\ inbox[n + 1] = 221
        BY <3>3, <3>4
      <4>2. data.answered = 9 /\ \A j \in n + 1 .. Len(inbox) : inbox[j] = 221
        BY <2>2, <4>1
      <4>3. \A j \in n .. Len(s) : j \in 1 .. Len(s) /\ j + 1 \in n + 1 .. Len(inbox)
        BY <1>5, <3>1
      <4>4. QED
        BY <3>3, <4>2, <4>3
    <3>5. inbox[1] \in Code
      BY <1>5, <3>1
    <3>6. QED
      BY <3>1, <3>2, <3>3, <3>4, <3>5
  <2> HIDE DEF s, rest
  \* An end of the connection that is noted: it is broken from now on.
  <2> DEFINE broken == [k EXCEPT !.end = "dead"]
  <2>4. /\ broken \in Conns /\ broken.toServer = orders /\ broken.toClient = inbox
        /\ broken.end = "dead"
    BY <1>3 DEF Conns, Connection, Knowledge, Heard, inbox, orders
  <2> HIDE DEF broken
  <2>5. CASE ReadGreeting(1)
    <3>1. data.command = 0 /\ data.answered = 0
      BY <1>3, <1>6, <2>5 DEF ReadGreeting
    <3>2. PICK l : /\ GoesOn(1, l, [data EXCEPT !.writing = TRUE])
                   /\ \/ inbox # <<>> /\ l = rest
                      \/ inbox = <<>> /\ k.end # "open" /\ (l = broken \/ l = k)
      <4>1. GoesOn(1, IF inbox # <<>> THEN rest
                      ELSE [k EXCEPT !.end = IF k.end = "reset" THEN "dead" ELSE k.end],
                   [data EXCEPT !.writing = TRUE])
        BY <2>5 DEF ReadGreeting, k, inbox, rest, s
      <4>2. [k EXCEPT !.end = k.end] = k
        BY <1>3 DEF Conns, Connection
      <4>3. inbox = <<>> => k.end # "open"
        BY <2>5 DEF ReadGreeting, ClientReadable, k, inbox
      <4>4. CASE inbox # <<>>
        BY <4>1, <4>4
      <4>5. CASE inbox = <<>> /\ k.end = "reset"
        BY <4>1, <4>5 DEF broken
      <4>6. CASE inbox = <<>> /\ k.end # "reset"
        BY <4>1, <4>2, <4>3, <4>6
      <4>7. QED
        BY <4>4, <4>5, <4>6
    <3>3. /\ conn' = [conn EXCEPT ![1] = l] /\ UNCHANGED <<server, client>>
          /\ data' = [data EXCEPT !.writing = TRUE]
      BY <3>2 DEF GoesOn
    <3>4. conn'[1] = l
      BY <1>5, <3>3 DEF AreConnections
    <3>5. /\ data' \in Data /\ data'.greeted = data.greeted /\ data'.answered = data.answered
          /\ data'.accepted = data.accepted /\ data'.command = data.command
          /\ data'.recvbuf = data.recvbuf /\ data'.returned = data.returned
      BY <1>3, <3>3
    <3> HIDE DEF Data
    <3>6. /\ l \in Conns /\ l.toServer = orders /\ (l.end # "open" => server = "down")
          /\ ~data.greeted => l.toClient = <<>>
      BY <1>3, <2>3, <2>4, <3>2 DEF inbox, orders
    <3>7. \A n \in 1 .. Len(l.toClient) : l.toClient[n] # 221
      <4>1. CASE inbox # <<>> /\ l = rest
        BY <2>3, <3>1, <4>1
      <4>2. CASE inbox = <<>> /\ (l = broken \/ l = k)
        BY <2>4, <4>2 DEF inbox
      <4>3. QED
        BY <3>2, <4>1, <4>2
    <3>8. data.accepted = 1 .. data.answered
      BY <1>3, <3>1
    <3>9. data'.writing => data'.command < 9
      BY <3>1, <3>5
    <3>10. /\ client'[1].state # "ended" /\ ~data'.returned
           /\ conn'[1].end # "open" => server' = "down"
           /\ ~data'.greeted => data'.answered = 0 /\ conn'[1].toClient = <<>>
           /\ client'[1].state = "new" => data'.command = 0
           /\ data'.recvbuf # 221
      BY <1>3, <2>1, <2>2, <3>3, <3>4, <3>5, <3>6
    <3>11. /\ data'.accepted = 1 .. data'.answered /\ data'.answered <= data'.command
           /\ server' = "up" =>
                /\ data'.answered + Len(conn'[1].toServer) = data'.command
                /\ \A n \in 1 .. Len(conn'[1].toServer) :
                      conn'[1].toServer[n] = data'.answered + n
      BY <1>3, <2>2, <3>3, <3>4, <3>5, <3>6, <3>8
    <3>12. \A n \in 1 .. Len(conn'[1].toClient) : conn'[1].toClient[n] # 221
      BY <3>4, <3>7
    <3>13. data' \in Data /\ conn'[1] \in Conns
      BY <3>4, <3>5, <3>6
    <3>14. QED
      BY <1>7, <3>9, <3>10, <3>11, <3>12, <3>13
  <2>6. CASE WriteCommand(1)
    <3>1. CASE Finishes(1, k, data)
      <4>1. EndsAt(1, k) /\ UNCHANGED <<server, data>>
        BY <3>1 DEF Finishes
      <4>2. QED
        BY <1>3, <1>8, <4>1
    <3>2. CASE /\ k.end \in {"open", "fin"}
               /\ GoesOn(1, ClientSends(k, data.command + 1),
                         [data EXCEPT !.command = @ + 1, !.writing = FALSE])
      <4> DEFINE m == data.command + 1
                 l == ClientSends(k, m)
      <4>1. /\ conn' = [conn EXCEPT ![1] = l] /\ UNCHANGED <<server, client>>
            /\ data' = [data EXCEPT !.command = m, !.writing = FALSE]
        BY <3>2 DEF GoesOn
      <4>2. m \in 1 .. 9 /\ m \in 0 .. 9
        <5>1. data.command < 9
          BY <2>2, <2>6 DEF WriteCommand
        <5>2. QED
          BY <1>6, <5>1
      <4>3. /\ data' \in Data /\ data'.greeted = data.greeted /\ data'.answered = data.answered
            /\ data'.accepted = data.accepted /\ data'.command = m /\ ~data'.writing
            /\ data'.recvbuf = data.recvbuf /\ data'.returned = data.returned
        BY <1>3, <4>1, <4>2
      <4> HIDE DEF Data
      <4>4. conn'[1] = l
        BY <1>5, <4>1 DEF AreConnections
      <4>5. l \in Conns /\ l.toClient = inbox
        BY <1>3, <4>2, ClientSendsEffect DEF Conns, inbox
      <4>6. l.end # "open" => server = "down"
        BY <1>3, <4>5 DEF ClientSends, Conns, Connection
      <4>7. server = "up" => l.toServer = Append(orders, m)
        <5>1. server = "up" => k.end = "open"
          BY <1>3
        <5>2. k.end = "open" => l = [k EXCEPT !.toServer = Append(orders, m)]
          BY DEF ClientSends, orders
        <5>3. [k EXCEPT !.toServer = Append(orders, m)].toServer = Append(orders, m)
          BY <1>3 DEF Conns, Connection
        <5>4. QED
          BY <5>1, <5>2, <5>3
      <4>8. /\ Len(Append(orders, m)) = Len(orders) + 1
            /\ Append(orders, m)[Len(orders) + 1] = m
            /\ \A n \in 1 .. Len(orders) : Append(orders, m)[n] = orders[n]
        BY <1>5, <4>2, AppendProperties
      <4> HIDE DEF l
      <4>9. ASSUME server = "up"
            PROVE  /\ data.answered + Len(l.toServer) = m
                   /\ \A n \in 1 .. Len(l.toServer) : l.toServer[n] = data.answered + n
        <5> DEFINE orders2 == Append(orders, m)
        <5>1. l.toServer = orders2
          BY <4>7, <4>9
        <5>2. /\ Len(orders2) = Len(orders) + 1 /\ orders2[Len(orders) + 1] = m
              /\ \A n \in 1 .. Len(orders) : orders2[n] = orders[n]
          BY <4>8
        <5> HIDE DEF orders2
        <5>3. data.answered + (Len(orders) + 1) = m
          BY <1>5, <1>6, <2>2, <4>9
        <5>4. \A n \in 1 .. Len(orders) + 1 : orders2[n] = data.answered + n
          BY <1>5, <2>2, <4>9, <5>2, <5>3
        <5>5. QED
          BY <5>1, <5>2, <5>3, <5>4
      <4>10. data.answered <= m
        BY <1>3, <1>6
      <4> HIDE DEF m
      <4>11. QED
        BY <1>3, <1>7, <2>1, <2>2, <4>1, <4>3, <4>4, <4>5, <4>6, <4>9, <4>10
    <3>3. QED
      BY <2>6, <3>1, <3>2 DEF WriteCommand, k
  \* The client goes on to the next command, or has come to the end.
  <2>7. ASSUME NEW l \in Conns, NEW line \in {0} \cup Code,
               Passes(1, l, [data EXCEPT !.recvbuf = line]),
               line = Expected[data.command], data.command > 0,
               l.end # "open" => server = "down", l.toServer = orders,
               data.greeted \/ l.toClient = <<>>,
               data.accepted # 1 .. data.answered =>
                  \E n \in 1 .. Len(l.toClient) : l.toClient[n] = Refused,
               \A n \in 1 .. Len(l.toClient) :
                  l.toClient[n] = 221 =>
                      data.answered = 9 /\ \A j \in n .. Len(l.toClient) : l.toClient[j] = 221,
               data.command = 9 => data.accepted = 1 .. 9 /\ l.end = k.end
        PROVE  MailAnswered'
    <3> DEFINE d == [data EXCEPT !.recvbuf = line]
    <3>1. /\ d \in Data /\ d.greeted = data.greeted /\ d.answered = data.answered
          /\ d.accepted = data.accepted /\ d.command = data.command
          /\ d.recvbuf = line /\ d.returned = data.returned /\ d.writing = data.writing
      BY <1>3
    <3>2. data.command \in 1 .. 9
      BY <1>6, <2>7
    <3>3. CASE data.command = 9
      <4>1. /\ EndsAt(1, l) /\ data' = [d EXCEPT !.returned = TRUE] /\ UNCHANGED server
        <5>1. Passes(1, l, d) /\ d.command = Len(Expected)
          BY <2>7, <3>1, <3>3, ExpectedCodes
        <5> HIDE DEF d
        <5>2. QED
          BY <5>1 DEF Passes, Finishes
      <4> HIDE DEF d
      <4>2. /\ data' \in Data /\ data'.answered = data.answered
            /\ data'.accepted = data.accepted /\ data'.greeted = data.greeted
            /\ data'.command = data.command
        BY <3>1, <4>1
      <4> HIDE DEF Data
      <4>3. QED
        BY <1>8, <2>7, <3>3, <4>1, <4>2
    <3>4. CASE data.command # 9
      <4>1. /\ conn' = [conn EXCEPT ![1] = l] /\ data' = [d EXCEPT !.writing = TRUE]
            /\ UNCHANGED <<server, client>>
        <5>1. Passes(1, l, d) /\ d.command # Len(Expected)
          BY <2>7, <3>1, <3>4, ExpectedCodes
        <5> HIDE DEF d
        <5>2. QED
          BY <5>1 DEF Passes, GoesOn
      <4> HIDE DEF d
      <4>2. /\ data' \in Data /\ data'.answered = data.answered
            /\ data'.accepted = data.accepted /\ data'.greeted = data.greeted
            /\ data'.command = data.command /\ data'.recvbuf = line
            /\ data'.returned = data.returned
        BY <3>1, <4>1
      <4> HIDE DEF Data
      <4>3. line # 221 /\ data.command < 9
        BY <2>7, <3>2, <3>4, ExpectedCodes
      <4>4. conn'[1] = l
        BY <1>5, <4>1 DEF AreConnections
      <4>5. ~data.greeted => data.answered = 0 /\ l.toClient = <<>>
        BY <1>3, <2>7
      <4>6. QED
        BY <1>3, <1>7, <2>1, <2>2, <2>7, <4>1, <4>2, <4>3, <4>4, <4>5
    <3>5. QED
      BY <3>3, <3>4
  <2>8. CASE ReadReply(1)
    <3> DEFINE line == Head(inbox)
    <3>1. data.command > 0 /\ data.command \in 1 .. 9
      BY <1>6, <2>8 DEF ReadReply
    <3>2. CASE /\ inbox # <<>> /\ Matches(line)
               /\ Passes(1, rest, [data EXCEPT !.recvbuf = line])
      <4>1. line = Expected[data.command] /\ line # Refused /\ line \in Code
        BY <2>3, <3>1, <3>2, ExpectedCodes DEF Matches
      <4>2. ASSUME data.accepted # 1 .. data.answered
            PROVE  \E n \in 1 .. Len(s) : s[n] = Refused
        <5>1. PICK n \in 1 .. Len(inbox) : inbox[n] = Refused
          BY <2>2, <4>2
        <5>2. n # 1
          BY <2>3, <3>2, <4>1, <5>1
        <5>3. n - 1 \in 1 .. Len(s) /\ (n - 1) + 1 = n
          BY <1>5, <2>3, <3>2, <5>2
        <5>4. s[n - 1] = Refused
          BY <2>3, <3>2, <5>1, <5>3
        <5>5. QED
          BY <5>3, <5>4
      <4>3. ASSUME data.command = 9 PROVE data.accepted = 1 .. 9
        <5>1. inbox[1] = 221
          BY <2>3, <3>1, <3>2, <4>1, <4>3, ExpectedCodes
        <5>2. data.answered = 9 /\ \A j \in 1 .. Len(inbox) : inbox[j] = 221
          BY <2>2, <2>3, <3>2, <5>1
        <5>3. QED
          BY <2>2, <5>2 DEF Refused
      <4>4. data.greeted
        BY <1>3, <3>2
      <4> HIDE DEF line
      <4>5. /\ rest \in Conns /\ rest.end = k.end /\ rest.toServer = orders /\ rest.toClient = s
            /\ \A n \in 1 .. Len(s) :
                  s[n] = 221 => data.answered = 9 /\ \A j \in n .. Len(s) : s[j] = 221
        BY <2>3, <3>2
      <4>6. rest.end # "open" => server = "down"
        BY <1>3, <4>5
      <4>7. QED
        BY <2>7, <3>1, <3>2, <4>1, <4>2, <4>3, <4>4, <4>5, <4>6
    <3>3. CASE inbox # <<>> /\ Finishes(1, rest, data)
      <4>1. EndsAt(1, rest) /\ UNCHANGED <<server, data>>
        BY <3>3 DEF Finishes
      <4>2. QED
        BY <1>3, <1>8, <2>3, <3>3, <4>1
    <3>4. CASE Finishes(1, k, data)
      <4>1. EndsAt(1, k) /\ UNCHANGED <<server, data>>
        BY <3>4 DEF Finishes
      <4>2. QED
        BY <1>3, <1>8, <4>1
    <3>5. CASE /\ inbox = <<>> /\ k.end = "reset" /\ Matches(data.recvbuf)
               /\ Passes(1, broken, data)
      <4>1. data.recvbuf = Expected[data.command] /\ data.command # 9
        BY <2>2, <3>1, <3>5, ExpectedCodes DEF Matches
      <4>2. data.recvbuf \in {0} \cup Code /\ [data EXCEPT !.recvbuf = data.recvbuf] = data
        BY <1>3
      <4>3. server = "down"
        BY <1>3, <3>5
      <4>4. data.accepted = 1 .. data.answered /\ broken.toClient = <<>>
        BY <2>2, <2>4, <3>5
      <4>5. QED
        BY <2>4, <2>7, <3>1, <3>5, <4>1, <4>2, <4>3, <4>4
    <3>6. QED
      BY <2>8, <3>2, <3>3, <3>4, <3>5 DEF ReadReply, k, inbox, rest, s, broken
  <2>9. QED
    BY <1>17, <2>5, <2>6, <2>8 DEF send_command
<1>18. ~HttpSends(1) /\ ~receive_from_server(1)
  BY <1>2 DEF HttpSends, receive_from_server
<1>19. QED
  BY <1>2, <1>9, <1>10, <1>11, <1>13, <1>14, <1>15, <1>16, <1>17, <1>18, OutsideSteps

-----------------------------------------------------------------------------
(* The invariant of all the programs, and what follows from it.            *)

IInv ==
    /\ Loop /\ Named /\ InChat /\ NobodyLeftServerUp
    /\ Listed /\ AlwaysListed
    /\ Alone /\ HttpRead /\ MailAnswered

LEMMA InitiallyIInv == Init => IInv
<1> SUFFICES ASSUME Init PROVE IInv
  OBVIOUS
<1> DEFINE none == <<>>
<1>1. /\ server = "up" /\ todo = {} /\ sock = [f \in Fd |-> Free]
      /\ newcomer = NoFd /\ backlog = none
      /\ conn = [c \in Client |-> NewConn] /\ client = [c \in Client |-> NewClient]
  BY DEF Init, LoopInit
<1>2. /\ none \in Seq(Client) /\ none \in Seq(Fd) /\ none \in Seq(Entry) /\ none \in Seq(1 .. 9)
      /\ none \in Seq(Code) /\ none \in Seq({"request"}) /\ none \in Seq({"piece"})
      /\ DOMAIN none = {} /\ Len(none) = 0
  OBVIOUS
<1>3. /\ NewConn.toServer = none /\ NewConn.toClient = none
      /\ NewConn.peer = "open" /\ NewConn.end = "open" /\ IsConnection(NewConn)
  BY DEF NewConn, IsConnection, Knowledge, Heard
<1>4. NewClient.state = "new" /\ IsClient(NewClient)
  BY DEF NewClient, IsClient
<1>5. /\ \A c \in Client : conn[c] = NewConn /\ client[c] = NewClient
      /\ \A f \in Fd : sock[f] = Free
  BY <1>1
<1>6. program \in Program
  BY DEF Init, Program, Relays, NameServers
<1>7. Shape
  <2>1. AreConnections(conn) /\ AreClients(client)
    <3>1. \A q : [c \in Client |-> q] \in [Client -> {[c \in Client |-> q][d] : d \in Client}]
      OBVIOUS
    <3>2. /\ conn \in [Client -> {conn[d] : d \in Client}]
          /\ client \in [Client -> {client[d] : d \in Client}]
      BY <1>1, <3>1
    <3>3. QED
      BY <1>3, <1>4, <1>5, <3>2 DEF AreConnections, AreClients
  <2>2. sock \in [Fd -> Client \cup {Free}]
    BY <1>1
  <2> HIDE DEF none
  <2>3. QED
    BY <1>1, <1>2, <1>6, <2>1, <2>2 DEF Shape
<1>8. Peers /\ Seats
  BY <1>1, <1>3, <1>5 DEF Peers, Seats
<1>9. Queued
  BY <1>1, <1>2 DEF Queued
<1>10. Named
  <2>1. SUFFICES ASSUME program \in Relays PROVE Named
    BY DEF Named
  <2>2. data \in RelayStart
    BY <2>1 DEF Init, Relays, NameServers
  <2>3. PICK b \in BOOLEAN : data = [names |-> none, negative |-> b]
    BY <2>2 DEF RelayStart
  <2> HIDE DEF none
  <2>4. data \in [names : Seq(Fd), negative : BOOLEAN] /\ data.names = none
    BY <1>2, <2>3
  <2>5. QED
    BY <1>2, <2>4 DEF Named
<1>11. InChat
  <2>1. SUFFICES ASSUME Chat7 PROVE InChat
    BY DEF InChat
  <2>2. data = [connfd |-> none, turn |-> 1]
    BY <2>1 DEF Init, Chat7, Relays, NameServers, LockstepStart
  <2> HIDE DEF none
  <2>3. data \in [connfd : Seq(Fd), turn : {1, 2}] /\ data.connfd = none
    BY <1>2, <2>2
  <2>4. QED
    BY <1>2, <2>3 DEF InChat
<1>12. NobodyLeftServerUp
  BY <1>1 DEF NobodyLeftServerUp
<1>13. Listed /\ AlwaysListed
  <2>1. Chat => data = [clients |-> none]
    BY DEF Init, Chat, Relays, NameServers, ListStart
  <2>2. Listed
    <3> HIDE DEF none
    <3>1. [clients |-> none] \in [clients : Seq(Entry)]
      BY <1>2
    <3>2. QED
      BY <2>1, <3>1 DEF Listed
  <2>3. AlwaysListed
    BY <1>5 DEF AlwaysListed
  <2>4. QED
    BY <2>2, <2>3
<1>14. Alone
  BY <1>4, <1>5 DEF Alone
<1>15. 1 \in Client
  BY TheOne
<1>16. NewConn \in Connection({"request"}, {"piece"}) /\ NewConn \in Connection(1 .. 9, Code)
  <2> HIDE DEF none
  <2>1. QED
    BY <1>2 DEF NewConn, Connection, Knowledge, Heard, none
<1>17. HttpRead
  <2>1. SUFFICES ASSUME Http PROVE HttpRead
    BY DEF HttpRead
  <2>2. data \in HttpStart
    BY <2>1 DEF Init, Http, Relays, NameServers
  <2>3. /\ data.body \in Body /\ data.sent = 0 /\ data.size = 0 /\ data.header_end = 0
        /\ data.content_length = 0 /\ data.reading = "header" /\ ~data.returned
        /\ data \in [body : Body, announced : BOOLEAN, sent : Nat, size : Nat,
                     header_end : {0, -1, Header}, content_length : {0} \cup Body,
                     reading : {"header", "body"}, returned : BOOLEAN]
    <3>1. PICK b \in Body, a \in BOOLEAN :
            data = [body |-> b, announced |-> a, sent |-> 0, size |-> 0, header_end |-> 0,
                    content_length |-> 0, reading |-> "header", returned |-> FALSE]
      BY <2>2 DEF HttpStart
    <3>2. QED
      BY <3>1
  <2>4. 0 <= Header + data.body
    <3>1. data.body \in Nat /\ Header \in Nat
      BY <2>3, HttpAssumption
    <3>2. QED
      BY <3>1
  <2>5. /\ conn[1] \in Connection({"request"}, {"piece"})
        /\ conn[1].end = "open" /\ conn[1].peer = "open" /\ Len(conn[1].toClient) = 0
        /\ client[1].state = "new"
    BY <1>2, <1>3, <1>4, <1>5, <1>15, <1>16
  <2>6. data.size + Len(conn[1].toClient) = data.sent
    BY <2>3, <2>5
  <2>7. QED
    BY <2>3, <2>4, <2>5, <2>6 DEF HttpRead
<1>18. MailAnswered
  <2>1. SUFFICES ASSUME Smtp PROVE MailAnswered
    BY DEF MailAnswered
  <2>2. data \in MailStart
    BY <2>1 DEF Init, Smtp, Relays, NameServers
  <2>3. /\ data.answered = 0 /\ data.accepted = {} /\ data.command = 0
        /\ ~data.writing /\ data.recvbuf = 0 /\ ~data.returned
        /\ data \in [answered : 0 .. 9, accepted : SUBSET (1 .. 9), greeted : BOOLEAN,
                     command : 0 .. 9, writing : BOOLEAN, recvbuf : {0} \cup Code,
                     returned : BOOLEAN]
    <3>1. data = [answered |-> 0, accepted |-> {}, greeted |-> FALSE,
                  command |-> 0, writing |-> FALSE, recvbuf |-> 0, returned |-> FALSE]
      BY <2>2 DEF MailStart
    <3>2. 0 \in 0 .. 9 /\ {} \in SUBSET (1 .. 9)
      OBVIOUS
    <3>3. QED
      BY <3>1, <3>2
  <2>4. /\ conn[1] \in Connection(1 .. 9, Code)
        /\ conn[1].end = "open" /\ conn[1].peer = "open" /\ conn[1].toClient = none
        /\ conn[1].toServer = none /\ client[1].state = "new"
    BY <1>3, <1>4, <1>5, <1>15, <1>16
  <2>5. /\ data.answered + Len(conn[1].toServer) = data.command
        /\ data.accepted = 1 .. data.answered
        /\ Len(conn[1].toServer) = 0 /\ Len(conn[1].toClient) = 0
    <3>1. Len(conn[1].toServer) = 0 /\ Len(conn[1].toClient) = 0
      BY <1>2, <2>4
    <3>2. QED
      BY <2>3, <3>1
  <2>6. 0 # 221 /\ 0 <= 0 /\ {} \subseteq 1 .. data.answered
    OBVIOUS
  <2>7. QED
    BY <2>3, <2>4, <2>5, <2>6 DEF MailAnswered
<1>19. QED
  BY <1>7, <1>8, <1>9, <1>10, <1>11, <1>12, <1>13, <1>14, <1>17, <1>18 DEF IInv, Loop

LEMMA NextKeeps == IInv /\ [Next]_vars => IInv'
<1>1. ASSUME IInv, Next PROVE IInv'
  BY <1>1, NextLoop, NamedKeeps, InChatKeeps, NextExcuse, ListKeeps, AloneKeeps, HttpKeeps,
     MailKeeps DEF IInv
<1>2. ASSUME IInv, UNCHANGED vars PROVE IInv'
  <2>1. /\ UNCHANGED <<program, server, todo, sock, newcomer, data, backlog, conn, client>>
        /\ UNCHANGED quit /\ UNCHANGED overrun
    BY <1>2 DEF vars, serverVars, histories
  <2>2. Loop'
    BY ZenonT(30), <1>2, <2>1
       DEF IInv, Loop, Shape, AreConnections, AreClients, IsConnection, IsClient, Peers, Seats,
           Queued
  <2>3. Named' /\ InChat'
    BY <1>2, <2>1 DEF IInv, Named, SomebodyLeft, InChat, Chat7
  <2>4. NobodyLeftServerUp'
    BY <1>2, <2>1 DEF IInv, NobodyLeftServerUp
  <2>5. Listed' /\ AlwaysListed'
    BY <1>2, <2>1 DEF IInv, Listed, AlwaysListed, Chat
  <2>6. Alone' /\ HttpRead' /\ MailAnswered'
    BY <1>2, <2>1 DEF IInv, Alone, HttpRead, MailAnswered, Http, Smtp
  <2>7. QED
    BY <2>2, <2>3, <2>4, <2>5, <2>6 DEF IInv
<1>3. QED
  BY <1>1, <1>2

\* The descriptors, the connections and the programs' own variables fit
\* together in every state of every program.
THEOREM InvariantCorrect == Spec => []IInv
<1>1. QED
  BY InitiallyIInv, NextKeeps, PTL DEF Spec

\* A server of the repository goes down only when it was told to, when some
\* client has ended or when it has written behind the end of one of its arrays,
\* except a relay whose send_msg was negative from the start.
THEOREM DownOnlyWithReason == Spec => []NobodyLeftServerUp
<1>1. IInv => NobodyLeftServerUp
  BY DEF IInv
<1>2. QED
  BY <1>1, InvariantCorrect, PTL

\* As long as no name was too long, multi_chat lists everybody who is connected
\* and whose name it has read, with the descriptor, as RecvName enters them and
\* nothing is ever erased.
THEOREM ConnectedAreListed == Spec => []EverybodyListed
<1>1. IInv => EverybodyListed
  BY DEF IInv, AlwaysListed, EverybodyListed, Chat
<1>2. QED
  BY <1>1, InvariantCorrect, PTL

\* The client of lab10 returns all of a response, or all that came before the
\* connection ended; that of lab11 comes to its end only when each of its nine
\* commands has been accepted.
THEOREM AnswersAreWhole == Spec => []OutsideUnderstood
<1>1. IInv => OutsideUnderstood
  BY ExpectedCodes DEF IInv, HttpRead, MailAnswered, Http, Smtp, OutsideUnderstood
<1>2. QED
  BY <1>1, InvariantCorrect, PTL

-----------------------------------------------------------------------------
(* What is on its way.                                                     *)

\* The connections, of which the clients send elements of R and the server
\* elements of P.
Wires(R, P) == [Client -> Connection(R, P)]

Gone == [NewClient EXCEPT !.state = "ended"]

LEMMA ReadWire ==
  ASSUME NEW R, NEW P, conn \in Wires(R, P), NEW c \in Client
  PROVE  /\ Read(c) \in Wires(R, P)
         /\ Read(c)[c].toServer = <<>> /\ Read(c)[c].toClient = conn[c].toClient
         /\ Read(c)[c].peer = conn[c].peer /\ Read(c)[c].end = conn[c].end
         /\ \A d \in Client : d # c => Read(c)[d] = conn[d]
<1> DEFINE v == [conn[c] EXCEPT !.toServer = <<>>]
<1>1. conn[c] \in Connection(R, P) /\ conn \in [Client -> Connection(R, P)]
  BY DEF Wires
<1>2. <<>> \in Seq(R)
  OBVIOUS
<1>3. /\ v \in Connection(R, P) /\ v.toServer = <<>> /\ v.toClient = conn[c].toClient
      /\ v.peer = conn[c].peer /\ v.end = conn[c].end
  BY <1>1, <1>2 DEF Connection
<1>4. Read(c) = [conn EXCEPT ![c] = v]
  BY <1>1 DEF Read
<1> HIDE DEF v
<1>5. Read(c) \in Wires(R, P) /\ Read(c)[c] = v /\ \A d \in Client : d # c => Read(c)[d] = conn[d]
  BY <1>1, <1>3, <1>4 DEF Wires
<1>6. QED
  BY <1>3, <1>5

\* The server has sent msgs to client d.
SentTo(k, d, msgs) == [k EXCEPT ![d] = ServerSends(k[d], msgs)]

LEMMA SendWire ==
  ASSUME NEW R, NEW P, NEW k \in Wires(R, P), NEW d \in Client, NEW msgs \in Seq(P)
  PROVE  /\ SentTo(k, d, msgs) \in Wires(R, P)
         /\ SentTo(k, d, msgs)[d].toServer = k[d].toServer
         /\ SentTo(k, d, msgs)[d].end = k[d].end
         /\ k[d].peer = "open" => /\ SentTo(k, d, msgs)[d].peer = "open"
                                  /\ SentTo(k, d, msgs)[d].toClient = k[d].toClient \o msgs
         /\ k[d].peer # "open" => /\ SentTo(k, d, msgs)[d].peer # "open"
                                  /\ SentTo(k, d, msgs)[d].toClient = k[d].toClient
         /\ \A e \in Client : e # d => SentTo(k, d, msgs)[e] = k[e]
<1> DEFINE v == ServerSends(k[d], msgs)
<1>1. k[d] \in Connection(R, P) /\ k \in [Client -> Connection(R, P)]
  BY DEF Wires
<1>2. /\ v \in Connection(R, P)
      /\ v.toServer = k[d].toServer /\ v.end = k[d].end
      /\ k[d].peer = "open" => v.peer = "open" /\ v.toClient = k[d].toClient \o msgs
      /\ k[d].peer # "open" => v.peer # "open" /\ v.toClient = k[d].toClient
  BY <1>1, ServerSendsEffect
<1>3. SentTo(k, d, msgs) = [k EXCEPT ![d] = v]
  BY DEF SentTo
<1> HIDE DEF v
<1>4. /\ SentTo(k, d, msgs) \in Wires(R, P) /\ SentTo(k, d, msgs)[d] = v
      /\ \A e \in Client : e # d => SentTo(k, d, msgs)[e] = k[e]
  BY <1>1, <1>2, <1>3 DEF Wires
<1>5. QED
  BY <1>2, <1>4

\* The end of the server: what it has sent still arrives.
LEMMA EndWire ==
  ASSUME NEW R, NEW P, NEW k \in Wires(R, P), ServerEnds(k)
  PROVE  /\ conn' \in Wires(R, P)
         /\ \A c \in Client :
              /\ conn'[c].toClient = k[c].toClient /\ conn'[c].peer = k[c].peer
              /\ conn'[c].toServer \in {k[c].toServer, <<>>}
              /\ IF client[c].state = "new" THEN conn'[c] = k[c] ELSE conn'[c].end # "open"
         /\ server' = "down" /\ UNCHANGED <<program, data, client, typed>>
<1>1. conn' = [c \in Client |-> IF client[c].state = "new" THEN k[c] ELSE ServerCloses(k[c])]
  BY DEF ServerEnds
<1>2. \A c \in Client : k[c] \in Connection(R, P)
  BY DEF Wires
<1>3. \A c \in Client : /\ ServerCloses(k[c]) \in Connection(R, P)
                        /\ ServerCloses(k[c]).end # "open"
                        /\ ServerCloses(k[c]).peer = k[c].peer
                        /\ ServerCloses(k[c]).toClient = k[c].toClient
                        /\ ServerCloses(k[c]).toServer \in {k[c].toServer, <<>>}
  BY <1>2, ServerClosesEffect
<1>4. conn' \in Wires(R, P)
  BY <1>1, <1>2, <1>3 DEF Wires
<1>5. \A c \in Client : conn'[c] = IF client[c].state = "new" THEN k[c] ELSE ServerCloses(k[c])
  BY <1>1
<1>6. server' = "down" /\ UNCHANGED <<program, data, client, typed>>
  BY DEF ServerEnds
<1>7. QED
  BY <1>3, <1>4, <1>5, <1>6

LEMMA HangupWire ==
  ASSUME NEW R, NEW P, conn \in Wires(R, P), NEW i, NEW c \in Client, Hangup(i, c)
  PROVE  /\ conn' \in Wires(R, P)
         /\ conn'[c].toClient = conn[c].toClient /\ conn'[c].toServer \in {conn[c].toServer, <<>>}
         /\ conn'[c].end # "open" /\ conn'[c].peer = conn[c].peer
         /\ \A d \in Client : d # c => conn'[d] = conn[d]
         /\ server' = server /\ UNCHANGED <<program, client, typed, histories>>
<1> DEFINE v == ServerCloses(conn[c])
<1>1. conn[c] \in Connection(R, P)
  BY DEF Wires
<1>2. /\ v \in Connection(R, P) /\ v.end # "open" /\ v.peer = conn[c].peer
      /\ v.toClient = conn[c].toClient /\ v.toServer \in {conn[c].toServer, <<>>}
  BY <1>1, ServerClosesEffect
<1>3. conn' = [conn EXCEPT ![c] = v] /\ server' = server /\ UNCHANGED <<program, client, typed, histories>>
  BY DEF Hangup
<1> HIDE DEF v
<1>4. conn' \in Wires(R, P) /\ conn'[c] = v /\ \A d \in Client : d # c => conn'[d] = conn[d]
  BY <1>2, <1>3 DEF Wires
<1>5. QED
  BY <1>2, <1>3, <1>4

\* The end of a client: what it has sent still arrives.
LEMMA LeaveWire ==
  ASSUME NEW R, NEW P, conn \in Wires(R, P), AreClients(client), NEW c \in Client,
         NEW k \in Connection(R, P), EndsAt(c, k)
  PROVE  /\ conn' \in Wires(R, P)
         /\ conn'[c].toClient = <<>> /\ conn'[c].toServer = k.toServer
         /\ conn'[c].end = k.end /\ conn'[c].peer # "open"
         /\ \A d \in Client : d # c => conn'[d] = conn[d] /\ client'[d] = client[d]
         /\ client'[c] = Gone
<1>1. PICK seen \in ClientEnds(k) : conn' = [conn EXCEPT ![c] = seen]
  BY DEF EndsAt
<1>2. /\ seen \in Connection(R, P) /\ seen.peer # "open" /\ seen.toClient = <<>>
      /\ seen.toServer = k.toServer /\ seen.end = k.end
  BY ClientEndsEffect
<1>3. conn' \in Wires(R, P) /\ conn'[c] = seen /\ \A d \in Client : d # c => conn'[d] = conn[d]
  BY <1>1, <1>2 DEF Wires
<1>4. client' = [client EXCEPT ![c] = Gone]
  BY DEF EndsAt, Gone
<1>5. client'[c] = Gone /\ \A d \in Client : d # c => client'[d] = client[d]
  BY <1>4 DEF AreClients
<1>6. QED
  BY <1>2, <1>3, <1>5

LEMMA ConnectWire ==
  ASSUME NEW R, NEW P, conn \in Wires(R, P), AreClients(client), NEW c \in Client, NEW state,
         NEW first \in Seq(R), Connect(c, state, first)
  PROVE  /\ conn' \in Wires(R, P)
         /\ conn'[c].toServer = first /\ conn'[c].toClient = conn[c].toClient
         /\ conn'[c].end = conn[c].end /\ conn'[c].peer = conn[c].peer
         /\ \A d \in Client : d # c => conn'[d] = conn[d] /\ client'[d] = client[d]
         /\ client'[c].state = state /\ client[c].state = "new" /\ client'[c].own = client[c].own
         /\ server' = "up" /\ server = "up" /\ UNCHANGED <<program, data, typed, histories>>
<1> DEFINE v == [conn[c] EXCEPT !.toServer = first]
<1>1. conn[c] \in Connection(R, P)
  BY DEF Wires
<1>2. /\ v \in Connection(R, P) /\ v.end = conn[c].end /\ v.peer = conn[c].peer
      /\ v.toClient = conn[c].toClient /\ v.toServer = first
  BY <1>1 DEF Connection
<1>3. /\ client' = [client EXCEPT ![c].state = state] /\ client[c].state = "new"
      /\ server' = "up" /\ server = "up" /\ UNCHANGED <<program, data, typed, histories>>
  BY DEF Connect
<1>4. conn' \in Wires(R, P) /\ conn'[c] = v /\ \A d \in Client : d # c => conn'[d] = conn[d]
  <2>1. conn' = [conn EXCEPT ![c] = v]
    BY DEF Connect
  <2>2. v \in Connection(R, P)
    BY <1>2
  <2> HIDE DEF v
  <2>3. QED
    BY <2>1, <2>2 DEF Wires
<1> HIDE DEF v
<1>5. /\ client'[c].state = state /\ client'[c].own = client[c].own
      /\ \A d \in Client : d # c => client'[d] = client[d]
  BY <1>3 DEF AreClients, IsClient
<1>6. QED
  BY <1>2, <1>3, <1>4, <1>5

\* A line is sent, or the end of the server noticed.
LEMMA TypeWire ==
  ASSUME NEW R, NEW P, conn \in Wires(R, P), AreClients(client), NEW c \in Client,
         NEW m \in R, NEW q, TypeAndSend(c, m, q)
  PROVE  /\ conn' \in Wires(R, P) /\ typed' = typed + 1 /\ client[c].state = "running"
         /\ \A d \in Client : d # c => conn'[d] = conn[d] /\ client'[d] = client[d]
         /\ \/ /\ conn[c].end = "open" /\ conn'[c].end = "open" /\ client'[c] = q
               /\ conn'[c].toServer = Append(conn[c].toServer, m)
               /\ conn'[c].toClient = conn[c].toClient /\ conn'[c].peer = conn[c].peer
            \/ /\ conn[c].end # "open" /\ conn'[c].end # "open"
               /\ conn'[c].toServer = conn[c].toServer
               /\ \/ /\ client'[c] = q /\ conn'[c].toClient = conn[c].toClient
                     /\ conn'[c].peer = conn[c].peer
                  \/ client'[c] = Gone /\ conn'[c].toClient = <<>>
         /\ server' = server /\ UNCHANGED <<program, data, quit, merged>>
<1>1. conn[c] \in Connection(R, P)
  BY DEF Wires
<1>2. /\ typed' = typed + 1 /\ client[c].state = "running"
      /\ server' = server /\ UNCHANGED <<program, data, quit, merged>>
  BY DEF TypeAndSend, Running, serverVars
<1>3. CASE /\ ClientMaySend(conn[c])
           /\ conn' = [conn EXCEPT ![c] = ClientSends(conn[c], m)]
           /\ client' = [client EXCEPT ![c] = q]
  <2> DEFINE v == ClientSends(conn[c], m)
  <2>1. /\ v \in Connection(R, P) /\ v.peer = conn[c].peer /\ v.toClient = conn[c].toClient
    BY <1>1, ClientSendsEffect
  <2>2. /\ conn[c].end = "open" => /\ v.end = "open"
                                   /\ v.toServer = Append(conn[c].toServer, m)
        /\ conn[c].end # "open" => v.end # "open" /\ v.toServer = conn[c].toServer
    BY <1>1 DEF ClientSends, Connection
  <2> HIDE DEF v
  <2>3. conn' = [conn EXCEPT ![c] = v]
    BY <1>3 DEF v
  <2>4. conn' \in Wires(R, P) /\ conn'[c] = v /\ \A d \in Client : d # c => conn'[d] = conn[d]
    BY <2>1, <2>3 DEF Wires
  <2>5. client'[c] = q /\ \A d \in Client : d # c => client'[d] = client[d]
    BY <1>3 DEF AreClients
  <2>6. QED
    BY <1>2, <2>1, <2>2, <2>4, <2>5
<1>4. CASE ~ClientMaySend(conn[c]) /\ EndsAt(c, conn[c])
  <2>1. conn[c].end # "open"
    BY <1>4 DEF ClientMaySend
  <2>2. QED
    BY <1>1, <1>2, <1>4, <2>1, LeaveWire
<1>5. QED
  BY <1>3, <1>4 DEF TypeAndSend, Ends

LEMMA ReportsWire ==
  ASSUME NEW R, NEW P, conn \in Wires(R, P), NEW c \in Client, ReportsReset(c)
  PROVE  /\ conn' \in Wires(R, P)
         /\ conn'[c].toClient = conn[c].toClient /\ conn'[c].toServer = conn[c].toServer
         /\ conn[c].end # "open" /\ conn'[c].end # "open" /\ conn'[c].peer = conn[c].peer
         /\ \A d \in Client : d # c => conn'[d] = conn[d]
         /\ server' = server /\ UNCHANGED <<program, data, client, typed, histories>>
<1> DEFINE v == [conn[c] EXCEPT !.end = "dead"]
<1>1. conn[c] \in Connection(R, P)
  BY DEF Wires
<1>2. /\ v \in Connection(R, P) /\ v.end = "dead" /\ v.peer = conn[c].peer
      /\ v.toClient = conn[c].toClient /\ v.toServer = conn[c].toServer
  BY <1>1 DEF Connection, Knowledge, Heard
<1>3. /\ conn' = [conn EXCEPT ![c] = v] /\ conn[c].end = "reset" /\ server' = server
      /\ UNCHANGED <<program, data, client, typed, histories>>
  BY DEF ReportsReset, serverVars
<1> HIDE DEF v
<1>4. conn' \in Wires(R, P) /\ conn'[c] = v /\ \A d \in Client : d # c => conn'[d] = conn[d]
  BY <1>2, <1>3 DEF Wires
<1>5. QED
  BY <1>2, <1>3, <1>4

\* connect() fails: nothing was under way, and nothing will be.
LEMMA FailsWire ==
  ASSUME NEW R, NEW P, conn \in Wires(R, P), AreClients(client), NEW c \in Client,
         ConnectFails(c)
  PROVE  /\ conn' \in Wires(R, P)
         /\ conn'[c].toServer = conn[c].toServer
         /\ conn'[c].toClient \in {conn[c].toClient, <<>>}
         /\ conn'[c].end = "open" => conn[c].end = "open"
         /\ \A d \in Client : d # c => conn'[d] = conn[d] /\ client'[d] = client[d]
         /\ client[c].state = "new" /\ client'[c].own \subseteq client[c].own
         /\ IF program \in DiesOnConnect THEN client'[c] = Gone
            ELSE client'[c].state \in {"naming", "running"} /\ conn'[c].end = "refused"
         /\ server = "down" /\ server' = server
         /\ UNCHANGED <<program, data, sock, typed, quit, merged, added>>
<1>1. conn[c] \in Connection(R, P) /\ client[c].state = "new"
  BY DEF Wires, ConnectFails
<1>2. server = "down" /\ server' = server /\ UNCHANGED <<program, data, sock, typed, quit, merged, added>>
  BY DEF ConnectFails, serverVars, histories
<1>3. CASE program \in DiesOnConnect
  <2>1. EndsAt(c, conn[c])
    BY <1>3 DEF ConnectFails, Ends
  <2>2. Gone.own = {}
    BY DEF Gone, NewClient
  <2>3. QED
    BY <1>1, <1>2, <1>3, <2>1, <2>2, LeaveWire
<1>4. CASE program \notin DiesOnConnect
  <2> DEFINE v == Unconnected(conn[c])
             state == IF program = "multi_chat" THEN "naming" ELSE "running"
  <2>1. conn' = [conn EXCEPT ![c] = v] /\ client' = [client EXCEPT ![c].state = state]
    BY <1>4 DEF ConnectFails
  <2>2. /\ v \in Connection(R, P) /\ v.end = "refused"
        /\ v.toServer = conn[c].toServer /\ v.toClient = conn[c].toClient
    BY <1>1 DEF Unconnected, Connection, Heard
  <2>3. state \in {"naming", "running"}
    OBVIOUS
  <2> HIDE DEF v, state
  <2>4. conn' \in Wires(R, P) /\ conn'[c] = v /\ \A d \in Client : d # c => conn'[d] = conn[d]
    BY <2>1, <2>2 DEF Wires
  <2>5. /\ client'[c].state = state /\ client'[c].own = client[c].own
        /\ \A d \in Client : d # c => client'[d] = client[d]
    BY <2>1 DEF AreClients, IsClient
  <2>6. QED
    BY <1>1, <1>2, <1>4, <2>2, <2>3, <2>4, <2>5
<1>5. QED
  BY <1>3, <1>4

\* A client takes the first n messages.
LEMMA ShowsWire ==
  ASSUME NEW R, NEW P, conn \in Wires(R, P), AreClients(client), NEW c \in Client, ShowsAll(c)
  PROVE  /\ conn' \in Wires(R, P)
         /\ conn'[c].toClient = <<>> /\ conn'[c].toServer = conn[c].toServer
         /\ conn'[c].end = conn[c].end /\ conn'[c].peer = conn[c].peer
         /\ \A d \in Client : d # c => conn'[d] = conn[d] /\ client'[d] = client[d]
         /\ client'[c].own = client[c].own /\ client'[c].state = client[c].state
         /\ server' = server /\ UNCHANGED <<program, data, typed, histories>>
<1> DEFINE q == conn[c].toClient
           rest == SubSeq(q, Len(q) + 1, Len(q))
           v == [conn[c] EXCEPT !.toClient = rest]
           left == client[c].waits \ {q[k].id : k \in 1 .. Len(q)}
<1>1. conn[c] \in Connection(R, P) /\ q \in Seq(P)
  BY DEF Wires, Connection
<1>2. rest = <<>> /\ <<>> \in Seq(P)
  BY <1>1
<1>3. /\ conn' = [conn EXCEPT ![c] = v] /\ server' = server /\ UNCHANGED <<program, data, typed, histories>>
      /\ client' = [client EXCEPT ![c].waits = left]
  BY DEF ShowsAll, Shows, serverVars
<1>4. /\ v \in Connection(R, P) /\ v.end = conn[c].end /\ v.peer = conn[c].peer
      /\ v.toClient = <<>> /\ v.toServer = conn[c].toServer
  <2> HIDE DEF rest, q
  <2>1. QED
    BY <1>1, <1>2 DEF Connection
<1> HIDE DEF v, left
<1>5. conn' \in Wires(R, P) /\ conn'[c] = v /\ \A d \in Client : d # c => conn'[d] = conn[d]
  BY <1>3, <1>4 DEF Wires
<1>6. /\ client'[c].own = client[c].own /\ client'[c].state = client[c].state
      /\ \A d \in Client : d # c => client'[d] = client[d]
  BY <1>3 DEF AreClients, IsClient
<1>7. QED
  BY <1>3, <1>4, <1>5, <1>6

-----------------------------------------------------------------------------
(* The lines of a relay.                                                   *)

Line == [id : Nat, to : Fd \cup {NoFd}]

\* Lines have the numbers in which they were typed; the name that a client of
\* homework 2 sends first has none, and is for nobody.
Numbered(c) ==
    /\ \A k \in DOMAIN conn[c].toServer :
          /\ conn[c].toServer[k].id <= typed
          /\ conn[c].toServer[k].id = 0 => k = 1 /\ conn[c].toServer[k].to = NoFd
    /\ \A k \in DOMAIN conn[c].toClient : conn[c].toClient[k].id \in 1 .. typed

\* A line is in one place on its way to the server, and is not on its way to a
\* client then.
Apart(c, d) ==
    \A j \in DOMAIN conn[c].toServer :
        /\ \A k \in DOMAIN conn[d].toServer :
              conn[c].toServer[j].id = conn[d].toServer[k].id =>
                  conn[c].toServer[j].id = 0 \/ (c = d /\ j = k)
        /\ \A k \in DOMAIN conn[d].toClient :
              conn[c].toServer[j].id # conn[d].toClient[k].id

Once(c) ==
    \A j, k \in DOMAIN conn[c].toClient :
        j # k => conn[c].toClient[j].id # conn[c].toClient[k].id

LinesApart ==
    program \in Relays =>
        /\ typed \in Nat /\ conn \in Wires(Line, Line)
        /\ \A c \in Client : Numbered(c) /\ Once(c)
        /\ \A c, d \in Client : Apart(c, d)

\* The descriptor named in one entry of msg gets the lines once.
LEMMA OneEntry ==
  ASSUME NEW f, data.names \in Seq(Fd), Entries(f) # {}
  PROVE  Cardinality(Entries(f)) = 1
<1>1. PICK k \in Entries(f) : TRUE
  OBVIOUS
<1>2. EveryEntry(f) \subseteq 1 .. Len(data.names) /\ Len(data.names) \in Nat
  BY DEF EveryEntry
<1>3. \A j \in Entries(f) : j = k
  BY <1>1, <1>2 DEF Entries
<1>4. Entries(f) = {k}
  BY <1>1, <1>3
<1>5. QED
  BY <1>4, FS_Singleton

LEMMA OneTimes ==
  ASSUME NEW a \in Nat, NEW S, Cardinality(S) = 1
  PROVE  Cardinality(S) * a = a
<1>1. 1 * a = a
  OBVIOUS
<1>2. QED
  BY <1>1, Zenon

LEMMA SendsOnce ==
  ASSUME NEW S, NEW lines \in Seq(S), NEW entries, Cardinality(entries) = 1
  PROVE  Sends(lines, entries) = lines
<1>1. Len(lines) \in Nat /\ DOMAIN lines = 1 .. Len(lines)
  OBVIOUS
<1>2. Cardinality(entries) * Len(lines) = Len(lines)
  BY Zenon, <1>1, OneTimes
<1>3. \A n \in 1 .. Len(lines) : 1 + ((n - 1) % Len(lines)) = n
  <2> SUFFICES ASSUME NEW n \in 1 .. Len(lines) PROVE 1 + ((n - 1) % Len(lines)) = n
    OBVIOUS
  <2>1. n - 1 \in 0 .. Len(lines) - 1
    BY <1>1
  <2>2. (n - 1) % Len(lines) = n - 1
    BY <1>1, <2>1
  <2>3. QED
    BY <1>1, <2>2
<1>4. Sends(lines, entries) = [n \in 1 .. Len(lines) |-> lines[n]]
  <2>1. Sends(lines, entries) = [n \in 1 .. Len(lines) |-> lines[1 + ((n - 1) % Len(lines))]]
    BY <1>2 DEF Sends
  <2>2. QED
    BY <1>3, <2>1
<1>5. QED
  BY <1>1, <1>4

\* Some of what is under way is read or lost, and nothing is sent.
Kept(c) ==
    /\ conn'[c].toServer \in {conn[c].toServer, <<>>}
    /\ conn'[c].toClient \in {conn[c].toClient, <<>>}

\* The server passes the lines of c on to d.
PassesOn(c, d) ==
    /\ conn[c].toServer # <<>> /\ conn[c].toServer[1].to # NoFd
    /\ conn'[c].toServer = <<>>
    /\ conn'[d].toClient = conn[d].toClient \o conn[c].toServer
    /\ \A e \in Client : /\ e # c => conn'[e].toServer = conn[e].toServer
                         /\ e # d => conn'[e].toClient = conn[e].toClient

\* Client c sends, or only registers.
SendsLine(c, m) ==
    /\ conn'[c].toServer = Append(conn[c].toServer, m)
    /\ conn'[c].toClient = conn[c].toClient
    /\ \A e \in Client : e # c => Kept(e)

SendsName(c) ==
    /\ conn'[c].toServer = <<[id |-> 0, to |-> NoFd]>>
    /\ conn'[c].toClient = conn[c].toClient
    /\ \A e \in Client : e # c => Kept(e)

RelaySteps ==
    \/ UNCHANGED typed /\ \A c \in Client : Kept(c)
    \/ UNCHANGED typed /\ \E c \in Client : SendsName(c)
    \/ UNCHANGED typed /\ \E c, d \in Client : PassesOn(c, d)
    \/ typed' = typed + 1
       /\ \/ \A c \in Client : Kept(c)
          \/ \E c \in Client, f \in Fd : SendsLine(c, [id |-> typed + 1, to |-> f])

LEMMA AllKept ==
  ASSUME UNCHANGED conn
  PROVE  \A c \in Client : Kept(c)
BY DEF Kept

LEMMA CommonRelay ==
  ASSUME Loop, LinesApart, program \in Relays, CommonNext
  PROVE  conn' \in Wires(Line, Line) /\ RelaySteps
<1>1. conn \in Wires(Line, Line) /\ AreClients(client)
  BY DEF LinesApart, Loop, Shape
<1>2. CASE StartPass
  BY <1>1, <1>2, AllKept DEF StartPass, RelaySteps
<1>3. CASE RecvFails
  <2>1. ServerEnds(conn)
    BY <1>3 DEF RecvFails
  <2>2. QED
    BY <1>1, <2>1, EndWire DEF Kept, RelaySteps
<1>4. ASSUME NEW c \in Client, Leave(c) PROVE conn' \in Wires(Line, Line) /\ RelaySteps
  <2>1. EndsAt(c, conn[c]) /\ UNCHANGED typed
    BY <1>4 DEF Leave, Ends
  <2>2. conn[c] \in Connection(Line, Line)
    BY SMTT(30), <1>1 DEF Wires
  <2>3. QED
    BY <1>1, <2>1, <2>2, LeaveWire DEF Kept, RelaySteps
<1>5. ASSUME NEW c \in Client, ConnectFails(c) PROVE conn' \in Wires(Line, Line) /\ RelaySteps
  BY <1>1, <1>5, FailsWire DEF Kept, RelaySteps
<1>6. ~OverrunEnds
  BY DEF OverrunEnds, Relays, NameServers, Chat
<1>7. QED
  BY <1>2, <1>3, <1>4, <1>5, <1>6 DEF CommonNext

LEMMA ServeRelay ==
  ASSUME Loop, Named, LinesApart, program \in Relays, RelayServe
  PROVE  conn' \in Wires(Line, Line) /\ RelaySteps
<1>1. conn \in Wires(Line, Line) /\ AreClients(client) /\ data.names \in Seq(Fd)
      /\ sock \in [Fd -> Client \cup {Free}]
  BY DEF LinesApart, Loop, Shape, Named
<1>2. PICK i \in Fd, c \in Client :
        LET lines == conn[c].toServer
            f     == lines[1].to
            d     == sock[f]
            sent  == Sends(lines, Entries(f))
        IN  /\ Taken(i, c)
            /\ \/ /\ NoSendFails(f) /\ ServerEnds(Read(c))
               \/ /\ Entries(f) = {} /\ ~NoSendFails(f)
                  /\ Served(i, Read(c)) /\ UNCHANGED data
               \/ /\ Entries(f) # {} /\ (d # Free => SendFails(d))
                  /\ ServerEnds(Read(c))
               \/ /\ Entries(f) # {} /\ d # Free /\ ~SendFails(d)
                  /\ Served(i, [Read(c) EXCEPT ![d] = ServerSends(Read(c)[d], sent)])
                  /\ data' = [data EXCEPT !.negative = FALSE]
  BY Zenon DEF RelayServe
<1> DEFINE lines == conn[c].toServer
           f     == lines[1].to
           d     == sock[f]
           sent  == Sends(lines, Entries(f))
<1>3. /\ Read(c) \in Wires(Line, Line)
      /\ Read(c)[c].toServer = <<>> /\ Read(c)[c].toClient = conn[c].toClient
      /\ Read(c)[c].peer = conn[c].peer /\ Read(c)[c].end = conn[c].end
      /\ \A e \in Client : e # c => Read(c)[e] = conn[e]
  BY <1>1, ReadWire
<1>4. CASE ServerEnds(Read(c))
  <2>1. /\ conn' \in Wires(Line, Line)
        /\ \A e \in Client : /\ conn'[e].toClient = Read(c)[e].toClient
                             /\ conn'[e].toServer \in {Read(c)[e].toServer, <<>>}
        /\ UNCHANGED typed
    BY <1>3, <1>4, EndWire
  <2>2. \A e \in Client : Kept(e)
    BY <1>3, <2>1 DEF Kept
  <2>3. QED
    BY <2>1, <2>2 DEF RelaySteps
<1>5. CASE Served(i, Read(c))
  <2>1. conn' = Read(c) /\ UNCHANGED typed
    BY <1>5 DEF Served
  <2>2. \A e \in Client : Kept(e)
    BY <1>3, <2>1 DEF Kept
  <2>3. QED
    BY <1>3, <2>1, <2>2 DEF RelaySteps
<1>6. CASE /\ Entries(f) # {} /\ d # Free
           /\ Served(i, [Read(c) EXCEPT ![d] = ServerSends(Read(c)[d], sent)])
  <2>1. lines \in Seq(Line) /\ lines # <<>>
    <3>1. conn[c] \in Connection(Line, Line)
      BY SMTT(30), <1>1 DEF Wires
    <3>2. QED
      BY <1>2, <3>1 DEF Connection, Taken, Arrived
  <2>2. f \in Fd
    BY SMTT(30), <1>1, <1>6 DEF Entries, EveryEntry
  <2>3. d \in Client /\ f # NoFd
    BY <1>1, <1>6, <2>2, NIsNat DEF Fd, NoFd
  <2>4. Cardinality(Entries(f)) = 1
    <3>1. Entries(f) # {}
      BY <1>6
    <3> HIDE DEF f
    <3>2. QED
      BY <1>1, <3>1, OneEntry
  <2>5. sent = lines
    BY <2>1, <2>4, SendsOnce
  <2>6. conn' = [Read(c) EXCEPT ![d] = ServerSends(Read(c)[d], sent)] /\ UNCHANGED typed
    BY <1>6 DEF Served
  <2> HIDE DEF sent, d, lines, f
  <2>7. conn' = SentTo(Read(c), d, lines) /\ d \in Client /\ lines \in Seq(Line)
    BY <2>1, <2>3, <2>5, <2>6 DEF SentTo
  <2>8. /\ conn' \in Wires(Line, Line)
        /\ conn'[d].toServer = Read(c)[d].toServer
        /\ conn'[d].toClient = Read(c)[d].toClient \o lines \/ conn'[d].toClient = Read(c)[d].toClient
        /\ \A e \in Client : e # d => conn'[e] = Read(c)[e]
    <3> DEFINE k == Read(c)
    <3>1. k \in Wires(Line, Line) /\ d \in Client /\ lines \in Seq(Line)
      BY <1>3, <2>7
    <3> HIDE DEF k
    <3>2. /\ SentTo(k, d, lines) \in Wires(Line, Line)
          /\ SentTo(k, d, lines)[d].toServer = k[d].toServer
      BY <3>1, SendWire
    <3>3. \/ SentTo(k, d, lines)[d].toClient = k[d].toClient \o lines
          \/ SentTo(k, d, lines)[d].toClient = k[d].toClient
      BY <3>1, SendWire
    <3>4. \A e \in Client : e # d => SentTo(k, d, lines)[e] = k[e]
      BY <3>1, SendWire
    <3>5. QED
      BY <2>7, <3>2, <3>3, <3>4 DEF k
  <2>9. /\ conn'[c].toServer = <<>>
        /\ \A e \in Client : e # c => conn'[e].toServer = conn[e].toServer
        /\ \A e \in Client : e # d => conn'[e].toClient = conn[e].toClient
        /\ Read(c)[d].toClient = conn[d].toClient
    BY <1>3, <2>7, <2>8
  <2>10. CASE conn'[d].toClient = conn[d].toClient
    <3>1. \A e \in Client : Kept(e)
      BY <2>9, <2>10 DEF Kept
    <3>2. QED
      BY <2>6, <2>8, <3>1 DEF RelaySteps
  <2>11. CASE conn'[d].toClient = conn[d].toClient \o lines
    <3>1. PassesOn(c, d)
      BY <2>1, <2>3, <2>9, <2>11 DEF PassesOn, lines, f
    <3>2. QED
      BY <2>6, <2>7, <2>8, <3>1 DEF RelaySteps
  <2>12. QED
    BY SMTT(30), <2>8, <2>9, <2>10, <2>11
<1>7. QED
  BY <1>2, <1>4, <1>5, <1>6

LEMMA NextRelay ==
  ASSUME Loop, Named, LinesApart, program \in Relays, RelayNext
  PROVE  conn' \in Wires(Line, Line) /\ RelaySteps
<1>1. conn \in Wires(Line, Line) /\ AreClients(client) /\ typed \in Nat
  BY DEF LinesApart, Loop, Shape
<1>2. CASE RelayAccept
  BY <1>1, <1>2, AllKept DEF RelayAccept, Accept, RelaySteps
<1>3. CASE RelayHangup
  <2>1. PICK i \in Fd, c \in Client : ServerEnds(conn) \/ Hangup(i, c)
    BY <1>3 DEF RelayHangup
  <2>2. CASE ServerEnds(conn)
    BY <1>1, <2>2, EndWire DEF Kept, RelaySteps
  <2>3. CASE Hangup(i, c)
    BY <1>1, <2>3, HangupWire DEF Kept, RelaySteps
  <2>4. QED
    BY <2>1, <2>2, <2>3
<1>4. CASE RelayServe
  BY <1>4, ServeRelay
<1>5. ASSUME NEW c \in Client, Registers(c) PROVE conn' \in Wires(Line, Line) /\ RelaySteps
  <2> DEFINE first == <<[id |-> 0, to |-> NoFd]>>
  <2>1. first \in Seq(Line) /\ Connect(c, "running", first)
    BY <1>5 DEF Line, Registers
  <2>2. /\ conn' \in Wires(Line, Line) /\ UNCHANGED typed
        /\ conn'[c].toServer = first /\ conn'[c].toClient = conn[c].toClient
        /\ \A d \in Client : d # c => conn'[d] = conn[d]
    <3> HIDE DEF first
    <3>1. QED
      BY <1>1, <2>1, ConnectWire
  <2>3. SendsName(c)
    BY <2>2 DEF SendsName, Kept
  <2>4. QED
    BY <2>2, <2>3 DEF RelaySteps
<1>6. ASSUME NEW c \in Client, RelayConnect(c) PROVE conn' \in Wires(Line, Line) /\ RelaySteps
  <2> DEFINE first == <<>>
  <2>1. first \in Seq(Line) /\ Connect(c, "running", first)
    BY <1>6 DEF RelayConnect
  <2>2. /\ conn' \in Wires(Line, Line) /\ UNCHANGED typed
        /\ conn'[c].toServer = first /\ conn'[c].toClient = conn[c].toClient
        /\ \A d \in Client : d # c => conn'[d] = conn[d]
    <3> HIDE DEF first
    <3>1. QED
      BY <1>1, <2>1, ConnectWire
  <2>3. \A d \in Client : Kept(d)
    BY <2>2 DEF Kept
  <2>4. QED
    BY <2>2, <2>3 DEF RelaySteps
<1>7. ASSUME NEW c \in Client, NEW f \in Fd, TypeLine(c, f)
      PROVE  conn' \in Wires(Line, Line) /\ RelaySteps
  <2> DEFINE m == [id |-> typed + 1, to |-> f]
  <2>1. m \in Line /\ TypeAndSend(c, m, client[c])
    BY <1>1, <1>7 DEF Line, TypeLine
  <2> HIDE DEF m
  <2>2. /\ conn' \in Wires(Line, Line) /\ typed' = typed + 1
        /\ \A d \in Client : d # c => conn'[d] = conn[d]
        /\ \/ /\ conn'[c].toServer = Append(conn[c].toServer, m)
              /\ conn'[c].toClient = conn[c].toClient
           \/ /\ conn'[c].toServer = conn[c].toServer
              /\ conn'[c].toClient \in {conn[c].toClient, <<>>}
    BY <1>1, <2>1, TypeWire
  <2>3. SendsLine(c, m) \/ \A d \in Client : Kept(d)
    BY <2>2 DEF SendsLine, Kept
  <2>4. QED
    BY <2>2, <2>3 DEF RelaySteps, m
<1>8. ASSUME NEW c \in Client, RelayReceive(c) PROVE conn' \in Wires(Line, Line) /\ RelaySteps
  <2>1. \/ ShowsAll(c) \/ ReportsReset(c)
        \/ \E how : NoticesEnd(c, how)
    BY <1>8 DEF RelayReceive, ReceiveCpp, ReceiveC, ReceiveTema2
  <2>2. CASE ShowsAll(c)
    BY <1>1, <2>2, ShowsWire DEF Kept, RelaySteps
  <2>3. CASE ReportsReset(c)
    BY <1>1, <2>3, ReportsWire DEF Kept, RelaySteps
  <2>4. CASE \E how : NoticesEnd(c, how)
    <3>1. EndsAt(c, conn[c]) /\ UNCHANGED typed
      BY <2>4 DEF NoticesEnd, Ends
    <3>2. conn[c] \in Connection(Line, Line)
      BY <1>1 DEF Wires
    <3>3. QED
      BY <1>1, <3>1, <3>2, LeaveWire DEF Kept, RelaySteps
  <2>5. QED
    BY <2>1, <2>2, <2>3, <2>4
<1>9. QED
  BY <1>2, <1>3, <1>4, <1>5, <1>6, <1>7, <1>8 DEF RelayNext, RelayServer

LEMMA LinesTyped ==
  ASSUME conn \in Wires(Line, Line), NEW c \in Client
  PROVE  /\ conn[c].toServer \in Seq(Line) /\ conn[c].toClient \in Seq(Line)
         /\ \A k \in DOMAIN conn[c].toServer : conn[c].toServer[k].id \in Nat
         /\ \A k \in DOMAIN conn[c].toClient : conn[c].toClient[k].id \in Nat
<1>1. conn[c] \in Connection(Line, Line)
  BY DEF Wires
<1>2. conn[c].toServer \in Seq(Line) /\ conn[c].toClient \in Seq(Line)
  BY <1>1 DEF Connection
<1>3. /\ \A k \in DOMAIN conn[c].toServer : conn[c].toServer[k] \in Line
      /\ \A k \in DOMAIN conn[c].toClient : conn[c].toClient[k] \in Line
  BY <1>2
<1>4. \A m \in Line : m.id \in Nat
  BY DEF Line
<1>5. QED
  BY <1>2, <1>3, <1>4

LEMMA KeptApart ==
  ASSUME LinesApart, program \in Relays, UNCHANGED program, conn' \in Wires(Line, Line),
         typed' = typed \/ typed' = typed + 1, \A c \in Client : Kept(c)
  PROVE  LinesApart'
<1>1. /\ typed \in Nat /\ \A c \in Client : Numbered(c) /\ Once(c)
      /\ \A c, d \in Client : Apart(c, d) /\ DOMAIN <<>> = {}
  BY DEF LinesApart
<1>2. typed' \in Nat /\ \A i \in Nat : i <= typed => i <= typed'
  BY <1>1
<1>3. \A c \in Client : /\ \A k \in DOMAIN conn[c].toServer : conn[c].toServer[k].id \in Nat
                        /\ \A k \in DOMAIN conn[c].toClient : conn[c].toClient[k].id \in Nat
  BY LinesTyped DEF LinesApart
<1>4. ASSUME NEW c \in Client PROVE Numbered(c)' /\ Once(c)'
  <2>1. Numbered(c) /\ Once(c) /\ Kept(c)
    BY <1>1
  <2>2. ASSUME NEW k \in DOMAIN conn'[c].toServer
        PROVE  conn'[c].toServer = conn[c].toServer
    BY <1>1, <2>1, <2>2 DEF Kept
  <2>3. ASSUME NEW k \in DOMAIN conn'[c].toClient
        PROVE  conn'[c].toClient = conn[c].toClient
    BY <1>1, <2>1, <2>3 DEF Kept
  <2>4. Once(c)'
    BY <2>1, <2>3 DEF Once
  <2>5. \A k \in DOMAIN conn'[c].toServer :
          /\ conn'[c].toServer[k].id <= typed'
          /\ conn'[c].toServer[k].id = 0 => k = 1 /\ conn'[c].toServer[k].to = NoFd
    BY <1>2, <1>3, <2>1, <2>2 DEF Numbered
  <2>6. \A k \in DOMAIN conn'[c].toClient : conn'[c].toClient[k].id \in 1 .. typed'
    <3>1. 1 .. typed \subseteq 1 .. typed'
      BY <1>1, <1>2
    <3>2. QED
      BY <2>1, <2>3, <3>1 DEF Numbered
  <2>7. QED
    BY <2>4, <2>5, <2>6 DEF Numbered
<1>5. ASSUME NEW c \in Client, NEW d \in Client PROVE Apart(c, d)'
  <2>1. Apart(c, d) /\ Kept(c) /\ Kept(d)
    BY <1>1
  <2>2. QED
    BY <1>1, <2>1 DEF Apart, Kept
<1>6. QED
  BY <1>2, <1>4, <1>5 DEF LinesApart

LEMMA NameApart ==
  ASSUME LinesApart, program \in Relays, UNCHANGED <<program, typed>>,
         conn' \in Wires(Line, Line), NEW c \in Client, SendsName(c)
  PROVE  LinesApart'
<1> DEFINE first == <<[id |-> 0, to |-> NoFd]>>
<1>1. /\ typed \in Nat /\ \A d \in Client : Numbered(d) /\ Once(d)
      /\ \A d, e \in Client : Apart(d, e) /\ DOMAIN <<>> = {}
  BY DEF LinesApart
<1>2. DOMAIN first = {1} /\ first[1].id = 0 /\ first[1].to = NoFd
  OBVIOUS
<1>3. /\ conn'[c].toServer = first /\ conn'[c].toClient = conn[c].toClient
      /\ \A e \in Client : e # c => Kept(e)
  BY DEF SendsName
<1> HIDE DEF first
<1>4. \A d \in Client : conn'[d].toClient \in {conn[d].toClient, <<>>}
  BY <1>3 DEF Kept
<1>5. ASSUME NEW d \in Client PROVE Numbered(d)' /\ Once(d)'
  <2>1. Once(d)'
    BY <1>1, <1>4 DEF Once
  <2>2. \A k \in DOMAIN conn'[d].toClient : conn'[d].toClient[k].id \in 1 .. typed'
    BY <1>1, <1>4 DEF Numbered
  <2>3. \A k \in DOMAIN conn'[d].toServer :
          /\ conn'[d].toServer[k].id <= typed'
          /\ conn'[d].toServer[k].id = 0 => k = 1 /\ conn'[d].toServer[k].to = NoFd
    <3>1. CASE d = c
      BY <1>1, <1>2, <1>3, <3>1
    <3>2. CASE d # c
      BY <1>1, <1>3, <3>2 DEF Kept, Numbered
    <3>3. QED
      BY <3>1, <3>2
  <2>4. QED
    BY <2>1, <2>2, <2>3 DEF Numbered
<1>6. ASSUME NEW d \in Client, NEW e \in Client PROVE Apart(d, e)'
  <2> SUFFICES ASSUME NEW j \in DOMAIN conn'[d].toServer
               PROVE  /\ \A k \in DOMAIN conn'[e].toServer :
                            conn'[d].toServer[j].id = conn'[e].toServer[k].id =>
                                conn'[d].toServer[j].id = 0 \/ (d = e /\ j = k)
                      /\ \A k \in DOMAIN conn'[e].toClient :
                            conn'[d].toServer[j].id # conn'[e].toClient[k].id
    BY DEF Apart
  <2>1. \A k \in DOMAIN conn'[e].toClient : conn'[e].toClient[k].id # 0
    BY <1>1, <1>4 DEF Numbered
  <2>2. CASE d = c
    BY <1>2, <1>3, <2>1, <2>2
  <2>3. CASE d # c
    <3>1. conn'[d].toServer = conn[d].toServer
      BY <1>1, <1>3, <2>3 DEF Kept
    <3>2. \A k \in DOMAIN conn'[e].toClient : conn'[d].toServer[j].id # conn'[e].toClient[k].id
      BY <1>1, <1>4, <3>1 DEF Apart
    <3>3. CASE e = c
      BY <1>2, <1>3, <3>2, <3>3
    <3>4. CASE e # c
      BY <1>1, <1>3, <3>1, <3>2, <3>4 DEF Kept, Apart
    <3>5. QED
      BY <3>3, <3>4
  <2>4. QED
    BY <2>2, <2>3
<1>7. QED
  BY <1>1, <1>5, <1>6 DEF LinesApart

LEMMA LineApart ==
  ASSUME LinesApart, program \in Relays, UNCHANGED program, typed' = typed + 1,
         conn' \in Wires(Line, Line), NEW c \in Client, NEW f \in Fd,
         SendsLine(c, [id |-> typed + 1, to |-> f])
  PROVE  LinesApart'
<1> DEFINE m == [id |-> typed + 1, to |-> f]
<1>1. /\ typed \in Nat /\ \A d \in Client : Numbered(d) /\ Once(d)
      /\ \A d, e \in Client : Apart(d, e) /\ DOMAIN <<>> = {}
  BY DEF LinesApart
<1>2. typed' \in Nat /\ (\A i \in Nat : i <= typed => i <= typed' /\ i # typed')
      /\ 1 .. typed \subseteq 1 .. typed' /\ typed' # 0 /\ typed' <= typed'
  BY <1>1
<1>3. m.id = typed'
  OBVIOUS
<1>4. /\ conn'[c].toServer = Append(conn[c].toServer, m)
      /\ conn'[c].toClient = conn[c].toClient
      /\ \A e \in Client : e # c => Kept(e)
  BY DEF SendsLine
<1> HIDE DEF m
<1>5. \A d \in Client :
        /\ conn[d].toServer \in Seq(Line)
        /\ \A k \in DOMAIN conn[d].toServer : conn[d].toServer[k].id \in Nat
        /\ \A k \in DOMAIN conn[d].toClient : conn[d].toClient[k].id \in Nat
  BY LinesTyped DEF LinesApart
<1>6. \A d \in Client : conn'[d].toClient \in {conn[d].toClient, <<>>}
  BY <1>4 DEF Kept
\* What is on its way to the server was there before, or is the new line.
<1>7. ASSUME NEW d \in Client, NEW k \in DOMAIN conn'[d].toServer
      PROVE  \/ k \in DOMAIN conn[d].toServer /\ conn'[d].toServer[k] = conn[d].toServer[k]
             \/ d = c /\ k = Len(conn[c].toServer) + 1 /\ conn'[d].toServer[k].id = typed'
  <2>1. CASE d = c
    <3>1. /\ Len(conn[c].toServer) \in Nat
          /\ DOMAIN conn[c].toServer = 1 .. Len(conn[c].toServer)
          /\ k \in 1 .. Len(conn[c].toServer) + 1
      BY <1>4, <1>5, <2>1
    <3>2. CASE k = Len(conn[c].toServer) + 1
      <4>1. conn'[c].toServer[k] = m
        BY <1>4, <1>5, <3>2
      <4>2. QED
        BY <1>3, <2>1, <3>2, <4>1
    <3>3. CASE k # Len(conn[c].toServer) + 1
      BY <1>4, <1>5, <2>1, <3>1, <3>3
    <3>4. QED
      BY <3>2, <3>3
  <2>2. CASE d # c
    BY <1>1, <1>4, <2>2 DEF Kept
  <2>3. QED
    BY <2>1, <2>2
<1>8. \A d \in Client : \A k \in DOMAIN conn[d].toClient : conn[d].toClient[k].id <= typed
  BY <1>1 DEF Numbered
<1>9. ASSUME NEW d \in Client PROVE Numbered(d)' /\ Once(d)'
  <2>1. Once(d)'
    BY <1>1, <1>6 DEF Once
  <2>2. \A k \in DOMAIN conn'[d].toClient : conn'[d].toClient[k].id \in 1 .. typed'
    BY <1>1, <1>2, <1>6 DEF Numbered
  <2>3. ASSUME NEW k \in DOMAIN conn'[d].toServer
        PROVE  /\ conn'[d].toServer[k].id <= typed'
               /\ conn'[d].toServer[k].id = 0 => k = 1 /\ conn'[d].toServer[k].to = NoFd
    <3>1. CASE k \in DOMAIN conn[d].toServer /\ conn'[d].toServer[k] = conn[d].toServer[k]
      BY <1>1, <1>2, <1>5, <3>1 DEF Numbered
    <3>2. CASE conn'[d].toServer[k].id = typed'
      BY <1>2, <3>2
    <3>3. QED
      BY <1>7, <3>1, <3>2
  <2>4. QED
    BY <2>1, <2>2, <2>3 DEF Numbered
<1>10. ASSUME NEW d \in Client, NEW e \in Client PROVE Apart(d, e)'
  <2> SUFFICES ASSUME NEW j \in DOMAIN conn'[d].toServer
               PROVE  /\ \A k \in DOMAIN conn'[e].toServer :
                            conn'[d].toServer[j].id = conn'[e].toServer[k].id =>
                                conn'[d].toServer[j].id = 0 \/ (d = e /\ j = k)
                      /\ \A k \in DOMAIN conn'[e].toClient :
                            conn'[d].toServer[j].id # conn'[e].toClient[k].id
    BY DEF Apart
  <2>1. ASSUME NEW k \in DOMAIN conn'[e].toClient
        PROVE  conn'[d].toServer[j].id # conn'[e].toClient[k].id
    <3>1. k \in DOMAIN conn[e].toClient /\ conn'[e].toClient[k] = conn[e].toClient[k]
      BY <1>1, <1>6
    <3>2. CASE j \in DOMAIN conn[d].toServer /\ conn'[d].toServer[j] = conn[d].toServer[j]
      BY <1>1, <3>1, <3>2 DEF Apart
    <3>3. CASE conn'[d].toServer[j].id = typed'
      BY <1>2, <1>5, <1>8, <3>1, <3>3
    <3>4. QED
      BY <1>7, <3>2, <3>3
  <2>2. ASSUME NEW k \in DOMAIN conn'[e].toServer,
               conn'[d].toServer[j].id = conn'[e].toServer[k].id
        PROVE  conn'[d].toServer[j].id = 0 \/ (d = e /\ j = k)
    <3>1. CASE /\ j \in DOMAIN conn[d].toServer /\ conn'[d].toServer[j] = conn[d].toServer[j]
               /\ k \in DOMAIN conn[e].toServer /\ conn'[e].toServer[k] = conn[e].toServer[k]
      BY <1>1, <2>2, <3>1 DEF Apart
    <3>2. CASE /\ j \in DOMAIN conn[d].toServer /\ conn'[d].toServer[j] = conn[d].toServer[j]
               /\ conn'[e].toServer[k].id = typed'
      BY <1>1, <1>2, <1>5, <2>2, <3>2 DEF Numbered
    <3>3. CASE /\ k \in DOMAIN conn[e].toServer /\ conn'[e].toServer[k] = conn[e].toServer[k]
               /\ conn'[d].toServer[j].id = typed'
      BY <1>1, <1>2, <1>5, <2>2, <3>3 DEF Numbered
    <3>4. CASE d = c /\ e = c /\ j = Len(conn[c].toServer) + 1 /\ k = Len(conn[c].toServer) + 1
      BY <3>4
    <3>5. QED
      BY <1>7, <3>1, <3>2, <3>3, <3>4
  <2>3. QED
    BY <2>1, <2>2
<1>11. QED
  BY <1>2, <1>9, <1>10 DEF LinesApart

LEMMA PassedApart ==
  ASSUME LinesApart, program \in Relays, UNCHANGED <<program, typed>>,
         conn' \in Wires(Line, Line), NEW c \in Client, NEW d \in Client, PassesOn(c, d)
  PROVE  LinesApart'
<1> DEFINE lines == conn[c].toServer
<1>1. /\ typed \in Nat /\ \A e \in Client : Numbered(e) /\ Once(e)
      /\ \A e, g \in Client : Apart(e, g) /\ DOMAIN <<>> = {}
  BY DEF LinesApart
<1>2. \A e \in Client :
        /\ conn[e].toServer \in Seq(Line) /\ conn[e].toClient \in Seq(Line)
        /\ \A k \in DOMAIN conn[e].toServer : conn[e].toServer[k].id \in Nat
        /\ \A k \in DOMAIN conn[e].toClient : conn[e].toClient[k].id \in Nat
  BY LinesTyped DEF LinesApart
<1>3. /\ \A e \in Client : e # c => conn'[e].toServer = conn[e].toServer
      /\ \A e \in Client : e # d => conn'[e].toClient = conn[e].toClient
      /\ conn'[c].toServer = <<>> /\ conn'[d].toClient = conn[d].toClient \o lines
  BY DEF PassesOn
<1>4. \A k \in DOMAIN lines : lines[k].id \in 1 .. typed
  <2> SUFFICES ASSUME NEW k \in DOMAIN lines PROVE lines[k].id # 0
    BY <1>1, <1>2 DEF Numbered
  <2>1. lines[1].to # NoFd
    BY DEF PassesOn
  <2>2. QED
    BY <1>1, <2>1 DEF Numbered
<1>5. \A k \in DOMAIN lines : \A j \in DOMAIN lines : j # k => lines[j].id # lines[k].id
  BY <1>1, <1>4 DEF Apart
<1>6. /\ Len(conn[d].toClient) \in Nat /\ Len(lines) \in Nat
      /\ DOMAIN conn[d].toClient = 1 .. Len(conn[d].toClient) /\ DOMAIN lines = 1 .. Len(lines)
  BY <1>2
\* What is on its way to a client was there before, or was on its way from c.
<1>7. ASSUME NEW k \in DOMAIN conn'[d].toClient
      PROVE  \/ k \in DOMAIN conn[d].toClient /\ conn'[d].toClient[k] = conn[d].toClient[k]
             \/ /\ k - Len(conn[d].toClient) \in DOMAIN lines
                /\ conn'[d].toClient[k] = lines[k - Len(conn[d].toClient)]
  <2> DEFINE a == conn[d].toClient
  <2>1. a \in Seq(Line) /\ lines \in Seq(Line)
    BY <1>2
  <2> HIDE DEF a, lines
  <2>2. /\ Len(a \o lines) = Len(a) + Len(lines) /\ a \o lines \in Seq(Line)
        /\ \A i \in 1 .. Len(a) + Len(lines) :
             (a \o lines)[i] = IF i <= Len(a) THEN a[i] ELSE lines[i - Len(a)]
    BY <2>1, ConcatProperties
  <2>3. conn'[d].toClient = a \o lines
    BY <1>3 DEF a
  <2>4. Len(a) \in Nat /\ Len(lines) \in Nat /\ k \in 1 .. Len(a) + Len(lines)
    BY <2>1, <2>2, <2>3
  <2>5. DOMAIN a = 1 .. Len(a) /\ DOMAIN lines = 1 .. Len(lines)
    BY <2>1
  <2>6. CASE k <= Len(a)
    BY <2>2, <2>3, <2>4, <2>5, <2>6 DEF a
  <2>7. CASE ~(k <= Len(a))
    <3>1. k - Len(a) \in 1 .. Len(lines)
      BY <2>4, <2>7
    <3>2. QED
      BY <2>2, <2>3, <2>4, <2>5, <2>7, <3>1 DEF a
  <2>8. QED
    BY <2>6, <2>7
<1>8. \A e \in Client : \A k \in DOMAIN conn'[e].toServer :
        e # c /\ k \in DOMAIN conn[e].toServer /\ conn'[e].toServer[k] = conn[e].toServer[k]
  BY <1>1, <1>3
<1>9. ASSUME NEW e \in Client PROVE Numbered(e)' /\ Once(e)'
  <2>1. \A k \in DOMAIN conn'[e].toServer :
          /\ conn'[e].toServer[k].id <= typed'
          /\ conn'[e].toServer[k].id = 0 => k = 1 /\ conn'[e].toServer[k].to = NoFd
    BY <1>1, <1>8 DEF Numbered
  <2>2. CASE e # d
    BY <1>1, <1>3, <2>1, <2>2 DEF Numbered, Once
  <2>3. CASE e = d
    <3>1. \A k \in DOMAIN conn'[d].toClient : conn'[d].toClient[k].id \in 1 .. typed'
      BY <1>1, <1>4, <1>7 DEF Numbered
    <3>2. ASSUME NEW j \in DOMAIN conn'[d].toClient, NEW k \in DOMAIN conn'[d].toClient, j # k
          PROVE  conn'[d].toClient[j].id # conn'[d].toClient[k].id
      <4>1. j \in Int /\ k \in Int
        <5>1. conn'[d].toClient \in Seq(Line)
          BY DEF Wires, Connection
        <5>2. QED
          BY <5>1
      <4>2. CASE /\ j \in DOMAIN conn[d].toClient /\ conn'[d].toClient[j] = conn[d].toClient[j]
                 /\ k \in DOMAIN conn[d].toClient /\ conn'[d].toClient[k] = conn[d].toClient[k]
        BY <1>1, <3>2, <4>2 DEF Once
      <4>3. CASE /\ j \in DOMAIN conn[d].toClient /\ conn'[d].toClient[j] = conn[d].toClient[j]
                 /\ k - Len(conn[d].toClient) \in DOMAIN lines
                 /\ conn'[d].toClient[k] = lines[k - Len(conn[d].toClient)]
        BY <1>1, <4>3 DEF Apart
      <4>4. CASE /\ k \in DOMAIN conn[d].toClient /\ conn'[d].toClient[k] = conn[d].toClient[k]
                 /\ j - Len(conn[d].toClient) \in DOMAIN lines
                 /\ conn'[d].toClient[j] = lines[j - Len(conn[d].toClient)]
        BY <1>1, <4>4 DEF Apart
      <4>5. CASE /\ j - Len(conn[d].toClient) \in DOMAIN lines
                 /\ conn'[d].toClient[j] = lines[j - Len(conn[d].toClient)]
                 /\ k - Len(conn[d].toClient) \in DOMAIN lines
                 /\ conn'[d].toClient[k] = lines[k - Len(conn[d].toClient)]
        <5>1. j - Len(conn[d].toClient) # k - Len(conn[d].toClient)
          BY <1>6, <3>2, <4>1
        <5>2. QED
          BY <1>5, <4>5, <5>1
      <4>6. QED
        BY <1>7, <4>2, <4>3, <4>4, <4>5
    <3>3. QED
      BY <2>1, <2>3, <3>1, <3>2 DEF Numbered, Once
  <2>4. QED
    BY <2>2, <2>3
<1>10. ASSUME NEW e \in Client, NEW g \in Client PROVE Apart(e, g)'
  <2> SUFFICES ASSUME NEW j \in DOMAIN conn'[e].toServer
               PROVE  /\ \A k \in DOMAIN conn'[g].toServer :
                            conn'[e].toServer[j].id = conn'[g].toServer[k].id =>
                                conn'[e].toServer[j].id = 0 \/ (e = g /\ j = k)
                      /\ \A k \in DOMAIN conn'[g].toClient :
                            conn'[e].toServer[j].id # conn'[g].toClient[k].id
    BY DEF Apart
  <2>1. e # c /\ j \in DOMAIN conn[e].toServer /\ conn'[e].toServer[j] = conn[e].toServer[j]
    BY <1>8
  <2>2. \A k \in DOMAIN conn'[g].toServer :
          conn'[e].toServer[j].id = conn'[g].toServer[k].id =>
              conn'[e].toServer[j].id = 0 \/ (e = g /\ j = k)
    BY <1>1, <1>8, <2>1 DEF Apart
  <2>3. ASSUME NEW k \in DOMAIN conn'[g].toClient
        PROVE  conn'[e].toServer[j].id # conn'[g].toClient[k].id
    <3>1. CASE g # d
      BY <1>1, <1>3, <2>1, <3>1 DEF Apart
    <3>2. CASE /\ g = d /\ k \in DOMAIN conn[d].toClient
               /\ conn'[d].toClient[k] = conn[d].toClient[k]
      BY <1>1, <2>1, <3>2 DEF Apart
    <3>3. CASE /\ g = d /\ k - Len(conn[d].toClient) \in DOMAIN lines
               /\ conn'[d].toClient[k] = lines[k - Len(conn[d].toClient)]
      <4>1. lines[k - Len(conn[d].toClient)].id # 0
        BY <1>4, <3>3
      <4>2. QED
        BY <1>1, <2>1, <3>3, <4>1 DEF Apart
    <3>4. QED
      BY <1>7, <3>1, <3>2, <3>3
  <2>4. QED
    BY <2>2, <2>3
<1>11. QED
  BY <1>1, <1>9, <1>10 DEF LinesApart

LEMMA LinesApartKeeps ==
  ASSUME Loop, Named, LinesApart, Next
  PROVE  LinesApart'
<1> SUFFICES ASSUME program \in Relays PROVE LinesApart'
  BY NextSeats DEF LinesApart, Loop, SeatStep
<1>1. RelayNext \/ CommonNext
  BY NextCases DEF Relays, NameServers, ListNext, NamesNext, HangmanNext, LockstepNext,
     HttpNext, MailNext, Chat, Game, Chat7, Http, Smtp
<1>2. conn' \in Wires(Line, Line) /\ RelaySteps
  BY <1>1, NextRelay, CommonRelay
<1>3. UNCHANGED program
  BY NextSeats DEF Loop, SeatStep
<1>4. QED
  BY <1>2, <1>3, KeptApart, NameApart, LineApart, PassedApart DEF RelaySteps

-----------------------------------------------------------------------------
(* The letters of hangman.                                                 *)

Command ==
    [id : Nat, verb : {"guess"}, letter : Letter] \cup
    [id : Nat, verb : {"set"}, word : Word \cup {NoWord}]

Notice ==
    [id : Nat, kind : {"refusal", "gresit", "felicitari"}] \cup
    [id : Nat, kind : {"litera"}, letter : Letter]

\* A server that is up has not been stopped, and nothing was shown to those that
\* have not come yet.
InGame ==
    Game =>
        /\ typed \in Nat /\ conn \in Wires(Command, Notice)
        /\ server = "up" => ~quit
        /\ \A c \in Client, l \in Letter : client[c].state = "new" => <<c, l>> \notin added

\* LettersTold, whatever was written where.
AlwaysTold ==
    Game /\ (server = "up" \/ quit) =>
        \A c \in Client, l \in Letter :
            <<c, l>> \in added /\ Running(c) /\ c \notin merged =>
                \/ l \in client[c].own
                \/ \E k \in DOMAIN conn[c].toClient :
                      conn[c].toClient[k].kind = "litera" /\ conn[c].toClient[k].letter = l

\* What is on its way to client c stays on its way.
Grows(c) ==
    \A k \in DOMAIN conn[c].toClient :
        k \in DOMAIN conn'[c].toClient /\ conn'[c].toClient[k] = conn[c].toClient[k]

\* Client c has ended, or lost the news behind a wrong guess, or has shown the
\* letters that were on their way to it, or will.
Learns(c) ==
    \/ client'[c].state # "running" \/ c \in merged'
    \/ /\ c \notin merged /\ client[c].state \in {"new", "running"}
       /\ client[c].own \subseteq client'[c].own
       /\ \/ Grows(c)
          \/ \A k \in DOMAIN conn[c].toClient :
                conn[c].toClient[k].kind = "litera" =>
                    conn[c].toClient[k].letter \in client'[c].own

\* A step in which no letter is found.
NoneFound ==
    /\ conn' \in Wires(Command, Notice)
    /\ UNCHANGED <<program, added>> /\ typed' \in {typed, typed + 1}
    /\ server' = "up" => ~quit'
    /\ server' = "up" \/ quit' => server = "up" \/ quit
    /\ \A c \in Client : Learns(c) /\ (client'[c].state = "new" => client[c].state = "new")

LEMMA NoneFoundKeeps ==
  ASSUME InGame, AlwaysTold, Game, NoneFound
  PROVE  InGame' /\ AlwaysTold'
<1>1. /\ typed \in Nat /\ program' = program /\ program = "hangman" /\ added' = added
      /\ \A c \in Client, l \in Letter : client[c].state = "new" => <<c, l>> \notin added
  BY DEF InGame, Game, NoneFound
<1>2. typed' \in Nat
  BY <1>1 DEF NoneFound
<1>3. InGame'
  BY <1>1, <1>2 DEF InGame, Game, NoneFound
<1>4. ASSUME server' = "up" \/ quit', NEW c \in Client, NEW l \in Letter,
             <<c, l>> \in added, client'[c].state = "running", c \notin merged'
      PROVE  \/ l \in client'[c].own
             \/ \E k \in DOMAIN conn'[c].toClient :
                   conn'[c].toClient[k].kind = "litera" /\ conn'[c].toClient[k].letter = l
  <2>1. /\ c \notin merged /\ client[c].state = "running"
        /\ client[c].own \subseteq client'[c].own
        /\ \/ Grows(c)
           \/ \A k \in DOMAIN conn[c].toClient :
                conn[c].toClient[k].kind = "litera" =>
                    conn[c].toClient[k].letter \in client'[c].own
    BY <1>1, <1>4 DEF NoneFound, Learns
  <2>2. \/ l \in client[c].own
        \/ \E k \in DOMAIN conn[c].toClient :
              conn[c].toClient[k].kind = "litera" /\ conn[c].toClient[k].letter = l
    <3>1. server = "up" \/ quit
      BY <1>4 DEF NoneFound
    <3>2. QED
      BY <1>1, <1>4, <2>1, <3>1 DEF AlwaysTold, Game, Running
  <2>3. QED
    BY <2>1, <2>2 DEF Grows
<1>5. AlwaysTold'
  BY <1>1, <1>4 DEF AlwaysTold, Game, Running
<1>6. QED
  BY <1>3, <1>5

\* One client acts, and the others learn nothing new.
LEMMA OneLearns ==
  ASSUME NEW c \in Client, merged \subseteq merged', Learns(c),
         \A d \in Client : d # c => conn'[d] = conn[d] /\ client'[d] = client[d],
         AreClients(client)
  PROVE  \A d \in Client : Learns(d)
<1>1. ASSUME NEW d \in Client, d # c PROVE Learns(d)
  <2>1. Grows(d)
    BY <1>1 DEF Grows
  <2>2. QED
    BY <1>1, <2>1 DEF Learns
<1>2. QED
  BY <1>1

\* Only the server acts.
LEMMA AllLearn ==
  ASSUME UNCHANGED client, merged \subseteq merged', \A c \in Client : Grows(c)
  PROVE  \A c \in Client : Learns(c)
BY DEF Learns

LEMMA AppendGrows ==
  ASSUME NEW S, NEW s \in Seq(S), NEW r \in Seq(S)
  PROVE  \A k \in DOMAIN s : k \in DOMAIN (s \o r) /\ (s \o r)[k] = s[k]
<1>1. /\ s \o r \in Seq(S) /\ Len(s \o r) = Len(s) + Len(r) /\ Len(s) \in Nat /\ Len(r) \in Nat
      /\ \A k \in 1 .. Len(s) + Len(r) : (s \o r)[k] = IF k <= Len(s) THEN s[k] ELSE r[k - Len(s)]
  BY ConcatProperties
<1>2. DOMAIN s = 1 .. Len(s) /\ DOMAIN (s \o r) = 1 .. Len(s) + Len(r)
  BY <1>1
<1>3. QED
  BY <1>1, <1>2

\* The server ends without having been told to.
LEMMA EndNoneFound ==
  ASSUME InGame, Game, server = "up", NEW k \in Wires(Command, Notice), ServerEnds(k),
         \A c \in Client : k[c].toClient = conn[c].toClient,
         merged \subseteq merged', UNCHANGED added
  PROVE  NoneFound
<1>1. /\ conn' \in Wires(Command, Notice) /\ server' = "down"
      /\ \A c \in Client : conn'[c].toClient = k[c].toClient
      /\ UNCHANGED <<program, data, client, typed>>
  BY EndWire
<1>2. \A c \in Client : Learns(c)
  BY <1>1, AllLearn DEF Grows
<1>3. QED
  BY <1>1, <1>2 DEF NoneFound

LEMMA CommonFound ==
  ASSUME Loop, InGame, Game, CommonNext
  PROVE  NoneFound
<1>1. conn \in Wires(Command, Notice) /\ AreClients(client) /\ (server = "up" => ~quit)
  BY DEF InGame, Loop, Shape
<1>2. CASE StartPass
  <2>1. UNCHANGED <<program, server, conn, client, typed, histories>>
    BY <1>2 DEF StartPass
  <2>2. UNCHANGED quit /\ UNCHANGED merged /\ UNCHANGED added
    BY <2>1 DEF histories
  <2>3. \A c \in Client : Learns(c)
    BY <2>1, <2>2, AllLearn DEF Grows
  <2>4. QED
    BY <1>1, <2>1, <2>2, <2>3 DEF NoneFound
<1>3. CASE RecvFails
  <2>1. ServerEnds(conn) /\ server = "up" /\ UNCHANGED added /\ merged' = merged
    BY <1>3 DEF RecvFails, At, histories
  <2>2. QED
    BY <1>1, <2>1, EndNoneFound
<1>4. ASSUME NEW c \in Client, Leave(c) PROVE NoneFound
  <2>1. EndsAt(c, conn[c]) /\ UNCHANGED <<program, serverVars, typed, histories>>
    BY <1>4 DEF Leave, Ends
  <2>2. /\ UNCHANGED program /\ UNCHANGED server /\ UNCHANGED typed
        /\ UNCHANGED quit /\ UNCHANGED merged /\ UNCHANGED added
    BY <2>1 DEF serverVars, histories
  <2>3. conn[c] \in Connection(Command, Notice)
    BY <1>1 DEF Wires
  <2>4. /\ conn' \in Wires(Command, Notice)
        /\ \A d \in Client : d # c => conn'[d] = conn[d] /\ client'[d] = client[d]
        /\ client'[c] = Gone
    BY <1>1, <2>1, <2>3, LeaveWire
  <2>5. client'[c].state = "ended"
    BY <2>4 DEF Gone, NewClient
  <2>6. \A d \in Client : Learns(d)
    <3>1. Learns(c)
      BY <2>5 DEF Learns
    <3>2. QED
      BY <1>1, <2>2, <2>4, <3>1, OneLearns
  <2>7. QED
    BY <1>1, <2>2, <2>4, <2>5, <2>6 DEF NoneFound
<1>5. CASE OverrunEnds
  <2>1. PICK c \in Client : ServerEnds(Read(c))
    BY <1>5 DEF OverrunEnds, Game, Chat
  <2>2. /\ Read(c) \in Wires(Command, Notice)
        /\ \A d \in Client : Read(c)[d].toClient = conn[d].toClient
    BY <1>1, ReadWire
  <2>3. server = "up" /\ merged \subseteq merged' /\ UNCHANGED added
    BY <1>5 DEF OverrunEnds
  <2>4. QED
    BY <2>1, <2>2, <2>3, EndNoneFound
<1>6. ASSUME NEW c \in Client, ConnectFails(c) PROVE NoneFound
  <2>1. /\ conn' \in Wires(Command, Notice)
        /\ \A d \in Client : d # c => conn'[d] = conn[d] /\ client'[d] = client[d]
        /\ client'[c] = Gone
        /\ server' = server /\ UNCHANGED <<program, typed, quit, merged, added>>
    BY <1>1, <1>6, FailsWire DEF Game, DiesOnConnect
  <2>2. client'[c].state = "ended"
    BY <2>1 DEF Gone, NewClient
  <2>3. Learns(c)
    BY <2>2 DEF Learns
  <2>4. \A d \in Client : Learns(d)
    BY <1>1, <2>1, <2>3, OneLearns
  <2>5. QED
    BY <1>1, <2>1, <2>2, <2>4 DEF NoneFound
<1>7. QED
  BY <1>2, <1>3, <1>4, <1>5, <1>6 DEF CommonNext

\* An answer to one client.
LEMMA AnswerFound ==
  ASSUME Loop, InGame, Game, server = "up", NEW i, NEW c \in Client, NEW m \in Notice,
         Answer(i, c, m), merged \subseteq merged', UNCHANGED <<quit, added>>
  PROVE  NoneFound
<1>1. conn \in Wires(Command, Notice) /\ AreClients(client) /\ ~quit
  BY DEF InGame, Loop, Shape
<1>2. /\ Read(c) \in Wires(Command, Notice)
      /\ \A d \in Client : Read(c)[d].toClient = conn[d].toClient
  BY <1>1, ReadWire
<1>3. CASE ServerEnds(Read(c))
  BY <1>2, <1>3, EndNoneFound
<1>4. CASE Served(i, [Read(c) EXCEPT ![c] = ServerSends(Read(c)[c], <<m>>)])
  <2>1. conn' = SentTo(Read(c), c, <<m>>) /\ UNCHANGED <<program, server, client, typed>>
    BY <1>4 DEF Served, SentTo
  <2> DEFINE k == Read(c)
             ms == <<m>>
  <2>2. k \in Wires(Command, Notice) /\ ms \in Seq(Notice)
    BY <1>2
  <2> HIDE DEF k, ms
  <2>3. /\ SentTo(k, c, ms) \in Wires(Command, Notice)
        /\ \/ SentTo(k, c, ms)[c].toClient = k[c].toClient \o ms
           \/ SentTo(k, c, ms)[c].toClient = k[c].toClient
    BY <2>2, SendWire
  <2>4. \A d \in Client : d # c => SentTo(k, c, ms)[d] = k[d]
    BY <2>2, SendWire
  <2>5. conn' = SentTo(k, c, ms) /\ \A d \in Client : k[d].toClient = conn[d].toClient
    BY <1>2, <2>1 DEF k, ms
  <2>6. Grows(c)
    <3>1. conn[c].toClient \in Seq(Notice)
      BY <1>1 DEF Wires, Connection
    <3>2. \A n \in DOMAIN conn[c].toClient :
            n \in DOMAIN (conn[c].toClient \o ms) /\ (conn[c].toClient \o ms)[n] = conn[c].toClient[n]
      BY <2>2, <3>1, AppendGrows
    <3>3. conn'[c].toClient = conn[c].toClient \o ms \/ conn'[c].toClient = conn[c].toClient
      BY <2>3, <2>5
    <3>4. CASE conn'[c].toClient = conn[c].toClient
      BY <3>4 DEF Grows
    <3>5. CASE conn'[c].toClient = conn[c].toClient \o ms
      <4> DEFINE t == conn[c].toClient \o ms
      <4>1. \A n \in DOMAIN conn[c].toClient : n \in DOMAIN t /\ t[n] = conn[c].toClient[n]
        BY <3>2
      <4>2. conn'[c].toClient = t
        BY <3>5
      <4> HIDE DEF t
      <4>3. QED
        BY <4>1, <4>2 DEF Grows
    <3>6. QED
      BY <3>3, <3>4, <3>5
  <2>7. \A d \in Client : d # c => Grows(d)
    BY <2>4, <2>5 DEF Grows
  <2>8. \A d \in Client : Learns(d)
    BY <2>1, <2>6, <2>7, AllLearn
  <2>9. conn' \in Wires(Command, Notice)
    BY <2>3, <2>5
  <2>10. QED
    BY <1>1, <2>1, <2>8, <2>9 DEF NoneFound
<1>5. QED
  BY <1>3, <1>4 DEF Answer

LEMMA HeadTyped ==
  ASSUME Game, InGame, NEW i, NEW c \in Client, Arrived(i, c)
  PROVE  /\ Head(conn[c].toServer) \in Command /\ server = "up"
         /\ merged \subseteq merged'
<1>1. conn[c] \in Connection(Command, Notice)
  BY DEF InGame, Wires
<1>2. conn[c].toServer \in Seq(Command) /\ conn[c].toServer # <<>>
  BY <1>1 DEF Connection, Arrived
<1>3. QED
  BY <1>2 DEF Arrived, At, MergedIf

LEMMA SetFound ==
  ASSUME Loop, InGame, Game, SetWord
  PROVE  NoneFound
<1>1. conn \in Wires(Command, Notice) /\ (server = "up" => ~quit)
  BY DEF InGame
<1>2. PICK i \in Fd, c \in Client :
        /\ Taken(i, c)
        /\ Answer(i, c, Refusal(Head(conn[c].toServer))) \/ Served(i, Read(c))
  BY DEF SetWord
<1>3. /\ Head(conn[c].toServer) \in Command /\ server = "up"
      /\ merged \subseteq merged' /\ UNCHANGED <<quit, added>>
  BY <1>2, HeadTyped DEF Taken
<1>4. CASE Answer(i, c, Refusal(Head(conn[c].toServer)))
  <2>1. Refusal(Head(conn[c].toServer)) \in Notice
    BY <1>3 DEF Refusal, Notice, Command
  <2>2. QED
    BY <1>3, <1>4, <2>1, AnswerFound
<1>5. CASE Served(i, Read(c))
  <2>1. conn' = Read(c) /\ UNCHANGED <<program, server, client, typed>>
    BY <1>5 DEF Served
  <2>2. /\ Read(c) \in Wires(Command, Notice)
        /\ \A d \in Client : Read(c)[d].toClient = conn[d].toClient
    BY <1>1, ReadWire
  <2>3. \A d \in Client : Learns(d)
    BY <1>3, <2>1, <2>2, AllLearn DEF Grows
  <2>4. QED
    BY <1>1, <1>3, <2>1, <2>2, <2>3 DEF NoneFound
<1>6. QED
  BY <1>2, <1>4, <1>5

\* The clients' own steps.
LEMMA ConnectFound ==
  ASSUME Loop, InGame, Game, NEW c \in Client, HangmanConnect(c)
  PROVE  NoneFound
<1>1. conn \in Wires(Command, Notice) /\ AreClients(client) /\ (server = "up" => ~quit)
  BY DEF InGame, Loop, Shape
<1> DEFINE first == <<>>
<1>2. first \in Seq(Command) /\ Connect(c, "running", first)
  BY DEF HangmanConnect
<1> HIDE DEF first
<1>3. /\ conn' \in Wires(Command, Notice) /\ conn'[c].toClient = conn[c].toClient
      /\ \A d \in Client : d # c => conn'[d] = conn[d] /\ client'[d] = client[d]
      /\ client'[c].state = "running" /\ client[c].state = "new" /\ client'[c].own = client[c].own
      /\ server' = "up" /\ server = "up" /\ UNCHANGED <<program, data, typed, histories>>
  BY <1>1, <1>2, ConnectWire
<1>4. UNCHANGED quit /\ UNCHANGED merged /\ UNCHANGED added
  BY <1>3 DEF histories
<1>5. Learns(c)
  BY <1>3, <1>4 DEF Learns, Grows
<1>6. \A d \in Client : Learns(d)
  BY <1>1, <1>3, <1>4, <1>5, OneLearns
<1>7. QED
  BY <1>1, <1>3, <1>4, <1>6 DEF NoneFound

LEMMA TypeFound ==
  ASSUME Loop, InGame, Game, NEW c \in Client, NEW m \in Command, NEW q,
         TypeAndSend(c, m, q), q.state = client[c].state, q.own = client[c].own,
         UNCHANGED added
  PROVE  NoneFound
<1>1. conn \in Wires(Command, Notice) /\ AreClients(client) /\ (server = "up" => ~quit)
  BY DEF InGame, Loop, Shape
<1>2. /\ conn' \in Wires(Command, Notice) /\ typed' = typed + 1 /\ client[c].state = "running"
      /\ \A d \in Client : d # c => conn'[d] = conn[d] /\ client'[d] = client[d]
      /\ server' = server /\ UNCHANGED <<program, data, quit, merged>>
      /\ \/ client'[c] = q /\ conn'[c].toClient = conn[c].toClient
         \/ client'[c] = Gone
  BY <1>1, TypeWire
<1>3. Learns(c) /\ client'[c].state # "new"
  <2>1. CASE client'[c] = q /\ conn'[c].toClient = conn[c].toClient
    BY <1>2, <2>1 DEF Learns, Grows
  <2>2. CASE client'[c] = Gone
    BY <2>2 DEF Learns, Gone, NewClient
  <2>3. QED
    BY <1>2, <2>1, <2>2
<1>4. \A d \in Client : Learns(d)
  BY <1>1, <1>2, <1>3, OneLearns
<1>5. QED
  BY <1>1, <1>2, <1>3, <1>4 DEF NoneFound

LEMMA ShowsFound ==
  ASSUME Loop, InGame, Game, NEW c \in Client, HangmanShows(c)
  PROVE  NoneFound
<1> DEFINE inbox == conn[c].toClient
           wrong == Head(inbox).kind = "gresit"
           ids   == {inbox[k].id : k \in DOMAIN inbox}
           shown == {inbox[k].letter : k \in {n \in DOMAIN inbox : inbox[n].kind = "litera"}}
           waits == IF wrong THEN {Head(inbox).id} ELSE ids
           read  == [conn[c] EXCEPT !.toClient = <<>>]
           own   == IF wrong THEN client[c].own ELSE client[c].own \cup shown
<1>1. conn \in Wires(Command, Notice) /\ AreClients(client) /\ (server = "up" => ~quit)
  BY DEF InGame, Loop, Shape
<1>2. conn[c] \in Connection(Command, Notice)
  BY <1>1 DEF Wires
<1>3. inbox \in Seq(Notice) /\ inbox # <<>>
  BY Zenon, <1>2 DEF Connection, HangmanShows
<1>4. read \in Connection(Command, Notice)
  <2>1. <<>> \in Seq(Notice)
    OBVIOUS
  <2>2. QED
    BY Zenon, <1>2, <2>1 DEF Connection
<1>5. /\ UNCHANGED <<program, serverVars, typed, quit, added>>
      /\ client[c].state = "running" /\ MergedIf(wrong /\ Len(inbox) > 1, c)
      /\ \/ EndsAt(c, read)
         \/ /\ client' = [client EXCEPT
                             ![c].waits = @ \ waits,
                             ![c].lost = IF wrong THEN @ + 1 ELSE @,
                             ![c].own = IF wrong THEN @ ELSE @ \cup shown]
            /\ conn' = [conn EXCEPT ![c] = read]
  BY Zenon DEF HangmanShows, Running
<1>6. /\ UNCHANGED program /\ UNCHANGED server /\ UNCHANGED typed /\ UNCHANGED quit
      /\ UNCHANGED added
  BY Zenon, <1>5 DEF serverVars
<1>7. merged \subseteq merged' /\ (wrong /\ Len(inbox) > 1 => c \in merged')
  BY Zenon, <1>5 DEF MergedIf
<1>8. CASE EndsAt(c, read)
  <2> HIDE DEF read
  <2>1. /\ conn' \in Wires(Command, Notice) /\ client'[c] = Gone
        /\ \A d \in Client : d # c => conn'[d] = conn[d] /\ client'[d] = client[d]
    BY <1>1, <1>4, <1>8, LeaveWire
  <2>2. client'[c].state = "ended"
    BY <2>1 DEF Gone, NewClient
  <2>3. \A d \in Client : Learns(d)
    <3>1. Learns(c)
      BY <2>2 DEF Learns
    <3>2. QED
      BY <1>1, <1>7, <2>1, <3>1, OneLearns
  <2>4. QED
    BY <1>1, <1>6, <2>1, <2>2, <2>3 DEF NoneFound
<1>9. CASE /\ client' = [client EXCEPT
                             ![c].waits = @ \ waits,
                             ![c].lost = IF wrong THEN @ + 1 ELSE @,
                             ![c].own = IF wrong THEN @ ELSE @ \cup shown]
           /\ conn' = [conn EXCEPT ![c] = read]
  <2>1. client[c] \in [state : {"new", "naming", "running", "waiting", "ended"},
           lost : {client[c].lost}, waits : {client[c].waits}, own : {client[c].own}]
    BY <1>1 DEF AreClients, IsClient
  <2>2. /\ client'[c].state = "running" /\ client'[c].own = own
        /\ \A d \in Client : d # c => client'[d] = client[d]
    <3> HIDE DEF waits, shown, wrong
    <3>1. QED
      BY <1>1, <1>5, <1>9, <2>1 DEF AreClients
  <2>3. conn' \in Wires(Command, Notice) /\ \A d \in Client : d # c => conn'[d] = conn[d]
    <3> HIDE DEF read
    <3>1. QED
      BY Zenon, <1>1, <1>4, <1>9 DEF Wires
  <2>4. CASE wrong /\ Len(inbox) > 1
    <3>1. Learns(c)
      BY <1>7, <2>4 DEF Learns
    <3>2. \A d \in Client : Learns(d)
      BY <1>1, <1>7, <2>2, <2>3, <3>1, OneLearns
    <3>3. QED
      BY <1>1, <1>6, <2>2, <2>3, <3>2 DEF NoneFound
  <2>5. CASE ~(wrong /\ Len(inbox) > 1)
    <3>1. ASSUME NEW k \in DOMAIN inbox, inbox[k].kind = "litera"
          PROVE  inbox[k].letter \in own
      <4>1. CASE wrong
        <5>1. Len(inbox) \in Nat /\ ~(Len(inbox) > 1) /\ k \in 1 .. Len(inbox) /\ Head(inbox) = inbox[1]
          BY <1>3, <2>5, <4>1
        <5>2. k = 1
          BY <5>1
        <5>3. QED
          BY <3>1, <4>1, <5>1, <5>2
      <4>2. CASE ~wrong
        BY <3>1, <4>2
      <4>3. QED
        BY <4>1, <4>2
    <3>2. client[c].own \subseteq own
      OBVIOUS
    <3>3. merged' = merged
      BY Zenon, <1>5, <2>5 DEF MergedIf
    <3>4. Learns(c)
      <4> HIDE DEF own
      <4>1. QED
        BY Zenon, <1>5, <2>2, <3>1, <3>2, <3>3 DEF Learns
    <3>5. \A d \in Client : Learns(d)
      BY <1>1, <1>7, <2>2, <2>3, <3>4, OneLearns
    <3>6. QED
      BY <1>1, <1>6, <2>2, <2>3, <3>5 DEF NoneFound
  <2>6. QED
    BY <2>4, <2>5
<1>10. QED
  BY Zenon, <1>5, <1>8, <1>9

LEMMA ReceiveFound ==
  ASSUME Loop, InGame, Game, NEW c \in Client, HangmanReceive(c)
  PROVE  NoneFound
<1>1. conn \in Wires(Command, Notice) /\ AreClients(client) /\ (server = "up" => ~quit)
  BY DEF InGame, Loop, Shape
<1>2. CASE HangmanShows(c)
  BY <1>2, ShowsFound
<1>3. CASE ReportsReset(c)
  <2>1. /\ conn' \in Wires(Command, Notice) /\ conn'[c].toClient = conn[c].toClient
        /\ \A d \in Client : d # c => conn'[d] = conn[d]
        /\ server' = server /\ UNCHANGED <<program, data, client, typed, histories>>
    BY <1>1, <1>3, ReportsWire
  <2>2. UNCHANGED quit /\ UNCHANGED merged /\ UNCHANGED added
    BY <2>1 DEF histories
  <2>3. \A d \in Client : Learns(d)
    BY <2>1, <2>2, AllLearn DEF Grows
  <2>4. QED
    BY <1>1, <2>1, <2>2, <2>3 DEF NoneFound
<1>4. CASE NoticesEnd(c, {"fin", "dead"})
  <2>1. EndsAt(c, conn[c]) /\ UNCHANGED <<program, serverVars, typed, histories>>
    BY <1>4 DEF NoticesEnd, Ends
  <2>2. /\ UNCHANGED program /\ UNCHANGED server /\ UNCHANGED typed
        /\ UNCHANGED quit /\ UNCHANGED merged /\ UNCHANGED added
    BY <2>1 DEF serverVars, histories
  <2>3. conn[c] \in Connection(Command, Notice)
    BY <1>1 DEF Wires
  <2>4. /\ conn' \in Wires(Command, Notice)
        /\ \A d \in Client : d # c => conn'[d] = conn[d] /\ client'[d] = client[d]
        /\ client'[c] = Gone
    BY <1>1, <2>1, <2>3, LeaveWire
  <2>5. client'[c].state = "ended"
    BY <2>4 DEF Gone, NewClient
  <2>6. \A d \in Client : Learns(d)
    <3>1. Learns(c)
      BY <2>5 DEF Learns
    <3>2. QED
      BY <1>1, <2>2, <2>4, <3>1, OneLearns
  <2>7. QED
    BY <1>1, <2>2, <2>4, <2>5, <2>6 DEF NoneFound
<1>5. QED
  BY <1>2, <1>3, <1>4 DEF HangmanReceive

\* Message m to everybody.
LEMMA AllWire ==
  ASSUME NEW k \in Wires(Command, Notice), NEW m \in Notice
  PROVE  /\ SentToAll(k, m).conn \in Wires(Command, Notice)
         /\ \A c \in Client :
              /\ \/ SentToAll(k, m).conn[c].toClient = k[c].toClient
                 \/ SentToAll(k, m).conn[c].toClient = k[c].toClient \o <<m>>
              /\ k[c].peer = "open" => SentToAll(k, m).conn[c].peer = "open"
              /\ /\ SentToAll(k, m).alive /\ k[c].peer = "open"
                 /\ \E f \in Fd : sock[f] # Free /\ sock[f] = c
                 => SentToAll(k, m).conn[c].toClient = k[c].toClient \o <<m>>
<1> DEFINE told == SentToAll(k, m).conn
           ms == <<m>>
<1>1. /\ told = [d \in Client |-> IF \E f \in Reached(k) : sock[f] = d
                                  THEN ServerSends(k[d], ms) ELSE k[d]]
      /\ SentToAll(k, m).alive => Reached(k) = Everybody
  BY DEF SentToAll
<1>2. ms \in Seq(Notice) /\ \A d \in Client : k[d] \in Connection(Command, Notice)
  BY DEF Wires
<1> HIDE DEF ms
<1>3. \A d \in Client : ServerSends(k[d], ms) \in Connection(Command, Notice)
  BY <1>2, ServerSendsEffect
<1>4. told \in Wires(Command, Notice)
  BY <1>1, <1>2, <1>3 DEF Wires
<1>5. ASSUME NEW c \in Client
      PROVE  /\ told[c].toClient = k[c].toClient \/ told[c].toClient = k[c].toClient \o ms
             /\ k[c].peer = "open" => told[c].peer = "open"
             /\ /\ SentToAll(k, m).alive /\ k[c].peer = "open"
                /\ \E f \in Fd : sock[f] # Free /\ sock[f] = c
                => told[c].toClient = k[c].toClient \o ms
  <2>1. /\ k[c].peer = "open" => /\ ServerSends(k[c], ms).peer = "open"
                                 /\ ServerSends(k[c], ms).toClient = k[c].toClient \o ms
        /\ k[c].peer # "open" => ServerSends(k[c], ms).toClient = k[c].toClient
    BY <1>2, ServerSendsEffect
  <2>2. told[c] = IF \E f \in Reached(k) : sock[f] = c THEN ServerSends(k[c], ms) ELSE k[c]
    BY <1>1
  <2>3. (\E f \in Fd : sock[f] # Free /\ sock[f] = c) => \E f \in Everybody : sock[f] = c
    BY DEF Everybody
  <2> HIDE DEF told
  <2>4. CASE told[c] = k[c] /\ ~\E f \in Reached(k) : sock[f] = c
    BY <1>1, <2>3, <2>4
  <2>5. CASE told[c] = ServerSends(k[c], ms)
    BY <2>1, <2>5
  <2>6. QED
    BY <2>2, <2>4, <2>5
<1>6. QED
  BY <1>4, <1>5 DEF ms

\* A letter was found: who is connected is told, or the server ends.
LetterFound(x) ==
    /\ conn' \in Wires(Command, Notice)
    /\ UNCHANGED <<program, client, typed>> /\ merged \subseteq merged'
    /\ added' = added \cup {<<sock[f], x>> : f \in {g \in Fd : sock[g] # Free}}
    /\ server' = "up" => ~quit'
    /\ \A c \in Client : Grows(c)
    /\ server' = "up" \/ quit' =>
          \A c \in Client : conn[c].peer = "open" /\ (\E f \in Fd : sock[f] # Free /\ sock[f] = c) =>
              \E k \in DOMAIN conn'[c].toClient :
                  conn'[c].toClient[k].kind = "litera" /\ conn'[c].toClient[k].letter = x

LEMMA LetterFoundKeeps ==
  ASSUME Loop, InGame, AlwaysTold, Game, server = "up", NEW x, LetterFound(x)
  PROVE  InGame' /\ AlwaysTold'
<1>1. /\ typed \in Nat /\ program' = program /\ program = "hangman" /\ client' = client
      /\ typed' = typed
      /\ \A c \in Client, l \in Letter : client[c].state = "new" => <<c, l>> \notin added
  BY DEF InGame, Game, LetterFound
<1>2. ASSUME NEW c \in Client, NEW l \in Letter, <<c, l>> \in added'
      PROVE  \/ <<c, l>> \in added
             \/ l = x /\ \E f \in Fd : sock[f] # Free /\ sock[f] = c
  BY <1>2 DEF LetterFound
<1>3. InGame'
  <2>1. ASSUME NEW c \in Client, NEW l \in Letter, client[c].state = "new"
        PROVE  <<c, l>> \notin added'
    BY <1>1, <1>2, <2>1 DEF Loop, Seats
  <2>2. QED
    BY <1>1, <2>1 DEF InGame, Game, LetterFound
<1>4. ASSUME server' = "up" \/ quit', NEW c \in Client, NEW l \in Letter,
             <<c, l>> \in added', client[c].state = "running", c \notin merged'
      PROVE  \/ l \in client[c].own
             \/ \E k \in DOMAIN conn'[c].toClient :
                   conn'[c].toClient[k].kind = "litera" /\ conn'[c].toClient[k].letter = l
  <2>1. CASE <<c, l>> \in added
    <3>1. c \notin merged
      BY <1>4 DEF LetterFound
    <3>2. \/ l \in client[c].own
          \/ \E k \in DOMAIN conn[c].toClient :
                conn[c].toClient[k].kind = "litera" /\ conn[c].toClient[k].letter = l
      BY <1>1, <1>4, <2>1, <3>1 DEF AlwaysTold, Game, Running
    <3>3. QED
      BY <3>2 DEF LetterFound, Grows
  <2>2. CASE l = x /\ \E f \in Fd : sock[f] # Free /\ sock[f] = c
    <3>1. conn[c].peer = "open"
      BY <1>4 DEF Loop, Peers
    <3>2. QED
      BY <1>4, <2>2, <3>1 DEF LetterFound
  <2>3. QED
    BY <1>2, <1>4, <2>1, <2>2
<1>5. AlwaysTold'
  BY <1>1, <1>4 DEF AlwaysTold, Game, Running
<1>6. QED
  BY <1>3, <1>5

\* The last element of what has been sent.
LEMMA LastSent ==
  ASSUME NEW P, NEW s \in Seq(P), NEW m \in P
  PROVE  LET t == s \o <<m>> IN \E k \in DOMAIN t : t[k] = m
<1> DEFINE t == s \o <<m>>
<1>1. <<m>> \in Seq(P) /\ Len(<<m>>) = 1 /\ <<m>>[1] = m
  OBVIOUS
<1>2. /\ t \in Seq(P) /\ Len(t) = Len(s) + 1 /\ Len(s) \in Nat
      /\ \A k \in 1 .. Len(s) + 1 : t[k] = IF k <= Len(s) THEN s[k] ELSE <<m>>[k - Len(s)]
  BY <1>1, ConcatProperties
<1> HIDE DEF t
<1>3. DOMAIN t = 1 .. Len(s) + 1
  BY <1>2
<1>4. Len(s) + 1 \in 1 .. Len(s) + 1 /\ ~(Len(s) + 1 <= Len(s)) /\ Len(s) + 1 - Len(s) = 1
  BY <1>2
<1>5. t[Len(s) + 1] = m
  BY <1>1, <1>2, <1>4
<1>6. QED
  BY <1>3, <1>4, <1>5 DEF t

\* What client c finds on its way after m has been sent to everybody.
LEMMA ToldGrows ==
  ASSUME NEW k \in Wires(Command, Notice), NEW m \in Notice, NEW c \in Client
  PROVE  /\ \A n \in DOMAIN k[c].toClient :
              /\ n \in DOMAIN SentToAll(k, m).conn[c].toClient
              /\ SentToAll(k, m).conn[c].toClient[n] = k[c].toClient[n]
         /\ SentToAll(k, m).alive /\ k[c].peer = "open" /\ (\E f \in Fd : sock[f] # Free /\ sock[f] = c)
               => \E n \in DOMAIN SentToAll(k, m).conn[c].toClient :
                     SentToAll(k, m).conn[c].toClient[n] = m
<1> DEFINE told == SentToAll(k, m).conn[c].toClient
           ms == <<m>>
           s == k[c].toClient
           t == s \o ms
<1>1. /\ told = s \/ told = t
      /\ SentToAll(k, m).alive /\ k[c].peer = "open" /\ (\E f \in Fd : sock[f] # Free /\ sock[f] = c)
               => told = t
  <2>1. k \in Wires(Command, Notice) /\ m \in Notice /\ c \in Client
    OBVIOUS
  <2>2. told = s \/ told = t
    BY <2>1, AllWire
  <2>3. SentToAll(k, m).alive /\ k[c].peer = "open" /\ (\E f \in Fd : sock[f] # Free /\ sock[f] = c)
               => told = t
    BY <2>1, AllWire
  <2>4. QED
    BY <2>2, <2>3
<1>2. s \in Seq(Notice) /\ ms \in Seq(Notice)
  BY DEF Wires, Connection
<1>3. \E n \in DOMAIN t : t[n] = m
  BY <1>2, LastSent
<1> HIDE DEF ms, s
<1>4. \A n \in DOMAIN s : n \in DOMAIN t /\ t[n] = s[n]
  BY <1>2, AppendGrows
<1> HIDE DEF t, told
<1>5. \A n \in DOMAIN s : n \in DOMAIN told /\ told[n] = s[n]
  BY <1>1, <1>4
<1>6. SentToAll(k, m).alive /\ k[c].peer = "open" /\ (\E f \in Fd : sock[f] # Free /\ sock[f] = c)
               => \E n \in DOMAIN told : told[n] = m
  BY <1>1, <1>3
<1>7. QED
  BY SMTT(30), <1>5, <1>6 DEF told, s

LEMMA GuessFound ==
  ASSUME Loop, InGame, AlwaysTold, Game, GuessLetter
  PROVE  NoneFound \/ \E x : LetterFound(x)
<1>1. conn \in Wires(Command, Notice) /\ (server = "up" => ~quit)
  BY DEF InGame
<1>2. PICK i \in Fd, c \in Client :
        LET m       == Head(conn[c].toServer)
            refused == i = data.first_client \/ data.ghiceste = NoWord
            hit     == m.letter \in data.ghiceste
            ghicit  == data.ghicit \cup {m.letter}
            found   == ghicit = data.ghiceste
            told    == SentToAll(Read(c), [id |-> m.id, kind |-> "litera", letter |-> m.letter])
            won     == SentToAll(told.conn, [id |-> 0, kind |-> "felicitari"])
        IN  /\ Game
            /\ Arrived(i, c) /\ m.verb = "guess"
            /\ \/ refused /\ Answer(i, c, Refusal(m)) /\ UNCHANGED <<quit, added>>
               \/ /\ ~refused /\ ~hit
                  /\ Answer(i, c, [id |-> m.id, kind |-> "gresit"])
                  /\ UNCHANGED <<quit, added>>
               \/ /\ ~refused /\ hit
                  /\ added' = added \cup {<<sock[f], m.letter>> : f \in {g \in Fd : sock[g] # Free}}
                  /\ \/ ~told.alive /\ ServerEnds(told.conn) /\ UNCHANGED quit
                     \/ told.alive /\ found /\ ServerEnds(won.conn) /\ quit' = won.alive
                     \/ /\ told.alive /\ ~found
                        /\ Served(i, told.conn)
                        /\ data' = [data EXCEPT !.ghicit = ghicit]
                        /\ UNCHANGED quit
  BY Zenon DEF GuessLetter
<1> DEFINE m == Head(conn[c].toServer)
           news == [id |-> m.id, kind |-> "litera", letter |-> m.letter]
           last == [id |-> 0, kind |-> "felicitari"]
           told == SentToAll(Read(c), news)
           won  == SentToAll(told.conn, last)
<1>3. m \in Command /\ m.verb = "guess" /\ server = "up" /\ merged \subseteq merged'
  BY <1>2, HeadTyped
<1>4. m.id \in Nat /\ m.letter \in Letter
  BY <1>3 DEF Command
<1>5. /\ Refusal(m) \in Notice /\ news \in Notice /\ last \in Notice
      /\ [id |-> m.id, kind |-> "gresit"] \in Notice
      /\ news.kind = "litera" /\ news.letter = m.letter
  BY SMTT(30), <1>4 DEF Notice, Refusal
<1>6. \/ (\E a \in Notice : Answer(i, c, a)) /\ UNCHANGED <<quit, added>>
      \/ /\ added' = added \cup {<<sock[f], m.letter>> : f \in {g \in Fd : sock[g] # Free}}
         /\ \/ ServerEnds(told.conn) /\ UNCHANGED quit
            \/ told.alive /\ ServerEnds(won.conn)
            \/ told.alive /\ Served(i, told.conn) /\ UNCHANGED quit
  BY <1>2, <1>5
<1>7. CASE (\E a \in Notice : Answer(i, c, a)) /\ UNCHANGED <<quit, added>>
  BY <1>3, <1>7, AnswerFound
<1>8. CASE /\ added' = added \cup {<<sock[f], m.letter>> : f \in {g \in Fd : sock[g] # Free}}
           /\ \/ ServerEnds(told.conn) /\ UNCHANGED quit
              \/ told.alive /\ ServerEnds(won.conn)
              \/ told.alive /\ Served(i, told.conn) /\ UNCHANGED quit
  <2> DEFINE x == m.letter
             r == Read(c)
  <2>1. /\ r \in Wires(Command, Notice)
        /\ \A d \in Client : r[d].toClient = conn[d].toClient /\ r[d].peer = conn[d].peer
    BY <1>1, ReadWire
  <2> HIDE DEF news, last, r
  <2>2. /\ told.conn \in Wires(Command, Notice)
        /\ \A d \in Client : r[d].peer = "open" => told.conn[d].peer = "open"
    BY <1>5, <2>1, AllWire DEF r, Client
  <2>3. \A d \in Client :
          /\ \A n \in DOMAIN r[d].toClient :
              /\ n \in DOMAIN told.conn[d].toClient
              /\ told.conn[d].toClient[n] = r[d].toClient[n]
          /\ told.alive /\ r[d].peer = "open" /\ (\E f \in Fd : sock[f] # Free /\ sock[f] = d)
               => \E n \in DOMAIN told.conn[d].toClient : told.conn[d].toClient[n] = news
    BY <1>5, <2>1, ToldGrows DEF r
  <2> HIDE DEF told
  <2>4. \A d \in Client :
          /\ won.conn \in Wires(Command, Notice)
          /\ \A n \in DOMAIN told.conn[d].toClient :
              /\ n \in DOMAIN won.conn[d].toClient
              /\ won.conn[d].toClient[n] = told.conn[d].toClient[n]
    <3> SUFFICES ASSUME NEW d \in Client
                 PROVE  /\ won.conn \in Wires(Command, Notice)
                        /\ \A n \in DOMAIN told.conn[d].toClient :
                             /\ n \in DOMAIN won.conn[d].toClient
                             /\ won.conn[d].toClient[n] = told.conn[d].toClient[n]
      OBVIOUS
    <3> DEFINE k == told.conn
    <3>1. k \in Wires(Command, Notice) /\ last \in Notice
      BY <1>5, <2>2
    <3> HIDE DEF k
    <3>2. SentToAll(k, last).conn \in Wires(Command, Notice)
      BY <3>1, AllWire
    <3>3. \A n \in DOMAIN k[d].toClient :
            /\ n \in DOMAIN SentToAll(k, last).conn[d].toClient
            /\ SentToAll(k, last).conn[d].toClient[n] = k[d].toClient[n]
      BY <3>1, ToldGrows
    <3>4. QED
      BY <3>2, <3>3 DEF k
  <2> HIDE DEF won
  <2>5. ASSUME NEW k \in Wires(Command, Notice),
               \A d \in Client : conn'[d].toClient = k[d].toClient,
               \A d \in Client : \A n \in DOMAIN told.conn[d].toClient :
                  n \in DOMAIN k[d].toClient /\ k[d].toClient[n] = told.conn[d].toClient[n]
        PROVE  /\ \A d \in Client : Grows(d)
               /\ told.alive => \A d \in Client :
                    conn[d].peer = "open" /\ (\E f \in Fd : sock[f] # Free /\ sock[f] = d) =>
                      \E n \in DOMAIN conn'[d].toClient :
                        conn'[d].toClient[n].kind = "litera" /\ conn'[d].toClient[n].letter = x
    <3>1. \A d \in Client : \A n \in DOMAIN conn[d].toClient :
            n \in DOMAIN k[d].toClient /\ k[d].toClient[n] = conn[d].toClient[n]
      BY <2>1, <2>3, <2>5
    <3>2. \A d \in Client : Grows(d)
      BY <2>5, <3>1 DEF Grows
    <3>3. ASSUME told.alive, NEW d \in Client, conn[d].peer = "open",
                 \E f \in Fd : sock[f] # Free /\ sock[f] = d
          PROVE  \E n \in DOMAIN conn'[d].toClient :
                   conn'[d].toClient[n].kind = "litera" /\ conn'[d].toClient[n].letter = x
      <4>1. PICK n \in DOMAIN told.conn[d].toClient : told.conn[d].toClient[n] = news
        BY <2>1, <2>3, <3>3
      <4>2. n \in DOMAIN k[d].toClient /\ k[d].toClient[n] = news
        BY <2>5, <4>1
      <4>3. QED
        BY <1>5, <2>5, <4>2
    <3>4. QED
      BY <3>2, <3>3
  <2>6. CASE ServerEnds(told.conn) /\ UNCHANGED quit
    <3>1. /\ conn' \in Wires(Command, Notice) /\ server' = "down"
          /\ \A d \in Client : conn'[d].toClient = told.conn[d].toClient
          /\ UNCHANGED <<program, data, client, typed>>
      BY <2>2, <2>6, EndWire
    <3>2. \A d \in Client : Grows(d)
      BY <2>2, <2>5, <3>1
    <3>3. ~quit'
      BY <1>1, <1>3, <2>6
    <3>4. LetterFound(x)
      BY <1>3, <1>8, <3>1, <3>2, <3>3 DEF LetterFound
    <3>5. QED
      BY <3>4
  <2>7. CASE told.alive /\ ServerEnds(won.conn)
    <3>0. won.conn \in Wires(Command, Notice)
      BY <2>4, NIsNat DEF Client
    <3>1. /\ conn' \in Wires(Command, Notice) /\ server' = "down"
          /\ \A d \in Client : conn'[d].toClient = won.conn[d].toClient
          /\ UNCHANGED <<program, data, client, typed>>
      BY <2>7, <3>0, EndWire
    <3>2. /\ \A d \in Client : Grows(d)
          /\ \A d \in Client :
               conn[d].peer = "open" /\ (\E f \in Fd : sock[f] # Free /\ sock[f] = d) =>
                      \E n \in DOMAIN conn'[d].toClient :
                        conn'[d].toClient[n].kind = "litera" /\ conn'[d].toClient[n].letter = x
      BY <2>4, <2>5, <2>7, <3>0, <3>1
    <3>3. LetterFound(x)
      BY <1>3, <1>8, <3>1, <3>2 DEF LetterFound
    <3>4. QED
      BY <3>3
  <2>8. CASE told.alive /\ Served(i, told.conn) /\ UNCHANGED quit
    <3>1. conn' = told.conn /\ UNCHANGED <<program, server, client, typed>>
      BY <2>8 DEF Served
    <3>2. /\ \A d \in Client : Grows(d)
          /\ \A d \in Client :
               conn[d].peer = "open" /\ (\E f \in Fd : sock[f] # Free /\ sock[f] = d) =>
                      \E n \in DOMAIN conn'[d].toClient :
                        conn'[d].toClient[n].kind = "litera" /\ conn'[d].toClient[n].letter = x
      BY <2>2, <2>5, <2>8, <3>1
    <3>3. ~quit' /\ conn' \in Wires(Command, Notice)
      BY <1>1, <1>3, <2>2, <2>8, <3>1
    <3>4. LetterFound(x)
      BY <1>3, <1>8, <3>1, <3>2, <3>3 DEF LetterFound
    <3>5. QED
      BY <3>4
  <2>9. QED
    BY <1>8, <2>6, <2>7, <2>8
<1>9. QED
  BY <1>6, <1>7, <1>8

LEMMA NextFound ==
  ASSUME Loop, InGame, AlwaysTold, Game, HangmanNext
  PROVE  NoneFound \/ \E x : LetterFound(x) /\ server = "up"
<1>1. conn \in Wires(Command, Notice) /\ (server = "up" => ~quit) /\ typed \in Nat
  BY DEF InGame
<1>2. CASE HangmanAccept
  <2>1. UNCHANGED <<program, server, conn, client, typed, histories>>
    BY <1>2 DEF HangmanAccept, Accept
  <2>2. UNCHANGED quit /\ UNCHANGED merged /\ UNCHANGED added
    BY <2>1 DEF histories
  <2>3. \A c \in Client : Learns(c)
    BY <2>1, <2>2, AllLearn DEF Grows
  <2>4. QED
    BY <1>1, <2>1, <2>2, <2>3 DEF NoneFound
<1>3. CASE HangmanHangup
  <2>1. PICK i \in Fd, c \in Client :
          \/ Hangup(i, c)
          \/ EndOf(i, c) /\ ServerEnds(conn) /\ UNCHANGED histories
    BY <1>3 DEF HangmanHangup
  <2>2. CASE Hangup(i, c)
    <3>1. /\ conn' \in Wires(Command, Notice)
          /\ conn'[c].toClient = conn[c].toClient
          /\ \A d \in Client : d # c => conn'[d] = conn[d]
          /\ server' = server /\ UNCHANGED <<program, client, typed, histories>>
      BY <1>1, <2>2, HangupWire
    <3>2. UNCHANGED quit /\ UNCHANGED merged /\ UNCHANGED added
      BY <3>1 DEF histories
    <3>3. \A d \in Client : Learns(d)
      BY <3>1, <3>2, AllLearn DEF Grows
    <3>4. QED
      BY <1>1, <3>1, <3>2, <3>3 DEF NoneFound
  <2>3. CASE EndOf(i, c) /\ ServerEnds(conn) /\ UNCHANGED histories
    <3>1. server = "up" /\ UNCHANGED added /\ merged' = merged
      BY <2>3 DEF EndOf, At, histories
    <3>2. QED
      BY <1>1, <2>3, <3>1, EndNoneFound
  <2>4. QED
    BY <2>1, <2>2, <2>3
<1>4. CASE Stop
  <2>1. server = "up" /\ UNCHANGED added /\ merged' = merged /\ ServerEnds(conn)
    BY <1>4 DEF Stop
  <2>2. QED
    BY <1>1, <2>1, EndNoneFound
<1>5. CASE SetWord
  BY <1>5, SetFound
<1>6. CASE GuessLetter
  <2>1. server = "up"
    BY Zenon, <1>6 DEF GuessLetter, Arrived, At
  <2>2. QED
    BY <1>6, <2>1, GuessFound
<1>7. ASSUME NEW c \in Client, NEW w \in Word \cup {NoWord}, TypeWord(c, w) PROVE NoneFound
  <2> DEFINE m == [id |-> 0, verb |-> "set", word |-> w]
  <2>1. m \in Command /\ TypeAndSend(c, m, client[c]) /\ UNCHANGED added
    BY <1>7 DEF Command, TypeWord
  <2> HIDE DEF m
  <2>2. QED
    BY <2>1, TypeFound
<1>8. ASSUME NEW c \in Client, NEW l \in Letter, TypeGuess(c, l) PROVE NoneFound
  <2> DEFINE m == [id |-> typed + 1, verb |-> "guess", letter |-> l]
             waits == client[c].waits \cup {typed + 1}
             q == [client[c] EXCEPT !.waits = waits]
  <2>1. m \in Command /\ TypeAndSend(c, m, q) /\ UNCHANGED added
    BY <1>1, <1>8 DEF Command, TypeGuess
  <2>2. q.state = client[c].state /\ q.own = client[c].own
    <3> HIDE DEF waits
    <3>1. IsClient(client[c])
      BY DEF Loop, Shape, AreClients
    <3>2. QED
      BY <3>1 DEF IsClient
  <2> HIDE DEF m, q
  <2>3. QED
    BY <2>1, <2>2, TypeFound
<1>9. QED
  BY <1>2, <1>3, <1>4, <1>5, <1>6, <1>7, <1>8, ConnectFound, ReceiveFound
     DEF HangmanNext, HangmanServer

LEMMA LettersKeep ==
  ASSUME Loop, InGame, AlwaysTold, Next
  PROVE  InGame' /\ AlwaysTold'
<1>1. UNCHANGED program
  BY NextSeats DEF Loop, SeatStep
<1>2. CASE Game
  <2>1. HangmanNext \/ CommonNext
    BY <1>2, NextCases DEF Relays, NameServers, RelayNext, ListNext, NamesNext, LockstepNext,
       HttpNext, MailNext, Chat, Game, Chat7, Http, Smtp
  <2>2. NoneFound \/ \E x : LetterFound(x) /\ server = "up"
    BY <1>2, <2>1, NextFound, CommonFound
  <2>3. QED
    BY <1>2, <2>2, NoneFoundKeeps, LetterFoundKeeps
<1>3. CASE ~Game
  BY <1>1, <1>3 DEF InGame, AlwaysTold, Game
<1>4. QED
  BY <1>2, <1>3

-----------------------------------------------------------------------------
(* The answers of the name server.                                         *)

Add == [id : Nat, verb : {"add"}, kind : Kind, host : Host, value : Value]
Get == [id : Nat, verb : {"get"}, kind : Kind, host : Host, own : SUBSET Value]

NameReply == [id : Nat, kind : Kind, host : Host, own : SUBSET Value, values : Seq(Value)]

Tables == [no_clients : Int, map : [Kind -> [Host \cup {Junk} -> Seq(Value)]]]

\* The server knows value v for h when it comes to the n-th command of client c:
\* it is in the map, or one of the commands before adds it.
Known(c, n, h, v) ==
    \/ v \in ToSet(data.map["address"][h])
    \/ \E j \in DOMAIN conn[c].toServer :
          /\ j < n /\ conn[c].toServer[j].verb = "add" /\ conn[c].toServer[j].kind = "address"
          /\ conn[c].toServer[j].host = h /\ conn[c].toServer[j].value = v

MapTyped ==
    \A kind \in Kind, h \in Host \cup {Junk} : \A v \in ToSet(data.map[kind][h]) :
        <<kind, h, v>> \in added

Asked(c) ==
    \A k \in DOMAIN conn[c].toServer :
        LET m == conn[c].toServer[k]
        IN  /\ m.verb = "add" => <<m.kind, m.host, m.value>> \in added
            /\ m.verb = "get" => \A v \in m.own : m.kind = "address" /\ Known(c, k, m.host, v)

Owned(c) ==
    /\ client[c].own \subseteq Host \X Value
    /\ client[c].state = "new" => client[c].own = {}
    /\ conn[c].end = "open" =>
          \A e \in client[c].own : Known(c, Len(conn[c].toServer) + 1, e[1], e[2])

Answered(c) ==
    \A k \in DOMAIN conn[c].toClient :
        LET r == conn[c].toClient[k]
        IN  /\ \A v \in ToSet(r.values) : <<r.kind, r.host, v>> \in added
            /\ r.own \subseteq ToSet(r.values)

\* What is in the maps was typed; what a client says it has added is in the maps
\* when the server reads that.
NamesKnown ==
    program = "dns_server" /\ merged = {} =>
        /\ typed \in Nat /\ conn \in Wires(Add \cup Get, NameReply) /\ data \in Tables
        /\ MapTyped
        /\ \A c \in Client : Asked(c) /\ Owned(c) /\ Answered(c)

LEMMA QueriesTyped ==
  ASSUME conn \in Wires(Add \cup Get, NameReply), NEW c \in Client
  PROVE  /\ conn[c].toServer \in Seq(Add \cup Get) /\ conn[c].toClient \in Seq(NameReply)
         /\ conn[c] \in Connection(Add \cup Get, NameReply)
<1>1. conn[c] \in Connection(Add \cup Get, NameReply)
  BY DEF Wires
<1>2. QED
  BY <1>1 DEF Connection

\* The addresses the server knows stay known: none is taken out of the map, and
\* of the commands before the n-th none is lost.
LEMMA KnownStays ==
  ASSUME NEW c \in Client, NEW n, NEW l, NEW h, NEW v, Known(c, n, h, v),
         ToSet(data.map["address"][h]) \subseteq ToSet(data'.map["address"][h]),
         \A j \in DOMAIN conn[c].toServer : j < n =>
            /\ j \in DOMAIN conn'[c].toServer /\ j < l
            /\ conn'[c].toServer[j] = conn[c].toServer[j]
  PROVE  \/ v \in ToSet(data'.map["address"][h])
         \/ \E j \in DOMAIN conn'[c].toServer :
              /\ j < l /\ conn'[c].toServer[j].verb = "add"
              /\ conn'[c].toServer[j].kind = "address"
              /\ conn'[c].toServer[j].host = h /\ conn'[c].toServer[j].value = v
<1>1. CASE v \in ToSet(data.map["address"][h])
  BY <1>1
<1>2. CASE v \notin ToSet(data.map["address"][h])
  <2>1. PICK j \in DOMAIN conn[c].toServer :
          /\ j < n /\ conn[c].toServer[j].verb = "add" /\ conn[c].toServer[j].kind = "address"
          /\ conn[c].toServer[j].host = h /\ conn[c].toServer[j].value = v
    BY <1>2 DEF Known
  <2>2. /\ j \in DOMAIN conn'[c].toServer /\ j < l
        /\ conn'[c].toServer[j] = conn[c].toServer[j]
    BY <2>1
  <2>3. QED
    BY <2>1, <2>2
<1>3. QED
  BY <1>1, <1>2

\* Of what concerns client c nothing is new, and what the client sent is not
\* taken from it unless its connection ends.
Fades(c) ==
    /\ conn'[c].toClient \in {conn[c].toClient, <<>>}
    /\ \/ conn'[c].toServer = conn[c].toServer
       \/ conn'[c].toServer = <<>> /\ (conn'[c].end # "open" \/ client'[c].own = {})
    /\ conn'[c].end = "open" => conn[c].end = "open"
    /\ client'[c].own \subseteq client[c].own
    /\ client'[c].state = "new" => client[c].state = "new"

\* The three parts of the invariant that speak of client c, for a step that does
\* not touch the map.
LEMMA FadesKnown ==
  ASSUME conn \in Wires(Add \cup Get, NameReply), NEW c \in Client, Asked(c), Owned(c), Answered(c),
         Fades(c), data'.map = data.map, added \subseteq added'
  PROVE  Asked(c)' /\ Owned(c)' /\ Answered(c)'
<1>1. conn[c].toServer \in Seq(Add \cup Get) /\ DOMAIN <<>> = {}
  BY QueriesTyped
<1>2. Answered(c)'
  BY <1>1 DEF Answered, Fades
<1>3. CASE conn'[c].toServer = conn[c].toServer
  <2>1. \A n, h, v : Known(c, n, h, v) => Known(c, n, h, v)'
    BY <1>3 DEF Known
  <2>2. Asked(c)'
    BY <1>3, <2>1 DEF Asked
  <2>3. Owned(c)'
    BY <1>3, <2>1 DEF Owned, Fades
  <2>4. QED
    BY <1>2, <2>2, <2>3
<1>4. CASE conn'[c].toServer = <<>> /\ (conn'[c].end # "open" \/ client'[c].own = {})
  <2>1. Asked(c)'
    BY <1>1, <1>4 DEF Asked
  <2>2. Owned(c)'
    BY <1>4 DEF Owned, Fades
  <2>3. QED
    BY <1>2, <2>1, <2>2
<1>5. QED
  BY <1>3, <1>4 DEF Fades

LEMMA AllFade ==
  ASSUME NamesKnown, program = "dns_server", merged = {}, UNCHANGED program, typed' \in Nat,
         conn' \in Wires(Add \cup Get, NameReply), data' \in Tables, data'.map = data.map,
         UNCHANGED added, \A c \in Client : Fades(c)
  PROVE  NamesKnown'
<1>1. /\ conn \in Wires(Add \cup Get, NameReply) /\ MapTyped
      /\ \A c \in Client : Asked(c) /\ Owned(c) /\ Answered(c)
  BY DEF NamesKnown
<1>2. \A c \in Client : Asked(c)' /\ Owned(c)' /\ Answered(c)'
  BY <1>1, FadesKnown
<1>3. MapTyped'
  BY Zenon, <1>1 DEF MapTyped
<1>4. QED
  BY <1>2, <1>3 DEF NamesKnown

LEMMA SameFades ==
  ASSUME NEW c \in Client, conn'[c] = conn[c], client'[c] = client[c]
  PROVE  Fades(c)
BY DEF Fades

LEMMA EndKnown ==
  ASSUME NamesKnown, program = "dns_server", merged = {},
         NEW k \in Wires(Add \cup Get, NameReply), ServerEnds(k), UNCHANGED added,
         \A c \in Client :
            /\ k[c].toClient = conn[c].toClient /\ k[c].end = conn[c].end
            /\ \/ k[c].toServer = conn[c].toServer
               \/ k[c].toServer = <<>> /\ client[c].state # "new"
  PROVE  NamesKnown'
<1>1. typed \in Nat /\ data \in Tables
  BY DEF NamesKnown
<1>2. /\ conn' \in Wires(Add \cup Get, NameReply)
      /\ \A c \in Client :
            /\ conn'[c].toClient = k[c].toClient
            /\ conn'[c].toServer \in {k[c].toServer, <<>>}
            /\ IF client[c].state = "new" THEN conn'[c] = k[c] ELSE conn'[c].end # "open"
      /\ UNCHANGED <<program, data, client, typed>>
  BY EndWire
<1>3. ASSUME NEW c \in Client PROVE Fades(c)
  <2>1. CASE client[c].state = "new"
    <3>1. conn'[c] = k[c]
      BY <1>2, <2>1
    <3>2. conn'[c].toServer = conn[c].toServer
      BY <2>1, <3>1
    <3>3. QED
      BY <1>2, <3>1, <3>2 DEF Fades
  <2>2. CASE client[c].state # "new"
    <3>1. conn'[c].end # "open"
      BY <1>2, <2>2
    <3>2. conn'[c].toServer = conn[c].toServer \/ conn'[c].toServer = <<>>
      BY <1>2
    <3>3. QED
      BY <1>2, <3>1, <3>2 DEF Fades
  <2>3. QED
    BY <2>1, <2>2
<1>4. QED
  BY <1>1, <1>2, <1>3, AllFade

LEMMA LeaveKnown ==
  ASSUME Loop, NamesKnown, program = "dns_server", merged = {}, NEW c \in Client,
         EndsAt(c, conn[c]), UNCHANGED <<program, data, added>>, typed' \in Nat
  PROVE  NamesKnown'
<1>1. conn \in Wires(Add \cup Get, NameReply) /\ AreClients(client) /\ data \in Tables
  BY DEF NamesKnown, Loop, Shape
<1>2. conn[c] \in Connection(Add \cup Get, NameReply)
  BY <1>1, QueriesTyped
<1>3. /\ conn' \in Wires(Add \cup Get, NameReply)
      /\ conn'[c].toClient = <<>> /\ conn'[c].toServer = conn[c].toServer
      /\ conn'[c].end = conn[c].end
      /\ \A d \in Client : d # c => conn'[d] = conn[d] /\ client'[d] = client[d]
      /\ client'[c] = Gone
  BY <1>1, <1>2, LeaveWire
<1>4. client'[c].own = {} /\ client'[c].state = "ended"
  BY <1>3 DEF Gone, NewClient
<1>5. Fades(c)
  BY <1>3, <1>4 DEF Fades
<1>6. \A d \in Client : Fades(d)
  BY <1>3, <1>5, SameFades
<1>7. QED
  BY <1>1, <1>3, <1>6, AllFade

LEMMA CommonKnown ==
  ASSUME Loop, NamesKnown, program = "dns_server", merged = {}, CommonNext
  PROVE  NamesKnown'
<1>1. conn \in Wires(Add \cup Get, NameReply) /\ AreClients(client) /\ data \in Tables /\ typed \in Nat
  BY DEF NamesKnown, Loop, Shape
<1>2. CASE StartPass
  <2>1. UNCHANGED <<program, data, conn, client, typed, histories>>
    BY <1>2 DEF StartPass
  <2>2. UNCHANGED added
    BY <2>1 DEF histories
  <2>3. \A c \in Client : Fades(c)
    BY <2>1, SameFades
  <2>4. QED
    BY <1>1, <2>1, <2>2, <2>3, AllFade
<1>3. CASE RecvFails
  <2>1. ServerEnds(conn) /\ UNCHANGED added
    BY <1>3 DEF RecvFails, histories
  <2>2. QED
    BY <1>1, <2>1, EndKnown
<1>4. ASSUME NEW c \in Client, Leave(c) PROVE NamesKnown'
  <2>1. EndsAt(c, conn[c]) /\ UNCHANGED <<program, serverVars, typed, histories>>
    BY <1>4 DEF Leave, Ends
  <2>2. UNCHANGED <<program, data, added>> /\ typed' \in Nat
    BY <1>1, <2>1 DEF serverVars, histories
  <2>3. QED
    BY <2>1, <2>2, LeaveKnown
<1>5. CASE OverrunEnds
  <2>1. PICK i \in Fd, c \in Client : At(i, c) /\ ServerEnds(Read(c))
    BY <1>5 DEF OverrunEnds, Chat
  <2>2. client[c].state # "new"
    <3>1. sock[i] = c /\ c # Free
      BY <2>1, NIsNat DEF At, Client, Free
    <3>2. QED
      BY <3>1 DEF Loop, Seats
  <2>3. /\ Read(c) \in Wires(Add \cup Get, NameReply)
        /\ Read(c)[c].toServer = <<>> /\ Read(c)[c].toClient = conn[c].toClient
        /\ Read(c)[c].end = conn[c].end
        /\ \A d \in Client : d # c => Read(c)[d] = conn[d]
    BY <1>1, ReadWire
  <2>4. UNCHANGED added
    BY <1>5 DEF OverrunEnds
  <2>5. QED
    BY <2>1, <2>2, <2>3, <2>4, EndKnown
<1>6. ASSUME NEW c \in Client, ConnectFails(c) PROVE NamesKnown'
  <2>1. /\ conn' \in Wires(Add \cup Get, NameReply)
        /\ conn'[c].toServer = conn[c].toServer
        /\ conn'[c].toClient \in {conn[c].toClient, <<>>}
        /\ conn'[c].end = "open" => conn[c].end = "open"
        /\ \A d \in Client : d # c => conn'[d] = conn[d] /\ client'[d] = client[d]
        /\ client[c].state = "new" /\ client'[c].own \subseteq client[c].own
        /\ UNCHANGED <<program, data, typed, added>>
    BY <1>1, <1>6, FailsWire
  <2>2. Fades(c)
    BY <2>1 DEF Fades
  <2>3. \A d \in Client : Fades(d)
    BY <2>1, <2>2, SameFades
  <2>4. QED
    BY <1>1, <2>1, <2>3, AllFade
<1>7. QED
  BY <1>2, <1>3, <1>4, <1>5, <1>6 DEF CommonNext

-----------------------------------------------------------------------------
\* What is put into a map, and what an answer takes out of it.
LEMMA StoredElements ==
  ASSUME NEW values \in Seq(Value), NEW m \in Add
  PROVE  /\ Stored(values, m) \in Seq(Value)
         /\ ToSet(Stored(values, m)) \subseteq ToSet(values) \cup {m.value}
         /\ m.value \in ToSet(Stored(values, m))
         /\ m.kind # "name" => ToSet(values) \subseteq ToSet(Stored(values, m))
<1>1. m.value \in Value
  BY DEF Add
<1>2. CASE m.kind = "name"
  <2> DEFINE s == <<m.value>>
  <2>1. s \in Seq(Value) /\ DOMAIN s = {1} /\ s[1] = m.value
    BY <1>1
  <2>2. Stored(values, m) = s
    BY <1>2 DEF Stored
  <2> HIDE DEF s
  <2>3. QED
    BY <1>2, <2>1, <2>2 DEF ToSet
<1>3. CASE m.kind # "name"
  <2> DEFINE s == Append(values, m.value)
  <2>1. /\ s \in Seq(Value) /\ Len(s) = Len(values) + 1 /\ Len(values) \in Nat
        /\ DOMAIN values = 1 .. Len(values) /\ DOMAIN s = 1 .. Len(values) + 1
        /\ \A i \in 1 .. Len(values) : s[i] = values[i]
        /\ s[Len(values) + 1] = m.value
    BY <1>1
  <2>2. Stored(values, m) = s
    BY <1>3 DEF Stored
  <2> HIDE DEF s
  <2>3. \A i \in 1 .. Len(values) + 1 : i \in 1 .. Len(values) \/ i = Len(values) + 1
    BY <2>1
  <2>4. ToSet(s) \subseteq ToSet(values) \cup {m.value}
    BY <2>1, <2>3 DEF ToSet
  <2>5. m.value \in ToSet(s)
    BY <2>1 DEF ToSet
  <2>6. ToSet(values) \subseteq ToSet(s)
    <3>1. 1 .. Len(values) \subseteq 1 .. Len(values) + 1
      BY <2>1
    <3>2. QED
      BY <2>1, <3>1 DEF ToSet
  <2>7. QED
    BY <2>1, <2>2, <2>4, <2>5, <2>6
<1>4. QED
  BY <1>2, <1>3

LEMMA FoundElements ==
  ASSUME data \in Tables, NEW m \in Get
  PROVE  /\ Found(m) \in Seq(Value)
         /\ ToSet(Found(m)) \subseteq ToSet(data.map[m.kind][m.host])
         /\ m.kind = "address" => Found(m) = data.map[m.kind][m.host]
<1> DEFINE values == data.map[m.kind][m.host]
<1>1. values \in Seq(Value)
  <2>1. m.kind \in Kind /\ m.host \in Host
    BY DEF Get
  <2>2. data.map \in [Kind -> [Host \cup {Junk} -> Seq(Value)]]
    BY DEF Tables
  <2>3. data.map[m.kind] \in [Host \cup {Junk} -> Seq(Value)]
    BY <2>1, <2>2
  <2>4. QED
    BY <2>1, <2>3
<1> HIDE DEF values
<1>2. CASE m.kind = "mail" /\ values # <<>>
  <2> DEFINE s == <<Last(values)>>
  <2>1. Len(values) \in DOMAIN values /\ Last(values) = values[Len(values)]
    BY <1>1, <1>2 DEF Last
  <2>2. s \in Seq(Value) /\ DOMAIN s = {1} /\ s[1] = Last(values)
    BY <1>1, <2>1
  <2>3. Found(m) = s
    BY <1>2 DEF Found, values
  <2> HIDE DEF s
  <2>4. ToSet(s) \subseteq ToSet(values)
    BY <2>1, <2>2 DEF ToSet
  <2>5. QED
    BY <1>2, <2>2, <2>3, <2>4 DEF values
<1>3. CASE ~(m.kind = "mail" /\ values # <<>>)
  <2>1. Found(m) = values
    BY <1>3 DEF Found, values
  <2>2. QED
    BY <1>1, <2>1 DEF values
<1>4. QED
  BY <1>2, <1>3

\* The server takes one command, as no two have come together.
LEMMA OneCommand ==
  ASSUME NamesKnown, program = "dns_server", merged = {}, merged' = {},
         NEW i, NEW c \in Client, Taken(i, c)
  PROVE  /\ conn[c].toServer \in Seq(Add \cup Get) /\ DOMAIN conn[c].toServer = {1}
         /\ tokenize(conn[c].toServer) = conn[c].toServer[1]
         /\ conn[c].toServer[1] \in Add \cup Get
         /\ UNCHANGED <<quit, added>> /\ At(i, c)
<1> DEFINE q == conn[c].toServer
<1>1. q \in Seq(Add \cup Get)
  BY QueriesTyped DEF NamesKnown
<1>2. q # <<>> /\ ~(Len(q) > 1) /\ UNCHANGED <<quit, added>> /\ At(i, c)
  BY DEF Taken, Arrived, MergedIf
<1> HIDE DEF q
<1>3. Len(q) = 1 /\ DOMAIN q = 1 .. 1
  <2>1. Len(q) \in Nat /\ DOMAIN q = 1 .. Len(q)
    BY <1>1
  <2>2. Len(q) # 0
    BY <1>1, <1>2
  <2>3. Len(q) = 1
    BY <1>2, <2>1, <2>2
  <2>4. QED
    BY <2>1, <2>3
<1>4. Head(q) = q[1] /\ q[1] \in Add \cup Get
  BY <1>1, <1>3
<1>5. tokenize(q) = q[1]
  BY <1>2, <1>4 DEF tokenize
<1>6. q = conn[c].toServer
  BY DEF q
<1>7. tokenize(conn[c].toServer) = conn[c].toServer[1] /\ conn[c].toServer[1] \in Add \cup Get
  BY <1>4, <1>5, <1>6
<1>8. DOMAIN conn[c].toServer = {1} /\ conn[c].toServer \in Seq(Add \cup Get)
  BY <1>1, <1>3, <1>6
<1>9. QED
  BY <1>2, <1>7, <1>8

LEMMA ReplyWire ==
  ASSUME NEW k \in Wires(Add \cup Get, NameReply), NEW d \in Client, NEW reply \in NameReply
  PROVE  /\ SentTo(k, d, <<reply>>) \in Wires(Add \cup Get, NameReply)
         /\ SentTo(k, d, <<reply>>)[d].toServer = k[d].toServer
         /\ SentTo(k, d, <<reply>>)[d].end = k[d].end
         /\ \/ SentTo(k, d, <<reply>>)[d].toClient = k[d].toClient \o <<reply>>
            \/ SentTo(k, d, <<reply>>)[d].toClient = k[d].toClient
         /\ \A e \in Client : e # d => SentTo(k, d, <<reply>>)[e] = k[e]
<1> DEFINE msgs == <<reply>>
           u == SentTo(k, d, msgs)
<1>1. msgs \in Seq(NameReply)
  OBVIOUS
<1> HIDE DEF msgs
<1>2. /\ u \in Wires(Add \cup Get, NameReply)
      /\ u[d].toServer = k[d].toServer
      /\ u[d].end = k[d].end
      /\ k[d].peer = "open" => u[d].toClient = k[d].toClient \o msgs
      /\ k[d].peer # "open" => u[d].toClient = k[d].toClient
      /\ \A e \in Client : e # d => u[e] = k[e]
  BY <1>1, SendWire
<1> HIDE DEF u
<1>3. u[d].toClient = k[d].toClient \o msgs \/ u[d].toClient = k[d].toClient
  BY <1>2
<1>4. QED
  BY <1>2, <1>3 DEF msgs, u

ReplyTo(m) ==
    [id |-> m.id, kind |-> m.kind, host |-> m.host, own |-> m.own, values |-> Found(m)]

\* An answer holds what the map holds, and that includes what the client had
\* added before.
LEMMA GetKnown ==
  ASSUME NamesKnown, program = "dns_server", merged = {}, merged' = {},
         NEW i, NEW c \in Client, Taken(i, c),
         NEW m, m = conn[c].toServer[1], m \in Get,
         Served(i, SentTo(Read(c), c, <<ReplyTo(m)>>)), UNCHANGED data
  PROVE  NamesKnown'
<1> DEFINE reply == ReplyTo(m)
<1>1. /\ typed \in Nat /\ conn \in Wires(Add \cup Get, NameReply) /\ data \in Tables
      /\ MapTyped /\ \A d \in Client : Asked(d) /\ Owned(d) /\ Answered(d)
  BY DEF NamesKnown
<1>2. /\ conn[c].toServer \in Seq(Add \cup Get) /\ DOMAIN conn[c].toServer = {1}
      /\ UNCHANGED <<quit, added>>
  BY SMTT(30), OneCommand
<1>3. /\ Found(m) \in Seq(Value)
      /\ ToSet(Found(m)) \subseteq ToSet(data.map[m.kind][m.host])
      /\ m.kind = "address" => Found(m) = data.map[m.kind][m.host]
  BY SMTT(30), <1>1, FoundElements
<1>4. /\ reply \in NameReply /\ reply.kind = m.kind /\ reply.host = m.host /\ reply.own = m.own
      /\ reply.values = Found(m) /\ m.kind \in Kind /\ m.host \in Host /\ m.verb = "get"
  BY <1>3 DEF NameReply, Get, ReplyTo
<1> HIDE DEF reply
\* The answer is right.
<1>5. /\ \A v \in ToSet(reply.values) : <<reply.kind, reply.host, v>> \in added
      /\ reply.own \subseteq ToSet(reply.values)
  <2>1. \A v \in ToSet(reply.values) : <<reply.kind, reply.host, v>> \in added
    BY SMTT(30), <1>1, <1>3, <1>4 DEF MapTyped
  <2>2. ASSUME NEW v \in m.own PROVE v \in ToSet(Found(m))
    <3>1. m.kind = "address" /\ Known(c, 1, m.host, v)
      <4>1. Asked(c) /\ 1 \in DOMAIN conn[c].toServer /\ conn[c].toServer[1] = m
        BY <1>1, <1>2
      <4>2. QED
        BY <1>4, <2>2, <4>1 DEF Asked
    <3>2. v \in ToSet(data.map["address"][m.host])
      BY <1>2, <3>1 DEF Known
    <3>3. QED
      BY <1>3, <3>1, <3>2
  <2>3. QED
    BY SMTT(30), <1>4, <2>1, <2>2
<1> DEFINE k == Read(c)
           ms == <<reply>>
<1>6. /\ k \in Wires(Add \cup Get, NameReply)
      /\ k[c].toServer = <<>> /\ k[c].toClient = conn[c].toClient /\ k[c].end = conn[c].end
      /\ \A d \in Client : d # c => k[d] = conn[d]
  BY <1>1, ReadWire
<1>7. ms \in Seq(NameReply) /\ DOMAIN ms = {1} /\ ms[1] = reply
  BY <1>4
<1>8. conn' = SentTo(k, c, ms) /\ UNCHANGED <<program, client, typed>>
  BY DEF Served, reply
<1> HIDE DEF k
<1>9. /\ SentTo(k, c, ms) \in Wires(Add \cup Get, NameReply)
      /\ SentTo(k, c, ms)[c].toServer = k[c].toServer
      /\ SentTo(k, c, ms)[c].end = k[c].end
  BY <1>4, <1>6, ReplyWire
<1>10. \/ SentTo(k, c, ms)[c].toClient = k[c].toClient \o ms
       \/ SentTo(k, c, ms)[c].toClient = k[c].toClient
  BY <1>4, <1>6, ReplyWire
<1>11. \A d \in Client : d # c => SentTo(k, c, ms)[d] = k[d]
  BY <1>4, <1>6, ReplyWire
<1> HIDE DEF ms
<1>12. ASSUME NEW d \in Client, d # c PROVE Asked(d)' /\ Owned(d)' /\ Answered(d)'
  <2>1. Fades(d)
    BY <1>6, <1>8, <1>11, <1>12, SameFades
  <2>2. QED
    BY <1>1, <1>2, <2>1, FadesKnown
<1>13. Asked(c)'
  BY <1>6, <1>8, <1>9 DEF Asked
<1>14. Owned(c)'
  <2>1. client'[c] = client[c] /\ conn'[c].end = conn[c].end /\ conn'[c].toServer = <<>>
        /\ data' = data /\ Len(conn[c].toServer) = 1
    BY <1>2, <1>6, <1>8, <1>9
  <2>2. ASSUME NEW e \in client[c].own, conn[c].end = "open"
        PROVE  e[2] \in ToSet(data.map["address"][e[1]])
    <3>1. Known(c, Len(conn[c].toServer) + 1, e[1], e[2])
      BY <1>1, <2>2 DEF Owned
    <3>2. conn[c].toServer[1].verb # "add"
      BY <1>4
    <3>3. QED
      BY <1>2, <3>1, <3>2 DEF Known
  <2>3. \A e \in client'[c].own : conn'[c].end = "open" => e[2] \in ToSet(data'.map["address"][e[1]])
    BY <2>1, <2>2
  <2>4. /\ client'[c].state = "new" => client'[c].own = {}
        /\ client'[c].own \subseteq Host \X Value
    BY <1>1, <2>1 DEF Owned
  <2>5. QED
    BY <2>3, <2>4 DEF Owned, Known
<1>15. Answered(c)'
  <2>1. conn[c].toClient \in Seq(NameReply)
    BY <1>1, QueriesTyped
  <2>2. CASE conn'[c].toClient = conn[c].toClient
    BY <1>1, <1>2, <2>2 DEF Answered
  <2>3. CASE conn'[c].toClient = conn[c].toClient \o ms
    <3> DEFINE s == conn[c].toClient
               t == conn[c].toClient \o ms
    <3>0. s \in Seq(NameReply) /\ t = s \o ms
      BY <2>1
    <3>2. \A n \in DOMAIN s : /\ \A v \in ToSet(s[n].values) : <<s[n].kind, s[n].host, v>> \in added
                              /\ s[n].own \subseteq ToSet(s[n].values)
      BY <1>1 DEF Answered
    <3> HIDE DEF s, t
    <3>1. ASSUME NEW n \in DOMAIN t PROVE (n \in DOMAIN s /\ t[n] = s[n]) \/ t[n] = reply
      <4>1. (n \in DOMAIN s /\ t[n] = s[n]) \/ \E j \in DOMAIN ms : t[n] = ms[j]
        <5>1. s \in Seq(NameReply) /\ ms \in Seq(NameReply) /\ t = s \o ms /\ n \in DOMAIN t
          BY <1>7, <3>0
        <5>2. (n \in DOMAIN s /\ t[n] = s[n]) \/ \E j \in DOMAIN ms : t[n] = ms[j]
          BY <5>1, ConcatElements
        <5>3. QED
          BY <5>2
      <4>2. QED
        BY <1>7, <4>1
    <3>3. \A n \in DOMAIN t : /\ \A v \in ToSet(t[n].values) : <<t[n].kind, t[n].host, v>> \in added
                              /\ t[n].own \subseteq ToSet(t[n].values)
      <4> SUFFICES ASSUME NEW n \in DOMAIN t
                   PROVE  /\ \A v \in ToSet(t[n].values) : <<t[n].kind, t[n].host, v>> \in added
                          /\ t[n].own \subseteq ToSet(t[n].values)
        OBVIOUS
      <4>1. CASE n \in DOMAIN s /\ t[n] = s[n]
        BY <3>2, <4>1
      <4>2. CASE t[n] = reply
        BY <1>5, <4>2
      <4>3. QED
        BY <3>1, <4>1, <4>2
    <3>4. conn'[c].toClient = t /\ added' = added
      BY <1>2, <2>3 DEF t
    <3>5. QED
      BY <3>3, <3>4 DEF Answered
  <2>4. QED
    BY <1>6, <1>8, <1>10, <2>2, <2>3
<1>16. MapTyped'
  BY Zenon, <1>1, <1>2 DEF MapTyped
<1>17. conn' \in Wires(Add \cup Get, NameReply)
  BY <1>8, <1>9
<1>18. QED
  BY <1>1, <1>8, <1>12, <1>13, <1>14, <1>15, <1>16, <1>17 DEF NamesKnown

\* The value of command m goes into the map.
Enters(m) == data' = [data EXCEPT !.map[m.kind][m.host] = Stored(data.map[m.kind][m.host], m)]

\* What a client adds goes into the map.
LEMMA AddKnown ==
  ASSUME NamesKnown, program = "dns_server", merged = {}, merged' = {},
         NEW i, NEW c \in Client, Taken(i, c),
         NEW m, m = conn[c].toServer[1], m \in Add,
         Served(i, Read(c)), Enters(m)
  PROVE  NamesKnown'
<1>1. /\ typed \in Nat /\ conn \in Wires(Add \cup Get, NameReply) /\ data \in Tables
      /\ MapTyped /\ \A d \in Client : Asked(d) /\ Owned(d) /\ Answered(d)
  BY DEF NamesKnown
<1>2. /\ conn[c].toServer \in Seq(Add \cup Get) /\ DOMAIN conn[c].toServer = {1}
      /\ UNCHANGED <<quit, added>>
  BY OneCommand
<1>3. m.kind \in Kind /\ m.host \in Host /\ m.verb = "add"
  BY DEF Add
<1> DEFINE values == data.map[m.kind][m.host]
           new == Stored(values, m)
<1>4. values \in Seq(Value)
  <2>1. data.map \in [Kind -> [Host \cup {Junk} -> Seq(Value)]]
    BY <1>1 DEF Tables
  <2>2. QED
    BY <1>3, <2>1
<1>5. /\ new \in Seq(Value)
      /\ ToSet(new) \subseteq ToSet(values) \cup {m.value} /\ m.value \in ToSet(new)
      /\ m.kind # "name" => ToSet(values) \subseteq ToSet(new)
  <2> HIDE DEF values
  <2>1. QED
    BY <1>4, StoredElements
<1> HIDE DEF new
<1>6. /\ data' \in Tables
      /\ data'.map[m.kind][m.host] = new
      /\ \A kind \in Kind, h \in Host \cup {Junk} :
            kind # m.kind \/ h # m.host => data'.map[kind][h] = data.map[kind][h]
  <2>1. data.map \in [Kind -> [Host \cup {Junk} -> Seq(Value)]] /\ data.no_clients \in Int
    BY <1>1 DEF Tables
  <2> DEFINE row == [data.map[m.kind] EXCEPT ![m.host] = new]
             map == [data.map EXCEPT ![m.kind] = row]
  <2>2. data' = [data EXCEPT !.map[m.kind][m.host] = new]
    BY DEF Enters, new, values
  <2>3. /\ row \in [Host \cup {Junk} -> Seq(Value)] /\ row[m.host] = new
        /\ \A h \in Host \cup {Junk} : h # m.host => row[h] = data.map[m.kind][h]
    BY <1>3, <1>5, <2>1
  <2>4. data' = [data EXCEPT !.map = map]
    BY <1>1, <2>2 DEF Tables
  <2> HIDE DEF row
  <2>5. /\ map \in [Kind -> [Host \cup {Junk} -> Seq(Value)]] /\ map[m.kind] = row
        /\ \A kind \in Kind : kind # m.kind => map[kind] = data.map[kind]
    BY <1>3, <2>1, <2>3
  <2> HIDE DEF map
  <2>6. data' \in Tables /\ data'.map = map
    BY <1>1, <2>4, <2>5 DEF Tables
  <2>7. QED
    BY <1>3, <2>3, <2>5, <2>6
<1>7. /\ Read(c) \in Wires(Add \cup Get, NameReply)
      /\ Read(c)[c].toServer = <<>> /\ Read(c)[c].toClient = conn[c].toClient
      /\ Read(c)[c].end = conn[c].end
      /\ \A d \in Client : d # c => Read(c)[d] = conn[d]
  BY <1>1, ReadWire
<1>8. conn' = Read(c) /\ client' = client /\ added' = added
      /\ UNCHANGED <<program, typed>>
  BY <1>2 DEF Served
<1>9. MapTyped'
  <2> SUFFICES ASSUME NEW kind \in Kind, NEW h \in Host \cup {Junk}, NEW v \in ToSet(data'.map[kind][h])
               PROVE  <<kind, h, v>> \in added
    BY Zenon, <1>8 DEF MapTyped
  <2>1. CASE kind = m.kind /\ h = m.host
    <3>1. v \in ToSet(values) \/ v = m.value
      BY Zenon, <1>5, <1>6, <2>1
    <3>2. <<m.kind, m.host, m.value>> \in added
      BY <1>1, <1>2, <1>3 DEF Asked
    <3>3. QED
      BY <1>1, <2>1, <3>1, <3>2 DEF MapTyped
  <2>2. CASE kind # m.kind \/ h # m.host
    BY <1>1, <1>6, <2>2 DEF MapTyped
  <2>3. QED
    BY <2>1, <2>2
\* No address is taken out of the map.
<1>10. ASSUME NEW h \in Host PROVE ToSet(data.map["address"][h]) \subseteq ToSet(data'.map["address"][h])
  <2>1. "address" \in Kind
    BY DEF Kind
  <2>2. CASE m.kind = "address" /\ h = m.host
    BY <1>5, <1>6, <2>2
  <2>3. CASE ~(m.kind = "address" /\ h = m.host)
    BY <1>6, <2>1, <2>3
  <2>4. QED
    BY <2>2, <2>3
<1>11. ASSUME NEW d \in Client, d # c PROVE Asked(d)' /\ Owned(d)' /\ Answered(d)'
  <2>1. conn'[d] = conn[d] /\ client'[d] = client[d]
    BY <1>7, <1>8, <1>11
  <2>2. ASSUME NEW n, NEW h \in Host, NEW v, Known(d, n, h, v) PROVE Known(d, n, h, v)'
    <3>1. ToSet(data.map["address"][h]) \subseteq ToSet(data'.map["address"][h])
      BY <1>10
    <3>2. QED
      BY <2>1, <2>2, <3>1 DEF Known
  <2>3. conn[d].toServer \in Seq(Add \cup Get)
    BY <1>1, QueriesTyped
  <2>4. \A n \in DOMAIN conn[d].toServer : conn[d].toServer[n].host \in Host
    <3> SUFFICES ASSUME NEW n \in DOMAIN conn[d].toServer PROVE conn[d].toServer[n].host \in Host
      OBVIOUS
    <3>1. conn[d].toServer[n] \in Add \cup Get
      BY <2>3
    <3>2. QED
      BY <3>1 DEF Add, Get
  <2>5. Asked(d)'
    BY <1>1, <1>8, <2>1, <2>2, <2>4 DEF Asked
  <2>6. Owned(d)'
    <3>1. \A e \in client[d].own : e[1] \in Host
      BY <1>1 DEF Owned
    <3>2. QED
      BY <1>1, <2>1, <2>2, <3>1 DEF Owned
  <2>7. Answered(d)'
    BY <1>1, <1>8, <2>1 DEF Answered
  <2>8. QED
    BY <2>5, <2>6, <2>7
<1>12. Asked(c)' /\ Answered(c)'
  <2>1. conn'[c].toServer = <<>> /\ conn'[c].toClient = conn[c].toClient /\ added' = added
    BY <1>7, <1>8
  <2>2. Asked(c)'
    BY <2>1 DEF Asked
  <2>3. Answered(c)'
    BY <1>1, <2>1 DEF Answered
  <2>4. QED
    BY <2>2, <2>3
<1>13. Owned(c)'
  <2>1. client'[c] = client[c] /\ conn'[c].end = conn[c].end /\ conn'[c].toServer = <<>>
    BY <1>7, <1>8
  <2>2. ASSUME NEW e \in client[c].own, conn[c].end = "open"
        PROVE  e[2] \in ToSet(data'.map["address"][e[1]])
    <3>1. Known(c, Len(conn[c].toServer) + 1, e[1], e[2]) /\ e[1] \in Host
      BY <1>1, <2>2 DEF Owned
    <3>2. CASE e[2] \in ToSet(data.map["address"][e[1]])
      BY <1>10, <3>1, <3>2
    <3>3. CASE e[2] \notin ToSet(data.map["address"][e[1]])
      <4>1. m.kind = "address" /\ m.host = e[1] /\ m.value = e[2]
        BY <1>2, <3>1, <3>3 DEF Known
      <4>2. QED
        BY <1>5, <1>6, <4>1
    <3>4. QED
      BY <3>2, <3>3
  <2>3. \A e \in client'[c].own : conn'[c].end = "open" => e[2] \in ToSet(data'.map["address"][e[1]])
    BY <2>1, <2>2
  <2>4. /\ client'[c].state = "new" => client'[c].own = {}
        /\ client'[c].own \subseteq Host \X Value
    BY <1>1, <2>1 DEF Owned
  <2>5. QED
    BY <2>3, <2>4 DEF Owned, Known
<1>14. QED
  BY <1>1, <1>6, <1>7, <1>8, <1>9, <1>11, <1>12, <1>13 DEF NamesKnown

\* A command is sent behind the others.
LEMMA AppendKnown ==
  ASSUME conn \in Wires(Add \cup Get, NameReply), NEW c \in Client, Asked(c), Owned(c), Answered(c),
         NEW m \in Add \cup Get,
         conn'[c].toServer = Append(conn[c].toServer, m), conn[c].end = "open",
         conn'[c].toClient = conn[c].toClient,
         data'.map = data.map, added \subseteq added', client'[c].state # "new",
         m.verb = "add" => <<m.kind, m.host, m.value>> \in added',
         m.verb = "get" => \A v \in m.own : /\ m.kind = "address"
                                            /\ <<m.host, v>> \in client[c].own,
         client'[c].own \subseteq Host \X Value,
         \A e \in client'[c].own :
            \/ e \in client[c].own
            \/ m.verb = "add" /\ m.kind = "address" /\ m.host = e[1] /\ m.value = e[2]
  PROVE  Asked(c)' /\ Owned(c)' /\ Answered(c)'
<1>0. PICK q \in Seq(Add \cup Get) : q = conn[c].toServer
  BY QueriesTyped
<1>1. PICK r : r = conn'[c].toServer
  OBVIOUS
<1>2. PICK n \in Nat :
        /\ DOMAIN q = 1 .. n /\ DOMAIN r = 1 .. n + 1 /\ Len(q) = n /\ Len(r) = n + 1
        /\ \A j \in 1 .. n : r[j] = q[j]
        /\ r[n + 1] = m
  <2>1. r = Append(q, m)
    BY <1>0, <1>1
  <2>2. /\ Len(q) \in Nat
        /\ DOMAIN q = 1 .. Len(q) /\ DOMAIN r = 1 .. Len(q) + 1 /\ Len(r) = Len(q) + 1
        /\ \A j \in 1 .. Len(q) : r[j] = q[j]
        /\ r[Len(q) + 1] = m
    BY <2>1
  <2>3. QED
    BY Zenon, <2>2
<1>3. q = conn[c].toServer /\ r = conn'[c].toServer /\ n = Len(conn[c].toServer)
  BY <1>0, <1>1, <1>2
<1>4. \A j \in 1 .. n : j \in 1 .. n + 1
  BY <1>2
<1>5. ASSUME NEW l, NEW h, NEW v, Known(c, l, h, v) PROVE Known(c, l, h, v)'
  <2>1. CASE v \in ToSet(data.map["address"][h])
    BY <2>1 DEF Known
  <2>2. CASE v \notin ToSet(data.map["address"][h])
    <3>1. PICK j \in 1 .. n :
            /\ j < l /\ q[j].verb = "add" /\ q[j].kind = "address"
            /\ q[j].host = h /\ q[j].value = v
      BY <1>2, <1>3, <1>5, <2>2 DEF Known
    <3>2. j \in DOMAIN r /\ r[j] = q[j]
      BY <1>2, <1>4
    <3>3. QED
      BY <1>3, <3>1, <3>2 DEF Known
  <2>3. QED
    BY <2>1, <2>2
\* Whatever the client has added is known when the server comes to m.
<1>6. \A e \in client[c].own : Known(c, n + 1, e[1], e[2])
  BY <1>3 DEF Owned
<1>7. Asked(c)'
  <2> SUFFICES ASSUME NEW k \in DOMAIN r
               PROVE  /\ r[k].verb = "add" => <<r[k].kind, r[k].host, r[k].value>> \in added'
                      /\ r[k].verb = "get" =>
                            \A v \in r[k].own : r[k].kind = "address" /\ Known(c, k, r[k].host, v)'
    BY <1>3 DEF Asked
  <2>1. k \in 1 .. n \/ k = n + 1
    BY <1>2
  <2>2. CASE k \in 1 .. n
    <3>1. /\ q[k].verb = "add" => <<q[k].kind, q[k].host, q[k].value>> \in added
          /\ q[k].verb = "get" =>
                \A v \in q[k].own : q[k].kind = "address" /\ Known(c, k, q[k].host, v)
      BY <1>2, <1>3, <2>2 DEF Asked
    <3>2. r[k] = q[k]
      BY <1>2, <2>2
    <3>3. QED
      BY <1>5, <3>1, <3>2
  <2>3. CASE k = n + 1
    <3>1. r[k] = m
      BY <1>2, <2>3
    <3>2. ASSUME NEW v \in m.own, m.verb = "get" PROVE m.kind = "address" /\ Known(c, n + 1, m.host, v)'
      <4>1. m.kind = "address" /\ <<m.host, v>> \in client[c].own
        BY <3>2
      <4>2. Known(c, n + 1, m.host, v)
        BY <1>6, <4>1
      <4>3. QED
        BY <1>5, <4>1, <4>2
    <3>3. QED
      BY <2>3, <3>1, <3>2
  <2>4. QED
    BY <2>1, <2>2, <2>3
<1>8. Owned(c)'
  <2>1. ASSUME NEW e \in client'[c].own PROVE Known(c, n + 2, e[1], e[2])'
    <3>1. CASE e \in client[c].own
      <4>1. Known(c, n + 1, e[1], e[2])
        BY <1>6, <3>1
      <4>2. CASE e[2] \in ToSet(data.map["address"][e[1]])
        BY <4>2 DEF Known
      <4>3. CASE e[2] \notin ToSet(data.map["address"][e[1]])
        <5>1. PICK j \in 1 .. n :
                /\ q[j].verb = "add" /\ q[j].kind = "address"
                /\ q[j].host = e[1] /\ q[j].value = e[2]
          BY <1>2, <1>3, <4>1, <4>3 DEF Known
        <5>2. j \in DOMAIN r /\ r[j] = q[j] /\ j < n + 2
          BY <1>2, <1>4
        <5>3. QED
          BY <1>3, <5>1, <5>2 DEF Known
      <4>4. QED
        BY <4>2, <4>3
    <3>2. CASE m.verb = "add" /\ m.kind = "address" /\ m.host = e[1] /\ m.value = e[2]
      <4>1. n + 1 \in DOMAIN r /\ r[n + 1] = m /\ n + 1 < n + 2
        BY <1>2
      <4>2. QED
        BY <1>3, <3>2, <4>1 DEF Known
    <3>3. QED
      BY <3>1, <3>2
  <2>2. Len(r) + 1 = n + 2
    BY <1>2
  <2>3. Len(conn'[c].toServer) + 1 = n + 2
    BY <1>3, <2>2
  <2>4. QED
    BY <2>1, <2>3 DEF Owned
<1>9. Answered(c)'
  BY DEF Answered
<1>10. QED
  BY <1>7, <1>8, <1>9

LEMMA EndServed ==
  ASSUME NamesKnown, program = "dns_server", merged = {}, NEW i, NEW c \in Client, Loop,
         At(i, c), i \in Fd,
         NEW k \in Wires(Add \cup Get, NameReply), ServerEnds(k), UNCHANGED added,
         k[c].toServer = <<>>, k[c].toClient = conn[c].toClient, k[c].end = conn[c].end,
         \A d \in Client : d # c => k[d] = conn[d]
  PROVE  NamesKnown'
<1>1. client[c].state # "new"
  <2>1. sock[i] = c /\ c # Free
    BY NIsNat DEF At, Client, Free
  <2>2. QED
    BY <2>1 DEF Loop, Seats
<1>2. QED
  BY <1>1, EndKnown

LEMMA ServeKnown ==
  ASSUME Loop, NamesKnown, program = "dns_server", merged = {}, merged' = {}, NamesServe
  PROVE  NamesKnown'
<1>1. /\ typed \in Nat /\ conn \in Wires(Add \cup Get, NameReply) /\ data \in Tables
      /\ \A c \in Client : Owned(c)
  BY DEF NamesKnown
<1>2. PICK i \in Fd, c \in Client :
        LET m == tokenize(conn[c].toServer)
        IN  /\ Taken(i, c)
            /\ \/ /\ m.verb = "add"
                  /\ Served(i, Read(c))
                  /\ data' = [data EXCEPT !.map[m.kind][m.host] = Stored(@, m)]
               \/ /\ m.verb = "get" /\ SendFails(c)
                  /\ ServerEnds(Read(c))
               \/ /\ m.verb = "get" /\ ~SendFails(c)
                  /\ Served(i, [Read(c) EXCEPT ![c] = ServerSends(@, <<ReplyTo(m)>>)])
                  /\ UNCHANGED data
               \/ m.verb = "send"
  BY Zenon DEF NamesServe, ReplyTo
<1>3. /\ tokenize(conn[c].toServer) = conn[c].toServer[1]
      /\ conn[c].toServer[1] \in Add \cup Get /\ UNCHANGED <<quit, added>> /\ At(i, c)
  BY <1>2, OneCommand
<1>4. PICK m \in Add \cup Get : m = conn[c].toServer[1] /\ m = tokenize(conn[c].toServer)
  BY <1>3
<1>5. (m \in Add => m.verb = "add") /\ (m \in Get => m.verb = "get")
  BY DEF Add, Get
<1>6. CASE /\ m.verb = "add"
           /\ Served(i, Read(c))
           /\ data' = [data EXCEPT !.map[m.kind][m.host] = Stored(@, m)]
  <2>1. Enters(m)
    BY <1>6 DEF Enters
  <2>2. m \in Add
    BY <1>4, <1>5, <1>6
  <2>3. QED
    BY <1>2, <1>4, <1>6, <2>1, <2>2, AddKnown
<1>7. CASE m.verb = "get" /\ ServerEnds(Read(c))
  <2>1. /\ Read(c) \in Wires(Add \cup Get, NameReply)
        /\ Read(c)[c].toServer = <<>> /\ Read(c)[c].toClient = conn[c].toClient
        /\ Read(c)[c].end = conn[c].end
        /\ \A d \in Client : d # c => Read(c)[d] = conn[d]
    BY <1>1, ReadWire
  <2> DEFINE k == Read(c)
  <2> HIDE DEF k
  <2>2. /\ k \in Wires(Add \cup Get, NameReply) /\ ServerEnds(k)
        /\ k[c].toServer = <<>> /\ k[c].toClient = conn[c].toClient /\ k[c].end = conn[c].end
        /\ \A d \in Client : d # c => k[d] = conn[d]
    BY <1>7, <2>1 DEF k
  <2>3. QED
    BY <1>3, <2>2, EndServed
<1>8. CASE /\ m.verb = "get"
           /\ Served(i, [Read(c) EXCEPT ![c] = ServerSends(@, <<ReplyTo(m)>>)])
           /\ UNCHANGED data
  <2>1. Served(i, SentTo(Read(c), c, <<ReplyTo(m)>>))
    BY <1>8 DEF SentTo
  <2>2. m \in Get
    BY <1>4, <1>5, <1>8
  <2>3. QED
    BY <1>2, <1>4, <1>8, <2>1, <2>2, GetKnown
<1>9. QED
  BY <1>2, <1>4, <1>5, <1>6, <1>7, <1>8

LEMMA CountKnown ==
  ASSUME data \in Tables, NEW x \in Int, data' = [data EXCEPT !.no_clients = x]
  PROVE  data' \in Tables /\ data'.map = data.map
<1> DEFINE M == [Kind -> [Host \cup {Junk} -> Seq(Value)]]
<1>1. data \in [no_clients : Int, map : M]
  BY DEF Tables
<1> HIDE DEF M
<1>2. data' \in [no_clients : Int, map : M] /\ data'.map = data.map
  BY <1>1
<1>3. QED
  BY <1>2 DEF Tables, M

LEMMA HangupKnown ==
  ASSUME Loop, NamesKnown, program = "dns_server", merged = {}, NamesAccept \/ NamesHangup
  PROVE  NamesKnown'
<1>1. /\ typed \in Nat /\ conn \in Wires(Add \cup Get, NameReply) /\ data \in Tables
      /\ data.no_clients \in Int
  BY DEF NamesKnown, Tables
<1>2. CASE NamesAccept
  <2>1. /\ UNCHANGED <<program, conn, client, typed, histories>>
        /\ data' = [data EXCEPT !.no_clients = @ + 1]
    BY <1>2 DEF NamesAccept, Accept
  <2>2. data' \in Tables /\ data'.map = data.map
    <3>1. PICK x \in Int : data' = [data EXCEPT !.no_clients = x]
      BY <1>1, <2>1
    <3>2. QED
      BY <1>1, <3>1, CountKnown
  <2>3. \A c \in Client : Fades(c)
    BY <2>1, SameFades
  <2>4. UNCHANGED added
    BY <2>1 DEF histories
  <2>5. QED
    BY <1>1, <2>1, <2>2, <2>3, <2>4, AllFade
<1>3. CASE NamesHangup
  <2>1. PICK i \in Fd, c \in Client :
          Hangup(i, c) /\ data' = [data EXCEPT !.no_clients = @ - 1]
    BY <1>3 DEF NamesHangup
  <2>2. data' \in Tables /\ data'.map = data.map
    <3>1. PICK x \in Int : data' = [data EXCEPT !.no_clients = x]
      BY <1>1, <2>1
    <3>2. QED
      BY <1>1, <3>1, CountKnown
  <2>3. /\ conn' \in Wires(Add \cup Get, NameReply)
        /\ conn'[c].toClient = conn[c].toClient /\ conn'[c].toServer \in {conn[c].toServer, <<>>}
        /\ conn'[c].end # "open"
        /\ \A d \in Client : d # c => conn'[d] = conn[d]
        /\ UNCHANGED <<program, client, typed, histories>>
    BY <1>1, <2>1, HangupWire
  <2>4. Fades(c)
    BY <2>3 DEF Fades
  <2>5. \A d \in Client : Fades(d)
    BY <2>3, <2>4, SameFades
  <2>6. UNCHANGED added
    BY <2>3 DEF histories
  <2>7. QED
    BY <1>1, <2>2, <2>3, <2>5, <2>6, AllFade
<1>4. QED
  BY <1>2, <1>3

LEMMA ConnectKnown ==
  ASSUME Loop, NamesKnown, program = "dns_server", merged = {}, NEW c \in Client, NamesConnect(c)
  PROVE  NamesKnown'
<1>1. /\ typed \in Nat /\ conn \in Wires(Add \cup Get, NameReply) /\ data \in Tables
      /\ AreClients(client) /\ Owned(c)
  BY DEF NamesKnown, Loop, Shape
<1> DEFINE first == <<>>
<1>2. first \in Seq(Add \cup Get) /\ Connect(c, "running", first)
  BY DEF NamesConnect
<1> HIDE DEF first
<1>4. /\ conn' \in Wires(Add \cup Get, NameReply)
      /\ conn'[c].toServer = first /\ conn'[c].toClient = conn[c].toClient
      /\ conn'[c].end = conn[c].end
      /\ \A d \in Client : d # c => conn'[d] = conn[d] /\ client'[d] = client[d]
      /\ client'[c].state = "running" /\ client[c].state = "new" /\ client'[c].own = client[c].own
      /\ UNCHANGED <<program, data, typed, histories>>
  BY <1>1, <1>2, ConnectWire
<1>5. client'[c].own = {}
  BY <1>1, <1>4 DEF Owned
<1>6. Fades(c)
  BY <1>4, <1>5 DEF Fades, first
<1>7. \A d \in Client : Fades(d)
  BY <1>4, <1>6, SameFades
<1>8. UNCHANGED added
  BY <1>4 DEF histories
<1>9. QED
  BY <1>1, <1>4, <1>7, <1>8, AllFade

LEMMA ReceiveKnown ==
  ASSUME Loop, NamesKnown, program = "dns_server", merged = {}, NEW c \in Client, NamesReceive(c)
  PROVE  NamesKnown'
<1>1. /\ typed \in Nat /\ conn \in Wires(Add \cup Get, NameReply) /\ data \in Tables
      /\ AreClients(client) /\ Owned(c)
  BY DEF NamesKnown, Loop, Shape
<1>2. CASE ShowsAll(c)
  <2>1. /\ conn' \in Wires(Add \cup Get, NameReply)
        /\ conn'[c].toClient = <<>> /\ conn'[c].toServer = conn[c].toServer
        /\ conn'[c].end = conn[c].end
        /\ \A d \in Client : d # c => conn'[d] = conn[d] /\ client'[d] = client[d]
        /\ client'[c].own = client[c].own /\ client'[c].state = client[c].state
        /\ UNCHANGED <<program, data, typed, histories>>
    BY <1>1, <1>2, ShowsWire
  <2>2. Fades(c)
    BY <2>1 DEF Fades
  <2>3. \A d \in Client : Fades(d)
    BY <2>1, <2>2, SameFades
  <2>4. UNCHANGED added
    BY <2>1 DEF histories
  <2>5. QED
    BY <1>1, <2>1, <2>3, <2>4, AllFade
<1>3. CASE ReportsReset(c)
  <2>1. /\ conn' \in Wires(Add \cup Get, NameReply)
        /\ conn'[c].toClient = conn[c].toClient /\ conn'[c].toServer = conn[c].toServer
        /\ conn[c].end # "open" /\ conn'[c].end # "open"
        /\ \A d \in Client : d # c => conn'[d] = conn[d]
        /\ UNCHANGED <<program, data, client, typed, histories>>
    BY <1>1, <1>3, ReportsWire
  <2>2. Fades(c)
    BY <2>1 DEF Fades
  <2>3. \A d \in Client : Fades(d)
    BY <2>1, <2>2, SameFades
  <2>4. UNCHANGED added
    BY <2>1 DEF histories
  <2>5. QED
    BY <1>1, <2>1, <2>3, <2>4, AllFade
<1>4. CASE NoticesEnd(c, {"fin", "dead"})
  <2>1. EndsAt(c, conn[c]) /\ UNCHANGED <<program, serverVars, typed, histories>>
    BY <1>4 DEF NoticesEnd, Ends
  <2>2. UNCHANGED <<program, data, added>> /\ typed' \in Nat
    BY <1>1, <2>1 DEF serverVars, histories
  <2>3. QED
    BY <2>1, <2>2, LeaveKnown
<1>5. QED
  BY <1>2, <1>3, <1>4 DEF NamesReceive

\* A client adds an entry or asks; q is the client after it.
LEMMA TypeKnown ==
  ASSUME Loop, NamesKnown, program = "dns_server", merged = {}, NEW c \in Client,
         NEW m \in Add \cup Get, NEW q, TypeAndSend(c, m, q), added \subseteq added',
         m.verb = "add" => <<m.kind, m.host, m.value>> \in added',
         m.verb = "get" => \A v \in m.own : /\ m.kind = "address"
                                            /\ <<m.host, v>> \in client[c].own,
         q.state = client[c].state, q.own \subseteq Host \X Value,
         \A e \in q.own :
            \/ e \in client[c].own
            \/ m.verb = "add" /\ m.kind = "address" /\ m.host = e[1] /\ m.value = e[2]
  PROVE  NamesKnown'
<1>1. /\ typed \in Nat /\ conn \in Wires(Add \cup Get, NameReply) /\ data \in Tables
      /\ AreClients(client) /\ MapTyped
      /\ \A d \in Client : Asked(d) /\ Owned(d) /\ Answered(d)
  BY DEF NamesKnown, Loop, Shape
<1>0. PICK R : R = Add \cup Get
  OBVIOUS
<1>11. conn \in Wires(R, NameReply) /\ m \in R /\ TypeAndSend(c, m, q)
  BY <1>0, <1>1
<1>2. /\ conn' \in Wires(R, NameReply) /\ typed' = typed + 1 /\ client[c].state = "running"
      /\ \A d \in Client : d # c => conn'[d] = conn[d] /\ client'[d] = client[d]
      /\ UNCHANGED <<program, data, quit, merged>>
  BY <1>1, <1>11, TypeWire
<1>3. \/ /\ conn[c].end = "open" /\ client'[c] = q
         /\ conn'[c].toServer = Append(conn[c].toServer, m)
         /\ conn'[c].toClient = conn[c].toClient
      \/ /\ conn'[c].end # "open" /\ conn'[c].toServer = conn[c].toServer
         /\ \/ client'[c] = q /\ conn'[c].toClient = conn[c].toClient
            \/ client'[c] = Gone /\ conn'[c].toClient = <<>>
  BY <1>1, <1>11, TypeWire
<1>4. \A d \in Client : d # c => Asked(d)' /\ Owned(d)' /\ Answered(d)'
  BY <1>1, <1>2, SameFades, FadesKnown
<1>5. ASSUME conn[c].end = "open", client'[c] = q,
             conn'[c].toServer = Append(conn[c].toServer, m),
             conn'[c].toClient = conn[c].toClient
      PROVE  Asked(c)' /\ Owned(c)' /\ Answered(c)'
  <2>1. client'[c].state # "new" /\ client'[c].own = q.own /\ data'.map = data.map
    BY <1>2, <1>5
  <2>2. Asked(c) /\ Owned(c) /\ Answered(c)
    BY <1>1
  <2>3. Asked(c)' /\ Owned(c)' /\ Answered(c)'
    BY <1>1, <1>5, <2>1, <2>2, AppendKnown
  <2>4. QED
    BY <2>3
<1>6. ASSUME conn'[c].end # "open", conn'[c].toServer = conn[c].toServer,
             \/ client'[c] = q /\ conn'[c].toClient = conn[c].toClient
             \/ client'[c] = Gone /\ conn'[c].toClient = <<>>
      PROVE  Asked(c)' /\ Owned(c)' /\ Answered(c)'
  <2>1. client'[c].own \subseteq Host \X Value /\ client'[c].state # "new"
    <3>1. Gone.own = {} /\ Gone.state = "ended"
      BY DEF Gone, NewClient
    <3>2. QED
      BY <1>2, <1>6, <3>1
  <2>2. Owned(c)'
    BY <1>6, <2>1 DEF Owned
  <2>3. Asked(c)'
    <3>1. \A n, h, v : Known(c, n, h, v) => Known(c, n, h, v)'
      BY <1>2, <1>6 DEF Known
    <3>2. QED
      BY <1>1, <1>6, <3>1 DEF Asked
  <2>4. Answered(c)'
    BY <1>1, <1>6 DEF Answered
  <2>5. QED
    BY <2>2, <2>3, <2>4
<1>7. Asked(c)' /\ Owned(c)' /\ Answered(c)'
  BY <1>3, <1>5, <1>6
<1>8. MapTyped'
  BY Zenon, <1>1, <1>2 DEF MapTyped
<1>9. typed' \in Nat
  BY <1>1, <1>2
<1>10. QED
  BY <1>0, <1>1, <1>2, <1>4, <1>7, <1>8, <1>9 DEF NamesKnown

LEMMA AddTyped ==
  ASSUME Loop, NamesKnown, program = "dns_server", merged = {}, NEW c \in Client,
         NEW kind \in Kind, NEW h \in Host, NEW v \in Value, TypeAdd(c, kind, h, v)
  PROVE  NamesKnown'
<1> DEFINE m == [id |-> 0, verb |-> "add", kind |-> kind, host |-> h, value |-> v]
           own == IF kind = "address" THEN client[c].own \cup {<<h, v>>} ELSE client[c].own
           q == [client[c] EXCEPT !.own = own]
<1>1. TypeAndSend(c, m, q) /\ added' = added \cup {<<kind, h, v>>}
  BY DEF TypeAdd
<1>2. /\ m \in Add /\ m.verb = "add" /\ m.kind = kind /\ m.host = h /\ m.value = v
  BY DEF Add
<1>3. IsClient(client[c]) /\ client[c].own \subseteq Host \X Value
  BY DEF Loop, Shape, AreClients, NamesKnown, Owned
<1>4. own \subseteq Host \X Value
  BY <1>3
<1>5. \A e \in own : e \in client[c].own \/ (kind = "address" /\ h = e[1] /\ v = e[2])
  OBVIOUS
<1> HIDE DEF own, m
<1>6. q.own = own /\ q.state = client[c].state
  BY <1>3 DEF IsClient
<1> HIDE DEF q
<1>7. /\ m \in Add \cup Get /\ m.verb # "get" /\ added \subseteq added'
      /\ <<m.kind, m.host, m.value>> \in added' /\ q.own \subseteq Host \X Value
  BY <1>1, <1>2, <1>4, <1>6
<1>8. \A e \in q.own : \/ e \in client[c].own
                       \/ m.verb = "add" /\ m.kind = "address" /\ m.host = e[1] /\ m.value = e[2]
  BY <1>2, <1>5, <1>6
<1>9. QED
  BY <1>1, <1>6, <1>7, <1>8, TypeKnown

LEMMA GetTyped ==
  ASSUME Loop, NamesKnown, program = "dns_server", merged = {}, NEW c \in Client,
         NEW kind \in Kind, NEW h \in Host, TypeGet(c, kind, h)
  PROVE  NamesKnown'
<1> DEFINE own == {v \in Value : kind = "address" /\ <<h, v>> \in client[c].own}
           m == [id |-> typed + 1, verb |-> "get", kind |-> kind, host |-> h, own |-> own]
           waits == client[c].waits \cup {typed + 1}
           q == [client[c] EXCEPT !.waits = waits]
<1>1. TypeAndSend(c, m, q) /\ UNCHANGED added
  BY DEF TypeGet
<1>2. own \subseteq Value /\ \A v \in own : kind = "address" /\ <<h, v>> \in client[c].own
  OBVIOUS
<1>3. IsClient(client[c]) /\ client[c].own \subseteq Host \X Value /\ typed + 1 \in Nat
  BY DEF Loop, Shape, AreClients, NamesKnown, Owned
<1> HIDE DEF own
<1>4. /\ m \in Get /\ m.verb = "get" /\ m.kind = kind /\ m.host = h /\ m.own = own
  BY <1>2, <1>3 DEF Get
<1> HIDE DEF m, waits
<1>5. q.own = client[c].own /\ q.state = client[c].state
  BY <1>3 DEF IsClient
<1> HIDE DEF q
<1>6. /\ m \in Add \cup Get /\ m.verb # "add" /\ added \subseteq added'
      /\ q.own \subseteq Host \X Value /\ \A e \in q.own : e \in client[c].own
      /\ \A v \in m.own : m.kind = "address" /\ <<m.host, v>> \in client[c].own
  BY <1>1, <1>2, <1>3, <1>4, <1>5
<1>7. QED
  BY <1>1, <1>5, <1>6, TypeKnown

LEMMA NamesKnownKeeps ==
  ASSUME Loop, NamesKnown, Next
  PROVE  NamesKnown'
<1>1. UNCHANGED program
  BY NextSeats DEF Loop, SeatStep
<1> SUFFICES ASSUME program = "dns_server", merged' = {} PROVE NamesKnown'
  BY <1>1 DEF NamesKnown
<1>2. NamesNext \/ CommonNext
  BY NextCases DEF Relays, NameServers, RelayNext, ListNext, HangmanNext, LockstepNext,
     HttpNext, MailNext, Chat, Game, Chat7, Http, Smtp
<1>3. CASE CommonNext
  <2>1. merged \subseteq merged'
    BY <1>3 DEF CommonNext, StartPass, RecvFails, OverrunEnds, Leave, ConnectFails, histories
  <2>2. QED
    BY <1>3, <2>1, CommonKnown
<1>4. CASE NamesServe
  <2>1. merged \subseteq merged'
    BY <1>4 DEF NamesServe, Taken, Arrived, MergedIf
  <2>2. QED
    BY SMTT(30), <1>4, <2>1, ServeKnown
<1>5. CASE NamesAccept \/ NamesHangup
  <2>1. UNCHANGED merged
    BY <1>5 DEF NamesAccept, NamesHangup, Accept, Hangup, histories
  <2>2. QED
    BY <1>5, <2>1, HangupKnown
<1>6. CASE Quit
  <2>1. UNCHANGED <<merged, added>> /\ ServerEnds(conn)
    BY <1>6 DEF Quit
  <2>2. conn \in Wires(Add \cup Get, NameReply)
    BY <2>1 DEF NamesKnown
  <2>3. QED
    BY <2>1, <2>2, EndKnown
<1>7. ASSUME NEW c \in Client, NamesConnect(c) PROVE NamesKnown'
  <2>1. UNCHANGED merged
    BY <1>7 DEF NamesConnect, Connect, histories
  <2>2. QED
    BY <1>7, <2>1, ConnectKnown
<1>8. ASSUME NEW c \in Client, NamesReceive(c) PROVE NamesKnown'
  <2>1. UNCHANGED merged
    BY <1>8 DEF NamesReceive, ShowsAll, Shows, ReportsReset, NoticesEnd, histories
  <2>2. QED
    BY <1>8, <2>1, ReceiveKnown
<1>9. ASSUME NEW c \in Client, NEW kind \in Kind, NEW h \in Host, TypeGet(c, kind, h)
      PROVE  NamesKnown'
  <2>1. UNCHANGED merged
    BY <1>9 DEF TypeGet, TypeAndSend
  <2>2. QED
    BY <1>9, <2>1, GetTyped
<1>10. ASSUME NEW c \in Client, NEW kind \in Kind, NEW h \in Host, NEW v \in Value,
              TypeAdd(c, kind, h, v)
       PROVE  NamesKnown'
  <2>1. UNCHANGED merged
    BY <1>10 DEF TypeAdd, TypeAndSend
  <2>2. QED
    BY <1>10, <2>1, AddTyped
<1>11. \A c \in Client : ~TypeMail(c)
  BY DEF TypeMail
<1>12. QED
  BY <1>2, <1>3, <1>4, <1>5, <1>6, <1>7, <1>8, <1>9, <1>10, <1>11 DEF NamesNext, NamesServer

-----------------------------------------------------------------------------
(* The turns of the chat in lockstep.                                      *)

Turn == [id : Nat, from : Client, nth : Nat]

Alive(c) == client[c].state \in {"running", "waiting"}

\* The lines of client c that have had an answer, and those together with the
\* blocks that are on their way to it.
Said(c)  == Cardinality(client[c].own) - IF Running(c) THEN 0 ELSE 1
ReachedBy(c) == Said(c) + Len(conn[c].toClient)

\* The server connects c and d.
Partner(c, d) ==
    /\ Len(data.connfd) = 2
    /\ \/ sock[data.connfd[1]] = c /\ sock[data.connfd[2]] = d
       \/ sock[data.connfd[1]] = d /\ sock[data.connfd[2]] = c

Talker(c) ==
    /\ client[c].own \in SUBSET (1 .. typed)
    /\ client[c].state = "new" => client[c].own = {}

\* What is on its way to client c are lines of the other, with the numbers of
\* the lines they answer.
Told(c) ==
    Alive(c) =>
        \A k \in DOMAIN conn[c].toClient :
            conn[c].toClient[k].nth # Garbage =>
                conn[c].toClient[k].from # c /\ conn[c].toClient[k].nth = Said(c) + k

Speaks(c) ==
    /\ conn[c].end = "open"
    /\ \A j \in DOMAIN conn[c].toServer : conn[c].toServer[j].from = c

\* A client that has no partner yet may have sent one line.
Unheard(c) ==
    /\ conn[c].toClient = <<>>
    /\ \A j \in DOMAIN conn[c].toServer : conn[c].toServer[j].nth = j
    /\ Alive(c) => Said(c) = 0 /\ Cardinality(client[c].own) = Len(conn[c].toServer)

\* The lines of c that the server has not read follow those that d has heard.
Ahead(c, d) ==
    /\ \A j \in DOMAIN conn[c].toServer : conn[c].toServer[j].nth = ReachedBy(d) + j
    /\ Alive(c) => Cardinality(client[c].own) = ReachedBy(d) + Len(conn[c].toServer)

InPair(c) == \E d \in Client : Partner(c, d)

Paired ==
    /\ Len(data.connfd) = 2 => data.connfd[1] # data.connfd[2]
    /\ \A c \in Client : Speaks(c) /\ (InPair(c) \/ Unheard(c))
    /\ \A c, d \in Client : Partner(c, d) /\ Alive(d) => Ahead(c, d)

InTurn ==
    Chat7 /\ merged = {} =>
        /\ typed \in Nat /\ conn \in Wires(Turn, Turn)
        /\ \A c \in Client : Talker(c) /\ Told(c)
        /\ server = "up" => Paired

LEMMA TurnsTyped ==
  ASSUME conn \in Wires(Turn, Turn), NEW c \in Client
  PROVE  /\ conn[c].toServer \in Seq(Turn) /\ conn[c].toClient \in Seq(Turn)
         /\ conn[c] \in Connection(Turn, Turn)
<1>1. conn[c] \in Connection(Turn, Turn)
  BY DEF Wires
<1>2. QED
  BY <1>1 DEF Connection

LEMMA OwnCount ==
  ASSUME NEW n \in Nat, NEW own \in SUBSET (1 .. n)
  PROVE  /\ Cardinality(own) \in Nat
         /\ own \cup {n + 1} \in SUBSET (1 .. n + 1)
         /\ Cardinality(own \cup {n + 1}) = Cardinality(own) + 1
<1>1. IsFiniteSet(1 .. n)
  BY FS_Interval
<1>2. IsFiniteSet(own)
  BY <1>1, FS_Subset
<1>3. Cardinality(own) \in Nat
  BY <1>2, FS_CardinalityType
<1>4. n + 1 \notin own
  OBVIOUS
<1>5. Cardinality(own \cup {n + 1}) = Cardinality(own) + 1
  BY <1>2, <1>4, FS_AddElement
<1>6. own \cup {n + 1} \in SUBSET (1 .. n + 1)
  OBVIOUS
<1>7. QED
  BY <1>3, <1>5, <1>6

LEMMA ReachedIsInt ==
  ASSUME typed \in Nat, conn \in Wires(Turn, Turn), NEW c \in Client, Talker(c)
  PROVE  /\ Said(c) \in Int /\ ReachedBy(c) \in Int
         /\ Cardinality(client[c].own) \in Nat /\ Len(conn[c].toClient) \in Nat
         /\ Len(conn[c].toServer) \in Nat
         /\ DOMAIN conn[c].toClient = 1 .. Len(conn[c].toClient)
         /\ DOMAIN conn[c].toServer = 1 .. Len(conn[c].toServer)
<1>1. conn[c].toServer \in Seq(Turn) /\ conn[c].toClient \in Seq(Turn)
  BY TurnsTyped
<1>2. Cardinality(client[c].own) \in Nat
  BY OwnCount DEF Talker
<1>3. /\ Len(conn[c].toClient) \in Nat /\ Len(conn[c].toServer) \in Nat
      /\ DOMAIN conn[c].toClient = 1 .. Len(conn[c].toClient)
      /\ DOMAIN conn[c].toServer = 1 .. Len(conn[c].toServer)
  BY <1>1
<1>4. QED
  BY <1>2, <1>3 DEF Said, ReachedBy

\* The partners are two, and have connected.
LEMMA PartnersMet ==
  ASSUME Loop, InChat, Chat7, server = "up", Paired, NEW c \in Client, NEW d \in Client, Partner(c, d)
  PROVE  /\ c # d /\ client[c].state # "new" /\ client[d].state # "new" /\ Partner(d, c)
         /\ \A e \in Client : Partner(c, e) => e = d
<1>1. /\ data.connfd \in Seq(Fd) /\ Len(data.connfd) = 2 /\ data.connfd[1] # data.connfd[2]
  BY DEF InChat, Paired, Partner
<1> DEFINE f == data.connfd[1]
           g == data.connfd[2]
<1>2. f \in Fd /\ g \in Fd /\ f # g
  BY <1>1
<1>3. (sock[f] = c /\ sock[g] = d) \/ (sock[f] = d /\ sock[g] = c)
  BY DEF Partner
<1> HIDE DEF f, g
<1>4. c # Free /\ d # Free
  BY NIsNat DEF Client, Free
<1>5. sock[f] # sock[g]
  BY <1>2, <1>3, <1>4 DEF Loop, Seats
<1>6. client[c].state # "new" /\ client[d].state # "new"
  BY <1>2, <1>3, <1>4 DEF Loop, Seats
<1>7. Partner(d, c)
  BY DEF Partner
<1>8. \A e \in Client : Partner(c, e) => e = d
  BY <1>3, <1>5 DEF Partner, f, g
<1>9. QED
  BY <1>3, <1>5, <1>6, <1>7, <1>8

\* What client c sends is a line behind its others, or nothing.
Adds(c) ==
    \/ /\ conn'[c].toServer = conn[c].toServer
       /\ Alive(c)' => Cardinality(client'[c].own) = Cardinality(client[c].own)
    \/ /\ Alive(c) /\ Cardinality(client'[c].own) = Cardinality(client[c].own) + 1
       /\ \E m \in Turn : /\ m.from = c /\ m.nth = Cardinality(client[c].own) + 1
                          /\ conn'[c].toServer = Append(conn[c].toServer, m)

LEMMA AddsAhead ==
  ASSUME typed \in Nat, conn \in Wires(Turn, Turn), NEW c \in Client, Talker(c), Adds(c),
         NEW h \in Int,
         \A j \in DOMAIN conn[c].toServer : conn[c].toServer[j].nth = h + j,
         Alive(c) => Cardinality(client[c].own) = h + Len(conn[c].toServer),
         Alive(c)' => Alive(c)
  PROVE  /\ \A j \in DOMAIN conn'[c].toServer : conn'[c].toServer[j].nth = h + j
         /\ Alive(c)' => Cardinality(client'[c].own) = h + Len(conn'[c].toServer)
<1>1. CASE /\ conn'[c].toServer = conn[c].toServer
           /\ Alive(c)' => Cardinality(client'[c].own) = Cardinality(client[c].own)
  BY <1>1
<1>2. ASSUME Alive(c), Cardinality(client'[c].own) = Cardinality(client[c].own) + 1,
             NEW m \in Turn, m.nth = Cardinality(client[c].own) + 1,
             conn'[c].toServer = Append(conn[c].toServer, m)
      PROVE  /\ \A j \in DOMAIN conn'[c].toServer : conn'[c].toServer[j].nth = h + j
             /\ Alive(c)' => Cardinality(client'[c].own) = h + Len(conn'[c].toServer)
  <2> DEFINE q == conn[c].toServer
             r == Append(q, m)
             n == Len(q)
  <2>1. q \in Seq(Turn) /\ n \in Nat /\ Cardinality(client[c].own) \in Nat
    BY TurnsTyped, ReachedIsInt
  <2>2. /\ DOMAIN q = 1 .. n /\ DOMAIN r = 1 .. n + 1 /\ Len(r) = n + 1
        /\ \A j \in 1 .. n : r[j] = q[j]
        /\ r[n + 1] = m
    BY <2>1
  <2>3. \A j \in 1 .. n : q[j].nth = h + j
    BY <2>2
  <2>4. Cardinality(client[c].own) = h + n /\ conn'[c].toServer = r
    BY <1>2
  <2> HIDE DEF q, r, n
  <2>5. m.nth = h + (n + 1) /\ Cardinality(client'[c].own) = h + (n + 1)
    BY <1>2, <2>1, <2>4
  <2>6. \A j \in 1 .. n + 1 : r[j].nth = h + j
    <3>1. \A j \in 1 .. n + 1 : j \in 1 .. n \/ j = n + 1
      BY <2>1
    <3>2. QED
      BY <2>2, <2>3, <2>5, <3>1
  <2>7. QED
    BY <2>2, <2>4, <2>5, <2>6
<1>3. QED
  BY <1>1, <1>2 DEF Adds

LEMMA AddsSpeaks ==
  ASSUME conn \in Wires(Turn, Turn), NEW c \in Client, Adds(c), Speaks(c), conn'[c].end = "open"
  PROVE  Speaks(c)'
<1>1. CASE conn'[c].toServer = conn[c].toServer
  BY <1>1 DEF Speaks
<1>2. ASSUME NEW m \in Turn, m.from = c, conn'[c].toServer = Append(conn[c].toServer, m)
      PROVE  \A j \in DOMAIN conn'[c].toServer : conn'[c].toServer[j].from = c
  <2> DEFINE q == conn[c].toServer
             r == Append(q, m)
             n == Len(q)
  <2>1. q \in Seq(Turn) /\ n \in Nat
    BY TurnsTyped
  <2>2. /\ DOMAIN q = 1 .. n /\ DOMAIN r = 1 .. n + 1
        /\ \A j \in 1 .. n : r[j] = q[j]
        /\ r[n + 1] = m
    BY <2>1
  <2>3. \A j \in 1 .. n : q[j].from = c
    BY <2>2 DEF Speaks
  <2>4. conn'[c].toServer = r
    BY <1>2
  <2> HIDE DEF q, r, n
  <2>5. \A j \in 1 .. n + 1 : j \in 1 .. n \/ j = n + 1
    BY <2>1
  <2>6. QED
    BY <1>2, <2>2, <2>3, <2>4, <2>5
<1>3. QED
  BY <1>1, <1>2 DEF Adds, Speaks

\* A step of a client that has connected, as its partner sees it.
LEMMA ClientPaired ==
  ASSUME Loop, InChat, Chat7, server = "up", typed \in Nat, conn \in Wires(Turn, Turn),
         \A d \in Client : Talker(d), Paired,
         NEW c \in Client, UNCHANGED <<sock, data>>,
         \A d \in Client : d # c => conn'[d] = conn[d] /\ client'[d] = client[d],
         conn'[c].end = "open", Adds(c),
         Alive(c)' => Alive(c) /\ ReachedBy(c)' = ReachedBy(c),
         conn[c].toClient = <<>> => /\ conn'[c].toClient = <<>>
                                    /\ Alive(c)' => Said(c)' = Said(c)
  PROVE  Paired'
<1>1. ASSUME NEW d \in Client, NEW e \in Client PROVE Partner(d, e)' <=> Partner(d, e)
  BY DEF Partner
<1>2. ASSUME NEW d \in Client, d # c
      PROVE  /\ Speaks(d)' <=> Speaks(d)
             /\ Unheard(d)' <=> Unheard(d)
             /\ Alive(d)' <=> Alive(d)
             /\ ReachedBy(d)' = ReachedBy(d)
  BY <1>2 DEF Speaks, Unheard, Alive, ReachedBy, Said, Running
<1>3. Speaks(c)'
  BY AddsSpeaks DEF Paired
<1>4. ASSUME Unheard(c) PROVE Unheard(c)'
  <2>1. \A j \in DOMAIN conn[c].toServer : conn[c].toServer[j].nth = 0 + j
    <3>1. \A j \in DOMAIN conn[c].toServer : j \in Int
      BY ReachedIsInt
    <3>2. QED
      BY <1>4, <3>1 DEF Unheard
  <2>2. Alive(c) => Cardinality(client[c].own) = 0 + Len(conn[c].toServer)
    BY <1>4, ReachedIsInt DEF Unheard
  <2>3. /\ \A j \in DOMAIN conn'[c].toServer : conn'[c].toServer[j].nth = 0 + j
        /\ Alive(c)' => Cardinality(client'[c].own) = 0 + Len(conn'[c].toServer)
    BY <2>1, <2>2, AddsAhead
  <2>4. conn'[c].toClient = <<>> /\ (Alive(c)' => Said(c)' = 0)
    BY <1>4 DEF Unheard
  <2>5. conn'[c].toServer \in Seq(Turn)
    <3>1. conn[c].toServer \in Seq(Turn)
      BY TurnsTyped
    <3>2. ASSUME NEW m \in Turn, conn'[c].toServer = Append(conn[c].toServer, m)
          PROVE  conn'[c].toServer \in Seq(Turn)
      BY <3>1, <3>2
    <3>3. conn'[c].toServer = conn[c].toServer
          \/ \E m \in Turn : conn'[c].toServer = Append(conn[c].toServer, m)
      BY DEF Adds
    <3>4. QED
      BY <3>1, <3>2, <3>3
  <2>6. Len(conn'[c].toServer) \in Int /\ \A j \in DOMAIN conn'[c].toServer : j \in Int
    BY <2>5
  <2>7. QED
    BY <2>3, <2>4, <2>6 DEF Unheard
<1>5. \A d \in Client : Speaks(d)' /\ (InPair(d)' \/ Unheard(d)')
  BY <1>1, <1>2, <1>3, <1>4 DEF Paired, InPair
<1>6. ASSUME NEW d \in Client, NEW e \in Client, Partner(d, e), Alive(e)' PROVE Ahead(d, e)'
  <2>1. d # e
    BY <1>6, PartnersMet
  <2>2. Alive(e) /\ ReachedBy(e)' = ReachedBy(e)
    BY <1>2, <1>6
  <2>3. Ahead(d, e)
    BY <1>6, <2>2 DEF Paired
  <2>4. CASE d = c
    <3>1. PICK h \in Int : h = ReachedBy(e)
      BY ReachedIsInt
    <3>2. /\ \A j \in DOMAIN conn[c].toServer : conn[c].toServer[j].nth = h + j
          /\ Alive(c) => Cardinality(client[c].own) = h + Len(conn[c].toServer)
      BY <2>3, <2>4, <3>1 DEF Ahead
    <3>3. /\ \A j \in DOMAIN conn'[c].toServer : conn'[c].toServer[j].nth = h + j
          /\ Alive(c)' => Cardinality(client'[c].own) = h + Len(conn'[c].toServer)
      BY <3>2, AddsAhead
    <3>4. QED
      BY <2>2, <2>4, <3>1, <3>3 DEF Ahead
  <2>5. CASE d # c
    BY <1>2, <2>2, <2>3, <2>5 DEF Ahead
  <2>6. QED
    BY <2>4, <2>5
<1>7. QED
  BY <1>1, <1>5, <1>6 DEF Paired

LEMMA TurnWire ==
  ASSUME conn \in Wires(Turn, Turn), AreClients(client), typed \in Nat, NEW c \in Client,
         Talker(c), TypeTurn(c)
  PROVE  /\ conn' \in Wires(Turn, Turn) /\ typed' = typed + 1 /\ client[c].state = "running"
         /\ \A d \in Client : d # c => conn'[d] = conn[d] /\ client'[d] = client[d]
         /\ \/ /\ conn[c].end # "open" /\ conn'[c].toClient = <<>> /\ client'[c] = Gone
            \/ /\ client'[c].state = "waiting" /\ client'[c].own = client[c].own \cup {typed + 1}
               /\ conn'[c].toClient = conn[c].toClient
               /\ conn[c].end = "open" =>
                     /\ conn'[c].end = "open"
                     /\ \E m \in Turn : /\ m.from = c /\ m.nth = Cardinality(client[c].own) + 1
                                        /\ conn'[c].toServer = Append(conn[c].toServer, m)
         /\ server' = server /\ UNCHANGED <<program, data, sock, merged>>
<1>1. conn[c] \in Connection(Turn, Turn) /\ Cardinality(client[c].own) \in Nat
  BY TurnsTyped, ReachedIsInt
<1>2. /\ typed' = typed + 1 /\ client[c].state = "running"
      /\ server' = server /\ UNCHANGED <<program, data, sock, merged>>
  BY DEF TypeTurn, Running, serverVars, histories
<1>3. CASE conn[c].end \in {"dead", "refused"} /\ Ends(c)
  <2>1. EndsAt(c, conn[c])
    BY <1>3 DEF Ends
  <2>2. /\ conn' \in Wires(Turn, Turn) /\ conn'[c].toClient = <<>>
        /\ \A d \in Client : d # c => conn'[d] = conn[d] /\ client'[d] = client[d]
        /\ client'[c] = Gone
    BY <1>1, <2>1, LeaveWire
  <2>3. QED
    BY <1>2, <1>3, <2>2
<1> DEFINE line == [id |-> typed + 1, from |-> c, nth |-> Cardinality(client[c].own) + 1]
           own == client[c].own \cup {typed + 1}
<1>4. CASE /\ conn' = [conn EXCEPT ![c] = ClientSends(@, line)]
           /\ client' = [client EXCEPT ![c].state = "waiting", ![c].waits = {typed + 1},
                                       ![c].own = @ \cup {typed + 1}]
  <2> DEFINE v == ClientSends(conn[c], line)
  <2>1. line \in Turn /\ line.from = c /\ line.nth = Cardinality(client[c].own) + 1
    BY <1>1 DEF Turn
  <2>2. conn' = [conn EXCEPT ![c] = v]
    BY <1>4
  <2> HIDE DEF line
  <2>3. v \in Connection(Turn, Turn) /\ v.peer = conn[c].peer /\ v.toClient = conn[c].toClient
    BY <1>1, <2>1, ClientSendsEffect
  <2>4. conn[c].end = "open" => v.end = "open" /\ v.toServer = Append(conn[c].toServer, line)
    BY <1>1 DEF ClientSends, Connection
  <2> HIDE DEF v
  <2>5. conn' \in Wires(Turn, Turn) /\ conn'[c] = v /\ \A d \in Client : d # c => conn'[d] = conn[d]
    BY <1>1, <2>2, <2>3 DEF Wires
  <2>6. /\ client'[c].state = "waiting" /\ client'[c].own = own
        /\ \A d \in Client : d # c => client'[d] = client[d]
    <3> DEFINE waits == {typed + 1}
    <3>1. client' = [client EXCEPT ![c].state = "waiting", ![c].waits = waits, ![c].own = own]
      BY <1>4 DEF AreClients
    <3> HIDE DEF own, waits
    <3>2. QED
      BY <3>1 DEF AreClients, IsClient
  <2>7. QED
    BY <1>2, <2>1, <2>3, <2>4, <2>5, <2>6
<1>5. QED
  BY <1>3, <1>4 DEF TypeTurn

LEMMA TakesWire ==
  ASSUME conn \in Wires(Turn, Turn), AreClients(client), NEW c \in Client, LockstepReceive(c)
  PROVE  /\ conn' \in Wires(Turn, Turn) /\ client[c].state = "waiting"
         /\ \A d \in Client : d # c => conn'[d] = conn[d] /\ client'[d] = client[d]
         /\ client'[c].state = "running" /\ client'[c].own = client[c].own
         /\ \/ /\ conn[c].toClient # <<>> /\ conn'[c].toClient = Tail(conn[c].toClient)
               /\ conn'[c].end = conn[c].end
            \/ /\ conn[c].toClient = <<>> /\ conn'[c].toClient = <<>> /\ conn[c].end # "open"
         /\ conn'[c].toServer = conn[c].toServer
         /\ server' = server /\ UNCHANGED <<program, data, sock, merged, typed>>
<1>1. conn[c] \in Connection(Turn, Turn)
  BY TurnsTyped
<1>2. /\ client[c].state = "waiting"
      /\ server' = server /\ UNCHANGED <<program, data, sock, merged, typed>>
  BY DEF LockstepReceive, serverVars, histories
<1> DEFINE v == IF conn[c].toClient # <<>> THEN [conn[c] EXCEPT !.toClient = Tail(@)]
                ELSE [conn[c] EXCEPT !.end = IF @ = "reset" THEN "dead" ELSE @]
<1>3. conn' = [conn EXCEPT ![c] = v] /\ (conn[c].toClient = <<>> => conn[c].end # "open")
  BY DEF LockstepReceive, ClientReadable
<1>4. /\ v \in Connection(Turn, Turn) /\ v.toServer = conn[c].toServer
      /\ \/ /\ conn[c].toClient # <<>> /\ v.toClient = Tail(conn[c].toClient)
            /\ v.end = conn[c].end
         \/ conn[c].toClient = <<>> /\ v.toClient = <<>>
  <2>1. CASE conn[c].toClient # <<>>
    <3> DEFINE rest == Tail(conn[c].toClient)
    <3>1. rest \in Seq(Turn)
      <4>1. conn[c].toClient \in Seq(Turn)
        BY TurnsTyped
      <4>2. QED
        BY <2>1, <4>1
    <3>2. v = [conn[c] EXCEPT !.toClient = rest]
      BY <2>1
    <3> HIDE DEF rest, v
    <3>3. /\ v \in Connection(Turn, Turn) /\ v.toServer = conn[c].toServer
          /\ v.toClient = rest /\ v.end = conn[c].end
      BY <1>1, <3>1, <3>2 DEF Connection
    <3>4. QED
      BY <2>1, <3>3 DEF rest
  <2>2. CASE conn[c].toClient = <<>>
    <3> DEFINE end == IF conn[c].end = "reset" THEN "dead" ELSE conn[c].end
    <3>1. end \in Heard
      BY <1>1 DEF Connection, Knowledge, Heard
    <3>2. v = [conn[c] EXCEPT !.end = end]
      BY <2>2
    <3> HIDE DEF end, v
    <3>3. /\ v \in Connection(Turn, Turn) /\ v.toServer = conn[c].toServer
          /\ v.toClient = conn[c].toClient
      BY <1>1, <3>1, <3>2 DEF Connection
    <3>4. QED
      BY <2>2, <3>3
  <2>3. QED
    BY <2>1, <2>2
<1> HIDE DEF v
<1>5. conn' \in Wires(Turn, Turn) /\ conn'[c] = v /\ \A d \in Client : d # c => conn'[d] = conn[d]
  <2>1. conn' = [conn EXCEPT ![c] = v]
    BY <1>3
  <2>2. v \in Connection(Turn, Turn)
    BY <1>4
  <2>3. QED
    BY <2>1, <2>2 DEF Wires
<1>6. /\ client'[c].state = "running" /\ client'[c].own = client[c].own
      /\ \A d \in Client : d # c => client'[d] = client[d]
  <2>1. client' = [client EXCEPT ![c].state = "running", ![c].waits = {}]
    BY DEF LockstepReceive
  <2>2. QED
    BY <2>1 DEF AreClients, IsClient
<1>7. conn'[c].toServer = conn[c].toServer
  BY <1>4, <1>5
<1>8. \/ /\ conn[c].toClient # <<>> /\ conn'[c].toClient = Tail(conn[c].toClient)
         /\ conn'[c].end = conn[c].end
      \/ /\ conn[c].toClient = <<>> /\ conn'[c].toClient = <<>> /\ conn[c].end # "open"
  <2>1. CASE conn[c].toClient # <<>>
    BY <1>4, <1>5, <2>1
  <2>2. CASE conn[c].toClient = <<>>
    BY <1>3, <1>4, <1>5, <2>2
  <2>3. QED
    BY <2>1, <2>2
<1>9. QED
  BY <1>2, <1>5, <1>6, <1>7, <1>8

\* A step of client c.
LEMMA ClientInTurn ==
  ASSUME InTurn, Chat7, merged = {}, UNCHANGED program, typed' \in Nat, typed <= typed',
         conn' \in Wires(Turn, Turn), NEW c \in Client,
         \A d \in Client : d # c => conn'[d] = conn[d] /\ client'[d] = client[d],
         Talker(c)', Told(c)', server' = "up" => Paired'
  PROVE  InTurn'
<1>1. typed \in Nat /\ \A d \in Client : Talker(d) /\ Told(d)
  BY DEF InTurn
<1>2. \A d \in Client : Told(d)'
  BY <1>1 DEF Told, Said, Alive, Running
<1>3. \A d \in Client : Talker(d)'
  <2>1. 1 .. typed \subseteq 1 .. typed'
    BY <1>1
  <2>2. QED
    BY <1>1, <2>1 DEF Talker
<1>4. QED
  BY <1>2, <1>3 DEF InTurn

LEMMA GoneInTurn ==
  ASSUME Loop, InChat, InTurn, Chat7, merged = {}, NEW c \in Client, Leave(c)
  PROVE  InTurn'
<1>1. /\ typed \in Nat /\ conn \in Wires(Turn, Turn) /\ \A d \in Client : Talker(d) /\ Told(d)
      /\ AreClients(client)
  BY DEF InTurn, Loop, Shape
<1>2. /\ EndsAt(c, conn[c]) /\ conn[c] \in Connection(Turn, Turn)
      /\ UNCHANGED <<program, serverVars, typed, histories>>
  BY <1>1, TurnsTyped DEF Leave, Ends
<1>3. /\ conn' \in Wires(Turn, Turn)
      /\ conn'[c].toClient = <<>> /\ conn'[c].toServer = conn[c].toServer
      /\ conn'[c].end = conn[c].end
      /\ \A d \in Client : d # c => conn'[d] = conn[d] /\ client'[d] = client[d]
      /\ client'[c] = Gone
  BY <1>1, <1>2, LeaveWire
<1>4. client'[c].state = "ended" /\ client'[c].own = {}
  BY <1>3 DEF Gone, NewClient
<1>5. UNCHANGED program /\ UNCHANGED typed /\ UNCHANGED <<sock, data>> /\ server' = server
  BY <1>2 DEF serverVars
<1>6. ~Alive(c)' /\ Talker(c)' /\ Told(c)'
  BY <1>4 DEF Alive, Talker, Told
<1>7. ASSUME server' = "up" PROVE Paired'
  <2>1. server = "up" /\ Paired
    BY <1>5, <1>7 DEF InTurn
  <2>2. conn'[c].end = "open"
    BY <1>3, <2>1 DEF Paired, Speaks
  <2>3. Adds(c)
    BY <1>3, <1>6 DEF Adds
  <2>4. QED
    BY <1>1, <1>3, <1>5, <1>6, <2>1, <2>2, <2>3, ClientPaired
<1>8. typed' \in Nat /\ typed <= typed'
  BY <1>1, <1>5
<1>9. QED
  BY <1>3, <1>5, <1>6, <1>7, <1>8, ClientInTurn

LEMMA TypeInTurn ==
  ASSUME Loop, InChat, InTurn, Chat7, merged = {}, NEW c \in Client, TypeTurn(c)
  PROVE  InTurn'
<1>1. /\ typed \in Nat /\ conn \in Wires(Turn, Turn) /\ \A d \in Client : Talker(d) /\ Told(d)
      /\ AreClients(client)
  BY DEF InTurn, Loop, Shape
<1>2. /\ conn' \in Wires(Turn, Turn) /\ typed' = typed + 1 /\ client[c].state = "running"
      /\ \A d \in Client : d # c => conn'[d] = conn[d] /\ client'[d] = client[d]
      /\ server' = server /\ UNCHANGED <<program, data, sock, merged>>
  BY <1>1, TurnWire
<1>3. \/ /\ conn[c].end # "open" /\ conn'[c].toClient = <<>> /\ client'[c] = Gone
      \/ /\ client'[c].state = "waiting" /\ client'[c].own = client[c].own \cup {typed + 1}
         /\ conn'[c].toClient = conn[c].toClient
         /\ conn[c].end = "open" =>
               /\ conn'[c].end = "open"
               /\ \E m \in Turn : /\ m.from = c /\ m.nth = Cardinality(client[c].own) + 1
                                  /\ conn'[c].toServer = Append(conn[c].toServer, m)
  BY <1>1, TurnWire
<1>4. typed' \in Nat /\ typed <= typed'
  BY <1>1, <1>2
<1>5. CASE conn[c].end # "open" /\ conn'[c].toClient = <<>> /\ client'[c] = Gone
  <2>1. client'[c].state = "ended" /\ client'[c].own = {}
    BY <1>5 DEF Gone, NewClient
  <2>2. Talker(c)' /\ Told(c)'
    BY <2>1 DEF Alive, Talker, Told
  <2>3. server' # "up"
    BY <1>2, <1>5 DEF InTurn, Paired, Speaks
  <2>4. QED
    BY <1>2, <1>4, <2>2, <2>3, ClientInTurn
<1>6. CASE /\ client'[c].state = "waiting" /\ client'[c].own = client[c].own \cup {typed + 1}
           /\ conn'[c].toClient = conn[c].toClient
           /\ conn[c].end = "open" =>
                 /\ conn'[c].end = "open"
                 /\ \E m \in Turn : /\ m.from = c /\ m.nth = Cardinality(client[c].own) + 1
                                    /\ conn'[c].toServer = Append(conn[c].toServer, m)
  <2>1. /\ client'[c].own \in SUBSET (1 .. typed')
        /\ Cardinality(client'[c].own) = Cardinality(client[c].own) + 1
        /\ Cardinality(client[c].own) \in Nat
    <3>1. PICK n \in Nat : n = typed
      BY <1>1
    <3> DEFINE own == client[c].own
    <3>2. own \in SUBSET (1 .. n)
      BY <1>1, <3>1 DEF Talker
    <3> HIDE DEF own
    <3>3. /\ Cardinality(own) \in Nat /\ own \cup {n + 1} \in SUBSET (1 .. n + 1)
          /\ Cardinality(own \cup {n + 1}) = Cardinality(own) + 1
      BY <3>2, OwnCount
    <3>4. client'[c].own = own \cup {n + 1} /\ typed' = n + 1
      BY <1>2, <1>6, <3>1 DEF own
    <3>5. QED
      BY <3>1, <3>3, <3>4 DEF own
  <2>2. Talker(c)'
    BY <1>6, <2>1 DEF Talker
  <2>3. Alive(c) /\ Said(c)' = Said(c)
    BY <1>2, <1>6, <2>1 DEF Alive, Said, Running
  <2>4. ReachedBy(c)' = ReachedBy(c)
    BY <1>6, <2>3 DEF ReachedBy
  <2>5. Told(c)'
    BY <1>1, <1>6, <2>3 DEF Told
  <2>6. ASSUME server' = "up" PROVE Paired'
    <3>1. server = "up" /\ Paired
      BY <1>2, <2>6 DEF InTurn
    <3>2. conn[c].end = "open"
      BY <3>1 DEF Paired, Speaks
    <3>3. Adds(c) /\ conn'[c].end = "open"
      BY <1>6, <2>1, <2>3, <3>2 DEF Adds
    <3>4. UNCHANGED <<sock, data>>
      BY <1>2
    <3>5. QED
      BY <1>1, <1>2, <1>6, <2>3, <2>4, <3>1, <3>3, <3>4, ClientPaired
  <2>7. QED
    BY <1>2, <1>4, <2>2, <2>5, <2>6, ClientInTurn
<1>7. QED
  BY <1>3, <1>5, <1>6

\* A block is taken: the line before it has had its answer.
LEMMA ReceiveInTurn ==
  ASSUME Loop, InChat, InTurn, Chat7, merged = {}, NEW c \in Client, LockstepReceive(c)
  PROVE  InTurn'
<1>1. /\ typed \in Nat /\ conn \in Wires(Turn, Turn) /\ \A d \in Client : Talker(d) /\ Told(d)
      /\ AreClients(client)
  BY DEF InTurn, Loop, Shape
<1>2. /\ conn' \in Wires(Turn, Turn) /\ client[c].state = "waiting"
      /\ \A d \in Client : d # c => conn'[d] = conn[d] /\ client'[d] = client[d]
      /\ client'[c].state = "running" /\ client'[c].own = client[c].own
      /\ conn'[c].toServer = conn[c].toServer
      /\ server' = server /\ UNCHANGED <<program, data, sock, merged, typed>>
  BY <1>1, TakesWire
<1>3. \/ /\ conn[c].toClient # <<>> /\ conn'[c].toClient = Tail(conn[c].toClient)
         /\ conn'[c].end = conn[c].end
      \/ /\ conn[c].toClient = <<>> /\ conn'[c].toClient = <<>> /\ conn[c].end # "open"
  BY <1>1, TakesWire
<1>4. typed' \in Nat /\ typed <= typed'
  BY <1>1, <1>2
<1>5. Talker(c)'
  BY <1>1, <1>2 DEF Talker
<1>6. Alive(c) /\ Said(c)' = Said(c) + 1 /\ Cardinality(client[c].own) \in Nat
  <2>1. Cardinality(client[c].own) \in Nat
    BY <1>1, ReachedIsInt
  <2>2. QED
    BY <1>2, <2>1 DEF Alive, Said, Running
<1>7. CASE /\ conn[c].toClient # <<>> /\ conn'[c].toClient = Tail(conn[c].toClient)
           /\ conn'[c].end = conn[c].end
  <2> DEFINE q == conn[c].toClient
             r == Tail(q)
             n == Len(q)
  <2>1. q \in Seq(Turn) /\ q # <<>> /\ n \in Nat
    BY <1>1, <1>7, TurnsTyped
  <2>2. /\ DOMAIN q = 1 .. n /\ DOMAIN r = 1 .. n - 1 /\ Len(r) = n - 1
        /\ \A k \in 1 .. n - 1 : r[k] = q[k + 1]
    BY <2>1
  <2>3. \A k \in 1 .. n - 1 : k \in Int /\ k + 1 \in 1 .. n
    BY <2>1
  <2>4. PICK s \in Int : s = Said(c)
    BY <1>1, ReachedIsInt
  <2>5. conn'[c].toClient = r /\ conn[c].toClient = q
    BY <1>7
  <2> HIDE DEF q, r, n
  <2>6. Told(c)'
    <3>1. ASSUME NEW k \in 1 .. n - 1, r[k].nth # Garbage
          PROVE  r[k].from # c /\ r[k].nth = (s + 1) + k
      <4>1. k + 1 \in DOMAIN conn[c].toClient
        BY <2>2, <2>3, <2>5
      <4>2. r[k] = conn[c].toClient[k + 1]
        BY <2>2, <2>5
      <4>3. Told(c)
        BY <1>1
      <4>4. r[k].from # c /\ r[k].nth = s + (k + 1)
        BY <1>6, <2>4, <3>1, <4>1, <4>2, <4>3 DEF Told
      <4>5. QED
        BY <2>3, <4>4
    <3>2. Said(c)' = s + 1
      BY <1>6, <2>4
    <3>3. DOMAIN conn'[c].toClient = 1 .. n - 1
      BY <2>2, <2>5
    <3>4. QED
      BY <2>5, <3>1, <3>2, <3>3 DEF Told
  <2>7. ReachedBy(c)' = ReachedBy(c)
    BY <1>6, <2>1, <2>2, <2>4, <2>5 DEF ReachedBy
  <2>8. ASSUME server' = "up" PROVE Paired'
    <3>1. server = "up" /\ Paired
      BY <1>2, <2>8 DEF InTurn
    <3>2. conn'[c].end = "open"
      BY <1>7, <3>1 DEF Paired, Speaks
    <3>3. Adds(c)
      BY <1>2 DEF Adds
    <3>4. UNCHANGED <<sock, data>>
      BY <1>2
    <3>5. QED
      BY <1>1, <1>2, <1>6, <1>7, <2>7, <3>1, <3>2, <3>3, <3>4, ClientPaired
  <2>9. QED
    BY <1>2, <1>4, <1>5, <2>6, <2>8, ClientInTurn
<1>8. CASE /\ conn[c].toClient = <<>> /\ conn'[c].toClient = <<>> /\ conn[c].end # "open"
  <2>1. Told(c)'
    BY <1>8 DEF Told
  <2>2. server' # "up"
    BY <1>2, <1>8 DEF InTurn, Paired, Speaks
  <2>3. QED
    BY <1>2, <1>4, <1>5, <2>1, <2>2, ClientInTurn
<1>9. QED
  BY <1>3, <1>7, <1>8

LEMMA ConnectInTurn ==
  ASSUME Loop, InChat, InTurn, Chat7, merged = {}, NEW c \in Client, LockstepConnect(c)
  PROVE  InTurn'
<1>1. /\ typed \in Nat /\ conn \in Wires(Turn, Turn) /\ \A d \in Client : Talker(d) /\ Told(d)
      /\ AreClients(client)
  BY DEF InTurn, Loop, Shape
<1> DEFINE first == <<>>
<1>2. first \in Seq(Turn) /\ Connect(c, "running", first)
  BY DEF LockstepConnect
<1> HIDE DEF first
<1>3. /\ conn' \in Wires(Turn, Turn)
      /\ conn'[c].toServer = first /\ conn'[c].toClient = conn[c].toClient
      /\ conn'[c].end = conn[c].end
      /\ \A d \in Client : d # c => conn'[d] = conn[d] /\ client'[d] = client[d]
      /\ client'[c].state = "running" /\ client[c].state = "new" /\ client'[c].own = client[c].own
      /\ server' = "up" /\ server = "up" /\ UNCHANGED <<program, data, typed, histories>>
  BY <1>1, <1>2, ConnectWire
<1>4. UNCHANGED sock
  BY <1>2 DEF Connect
<1>5. Paired
  BY <1>3 DEF InTurn
<1>6. \A d \in Client : ~Partner(c, d) /\ ~Partner(d, c)
  BY <1>3, <1>5, PartnersMet
<1>7. Unheard(c) /\ Speaks(c)
  BY <1>5, <1>6 DEF Paired, InPair
<1>8. client'[c].own = {} /\ DOMAIN first = {} /\ Len(first) = 0 /\ Cardinality({}) = 0
  BY <1>1, <1>3, FS_EmptySet DEF Talker, first
<1>9. Told(c)' /\ Talker(c)'
  BY <1>3, <1>7, <1>8 DEF Told, Talker, Unheard
<1>10. Unheard(c)' /\ Speaks(c)'
  BY <1>3, <1>7, <1>8 DEF Unheard, Speaks, Said, Running
<1>11. ASSUME NEW d \in Client, NEW e \in Client PROVE Partner(d, e)' <=> Partner(d, e)
  BY <1>3, <1>4 DEF Partner
<1>12. ASSUME NEW d \in Client, d # c
       PROVE  /\ Speaks(d)' <=> Speaks(d)
              /\ Unheard(d)' <=> Unheard(d)
              /\ Alive(d)' <=> Alive(d)
              /\ ReachedBy(d)' = ReachedBy(d)
  BY <1>3, <1>12 DEF Speaks, Unheard, Alive, ReachedBy, Said, Running
<1>13. Paired'
  <2>1. \A d \in Client : Speaks(d)' /\ (InPair(d)' \/ Unheard(d)')
    BY <1>5, <1>10, <1>11, <1>12 DEF Paired, InPair
  <2>2. ASSUME NEW d \in Client, NEW e \in Client, Partner(d, e), Alive(e)' PROVE Ahead(d, e)'
    <3>1. d # c /\ e # c
      BY <1>6, <2>2
    <3>2. Ahead(d, e)
      BY <1>5, <1>12, <2>2, <3>1 DEF Paired
    <3>3. QED
      BY <1>3, <1>12, <3>1, <3>2 DEF Ahead, Alive
  <2>3. QED
    BY <1>3, <1>5, <1>11, <2>1, <2>2 DEF Paired
<1>14. typed' \in Nat /\ typed <= typed' /\ UNCHANGED program
  BY <1>1, <1>3
<1>15. QED
  BY <1>3, <1>9, <1>13, <1>14, ClientInTurn

\* The second connection is accepted: each of the two may have sent its first
\* line, and neither has heard anything.
LEMMA AcceptInTurn ==
  ASSUME Loop, InChat, InTurn, Chat7, merged = {}, LockstepAccept
  PROVE  InTurn'
<1>1. /\ typed \in Nat /\ conn \in Wires(Turn, Turn) /\ Paired
      /\ \A c \in Client : Talker(c) /\ Told(c)
  BY DEF InTurn, LockstepAccept
<1>2. /\ UNCHANGED <<program, conn, client, typed, histories>> /\ server = "up" /\ server' = server
      /\ Len(data.connfd) < 2 /\ backlog # <<>>
      /\ sock' = [sock EXCEPT ![NewFd] = Head(backlog)]
      /\ data' = [data EXCEPT !.connfd = Append(data.connfd, NewFd)]
  BY DEF LockstepAccept
<1>3. NewFd \in Fd /\ sock[NewFd] = Free
  <2>1. 1 \in DOMAIN backlog /\ backlog[1] \in Client
    <3>1. backlog \in Seq(Client)
      BY DEF Loop, Shape
    <3>2. QED
      BY <1>2, <3>1
  <2>2. \A f \in Fd : sock[f] # backlog[1]
    BY <2>1 DEF Loop, Queued
  <2>3. Shape /\ Seats
    BY DEF Loop
  <2>4. QED
    BY <2>1, <2>2, <2>3, NewFdFree
<1>4. \A c \in Client : Speaks(c) /\ Unheard(c)
  <2>1. Len(data.connfd) # 2
    BY <1>2
  <2>2. QED
    BY <1>1, <2>1 DEF Paired, InPair, Partner
<1>5. \A c \in Client : Speaks(c)' /\ Unheard(c)'
  BY <1>2, <1>4 DEF Speaks, Unheard, Alive, Said, Running
<1>6. Len(data'.connfd) = 2 => data'.connfd[1] # data'.connfd[2]
  <2>1. data.connfd \in Seq(Fd) /\ data \in [connfd : Seq(Fd), turn : {1, 2}]
        /\ \A k \in DOMAIN data.connfd : sock[data.connfd[k]] # Free
    BY <1>2 DEF InChat
  <2> DEFINE q == data.connfd
             r == Append(q, NewFd)
  <2>2. data'.connfd = r
    BY <1>2, <2>1
  <2>3. Len(r) = 2 => 1 \in DOMAIN q /\ r[1] = q[1] /\ r[2] = NewFd
    BY <1>3, <2>1
  <2>4. 1 \in DOMAIN q => q[1] # NewFd
    BY <1>3, <2>1
  <2> HIDE DEF q, r
  <2>5. QED
    BY <2>2, <2>3, <2>4
<1>7. ASSUME NEW c \in Client, NEW d \in Client, Alive(d)' PROVE Ahead(c, d)'
  <2>1. Alive(d)
    BY <1>2, <1>7 DEF Alive
  <2>2. Said(d) = 0 /\ conn[d].toClient = <<>>
    BY <1>4, <2>1 DEF Unheard
  <2>3. ReachedBy(d) = 0
    BY <2>2 DEF ReachedBy
  <2>4. /\ \A j \in DOMAIN conn[c].toServer : j \in Int /\ conn[c].toServer[j].nth = j
        /\ Len(conn[c].toServer) \in Int
        /\ Alive(c) => Cardinality(client[c].own) = Len(conn[c].toServer)
    BY <1>1, <1>4, ReachedIsInt DEF Unheard
  <2>5. Ahead(c, d)
    BY <2>3, <2>4 DEF Ahead
  <2>6. QED
    BY <1>2, <2>5 DEF Ahead, ReachedBy, Said, Alive, Running
<1>8. Paired'
  BY <1>5, <1>6, <1>7 DEF Paired
<1>9. \A c \in Client : Talker(c)' /\ Told(c)'
  BY <1>1, <1>2 DEF Talker, Told, Said, Alive, Running
<1>10. QED
  BY <1>1, <1>2, <1>8, <1>9 DEF InTurn

\* A block reaches client d behind what is on its way already.
LEMMA BlockTold ==
  ASSUME typed \in Nat, conn \in Wires(Turn, Turn), NEW d \in Client, Talker(d), Told(d), Alive(d),
         NEW block \in Turn, NEW t,
         t = conn[d].toClient \/ t = conn[d].toClient \o <<block>>,
         block.nth # Garbage => block.from # d /\ block.nth = ReachedBy(d) + 1
  PROVE  \A k \in DOMAIN t : t[k].nth # Garbage => t[k].from # d /\ t[k].nth = Said(d) + k
<1>1. CASE t = conn[d].toClient
  BY <1>1 DEF Told
<1>2. CASE t = conn[d].toClient \o <<block>>
  <2> DEFINE q == conn[d].toClient
             n == Len(q)
             s == Said(d)
  <2>1. q \in Seq(Turn) /\ n \in Nat /\ s \in Int /\ DOMAIN q = 1 .. n
    BY TurnsTyped, ReachedIsInt
  <2>2. t = Append(q, block)
    BY <1>2, <2>1
  <2>3. /\ DOMAIN t = 1 .. n + 1 /\ t[n + 1] = block
        /\ \A k \in 1 .. n : t[k] = q[k]
    BY <2>1, <2>2
  <2>4. \A k \in 1 .. n : q[k].nth # Garbage => q[k].from # d /\ q[k].nth = s + k
    BY <2>1 DEF Told
  <2>5. ReachedBy(d) = s + n
    BY DEF ReachedBy
  <2> HIDE DEF q, n, s
  <2>6. block.nth # Garbage => block.from # d /\ block.nth = s + (n + 1)
    BY <2>1, <2>5
  <2>7. \A k \in 1 .. n + 1 : k \in 1 .. n \/ k = n + 1
    BY <2>1
  <2>8. \A k \in DOMAIN t : t[k].nth # Garbage => t[k].from # d /\ t[k].nth = s + k
    BY <2>3, <2>4, <2>6, <2>7
  <2>9. QED
    BY <2>8 DEF s
<1>3. QED
  BY <1>1, <1>2

\* What recv() leaves of client c's connection.
Taking(c) ==
    [Read(c) EXCEPT ![c].peer =
        IF conn[c].toServer = <<>> /\ conn[c].peer = "reset" THEN "dead" ELSE @]

LEMMA TakingWire ==
  ASSUME conn \in Wires(Turn, Turn), NEW c \in Client
  PROVE  /\ Taking(c) \in Wires(Turn, Turn)
         /\ Taking(c)[c].toServer = <<>> /\ Taking(c)[c].toClient = conn[c].toClient
         /\ Taking(c)[c].end = conn[c].end
         /\ \A d \in Client : d # c => Taking(c)[d] = conn[d]
<1> DEFINE k == Read(c)
           p == IF conn[c].toServer = <<>> /\ conn[c].peer = "reset" THEN "dead" ELSE k[c].peer
           v == [k[c] EXCEPT !.peer = p]
<1>1. /\ k \in Wires(Turn, Turn)
      /\ k[c].toServer = <<>> /\ k[c].toClient = conn[c].toClient /\ k[c].end = conn[c].end
      /\ \A d \in Client : d # c => k[d] = conn[d]
  BY ReadWire
<1>2. k[c] \in Connection(Turn, Turn) /\ k \in [Client -> Connection(Turn, Turn)]
  <2> HIDE DEF k
  <2>1. QED
    BY <1>1 DEF Wires
<1>3. Taking(c) = [k EXCEPT ![c] = v]
  <2>1. Taking(c) = [k EXCEPT ![c].peer = p]
    BY DEF Taking
  <2> HIDE DEF k, p
  <2>2. QED
    BY <1>2, <2>1
<1> HIDE DEF k
<1>4. p \in Knowledge
  BY <1>2 DEF Connection, Knowledge
<1> HIDE DEF p
<1>5. /\ v \in Connection(Turn, Turn) /\ v.toServer = k[c].toServer
      /\ v.toClient = k[c].toClient /\ v.end = k[c].end
  BY <1>2, <1>4 DEF Connection
<1> HIDE DEF v
<1>6. /\ Taking(c) \in [Client -> Connection(Turn, Turn)] /\ Taking(c)[c] = v
      /\ \A d \in Client : d # c => Taking(c)[d] = k[d]
  BY <1>2, <1>3, <1>5
<1>7. QED
  BY <1>1, <1>5, <1>6 DEF Wires

LEMMA BlockWire ==
  ASSUME conn \in Wires(Turn, Turn), NEW c \in Client, NEW d \in Client, c # d, NEW block \in Turn
  PROVE  /\ SentTo(Taking(c), d, <<block>>) \in Wires(Turn, Turn)
         /\ SentTo(Taking(c), d, <<block>>)[c].toServer = <<>>
         /\ SentTo(Taking(c), d, <<block>>)[c].toClient = conn[c].toClient
         /\ SentTo(Taking(c), d, <<block>>)[c].end = conn[c].end
         /\ SentTo(Taking(c), d, <<block>>)[d].toServer = conn[d].toServer
         /\ SentTo(Taking(c), d, <<block>>)[d].end = conn[d].end
         /\ IF conn[d].peer = "open"
            THEN SentTo(Taking(c), d, <<block>>)[d].toClient = conn[d].toClient \o <<block>>
            ELSE SentTo(Taking(c), d, <<block>>)[d].toClient = conn[d].toClient
         /\ \A e \in Client \ {c, d} : SentTo(Taking(c), d, <<block>>)[e] = conn[e]
<1> DEFINE k == Taking(c)
           msgs == <<block>>
           u == SentTo(k, d, msgs)
<1>1. /\ k \in Wires(Turn, Turn)
      /\ k[c].toServer = <<>> /\ k[c].toClient = conn[c].toClient /\ k[c].end = conn[c].end
      /\ \A e \in Client : e # c => k[e] = conn[e]
  BY TakingWire
<1>2. msgs \in Seq(Turn)
  OBVIOUS
<1> HIDE DEF k, msgs
<1>3. /\ u \in Wires(Turn, Turn)
      /\ u[d].toServer = k[d].toServer /\ u[d].end = k[d].end
      /\ k[d].peer = "open" => u[d].toClient = k[d].toClient \o msgs
      /\ k[d].peer # "open" => u[d].toClient = k[d].toClient
      /\ \A e \in Client : e # d => u[e] = k[e]
  BY <1>1, <1>2, SendWire
<1> HIDE DEF u
<1>4. k[d] = conn[d] /\ u[c] = k[c] /\ \A e \in Client \ {c, d} : u[e] = conn[e]
  BY <1>1, <1>3
<1>5. IF conn[d].peer = "open" THEN u[d].toClient = conn[d].toClient \o msgs
      ELSE u[d].toClient = conn[d].toClient
  BY <1>3, <1>4
<1>6. QED
  BY <1>1, <1>3, <1>4, <1>5 DEF u, k, msgs

\* The chat ends: what is on its way still arrives.
LEMMA OverInTurn ==
  ASSUME InTurn, Chat7, merged = {}, NEW k \in Wires(Turn, Turn), ServerEnds(k),
         \A e \in Client : Alive(e) =>
            \A j \in DOMAIN k[e].toClient :
                k[e].toClient[j].nth # Garbage =>
                    k[e].toClient[j].from # e /\ k[e].toClient[j].nth = Said(e) + j
  PROVE  InTurn'
<1>1. typed \in Nat /\ \A e \in Client : Talker(e) /\ Told(e)
  BY DEF InTurn
<1>2. /\ conn' \in Wires(Turn, Turn)
      /\ \A e \in Client : conn'[e].toClient = k[e].toClient
      /\ server' = "down" /\ UNCHANGED <<program, data, client, typed>>
  BY EndWire
<1>3. \A e \in Client : Talker(e)'
  BY <1>1, <1>2 DEF Talker
<1>4. \A e \in Client : Told(e)'
  BY <1>2 DEF Told, Said, Alive, Running
<1>5. QED
  BY <1>1, <1>2, <1>3, <1>4 DEF InTurn

\* The block that goes to d.
Block(c) ==
    IF conn[c].toServer # <<>> THEN Head(conn[c].toServer) ELSE [id |-> 0, from |-> c, nth |-> Garbage]

LEMMA BlockIsTurn ==
  ASSUME Loop, InTurn, Chat7, merged = {}, server = "up", NEW c \in Client, NEW d \in Client, c # d,
         Partner(c, d), Len(conn[c].toServer) <= 1
  PROVE  /\ Block(c) \in Turn
         /\ Alive(d) /\ Block(c).nth # Garbage =>
               Block(c).from # d /\ Block(c).nth = ReachedBy(d) + 1
         /\ conn[c].toServer = <<>> => Block(c).nth = Garbage
         /\ conn[c].toServer # <<>> => Len(conn[c].toServer) = 1
<1>1. typed \in Nat /\ conn \in Wires(Turn, Turn) /\ Paired
  BY DEF InTurn
<1>2. conn[c].toServer \in Seq(Turn)
  BY <1>1, TurnsTyped
<1>3. CASE conn[c].toServer = <<>>
  BY <1>3 DEF Block, Turn, Garbage
<1>4. CASE conn[c].toServer # <<>>
  <2> DEFINE q == conn[c].toServer
  <2>1. Len(q) = 1 /\ 1 \in DOMAIN q /\ Head(q) = q[1] /\ q[1] \in Turn
    <3>1. q \in Seq(Turn) /\ q # <<>> /\ Len(q) <= 1
      BY <1>2, <1>4
    <3> HIDE DEF q
    <3>2. Len(q) \in Nat /\ DOMAIN q = 1 .. Len(q) /\ Len(q) # 0 /\ Head(q) = q[1]
      BY <3>1
    <3>3. Len(q) = 1
      BY <3>1, <3>2
    <3>4. QED
      BY <3>1, <3>2, <3>3
  <2>2. Block(c) = q[1]
    BY <1>4, <2>1 DEF Block
  <2>3. q[1].from = c
    BY <1>1, <2>1 DEF Paired, Speaks
  <2>4. Alive(d) => q[1].nth = ReachedBy(d) + 1
    BY <1>1, <2>1 DEF Paired, Ahead
  <2>5. QED
    BY <1>4, <2>1, <2>2, <2>3, <2>4
<1>5. QED
  BY <1>3, <1>4

\* The server reads from c and sends to d.
LEMMA PassedInTurn ==
  ASSUME Loop, InChat, InTurn, Chat7, merged = {}, merged' = {}, server = "up",
         NEW c \in Client, NEW d \in Client, Partner(c, d),
         Len(conn[c].toServer) <= 1, ServerReadable(conn[c]),
         conn' = SentTo(Taking(c), d, <<Block(c)>>),
         data' = [data EXCEPT !.turn = 3 - data.turn],
         UNCHANGED <<program, server, sock, client, typed>>
  PROVE  InTurn'
<1>1. /\ typed \in Nat /\ conn \in Wires(Turn, Turn) /\ Paired
      /\ \A e \in Client : Talker(e) /\ Told(e)
  BY DEF InTurn
<1>2. c # d /\ Partner(d, c) /\ (\A e \in Client : Partner(c, e) => e = d)
  BY <1>1, PartnersMet
<1>3. \A e \in Client : Partner(d, e) => e = c
  BY <1>1, <1>2, PartnersMet
<1>4. PICK block \in Turn : block = Block(c)
  BY <1>2, BlockIsTurn
<1>5. /\ Alive(d) /\ block.nth # Garbage => block.from # d /\ block.nth = ReachedBy(d) + 1
      /\ conn[c].toServer = <<>> => block.nth = Garbage
      /\ conn[c].toServer # <<>> => Len(conn[c].toServer) = 1
  BY <1>2, <1>4, BlockIsTurn
<1>6. conn' = SentTo(Taking(c), d, <<block>>)
  BY <1>4
<1> DEFINE u == SentTo(Taking(c), d, <<block>>)
<1>18. /\ u \in Wires(Turn, Turn)
       /\ u[c].toServer = <<>> /\ u[c].toClient = conn[c].toClient
       /\ u[c].end = conn[c].end
       /\ u[d].toServer = conn[d].toServer /\ u[d].end = conn[d].end
       /\ IF conn[d].peer = "open" THEN u[d].toClient = conn[d].toClient \o <<block>>
          ELSE u[d].toClient = conn[d].toClient
       /\ \A e \in Client \ {c, d} : u[e] = conn[e]
  <2>1. conn \in Wires(Turn, Turn) /\ c # d /\ block \in Turn
    BY <1>1, <1>2, <1>4
  <2>2. QED
    BY SMTT(30), <2>1, BlockWire
<1> HIDE DEF u
<1>19. conn' = u
  BY <1>6 DEF u
<1>7. /\ conn' \in Wires(Turn, Turn)
      /\ conn'[c].toServer = <<>> /\ conn'[c].toClient = conn[c].toClient
      /\ conn'[c].end = conn[c].end
      /\ conn'[d].toServer = conn[d].toServer /\ conn'[d].end = conn[d].end
      /\ \A e \in Client \ {c, d} : conn'[e] = conn[e]
  BY <1>18, <1>19
<1>8. IF conn[d].peer = "open" THEN conn'[d].toClient = conn[d].toClient \o <<block>>
      ELSE conn'[d].toClient = conn[d].toClient
  BY <1>18, <1>19
\* Who lives has not been found gone.
<1>9. \A e \in Client : conn[e].peer # "open" => ~Alive(e)
  BY DEF Loop, Peers, Alive
<1>10. ASSUME NEW e \in Client
       PROVE  Alive(e)' = Alive(e) /\ Said(e)' = Said(e) /\ client'[e] = client[e]
  BY DEF Alive, Said, Running
<1>11. ASSUME NEW e \in Client, NEW g \in Client PROVE Partner(e, g)' <=> Partner(e, g)
  <2>1. data'.connfd = data.connfd
    BY DEF InChat
  <2>2. QED
    BY <2>1 DEF Partner
\* The block answers the line d waits for an answer to.
<1>12. Told(d)'
  <2>1. CASE Alive(d)
    <3>1. PICK t : t = conn'[d].toClient
      OBVIOUS
    <3>2. t = conn[d].toClient \/ t = conn[d].toClient \o <<block>>
      BY <1>8, <3>1
    <3>3. \A k \in DOMAIN t : t[k].nth # Garbage => t[k].from # d /\ t[k].nth = Said(d) + k
      BY <1>1, <1>5, <2>1, <3>2, BlockTold
    <3>4. QED
      BY <1>10, <3>1, <3>3 DEF Told
  <2>2. CASE ~Alive(d)
    BY <1>10, <2>2 DEF Told
  <2>3. QED
    BY <2>1, <2>2
<1>13. \A e \in Client : Told(e)' /\ Talker(e)'
  <2>1. ASSUME NEW e \in Client, e # d PROVE Told(e)'
    <3>1. conn'[e].toClient = conn[e].toClient
      BY <1>7, <2>1
    <3>2. QED
      BY <1>1, <1>10, <3>1 DEF Told
  <2>2. QED
    BY <1>1, <1>10, <1>12, <2>1 DEF Talker
<1>14. ASSUME NEW e \in Client PROVE Speaks(e)' /\ (InPair(e)' \/ Unheard(e)')
  <2>1. Speaks(e)
    BY <1>1 DEF Paired
  <2>2. CASE e = c
    BY <1>2, <1>7, <1>11, <2>1, <2>2 DEF Speaks, InPair
  <2>3. CASE e = d
    BY <1>2, <1>7, <1>11, <2>1, <2>3 DEF Speaks, InPair
  <2>4. CASE e # c /\ e # d
    <3>1. conn'[e] = conn[e] /\ client'[e] = client[e]
      BY <1>7, <1>10, <2>4
    <3>2. InPair(e) \/ Unheard(e)
      BY <1>1 DEF Paired
    <3>3. InPair(e) => InPair(e)'
      BY <1>11 DEF InPair
    <3>4. Unheard(e) => Unheard(e)'
      BY <1>10, <3>1 DEF Unheard
    <3>5. QED
      BY <2>1, <3>1, <3>2, <3>3, <3>4 DEF Speaks
  <2>5. QED
    BY <2>2, <2>3, <2>4
<1>15. ASSUME NEW e \in Client, NEW g \in Client, Partner(e, g), Alive(g) PROVE Ahead(e, g)'
  <2>1. Ahead(e, g)
    BY <1>1, <1>15 DEF Paired
  <2>2. CASE e = c
    <3>1. g = d
      BY <1>2, <1>15, <2>2
    <3>2. conn[d].peer = "open"
      BY <1>9, <1>15, <3>1
    <3>3. ReachedBy(d)' = ReachedBy(d) + 1
      <4> DEFINE q == conn[d].toClient
                 n == Len(q)
                 s == Said(d)
      <4>1. q \in Seq(Turn) /\ n \in Nat /\ s \in Int
        BY <1>1, TurnsTyped, ReachedIsInt
      <4>2. conn'[d].toClient = Append(q, block)
        <5>1. conn'[d].toClient = q \o <<block>>
          BY <1>8, <3>2
        <5>2. q \o <<block>> = Append(q, block)
          BY <4>1
        <5>3. QED
          BY <5>1, <5>2
      <4>3. Len(Append(q, block)) = n + 1
        BY <4>1
      <4>4. Said(d)' = s
        BY <1>10
      <4>5. ReachedBy(d) = s + n
        BY DEF ReachedBy
      <4> HIDE DEF n, q, s
      <4>6. QED
        BY SMTT(30), <4>1, <4>2, <4>3, <4>4, <4>5 DEF ReachedBy
    <3>4. DOMAIN <<>> = {} /\ Len(<<>>) = 0
      OBVIOUS
    <3>5. ASSUME Alive(c) PROVE Cardinality(client[c].own) = ReachedBy(d) + 1
      <4>1. Len(conn[c].toServer) = 1
        BY <1>5, <1>9, <3>5 DEF ServerReadable
      <4>2. QED
        BY <2>1, <2>2, <3>1, <3>5, <4>1 DEF Ahead
    <3>6. ReachedBy(d) \in Int
      BY <1>1, ReachedIsInt
    <3>7. QED
      BY <1>7, <1>10, <2>2, <3>1, <3>3, <3>4, <3>5, <3>6 DEF Ahead
  <2>3. CASE e # c
    <3>1. g # d
      BY <1>3, <1>15, <2>3, PartnersMet, <1>1
    <3>2. conn'[g].toClient = conn[g].toClient /\ conn'[e].toServer = conn[e].toServer
      BY <1>7, <2>3, <3>1
    <3>3. ReachedBy(g)' = ReachedBy(g)
      BY <1>10, <3>2 DEF ReachedBy
    <3>4. QED
      BY <1>10, <2>1, <3>2, <3>3 DEF Ahead
  <2>4. QED
    BY <2>2, <2>3
<1>16. Paired'
  <2>1. Len(data'.connfd) = 2 => data'.connfd[1] # data'.connfd[2]
    <3>1. data'.connfd = data.connfd
      BY DEF InChat
    <3>2. QED
      BY <1>1, <3>1 DEF Paired
  <2>2. ASSUME NEW e \in Client, NEW g \in Client, Partner(e, g)', Alive(g)' PROVE Ahead(e, g)'
    BY <1>10, <1>11, <1>15, <2>2
  <2>3. QED
    BY <1>14, <2>1, <2>2 DEF Paired
<1>17. QED
  BY <1>1, <1>7, <1>13, <1>16 DEF InTurn

LEMMA PassInTurn ==
  ASSUME Loop, InChat, InTurn, Chat7, merged = {}, merged' = {}, receive_and_send
  PROVE  InTurn'
<1>1. server = "up" /\ Len(data.connfd) = 2
  BY Zenon DEF receive_and_send
<1>2. /\ typed \in Nat /\ conn \in Wires(Turn, Turn) /\ Paired
      /\ \A e \in Client : Talker(e) /\ Told(e)
  BY <1>1 DEF InTurn
<1>3. /\ data.turn \in {1, 2} /\ Target(data.turn) \in {1, 2}
      /\ \A k \in {1, 2} : sock[data.connfd[k]] \in Client
  BY <1>1, ChatClients DEF Loop
<1>4. PICK c \in Client, d \in Client :
        c = sock[data.connfd[data.turn]] /\ d = sock[data.connfd[Target(data.turn)]]
  BY <1>3
<1>5. Partner(c, d)
  BY <1>1, <1>3, <1>4 DEF Partner, Target
<1>6. c # d
  BY <1>1, <1>2, <1>5, PartnersMet
<1>7. /\ ServerReadable(conn[c]) /\ MergedIf(Len(conn[c].toServer) > 1, c)
      /\ \/ ServerEnds(Taking(c))
         \/ conn[c].toServer = <<>> /\ ServerEnds(SentTo(Taking(c), d, <<Block(c)>>))
         \/ /\ conn' = SentTo(Taking(c), d, <<Block(c)>>)
            /\ data' = [data EXCEPT !.turn = 3 - data.turn]
            /\ UNCHANGED <<program, server, sock, client, typed>>
  BY Zenon, <1>4 DEF receive_and_send, Taking, SentTo, Block
<1>8. Len(conn[c].toServer) <= 1
  <2>1. Len(conn[c].toServer) \in Int
    BY <1>2, ReachedIsInt
  <2>2. ~(Len(conn[c].toServer) > 1)
    BY <1>7 DEF MergedIf
  <2>3. QED
    BY <2>1, <2>2
<1>9. CASE ServerEnds(Taking(c))
  <2> DEFINE k == Taking(c)
  <2>1. k \in Wires(Turn, Turn) /\ \A e \in Client : k[e].toClient = conn[e].toClient
    BY <1>2, TakingWire
  <2>2. ServerEnds(k)
    BY <1>9
  <2> HIDE DEF k
  <2>3. \A e \in Client : Alive(e) =>
            \A j \in DOMAIN k[e].toClient :
                k[e].toClient[j].nth # Garbage =>
                    k[e].toClient[j].from # e /\ k[e].toClient[j].nth = Said(e) + j
    BY <1>2, <2>1 DEF Told
  <2>4. QED
    BY <2>1, <2>2, <2>3, OverInTurn
<1>10. CASE conn[c].toServer = <<>> /\ ServerEnds(SentTo(Taking(c), d, <<Block(c)>>))
  <2>1. PICK block \in Turn : block = Block(c) /\ block.nth = Garbage
    BY <1>1, <1>5, <1>6, <1>8, <1>10, BlockIsTurn
  <2> DEFINE k == SentTo(Taking(c), d, <<block>>)
  <2>2. /\ k \in Wires(Turn, Turn) /\ k[c].toClient = conn[c].toClient
        /\ IF conn[d].peer = "open" THEN k[d].toClient = conn[d].toClient \o <<block>>
           ELSE k[d].toClient = conn[d].toClient
        /\ \A e \in Client \ {c, d} : k[e] = conn[e]
    BY <1>2, <1>6, BlockWire
  <2>3. ServerEnds(k)
    BY <1>10, <2>1
  <2> HIDE DEF k
  <2>4. ASSUME NEW e \in Client, Alive(e)
        PROVE  \A j \in DOMAIN k[e].toClient :
                  k[e].toClient[j].nth # Garbage =>
                      k[e].toClient[j].from # e /\ k[e].toClient[j].nth = Said(e) + j
    <3>1. CASE e = d
      <4>1. PICK t : t = k[d].toClient
        OBVIOUS
      <4>2. t = conn[d].toClient \/ t = conn[d].toClient \o <<block>>
        BY <2>2, <4>1
      <4>3. Alive(d)
        BY <2>4, <3>1
      <4>4. \A j \in DOMAIN t : t[j].nth # Garbage => t[j].from # d /\ t[j].nth = Said(d) + j
        BY <1>2, <2>1, <4>2, <4>3, BlockTold
      <4>5. QED
        BY <3>1, <4>1, <4>4
    <3>2. CASE e # d
      <4>1. k[e].toClient = conn[e].toClient
        BY <2>2, <3>2
      <4>2. QED
        BY <1>2, <2>4, <4>1 DEF Told
    <3>3. QED
      BY <3>1, <3>2
  <2>5. QED
    BY <2>2, <2>3, <2>4, OverInTurn
<1>11. CASE /\ conn' = SentTo(Taking(c), d, <<Block(c)>>)
            /\ data' = [data EXCEPT !.turn = 3 - data.turn]
            /\ UNCHANGED <<program, server, sock, client, typed>>
  BY <1>1, <1>5, <1>7, <1>8, <1>11, PassedInTurn
<1>12. QED
  BY <1>7, <1>9, <1>10, <1>11

\* Nothing is on its way to a client that has not come yet.
Early ==
    Chat7 /\ merged = {} =>
        \A c \in Client : client[c].state = "new" => conn[c].toClient = <<>>

LEMMA PassEarly ==
  ASSUME Loop, InChat, InTurn, Early, Chat7, merged = {}, receive_and_send
  PROVE  Early'
<1>1. server = "up" /\ Len(data.connfd) = 2
  BY Zenon DEF receive_and_send
<1>2. conn \in Wires(Turn, Turn) /\ \A e \in Client : client[e].state = "new" => conn[e].toClient = <<>>
  BY DEF InTurn, Early
<1>3. PICK c \in Client, d \in Client :
        c = sock[data.connfd[data.turn]] /\ d = sock[data.connfd[Target(data.turn)]]
  BY <1>1, ChatClients DEF Loop
<1>4. client[d].state # "new"
  <2>1. \A f \in Fd : sock[f] # Free => client[sock[f]].state # "new"
    BY DEF Loop, Seats
  <2>2. d # Free
    BY NIsNat DEF Client, Free
  <2>3. data.connfd[Target(data.turn)] \in Fd
    <3>1. data.connfd \in Seq(Fd) /\ Target(data.turn) \in 1 .. 2
      BY <1>1, ChatClients DEF InChat, Loop
    <3>2. QED
      BY <1>1, <3>1
  <2>4. QED
    BY <1>3, <2>1, <2>2, <2>3
<1>5. PICK k : /\ k = Taking(c) \/ \E msgs : k = SentTo(Taking(c), d, msgs)
               /\ ServerEnds(k) \/ (conn' = k /\ UNCHANGED client)
  BY Zenon, <1>3 DEF receive_and_send, Taking, SentTo
<1>6. /\ Taking(c) \in Wires(Turn, Turn)
      /\ \A e \in Client : Taking(c)[e].toClient = conn[e].toClient
  BY <1>2, TakingWire
<1>7. \A e \in Client : e # d => k[e].toClient = conn[e].toClient
  BY <1>5, <1>6 DEF SentTo, Wires
<1>8. /\ UNCHANGED client
      /\ \A e \in Client : client[e].state = "new" => conn'[e] = k[e]
  BY <1>5 DEF ServerEnds
<1>9. QED
  BY <1>2, <1>4, <1>7, <1>8 DEF Early

LEMMA EarlyKeeps ==
  ASSUME Loop, InChat, InTurn, Early, Next
  PROVE  Early'
<1>1. UNCHANGED program /\ AreClients(client)
  BY NextSeats DEF Loop, SeatStep, Shape
<1> SUFFICES ASSUME Chat7, merged' = {} PROVE Early'
  BY <1>1 DEF Early, Chat7
<1>2. LockstepNext \/ CommonNext
  BY NextCases DEF Relays, NameServers, RelayNext, ListNext, NamesNext, HangmanNext,
     HttpNext, MailNext, Chat, Game, Chat7, Http, Smtp
<1>3. ~StartPass /\ ~RecvFails /\ ~OverrunEnds
  <2>1. todo = {} /\ program = "lab7"
    BY DEF Chat7, Loop, Queued
  <2>2. QED
    BY <2>1 DEF StartPass, RecvFails, At, OverrunEnds, NameServers, Chat
<1>4. merged = {}
  <2>1. merged \subseteq merged'
    <3>1. CASE LockstepServer
      BY Zenon, <3>1 DEF LockstepServer, LockstepAccept, receive_and_send, MergedIf, histories
    <3>2. CASE ~LockstepServer
      BY <1>2, <1>3, <3>2 DEF LockstepNext, CommonNext, LockstepConnect, Connect, TypeTurn,
         LockstepReceive, Leave, ConnectFails, histories
    <3>3. QED
      BY <3>1, <3>2
  <2>2. QED
    BY <2>1
<1>5. conn \in Wires(Turn, Turn) /\ typed \in Nat
      /\ \A c \in Client : Talker(c) /\ (client[c].state = "new" => conn[c].toClient = <<>>)
  BY <1>4 DEF InTurn, Early
\* Client c acts, and has come.
<1>6. ASSUME NEW c \in Client, client'[c].state # "new",
             \A d \in Client : d # c => conn'[d] = conn[d] /\ client'[d] = client[d]
      PROVE  Early'
  BY <1>5, <1>6 DEF Early
<1>7. CASE LockstepAccept
  BY <1>5, <1>7 DEF LockstepAccept, Early
<1>8. CASE receive_and_send
  BY <1>4, <1>8, PassEarly
<1>9. ASSUME NEW c \in Client, LockstepConnect(c) PROVE Early'
  <2> DEFINE none == <<>>
  <2>1. Connect(c, "running", none) /\ none \in Seq(Turn)
    BY <1>9 DEF LockstepConnect
  <2> HIDE DEF none
  <2>2. /\ client'[c].state = "running"
        /\ \A d \in Client : d # c => conn'[d] = conn[d] /\ client'[d] = client[d]
    BY <1>1, <1>5, <2>1, ConnectWire
  <2>3. QED
    BY <1>6, <2>2
<1>10. ASSUME NEW c \in Client, TypeTurn(c) PROVE Early'
  BY <1>1, <1>5, <1>6, <1>10, TurnWire DEF Gone, NewClient
<1>11. ASSUME NEW c \in Client, LockstepReceive(c) PROVE Early'
  BY <1>1, <1>5, <1>6, <1>11, TakesWire
<1>12. ASSUME NEW c \in Client, Leave(c) PROVE Early'
  <2>1. EndsAt(c, conn[c]) /\ conn[c] \in Connection(Turn, Turn)
    BY <1>5, <1>12, TurnsTyped DEF Leave, Ends
  <2>2. QED
    BY <1>1, <1>5, <1>6, <2>1, LeaveWire DEF Gone, NewClient
<1>13. ASSUME NEW c \in Client, ConnectFails(c) PROVE Early'
  BY <1>1, <1>5, <1>6, <1>13, FailsWire DEF DiesOnConnect, Chat7
<1>14. QED
  BY <1>2, <1>3, <1>7, <1>8, <1>9, <1>10, <1>11, <1>12, <1>13
     DEF LockstepNext, LockstepServer, CommonNext

LEMMA FailsInTurn ==
  ASSUME Loop, InTurn, Early, Chat7, merged = {}, NEW c \in Client, ConnectFails(c)
  PROVE  InTurn'
<1>1. /\ typed \in Nat /\ conn \in Wires(Turn, Turn) /\ Talker(c) /\ AreClients(client)
      /\ client[c].state = "new" => conn[c].toClient = <<>>
  BY DEF InTurn, Loop, Shape, Early
<1>2. /\ conn' \in Wires(Turn, Turn)
      /\ conn'[c].toClient \in {conn[c].toClient, <<>>}
      /\ \A d \in Client : d # c => conn'[d] = conn[d] /\ client'[d] = client[d]
      /\ client[c].state = "new" /\ client'[c].own \subseteq client[c].own
      /\ client'[c].state \in {"naming", "running"}
      /\ server = "down" /\ server' = server /\ UNCHANGED <<program, typed>>
  BY <1>1, FailsWire DEF DiesOnConnect, Chat7
<1>3. client'[c].own = {} /\ DOMAIN conn'[c].toClient = {}
  BY <1>1, <1>2 DEF Talker
<1>4. Talker(c)' /\ Told(c)'
  BY <1>2, <1>3 DEF Talker, Told
<1>5. QED
  BY <1>1, <1>2, <1>4, ClientInTurn

LEMMA InTurnKeeps ==
  ASSUME Loop, InChat, InTurn, Early, Next
  PROVE  InTurn'
<1>1. UNCHANGED program
  BY NextSeats DEF Loop, SeatStep
<1> SUFFICES ASSUME Chat7, merged' = {} PROVE InTurn'
  BY <1>1 DEF InTurn, Chat7
<1>2. LockstepNext \/ CommonNext
  BY NextCases DEF Relays, NameServers, RelayNext, ListNext, NamesNext, HangmanNext,
     HttpNext, MailNext, Chat, Game, Chat7, Http, Smtp
<1>3. CASE receive_and_send
  <2>1. merged = {}
    BY Zenon, <1>3 DEF receive_and_send, MergedIf
  <2>2. QED
    BY <1>3, <2>1, PassInTurn
<1>4. CASE LockstepAccept
  <2>1. UNCHANGED merged
    BY <1>4 DEF LockstepAccept, histories
  <2>2. QED
    BY <1>4, <2>1, AcceptInTurn
<1>5. ASSUME NEW c \in Client, LockstepConnect(c) PROVE InTurn'
  <2>1. UNCHANGED merged
    BY <1>5 DEF LockstepConnect, Connect, histories
  <2>2. QED
    BY <1>5, <2>1, ConnectInTurn
<1>6. ASSUME NEW c \in Client, TypeTurn(c) PROVE InTurn'
  <2>1. UNCHANGED merged
    BY <1>6 DEF TypeTurn, histories
  <2>2. QED
    BY <1>6, <2>1, TypeInTurn
<1>7. ASSUME NEW c \in Client, LockstepReceive(c) PROVE InTurn'
  <2>1. UNCHANGED merged
    BY <1>7 DEF LockstepReceive, histories
  <2>2. QED
    BY <1>7, <2>1, ReceiveInTurn
<1>8. ASSUME NEW c \in Client, Leave(c) PROVE InTurn'
  <2>1. UNCHANGED merged
    BY <1>8 DEF Leave, histories
  <2>2. QED
    BY <1>8, <2>1, GoneInTurn
\* No select() goes on in lab7.
<1>9. ~StartPass /\ ~RecvFails /\ ~OverrunEnds
  <2>1. todo = {} /\ program = "lab7"
    BY DEF Chat7, Loop, Queued
  <2>2. QED
    BY <2>1 DEF StartPass, RecvFails, At, OverrunEnds, NameServers, Chat
<1>10. ASSUME NEW c \in Client, ConnectFails(c) PROVE InTurn'
  <2>1. UNCHANGED merged
    BY <1>10 DEF ConnectFails, histories
  <2>2. QED
    BY <1>10, <2>1, FailsInTurn
<1>11. QED
  BY <1>2, <1>3, <1>4, <1>5, <1>6, <1>7, <1>8, <1>9, <1>10
     DEF LockstepNext, LockstepServer, CommonNext

-----------------------------------------------------------------------------
(* The invariant of what is on its way, and what follows from it.          *)

Wired == LinesApart /\ InGame /\ AlwaysTold /\ NamesKnown /\ InTurn /\ Early

LEMMA InitiallyWired == Init => Wired
<1> SUFFICES ASSUME Init PROVE Wired
  OBVIOUS
<1>1. /\ conn = [c \in Client |-> NewConn] /\ client = [c \in Client |-> NewClient]
      /\ typed = 0 /\ quit = FALSE /\ merged = {} /\ added = {}
  BY DEF Init, LoopInit
<1>2. /\ NewConn.toServer = <<>> /\ NewConn.toClient = <<>>
      /\ NewClient.own = {} /\ NewClient.state = "new" /\ DOMAIN <<>> = {}
  BY DEF NewConn, NewClient
<1>3. \A c \in Client : conn[c] = NewConn /\ client[c] = NewClient
  BY <1>1
<1>4. ASSUME NEW R, NEW P PROVE conn \in Wires(R, P)
  <2> DEFINE none == <<>>
  <2>1. none \in Seq(R) /\ none \in Seq(P)
    OBVIOUS
  <2>2. NewConn = [toServer |-> none, toClient |-> none, peer |-> "open", end |-> "open"]
    BY DEF NewConn
  <2> HIDE DEF none
  <2>3. NewConn \in Connection(R, P)
    BY <2>1, <2>2 DEF Connection, Knowledge, Heard
  <2>4. QED
    BY <1>1, <2>3 DEF Wires
<1>5. \A c \in Client : DOMAIN conn[c].toServer = {} /\ DOMAIN conn[c].toClient = {}
  BY <1>2, <1>3
<1>6. LinesApart
  <2>1. conn \in Wires(Line, Line) /\ typed \in Nat
    BY <1>1, <1>4
  <2>2. QED
    BY <1>5, <2>1 DEF LinesApart, Numbered, Once, Apart
<1>7. InGame /\ AlwaysTold
  <2>1. conn \in Wires(Command, Notice) /\ typed \in Nat
    BY <1>1, <1>4
  <2>2. QED
    BY <1>1, <2>1 DEF InGame, AlwaysTold
<1>8. NamesKnown
  <2> SUFFICES ASSUME program = "dns_server" PROVE NamesKnown
    BY DEF NamesKnown
  <2>1. conn \in Wires(Add \cup Get, NameReply) /\ typed \in Nat
    BY <1>1, <1>4
  <2>2. data \in NamesStart
    BY DEF Init, Relays, NameServers
  <2> DEFINE none == <<>>
             row == [h \in Host \cup {Junk} |-> none]
             map == [kind \in Kind |-> row]
  <2>3. none \in Seq(Value) /\ \A v : v \notin ToSet(none)
    BY DEF ToSet
  <2>4. data = [no_clients |-> 0, map |-> map]
    <3> DEFINE d == [no_clients |-> 0, map |-> [kind \in Kind |-> [h \in Host \cup {Junk} |-> <<>>]]]
    <3>1. NamesStart = {d}
      BY DEF NamesStart
    <3> HIDE DEF d
    <3>2. data = d
      BY <2>2, <3>1
    <3>3. QED
      BY <3>2 DEF d
  <2> HIDE DEF none
  <2>5. row \in [Host \cup {Junk} -> Seq(Value)] /\ \A h \in Host \cup {Junk} : row[h] = none
    BY <2>3
  <2> HIDE DEF row
  <2>6. /\ map \in [Kind -> [Host \cup {Junk} -> Seq(Value)]]
        /\ \A kind \in Kind : map[kind] = row
    BY <2>5
  <2> HIDE DEF map
  <2>7. data \in Tables /\ data.map = map
    <3> DEFINE M == [Kind -> [Host \cup {Junk} -> Seq(Value)]]
    <3>1. map \in M
      BY <2>6
    <3> HIDE DEF M
    <3>2. data \in [no_clients : Int, map : M] /\ data.map = map
      BY <2>4, <3>1
    <3>3. QED
      BY <3>2 DEF Tables, M
  <2>8. MapTyped
    <3> SUFFICES ASSUME NEW kind \in Kind, NEW h \in Host \cup {Junk}
                 PROVE  \A v \in ToSet(data.map[kind][h]) : <<kind, h, v>> \in added
      BY Zenon DEF MapTyped
    <3>1. data.map[kind][h] = none
      BY <2>5, <2>6, <2>7
    <3>2. QED
      BY <2>3, <3>1
  <2>9. \A c \in Client : Asked(c) /\ Owned(c) /\ Answered(c)
    BY <1>2, <1>3, <1>5 DEF Asked, Owned, Answered
  <2>10. QED
    BY <2>1, <2>7, <2>8, <2>9 DEF NamesKnown
<1>9. InTurn
  <2> SUFFICES ASSUME Chat7 PROVE InTurn
    BY DEF InTurn
  <2>1. conn \in Wires(Turn, Turn) /\ typed \in Nat
    BY <1>1, <1>4
  <2>2. data.connfd = <<>>
    BY DEF Init, Relays, NameServers, Chat7, LockstepStart
  <2>3. Len(data.connfd) # 2
    BY <2>2
  <2>4. \A c \in Client : client[c].own = {} /\ ~Alive(c)
    BY <1>2, <1>3 DEF Alive
  <2>5. \A c \in Client : conn[c].end = "open"
    BY <1>3 DEF NewConn
  <2>6. \A c \in Client : Talker(c) /\ Told(c)
    BY <2>4 DEF Talker, Told
  <2>7. \A c \in Client : Speaks(c) /\ Unheard(c)
    BY <1>2, <1>3, <1>5, <2>4, <2>5 DEF Speaks, Unheard
  <2>8. Paired
    BY <2>3, <2>7 DEF Paired, Partner
  <2>9. QED
    BY <2>1, <2>6, <2>8 DEF InTurn
<1>10. Early
  BY <1>2, <1>3 DEF Early
<1>11. QED
  BY <1>6, <1>7, <1>8, <1>9, <1>10 DEF Wired

LEMMA WiredKeeps == IInv /\ Wired /\ [Next]_vars => Wired'
<1>1. ASSUME IInv, Wired, Next PROVE Wired'
  BY <1>1, LinesApartKeeps, LettersKeep, NamesKnownKeeps, InTurnKeeps, EarlyKeeps
     DEF IInv, Wired
<1>2. ASSUME Wired, UNCHANGED vars PROVE Wired'
  <2>1. UNCHANGED <<program, server, sock, data, conn, client, typed, quit, merged, added>>
    BY <1>2 DEF vars, serverVars, histories
  <2>2. LinesApart'
    BY <1>2, <2>1 DEF Wired, LinesApart, Numbered, Once, Apart
  <2>3. InGame'
    BY <1>2, <2>1 DEF Wired, InGame, Game
  <2>4. AlwaysTold'
    BY <1>2, <2>1 DEF Wired, AlwaysTold, Game, Running
  <2>5. NamesKnown'
    <3>1. NamesKnown
      BY <1>2 DEF Wired
    <3>2. MapTyped => MapTyped'
      BY Zenon, <2>1 DEF MapTyped
    <3>3. \A c \in Client : (Asked(c) => Asked(c)') /\ (Owned(c) => Owned(c)')
      BY <2>1 DEF Asked, Owned, Known
    <3>4. \A c \in Client : Answered(c) => Answered(c)'
      BY <2>1 DEF Answered
    <3>5. QED
      BY <2>1, <3>1, <3>2, <3>3, <3>4 DEF NamesKnown
  <2>6. InTurn'
    <3> SUFFICES ASSUME Chat7', merged' = {} PROVE InTurn'
      BY DEF InTurn
    <3>0. Chat7 /\ merged = {}
      BY <2>1 DEF Chat7
    <3>1. /\ typed \in Nat /\ conn \in Wires(Turn, Turn)
          /\ \A c \in Client : Talker(c) /\ Told(c)
          /\ server = "up" => Paired
      BY <1>2, <3>0 DEF Wired, InTurn
    <3>2. \A c \in Client : Talker(c)' /\ Told(c)'
      BY <2>1, <3>1 DEF Talker, Told, Said, Alive, Running
    <3>3. server = "up" => Paired'
      <4> SUFFICES ASSUME Paired PROVE Paired'
        BY <3>1
      <4>1. \A c, d \in Client : Partner(c, d)' <=> Partner(c, d)
        BY <2>1 DEF Partner
      <4>2. \A c \in Client : InPair(c)' <=> InPair(c)
        BY <4>1 DEF InPair
      <4>3. \A c \in Client : (Speaks(c) => Speaks(c)') /\ (Unheard(c) => Unheard(c)')
        BY <2>1 DEF Speaks, Unheard, Alive, Said, Running
      <4>4. \A c, d \in Client : Alive(d)' <=> Alive(d)
        BY <2>1 DEF Alive
      <4>5. \A c, d \in Client : Ahead(c, d) => Ahead(c, d)'
        BY <2>1 DEF Ahead, ReachedBy, Said, Alive, Running
      <4>6. QED
        BY <2>1, <4>1, <4>2, <4>3, <4>4, <4>5 DEF Paired
    <3>4. QED
      BY <2>1, <3>1, <3>2, <3>3 DEF InTurn
  <2>7. Early'
    BY <1>2, <2>1 DEF Wired, Early, Chat7
  <2>8. QED
    BY <2>2, <2>3, <2>4, <2>5, <2>6, <2>7 DEF Wired
<1>3. QED
  BY <1>1, <1>2

\* What is on its way between the clients and the server of a relay, of hangman,
\* of the name server or of the chat in lockstep is of the kinds these programs
\* send, and fits what was typed, found, added and answered before.
THEOREM WiredCorrect == Spec => []Wired
<1>1. Init => Wired
  BY InitiallyWired
<1>2. IInv /\ Wired /\ [Next]_vars => Wired'
  BY WiredKeeps
<1>3. QED
  BY <1>1, <1>2, InvariantCorrect, PTL DEF Spec

\* The relays: msg holds a descriptor once for each time it was given to a
\* client, yet nobody is sent a line twice: the search ends at the first.
THEOREM RelayedOnce == Spec => []DeliveredOnce
<1>1. Wired => DeliveredOnce
  BY DEF Wired, LinesApart, Once, DeliveredOnce
<1>2. QED
  BY <1>1, WiredCorrect, PTL

\* Hangman: a letter that was found is shown, or on its way, to everybody who
\* was connected then and reads on, as long as the server has not failed and
\* has written only inside its arrays.
THEOREM FoundLettersAreTold == Spec => []LettersTold
<1>1. Wired => LettersTold
  BY DEF Wired, AlwaysTold, Game, LettersTold
<1>2. QED
  BY <1>1, WiredCorrect, PTL

\* The name server: its answers hold what was typed for the key and, of a
\* host's addresses, those the asking client had added, as long as tokenize()
\* has never got two commands in one buffer and all addresses had room.
THEOREM NamesAreRight == Spec => []AnswersRight
<1>1. Wired => AnswersRight
  BY DEF Wired, NamesKnown, Answered, AnswersRight
<1>2. QED
  BY <1>1, WiredCorrect, PTL

\* The chat in lockstep: as long as no recv took two lines, what is on its way
\* to a client are the other's lines, each with the number of the line of its
\* own that it answers.
THEOREM LinesInTurn == Spec => []InStep
<1>1. Wired => InStep
  BY DEF Wired, InTurn, Told, Said, Alive, Chat7, Running, InStep
<1>2. QED
  BY <1>1, WiredCorrect, PTL

=============================================================================
