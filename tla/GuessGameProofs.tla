--------------------------- MODULE GuessGameProofs ---------------------------
(***************************************************************************)
(* What the number game guarantees for every number of clients, of lives   *)
(* and of commands: everybody who may guess hears of the number, and       *)
(* nobody is told of a success that was none.                              *)
(***************************************************************************)
EXTENDS GuessGame, SocketLemmas

Taken(f) == sock[f] # Free

\* The players are the open descriptors, each once and each another client.
Seats ==
    /\ \A m, n \in DOMAIN players : players[m] = players[n] => m = n
    /\ \A n \in DOMAIN players : Taken(players[n])
    /\ \A f \in Fd : Taken(f) => \E n \in DOMAIN players : players[n] = f
    /\ \A f, g \in Fd : Taken(f) /\ sock[f] = sock[g] => f = g
    /\ \A f \in Fd : Taken(f) => player[sock[f]].state # "new"

\* Who waits in the backlog waits there once, and has no descriptor.
Waiting ==
    /\ \A m, n \in DOMAIN backlog : backlog[m] = backlog[n] => m = n
    /\ \A n \in DOMAIN backlog :
          player[backlog[n]].state # "new" /\ \A f \in Fd : sock[f] # backlog[n]
    /\ Listen \in todo => backlog # <<>>

\* What select() reported stays so until the pass has come to it.
Selected ==
    \A i \in todo : i # Listen => Taken(i) /\ ServerReadable(conn[sock[i]])

\* A client has lives as long as it runs, and the server may notice that it
\* has ended, never that before.
Lively ==
    \A c \in Client :
        /\ player[c].lives > 0
        /\ player[c].state = "ended" <=> conn[c].peer # "open"

\* A client that still runs: what it asked for is what it may, and it has no
\* mail as long as the server has not accepted it.
Requests ==
    \A c \in Client :
        player[c].state # "ended" =>
            /\ \A n \in DOMAIN conn[c].toServer :
                  IF conn[c].toServer[n].kind = "guess" THEN player[c].choosed
                                                        ELSE player[c].asked
            /\ server = "up" /\ (\A f \in Fd : sock[f] # c) => conn[c].toClient = <<>>

\* Who knows that a number was chosen, or tried to choose it without right.
Informed(f) ==
    player[sock[f]].choosed \/ (player[sock[f]].asked /\ f # first_player)

\* What the server has sent to a client that is not informed yet: nothing but
\* the news, and that as soon as there is a number.
Replies ==
    \A f \in Fd :
        Taken(f) /\ conn[sock[f]].peer = "open" /\ ~Informed(f) =>
            /\ \A n \in DOMAIN conn[sock[f]].toClient :
                  conn[sock[f]].toClient[n].kind = "CHOOSED"
            /\ guess_number > 0 => conn[sock[f]].toClient # <<>>

\* Nobody is told, or shown, of a success that was none.
Truth ==
    \A c \in Client :
        /\ \A n \in DOMAIN conn[c].toClient : conn[c].toClient[n].kind = "RIGHT" => found
        /\ player[c].right => found \/ player[c].reset

IInv == TypeOK /\ Seats /\ Waiting /\ Selected /\ Lively /\ Requests /\ Replies /\ Truth

-----------------------------------------------------------------------------
(* The descriptor of a newcomer.                                           *)

\* As long as somebody waits in the backlog a descriptor is free.
LEMMA FreeFdExists ==
  ASSUME TypeOK, Seats, NEW c \in Client, \A f \in Fd : sock[f] # c
  PROVE  \E f \in Fd : sock[f] = Free
<1>1. N \in Nat /\ sock \in [4 .. 3 + N -> 1 .. N \cup {0}] /\ c \in 1 .. N
  BY GuessGameAssumption DEF TypeOK, Fd, Client, Free, GuessGameAssumption
<1>2. /\ \A f, g \in 4 .. 3 + N : sock[f] # 0 /\ sock[f] = sock[g] => f = g
      /\ \A f \in 4 .. 3 + N : sock[f] # c
  BY DEF Seats, Taken, Fd, Free
<1>3. QED
  BY <1>1, <1>2, FreeDescriptor DEF Fd, Free

\* The least of a set of descriptors is one of them.
LEMMA LeastOfFds ==
  ASSUME NEW S \in SUBSET Fd, S # {}
  PROVE  Least(S) \in S
<1>1. S \in SUBSET Nat
  BY GuessGameAssumption DEF Fd, GuessGameAssumption
<1>2. \E f \in S : \A g \in S : f <= g
  BY <1>1, LeastExists
<1>3. QED
  BY <1>2 DEF Least

\* The pass comes to a descriptor that select() reported.
LEMMA AtSelected ==
  ASSUME TypeOK, NEW i \in Fd, NEW c \in Client, At(i, c)
  PROVE  i \in todo /\ i # Listen /\ c = sock[i]
<1>1. todo \in SUBSET Nat /\ todo # {}
  BY GuessGameAssumption DEF TypeOK, At, Fd, Listen, GuessGameAssumption
<1>2. \E f \in todo : \A g \in todo : f <= g
  BY <1>1, LeastExists
<1>3. Least(todo) \in todo
  BY <1>2 DEF Least
<1>4. QED
  BY <1>3 DEF At

LEMMA Newcomer ==
  ASSUME TypeOK, Seats, Waiting, Listen \in todo
  PROVE  /\ backlog # <<>> /\ Head(backlog) \in Client /\ Tail(backlog) \in Seq(Client)
         /\ \A f \in Fd : sock[f] # Head(backlog)
         /\ player[Head(backlog)].state # "new"
         /\ Least({f \in Fd : sock[f] = Free}) \in Fd
         /\ sock[Least({f \in Fd : sock[f] = Free})] = Free
<1>1. backlog # <<>> /\ backlog \in Seq(Client)
  BY DEF Waiting, TypeOK
<1>2. /\ Head(backlog) \in Client /\ Tail(backlog) \in Seq(Client)
      /\ Head(backlog) = backlog[1] /\ 1 \in DOMAIN backlog
  BY <1>1
<1>3. player[Head(backlog)].state # "new" /\ \A f \in Fd : sock[f] # Head(backlog)
  BY <1>2 DEF Waiting
<1>4. {f \in Fd : sock[f] = Free} # {}
  BY <1>2, <1>3, FreeFdExists
<1>5. Least({f \in Fd : sock[f] = Free}) \in {f \in Fd : sock[f] = Free}
  BY <1>4, LeastOfFds
<1>6. QED
  BY <1>1, <1>2, <1>3, <1>5

-----------------------------------------------------------------------------
(* What the server's steps do to the connections.                          *)

Connections == [Client -> Connection(Request, Reply)]

\* l is the connection k after the server has read from it, closed it, or sent
\* m on it.
Touched(k, l, m) ==
    /\ l \in Connection(Request, Reply)
    /\ l.peer = "open" <=> k.peer = "open"
    /\ l.toServer \in {k.toServer, <<>>}
    /\ l.toClient \in {k.toClient, k.toClient \o <<m>>}

LEMMA TouchedByNothing ==
  ASSUME NEW k \in Connection(Request, Reply), NEW m \in Reply
  PROVE  Touched(k, k, m)
BY DEF Touched

LEMMA TouchedByRecv ==
  ASSUME NEW k \in Connection(Request, Reply), NEW m \in Reply
  PROVE  Touched(k, [k EXCEPT !.toServer = <<>>], m)
<1>1. <<>> \in Seq(Request)
  OBVIOUS
<1>2. QED
  BY <1>1 DEF Touched, Connection

LEMMA TouchedBySend ==
  ASSUME NEW k \in Connection(Request, Reply), NEW l \in Connection(Request, Reply),
         NEW m \in Reply, Touched(k, l, m), l.toClient = k.toClient
  PROVE  Touched(k, ServerSends(l, <<m>>), m)
<1> DEFINE msgs == <<m>>
           s == ServerSends(l, msgs)
<1>1. msgs \in Seq(Reply)
  OBVIOUS
<1> HIDE DEF msgs
<1>2. s \in Connection(Request, Reply) /\ s.toServer = l.toServer
  BY <1>1, ServerSendsEffect
<1>3. CASE l.peer = "open"
  <2>1. s.peer = "open" /\ s.toClient = l.toClient \o msgs
    <3>1. s.peer = "open"
      BY <1>1, <1>3, ServerSendsEffect
    <3>2. s = [l EXCEPT !.toClient = l.toClient \o msgs]
      BY <1>3 DEF ServerSends
    <3>3. QED
      BY <3>1, <3>2 DEF Connection
  <2> HIDE DEF s
  <2>2. Touched(k, s, m)
    BY <1>2, <1>3, <2>1 DEF Touched, msgs
  <2>3. QED
    BY <2>2 DEF s, msgs
<1>4. CASE l.peer # "open"
  <2>1. s.peer # "open" /\ s.toClient = l.toClient
    BY <1>1, <1>4, ServerSendsEffect
  <2> HIDE DEF s
  <2>2. Touched(k, s, m)
    BY <1>2, <1>4, <2>1 DEF Touched
  <2>3. QED
    BY <2>2 DEF s, msgs
<1>5. QED
  BY <1>3, <1>4

LEMMA TouchedByClose ==
  ASSUME NEW k \in Connection(Request, Reply), NEW l \in Connection(Request, Reply),
         NEW m \in Reply, Touched(k, l, m)
  PROVE  Touched(k, ServerCloses(l), m)
BY ServerClosesEffect DEF Touched

\* send() to one, and to all.
LEMMA SentEffect ==
  ASSUME NEW k \in Connections, NEW f \in Fd, sock[f] \in Client, NEW m \in Reply
  PROVE  /\ Sent(k, f, m) \in Connections
         /\ Sent(k, f, m)[sock[f]] = ServerSends(k[sock[f]], <<m>>)
         /\ \A c \in Client : c # sock[f] => Sent(k, f, m)[c] = k[c]
<1>1. <<m>> \in Seq(Reply)
  OBVIOUS
<1>2. ServerSends(k[sock[f]], <<m>>) \in Connection(Request, Reply)
  BY <1>1, ServerSendsEffect DEF Connections
<1>3. QED
  BY <1>2 DEF Sent, Connections

LEMMA SentToAllEffect ==
  ASSUME NEW k \in Connections, NEW m \in Reply
  PROVE  /\ send_to_all_players(k, m) \in Connections
         /\ \A c \in Client :
              send_to_all_players(k, m)[c] \in {k[c], ServerSends(k[c], <<m>>)}
<1>1. <<m>> \in Seq(Reply)
  OBVIOUS
<1>2. \A c \in Client : ServerSends(k[c], <<m>>) \in Connection(Request, Reply)
  BY <1>1, ServerSendsEffect DEF Connections
<1>3. QED
  BY <1>2 DEF send_to_all_players, Connections

\* When no send raises SIGPIPE, every player is sent the message.
LEMMA AllPlayersReached ==
  ASSUME TypeOK, Seats, NEW k \in Connections, SurvivesSending(k), NEW m \in Reply,
         NEW f \in Fd, Taken(f)
  PROVE  send_to_all_players(k, m)[sock[f]] = ServerSends(k[sock[f]], <<m>>)
<1>1. PICK n \in DOMAIN players : players[n] = f
  BY DEF Seats
<1>2. players \in Seq(Fd) /\ n \in 1 .. Len(players)
  BY DEF TypeOK
<1>3. \A b \in 1 .. n : b \in DOMAIN players
  BY <1>2
<1>4. f \in Reached(k)
  BY <1>1, <1>3 DEF Reached, SurvivesSending
<1>5. sock[f] \in Client
  BY DEF Taken, TypeOK
<1>6. QED
  BY <1>4, <1>5 DEF send_to_all_players

\* The end of the server.
LEMMA ServerEndsTouches ==
  ASSUME TypeOK, NEW k \in Connections, NEW m \in Reply, ServerEnds(k),
         \A c \in Client : Touched(conn[c], k[c], m)
  PROVE  conn' \in Connections /\ \A c \in Client : Touched(conn[c], conn'[c], m)
<1>1. conn \in Connections
  BY DEF TypeOK, Connections
<1>2. \A c \in Client : conn'[c] \in {k[c], ServerCloses(k[c])}
  BY DEF ServerEnds
<1>3. \A c \in Client : Touched(conn[c], ServerCloses(k[c]), m)
  BY <1>1, TouchedByClose DEF Connections
<1>4. \A c \in Client : Touched(conn[c], conn'[c], m)
  BY <1>2, <1>3
<1>5. conn' \in Connections
  BY <1>4 DEF ServerEnds, Touched, Connections
<1>6. QED
  BY <1>4, <1>5

\* Every step of the server.
ServerStep == StartPass \/ Accept \/ Leaver \/ SetNumber \/ Guess \/ Quit

\* What the descriptor of the pass has sent is taken out of its connection.
LEMMA RecvEffect ==
  ASSUME TypeOK, NEW i \in Fd, NEW c \in Client, At(i, c), NEW m \in Reply
  PROVE  LET read == [conn EXCEPT ![c].toServer = <<>>]
         IN  /\ read \in Connections
             /\ \A d \in Client :
                  Touched(conn[d], read[d], m) /\ read[d].toClient = conn[d].toClient
             /\ read[c].toServer = <<>> /\ read[c].peer = conn[c].peer
             /\ \A d \in Client : d # c => read[d] = conn[d]
<1> DEFINE read == [conn EXCEPT ![c].toServer = <<>>]
<1>1. conn \in Connections /\ \A d \in Client : conn[d] \in Connection(Request, Reply)
  BY DEF TypeOK, Connections
<1>2. Touched(conn[c], [conn[c] EXCEPT !.toServer = <<>>], m)
  BY <1>1, TouchedByRecv
<1>3. /\ read[c] = [conn[c] EXCEPT !.toServer = <<>>]
      /\ \A d \in Client : d # c => read[d] = conn[d]
  BY <1>1 DEF Connections
<1>4. \A d \in Client : Touched(conn[d], conn[d], m)
  BY <1>1, TouchedByNothing
<1>5. read \in Connections
  BY <1>1, <1>2, <1>3 DEF Connections, Touched
<1>6. \A d \in Client : read[d].toClient = conn[d].toClient
  BY <1>1, <1>3 DEF Connection
<1>7. read[c].toServer = <<>> /\ read[c].peer = conn[c].peer
  BY <1>1, <1>3 DEF Connection
<1>8. \A d \in Client : Touched(conn[d], read[d], m)
  BY <1>2, <1>3, <1>4
<1>9. QED
  BY <1>3, <1>5, <1>6, <1>7, <1>8

\* No step of the server does more to a connection than to read, to close it or
\* to send one message on it, which says RIGHT only when the number was found.
LEMMA ServerTouches ==
  ASSUME TypeOK, Seats, Waiting, ServerStep
  PROVE  /\ UNCHANGED <<player, typed>> /\ conn' \in Connections
         /\ found' \in BOOLEAN /\ (found => found')
         /\ \E m \in Reply : /\ m.kind = "RIGHT" => found'
                            /\ \A c \in Client : Touched(conn[c], conn'[c], m)
<1> DEFINE chosen == [kind |-> "CHOOSED"]
           access == [kind |-> "ACCESS"]
           wrong  == [kind |-> "WRONG"]
           right  == [kind |-> "RIGHT"]
<1>1. chosen \in Reply /\ access \in Reply /\ wrong \in Reply /\ right \in Reply
      /\ chosen.kind # "RIGHT" /\ access.kind # "RIGHT" /\ wrong.kind # "RIGHT"
  BY DEF Reply
<1>2. /\ conn \in Connections /\ found \in BOOLEAN
      /\ \A c \in Client : conn[c] \in Connection(Request, Reply)
  BY DEF TypeOK, Connections
<1>3. \A m \in Reply : \A c \in Client : Touched(conn[c], conn[c], m)
  BY <1>2, TouchedByNothing
<1>4. UNCHANGED <<player, typed>>
  BY DEF ServerStep, StartPass, Accept, Leaver, SetNumber, Guess, Quit, ServerEnds
<1>5. found' \in BOOLEAN /\ (found => found')
  BY <1>2 DEF ServerStep, StartPass, Accept, Leaver, SetNumber, Guess, Quit
<1> HIDE DEF chosen, access, wrong, right
<1>6. CASE StartPass
  <2>1. conn' = conn
    BY <1>6 DEF StartPass
  <2>2. QED
    BY <1>1, <1>2, <1>3, <1>4, <1>5, <2>1
<1>7. CASE Accept
  <2> DEFINE c == Head(backlog)
  <2>1. c \in Client
    BY <1>7, Newcomer DEF Accept
  <2>2. Touched(conn[c], ServerSends(conn[c], <<chosen>>), chosen)
    BY <1>1, <1>2, <1>3, <2>1, TouchedBySend
  <2>3. conn' = [conn EXCEPT ![c] = ServerSends(conn[c], <<chosen>>)] \/ conn' = conn
    BY <1>7 DEF Accept, chosen
  <2>4. \A d \in Client : conn'[d] \in {conn[d], IF d = c THEN ServerSends(conn[c], <<chosen>>) ELSE conn[d]}
    BY <1>2, <2>1, <2>3 DEF Connections
  <2>5. \A d \in Client : Touched(conn[d], conn'[d], chosen)
    BY <1>1, <1>3, <2>2, <2>4
  <2>6. conn' \in Connections
    BY <1>2, <2>2, <2>3 DEF Connections, Touched
  <2>7. QED
    BY <1>1, <1>4, <1>5, <2>5, <2>6
<1>8. CASE Leaver
  <2>1. CASE ServerEnds(conn)
    BY <1>1, <1>2, <1>3, <1>4, <1>5, <2>1, ServerEndsTouches
  <2>2. CASE ~ServerEnds(conn)
    <3>1. PICK c \in Client : conn' = [conn EXCEPT ![c] = ServerCloses(conn[c])]
      BY <1>8, <2>2 DEF Leaver
    <3>2. Touched(conn[c], ServerCloses(conn[c]), chosen)
      BY <1>1, <1>2, <1>3, TouchedByClose
    <3>3. \A d \in Client : conn'[d] = IF d = c THEN ServerCloses(conn[c]) ELSE conn[d]
      BY <1>2, <3>1 DEF Connections
    <3>4. \A d \in Client : Touched(conn[d], conn'[d], chosen)
      BY <1>1, <1>3, <3>2, <3>3
    <3>5. conn' \in Connections
      BY <1>2, <3>1, <3>2 DEF Connections, Touched
    <3>6. QED
      BY <1>1, <1>4, <1>5, <3>4, <3>5
  <2>3. QED
    BY <2>1, <2>2
<1>9. CASE SetNumber
  <2>1. PICK i \in Fd, c \in Client :
          LET read == [conn EXCEPT ![c].toServer = <<>>]
              told == send_to_all_players(read, chosen)
          IN  /\ At(i, c)
              /\ \/ ServerEnds(told)
                 \/ conn' = told
                 \/ ServerEnds(read)
                 \/ conn' = Sent(read, i, access)
    BY <1>9 DEF SetNumber, chosen, access
  <2> DEFINE read == [conn EXCEPT ![c].toServer = <<>>]
             told == send_to_all_players(read, chosen)
  <2>2. /\ read \in Connections
        /\ \A m \in Reply : \A d \in Client :
              Touched(conn[d], read[d], m) /\ read[d].toClient = conn[d].toClient
    BY <1>1, <2>1, RecvEffect
  <2>3. \/ ServerEnds(told) \/ conn' = told \/ ServerEnds(read)
        \/ conn' = Sent(read, i, access)
    BY <2>1
  <2>4. sock[i] = c /\ sock[i] \in Client
    BY <2>1 DEF At
  <2> HIDE DEF read
  <2>5. \A m \in Reply : \A d \in Client : Touched(conn[d], ServerSends(read[d], <<m>>), m)
    BY <1>2, <2>2, TouchedBySend DEF Connections
  <2>6. told \in Connections /\ \A d \in Client : Touched(conn[d], told[d], chosen)
    <3>1. /\ told \in Connections
          /\ \A d \in Client : told[d] \in {read[d], ServerSends(read[d], <<chosen>>)}
      BY <1>1, <2>2, SentToAllEffect
    <3>2. QED
      BY <1>1, <2>2, <2>5, <3>1
  <2> HIDE DEF told
  <2>7. CASE ServerEnds(told)
    BY <1>1, <1>4, <1>5, <2>6, <2>7, ServerEndsTouches
  <2>8. CASE conn' = told
    BY <1>1, <1>4, <1>5, <2>6, <2>8
  <2>9. CASE ServerEnds(read)
    BY <1>1, <1>4, <1>5, <2>2, <2>9, ServerEndsTouches
  <2>10. CASE conn' = Sent(read, i, access)
    <3>1. /\ conn' \in Connections /\ conn'[c] = ServerSends(read[c], <<access>>)
          /\ \A d \in Client : d # c => conn'[d] = read[d]
      BY <1>1, <2>2, <2>4, <2>10, SentEffect
    <3>2. \A d \in Client : Touched(conn[d], conn'[d], access)
      BY <1>1, <2>2, <2>5, <3>1
    <3>3. QED
      BY <1>1, <1>4, <1>5, <3>1, <3>2
  <2>11. QED
    BY <2>3, <2>7, <2>8, <2>9, <2>10
<1>10. CASE Guess
  <2>1. PICK i \in Fd, c \in Client :
          LET read == [conn EXCEPT ![c].toServer = <<>>]
              told == send_to_all_players(read, right)
          IN  /\ At(i, c)
              /\ \/ conn' = read
                 \/ found' /\ ServerEnds(told)
                 \/ ServerEnds(read)
                 \/ conn' = Sent(read, i, wrong)
    BY <1>10 DEF Guess, right, wrong
  <2> DEFINE read == [conn EXCEPT ![c].toServer = <<>>]
             told == send_to_all_players(read, right)
  <2>2. /\ read \in Connections
        /\ \A m \in Reply : \A d \in Client :
              Touched(conn[d], read[d], m) /\ read[d].toClient = conn[d].toClient
    BY <1>1, <2>1, RecvEffect
  <2>3. \/ conn' = read
        \/ found' /\ ServerEnds(told)
        \/ ServerEnds(read)
        \/ conn' = Sent(read, i, wrong)
    BY <2>1
  <2>4. sock[i] = c /\ sock[i] \in Client
    BY <2>1 DEF At
  <2> HIDE DEF read
  <2>5. \A m \in Reply : \A d \in Client : Touched(conn[d], ServerSends(read[d], <<m>>), m)
    BY <1>2, <2>2, TouchedBySend DEF Connections
  <2>6. told \in Connections /\ \A d \in Client : Touched(conn[d], told[d], right)
    <3>1. /\ told \in Connections
          /\ \A d \in Client : told[d] \in {read[d], ServerSends(read[d], <<right>>)}
      BY <1>1, <2>2, SentToAllEffect
    <3>2. QED
      BY <1>1, <2>2, <2>5, <3>1
  <2> HIDE DEF told
  <2>7. CASE conn' = read
    BY <1>1, <1>4, <1>5, <2>2, <2>7
  <2>8. CASE found' /\ ServerEnds(told)
    BY <1>1, <1>4, <1>5, <2>6, <2>8, ServerEndsTouches
  <2>9. CASE ServerEnds(read)
    BY <1>1, <1>4, <1>5, <2>2, <2>9, ServerEndsTouches
  <2>10. CASE conn' = Sent(read, i, wrong)
    <3>1. /\ conn' \in Connections /\ conn'[c] = ServerSends(read[c], <<wrong>>)
          /\ \A d \in Client : d # c => conn'[d] = read[d]
      BY <1>1, <2>2, <2>4, <2>10, SentEffect
    <3>2. \A d \in Client : Touched(conn[d], conn'[d], wrong)
      BY <1>1, <2>2, <2>5, <3>1
    <3>3. QED
      BY <1>1, <1>4, <1>5, <3>1, <3>2
  <2>11. QED
    BY <2>3, <2>7, <2>8, <2>9, <2>10
<1>11. CASE Quit
  <2>1. ServerEnds(conn)
    BY <1>11 DEF Quit
  <2>2. QED
    BY <1>1, <1>2, <1>3, <1>4, <1>5, <2>1, ServerEndsTouches
<1>12. QED
  BY <1>6, <1>7, <1>8, <1>9, <1>10, <1>11 DEF ServerStep

-----------------------------------------------------------------------------
(* The steps of the server keep the invariant.                             *)

\* After the server's end nobody has a descriptor and nobody waits.
LEMMA ServerEndsAlone ==
  ASSUME NEW k, ServerEnds(k)
  PROVE  /\ server' = "down" /\ todo' = {} /\ players' = <<>> /\ backlog' = <<>>
         /\ sock' = [f \in Fd |-> Free] /\ first_player' = NoFd
         /\ guess_number' = NotSet
BY DEF ServerEnds

\* The steps that leave the descriptors as they are.
LEMMA ServerCases ==
  ASSUME TypeOK, Selected, ServerStep
  PROVE  \/ \E k : ServerEnds(k)
         \/ StartPass
         \/ Accept
         \/ \E i \in Fd : \E c \in Client :
               /\ At(i, c) /\ conn[c].peer # "open" /\ i # first_player
               /\ todo' = todo \ {i} /\ sock' = [sock EXCEPT ![i] = Free]
               /\ \E n \in DOMAIN players :
                     players[n] = i /\ players' = RemoveAt(players, n)
               /\ conn' = [conn EXCEPT ![c] = ServerCloses(conn[c])]
               /\ UNCHANGED <<server, first_player, guess_number, backlog>>
         \/ /\ SetNumber \/ Guess
            /\ UNCHANGED <<server, sock, first_player, players, backlog>>
            /\ todo' \in SUBSET todo
<1>1. CASE StartPass \/ Accept \/ Quit
  BY <1>1 DEF Quit
<1>2. CASE Leaver
  <2>1. PICK i \in Fd, c \in Client :
          /\ At(i, c) /\ conn[c].toServer = <<>>
          /\ \/ ServerEnds(conn)
             \/ /\ i # first_player
                /\ todo' = todo \ {i} /\ sock' = [sock EXCEPT ![i] = Free]
                /\ \E n \in DOMAIN players :
                      players[n] = i /\ players' = RemoveAt(players, n)
                /\ conn' = [conn EXCEPT ![c] = ServerCloses(conn[c])]
                /\ UNCHANGED <<server, first_player, guess_number, backlog>>
    BY <1>2 DEF Leaver
  <2>2. conn[c].peer # "open"
    <3>1. i \in todo /\ i # Listen /\ c = sock[i]
      BY <2>1, AtSelected
    <3>2. QED
      BY <2>1, <3>1 DEF Selected, ServerReadable
  <2>3. QED
    BY <2>1, <2>2
<1>3. CASE SetNumber
  BY <1>3 DEF SetNumber
<1>4. CASE Guess
  BY <1>4 DEF Guess
<1>5. QED
  BY <1>1, <1>2, <1>3, <1>4 DEF ServerStep

LEMMA NumberTyped ==
  ASSUME NEW d \in Seq(Request), d # <<>>
  PROVE  NumberSet(d) \in 0 .. 99
<1>1. d[1] \in Request
  OBVIOUS
<1>2. \A r \in Request : r.number \in 0 .. 9
  BY GuessGameAssumption DEF Request, GuessGameAssumption
<1>3. CASE Len(d) > 1 /\ d[2].kind = "guess"
  <2>1. d[2] \in Request
    BY <1>3
  <2>2. d[1].number \in 0 .. 9 /\ d[2].number \in 0 .. 9
    BY <1>1, <1>2, <2>1
  <2>3. NumberSet(d) = 10 * d[1].number + d[2].number
    BY <1>3 DEF NumberSet
  <2>4. \A a, b \in 0 .. 9 : 10 * a + b \in 0 .. 99
    OBVIOUS
  <2>5. QED
    BY <2>2, <2>3, <2>4
<1>4. CASE ~(Len(d) > 1 /\ d[2].kind = "guess")
  <2>1. NumberSet(d) = d[1].number
    BY <1>4 DEF NumberSet
  <2>2. QED
    BY <1>1, <1>2, <2>1
<1>5. QED
  BY <1>3, <1>4

LEMMA ServerTyped ==
  ASSUME TypeOK, Seats, Waiting, Selected, ServerStep
  PROVE  TypeOK'
<1>1. /\ UNCHANGED <<player, typed>> /\ conn' \in Connections /\ found' \in BOOLEAN
  BY ServerTouches
<1>2. /\ server' \in {"up", "down"} /\ todo' \subseteq Fd \cup {Listen}
      /\ sock' \in [Fd -> Client \cup {Free}] /\ first_player' \in Fd \cup {NoFd}
      /\ guess_number' \in -1 .. 99 /\ players' \in Seq(Fd) /\ backlog' \in Seq(Client)
  <2>0. /\ server \in {"up", "down"} /\ todo \subseteq Fd \cup {Listen}
        /\ sock \in [Fd -> Client \cup {Free}] /\ first_player \in Fd \cup {NoFd}
        /\ guess_number \in -1 .. 99 /\ players \in Seq(Fd) /\ backlog \in Seq(Client)
    BY DEF TypeOK
  <2>1. CASE \E k : ServerEnds(k)
    <3>1. /\ server' = "down" /\ todo' = {} /\ players' = <<>> /\ backlog' = <<>>
          /\ sock' = [f \in Fd |-> Free] /\ first_player' = NoFd
          /\ guess_number' = NotSet
      BY <2>1, ServerEndsAlone
    <3>2. sock' \in [Fd -> Client \cup {Free}] /\ guess_number' \in -1 .. 99
      BY <3>1 DEF NotSet
    <3>3. players' \in Seq(Fd) /\ backlog' \in Seq(Client)
      BY <3>1
    <3>4. QED
      BY <3>1, <3>2, <3>3
  <2>2. CASE StartPass
    BY <2>0, <2>2 DEF StartPass, Readable
  <2>3. CASE Accept
    <3> DEFINE new == Least({f \in Fd : sock[f] = Free})
    <3>1. /\ Head(backlog) \in Client /\ Tail(backlog) \in Seq(Client) /\ new \in Fd
      BY <2>3, Newcomer DEF Accept
    <3>2. /\ todo' = todo \ {Listen} /\ sock' = [sock EXCEPT ![new] = Head(backlog)]
          /\ first_player' = IF first_player = NoFd THEN new ELSE first_player
          /\ players' = Append(players, new) /\ backlog' = Tail(backlog)
          /\ UNCHANGED <<server, guess_number>>
      BY <2>3 DEF Accept
    <3> HIDE DEF new
    <3>3. QED
      BY <2>0, <3>1, <3>2
  <2>4. CASE \E i \in Fd : \E c \in Client :
               /\ At(i, c) /\ conn[c].peer # "open" /\ i # first_player
               /\ todo' = todo \ {i} /\ sock' = [sock EXCEPT ![i] = Free]
               /\ \E n \in DOMAIN players :
                     players[n] = i /\ players' = RemoveAt(players, n)
               /\ conn' = [conn EXCEPT ![c] = ServerCloses(conn[c])]
               /\ UNCHANGED <<server, first_player, guess_number, backlog>>
    <3>1. PICK i \in Fd : todo' = todo \ {i} /\ sock' = [sock EXCEPT ![i] = Free]
      BY <2>4
    <3>2. PICK n \in DOMAIN players : players' = RemoveAt(players, n)
      BY <2>4
    <3>3. players' \in Seq(Fd)
      BY <2>0, <3>2, RemoveAtElements
    <3>4. UNCHANGED <<server, first_player, guess_number, backlog>>
      BY <2>4
    <3>5. QED
      BY <2>0, <3>1, <3>3, <3>4
  <2>5. CASE /\ SetNumber \/ Guess
             /\ UNCHANGED <<server, sock, first_player, players, backlog>>
             /\ todo' \in SUBSET todo
    <3>1. guess_number' \in -1 .. 99
      <4>1. CASE SetNumber
        <5>1. \/ \E k : ServerEnds(k)
              \/ guess_number' = guess_number
              \/ \E c \in Client : conn[c].toServer # <<>>
                                   /\ guess_number' = NumberSet(conn[c].toServer)
          BY <4>1 DEF SetNumber
        <5>2. \A c \in Client : conn[c].toServer \in Seq(Request)
          BY DEF TypeOK, Connection
        <5>3. \A c \in Client : conn[c].toServer # <<>> =>
                 NumberSet(conn[c].toServer) \in 0 .. 99
          BY <5>2, NumberTyped
        <5>4. CASE \E k : ServerEnds(k)
          BY <2>1, <5>4
        <5>5. CASE guess_number' = guess_number
          BY <2>0, <5>5
        <5>6. CASE \E c \in Client : conn[c].toServer # <<>>
                                     /\ guess_number' = NumberSet(conn[c].toServer)
          <6>1. guess_number' \in 0 .. 99
            BY <5>3, <5>6
          <6>2. QED
            BY <6>1
        <5>7. QED
          BY <5>1, <5>4, <5>5, <5>6
      <4>2. CASE Guess
        <5>1. guess_number' = guess_number \/ \E k : ServerEnds(k)
          BY <4>2 DEF Guess
        <5>2. QED
          BY <2>0, <2>1, <5>1
      <4>3. QED
        BY <2>5, <4>1, <4>2
    <3>2. QED
      BY <2>0, <2>5, <3>1
  <2>6. QED
    BY <2>1, <2>2, <2>3, <2>4, <2>5, ServerCases
<1>3. QED
  BY <1>1, <1>2 DEF TypeOK, Connections

\* The newcomer takes a place of its own, and who leaves frees its only one.
LEMMA ServerSeated ==
  ASSUME TypeOK, Seats, Waiting, Selected, ServerStep
  PROVE  Seats' /\ Waiting'
<1>1. UNCHANGED player
  BY ServerTouches
<1>2. players \in Seq(Fd) /\ backlog \in Seq(Client)
      /\ sock \in [Fd -> Client \cup {Free}] /\ Listen \notin Fd /\ Free \notin Client
  BY GuessGameAssumption DEF TypeOK, Listen, Free, Fd, Client, GuessGameAssumption
<1>3. CASE \E k : ServerEnds(k)
  <2>1. /\ players' = <<>> /\ backlog' = <<>> /\ todo' = {}
        /\ sock' = [f \in Fd |-> Free]
    BY <1>3, ServerEndsAlone
  <2>2. \A f \in Fd : sock'[f] = Free
    BY <2>1
  <2>3. DOMAIN <<>> = {}
    OBVIOUS
  <2>4. QED
    BY <2>1, <2>2, <2>3 DEF Seats, Waiting, Taken
<1>4. CASE StartPass
  <2>1. UNCHANGED <<sock, players, backlog>> /\ (Listen \in todo' => backlog # <<>>)
    BY <1>2, <1>4 DEF StartPass, Readable
  <2>2. QED
    BY <1>1, <2>1 DEF Seats, Waiting, Taken
<1>5. CASE Accept
  <2> DEFINE new == Least({f \in Fd : sock[f] = Free})
             c   == Head(backlog)
  <2>1. /\ backlog # <<>> /\ c \in Client
        /\ (\A f \in Fd : sock[f] # c)
        /\ player[c].state # "new"
        /\ new \in Fd /\ sock[new] = Free
    BY <1>5, Newcomer DEF Accept
  <2>2. /\ todo' = todo \ {Listen} /\ sock' = [sock EXCEPT ![new] = c]
        /\ players' = Append(players, new) /\ backlog' = Tail(backlog)
    BY <1>5 DEF Accept
  <2>9. c = backlog[1] /\ 1 \in DOMAIN backlog
    BY <1>2, <2>1
  <2> HIDE DEF new, c
  <2>3. /\ Len(players') = Len(players) + 1 /\ Len(players) \in Nat
        /\ DOMAIN players = 1 .. Len(players)
        /\ DOMAIN (players') = 1 .. Len(players) + 1
        /\ players'[Len(players) + 1] = new
        /\ \A n \in 1 .. Len(players) : players'[n] = players[n]
    BY <1>2, <2>1, <2>2, AppendProperties
  <2>4. \A n \in 1 .. Len(players) : players[n] # new
    BY <2>1, <2>3 DEF Seats, Taken
  <2>5. /\ sock'[new] = c
        /\ \A f \in Fd : f # new => sock'[f] = sock[f]
    BY <1>2, <2>1, <2>2
  <2>6. Seats'
    <3>1. \A m, n \in DOMAIN (players') : players'[m] = players'[n] => m = n
      BY <2>3, <2>4 DEF Seats
    <3>2. \A n \in DOMAIN (players') : sock'[players'[n]] # Free
      <4>1. \A n \in 1 .. Len(players) : players[n] \in Fd /\ sock[players[n]] # Free
        BY <1>2, <2>3 DEF Seats, Taken
      <4>2. \A n \in 1 .. Len(players) : sock'[players'[n]] # Free
        BY <2>3, <2>4, <2>5, <4>1
      <4>3. sock'[players'[Len(players) + 1]] # Free
        BY <1>2, <2>1, <2>3, <2>5
      <4>4. QED
        BY <2>3, <4>2, <4>3
    <3>3. ASSUME NEW f \in Fd, sock'[f] # Free
          PROVE  \E n \in DOMAIN (players') : players'[n] = f
      <4>1. CASE f = new
        <5>1. Len(players) + 1 \in DOMAIN (players')
          BY <2>3
        <5>2. QED
          BY <2>3, <4>1, <5>1
      <4>2. CASE f # new
        <5>1. PICK n \in DOMAIN players : players[n] = f
          BY <2>5, <3>3, <4>2 DEF Seats, Taken
        <5>2. n \in DOMAIN (players') /\ players'[n] = f
          BY <2>3, <5>1
        <5>3. QED
          BY <5>2
      <4>3. QED
        BY <4>1, <4>2
    <3>4. \A f, g \in Fd : sock'[f] # Free /\ sock'[f] = sock'[g] => f = g
      BY <2>1, <2>5 DEF Seats, Taken
    <3>5. \A f \in Fd : sock'[f] # Free => player[sock'[f]].state # "new"
      BY <2>1, <2>5 DEF Seats, Taken
    <3>6. QED
      BY <1>1, <3>1, <3>2, <3>3, <3>4, <3>5 DEF Seats, Taken
  <2>7. Waiting'
    <3>1. /\ DOMAIN backlog = 1 .. Len(backlog) /\ Len(backlog) \in Nat
          /\ DOMAIN (backlog') = 1 .. Len(backlog) - 1
          /\ \A n \in 1 .. Len(backlog) - 1 : backlog'[n] = backlog[n + 1]
      BY <1>2, <2>1, <2>2, HeadTailProperties
    <3>2. \A m, n \in DOMAIN (backlog') : backlog'[m] = backlog'[n] => m = n
      <4>1. \A m, n \in 1 .. Len(backlog) : backlog[m] = backlog[n] => m = n
        BY <3>1 DEF Waiting
      <4>2. QED
        BY <3>1, <4>1
    <3>3. ASSUME NEW n \in DOMAIN (backlog')
          PROVE  player[backlog'[n]].state # "new" /\ \A f \in Fd : sock'[f] # backlog'[n]
      <4>1. n + 1 \in DOMAIN backlog /\ backlog'[n] = backlog[n + 1] /\ n + 1 # 1
        BY <3>1
      <4>2. backlog[n + 1] # c
        BY <2>9, <4>1 DEF Waiting
      <4>3. player[backlog[n + 1]].state # "new" /\ \A f \in Fd : sock[f] # backlog[n + 1]
        BY <4>1 DEF Waiting
      <4>4. QED
        BY <2>5, <4>1, <4>2, <4>3
    <3>4. QED
      BY <1>1, <2>2, <3>2, <3>3 DEF Waiting
  <2>8. QED
    BY <2>6, <2>7
<1>6. CASE \E i \in Fd : \E c \in Client :
             /\ At(i, c) /\ conn[c].peer # "open" /\ i # first_player
             /\ todo' = todo \ {i} /\ sock' = [sock EXCEPT ![i] = Free]
             /\ \E n \in DOMAIN players :
                   players[n] = i /\ players' = RemoveAt(players, n)
             /\ conn' = [conn EXCEPT ![c] = ServerCloses(conn[c])]
             /\ UNCHANGED <<server, first_player, guess_number, backlog>>
  <2>1. PICK i \in Fd, k \in DOMAIN players :
          /\ todo' = todo \ {i} /\ sock' = [sock EXCEPT ![i] = Free]
          /\ players[k] = i /\ players' = RemoveAt(players, k)
          /\ backlog' = backlog
    BY <1>6
  <2>2. /\ DOMAIN players = 1 .. Len(players) /\ Len(players) \in Nat
        /\ DOMAIN (players') = 1 .. Len(players) - 1
        /\ \A n \in 1 .. Len(players) - 1 :
              players'[n] = IF n < k THEN players[n] ELSE players[n + 1]
    <3>1. /\ players' \in Seq(Fd) /\ Len(players') = Len(players) - 1
          /\ \A n \in 1 .. Len(players) - 1 :
                players'[n] = IF n < k THEN players[n] ELSE players[n + 1]
      <4>1. k \in 1 .. Len(players)
        BY <1>2
      <4>2. QED
        BY <1>2, <2>1, <4>1, RemoveAtElements
    <3>2. QED
      BY <1>2, <3>1
  <2>3. \A f \in Fd : sock'[f] = IF f = i THEN Free ELSE sock[f]
    BY <1>2, <2>1
  <2>4. ASSUME NEW n \in DOMAIN (players')
        PROVE  \E m \in DOMAIN players :
                 m # k /\ players'[n] = players[m] /\ (m = IF n < k THEN n ELSE n + 1)
    <3>1. CASE n < k
      BY <2>2, <3>1
    <3>2. CASE ~(n < k)
      <4>1. n + 1 \in DOMAIN players /\ n + 1 # k /\ players'[n] = players[n + 1]
        BY <2>2, <3>2
      <4>2. QED
        BY <3>2, <4>1
    <3>3. QED
      BY <3>1, <3>2
  <2>5. Seats'
    <3>1. ASSUME NEW m \in DOMAIN (players'), NEW n \in DOMAIN (players'),
                 players'[m] = players'[n]
          PROVE  m = n
      <4>1. PICK a \in DOMAIN players :
              players'[m] = players[a] /\ (a = IF m < k THEN m ELSE m + 1)
        BY <2>4
      <4>2. PICK b \in DOMAIN players :
              players'[n] = players[b] /\ (b = IF n < k THEN n ELSE n + 1)
        BY <2>4
      <4>6. players[a] = players[b]
        BY <3>1, <4>1, <4>2
      <4>3. a = b
        BY <4>6 DEF Seats
      <4>4. m \in Nat /\ n \in Nat /\ k \in Nat
        BY <2>2
      <4>5. QED
        BY <4>1, <4>2, <4>3, <4>4
    <3>2. ASSUME NEW n \in DOMAIN (players') PROVE sock'[players'[n]] # Free
      <4>1. PICK m \in DOMAIN players : m # k /\ players'[n] = players[m]
        BY <2>4
      <4>2. players[m] # i /\ players[m] \in Fd /\ sock[players[m]] # Free
        BY <1>2, <2>1, <4>1 DEF Seats, Taken
      <4>3. QED
        BY <2>3, <4>1, <4>2
    <3>3. ASSUME NEW f \in Fd, sock'[f] # Free
          PROVE  \E n \in DOMAIN (players') : players'[n] = f
      <4>1. f # i /\ sock[f] # Free
        BY <2>3, <3>3
      <4>2. PICK m \in DOMAIN players : players[m] = f
        BY <4>1 DEF Seats, Taken
      <4>3. m # k
        BY <2>1, <4>1, <4>2
      <4>4. CASE m < k
        <5>1. m \in DOMAIN (players') /\ players'[m] = f
          BY <2>2, <4>2, <4>4
        <5>2. QED
          BY <5>1
      <4>5. CASE ~(m < k)
        <5>1. /\ m - 1 \in 1 .. Len(players) - 1 /\ ~(m - 1 < k) /\ (m - 1) + 1 = m
          BY <2>2, <4>3, <4>5
        <5>2. players'[m - 1] = f
          BY <2>2, <4>2, <5>1
        <5>3. QED
          BY <2>2, <5>1, <5>2
      <4>6. QED
        BY <4>4, <4>5
    <3>4. \A f, g \in Fd : sock'[f] # Free /\ sock'[f] = sock'[g] => f = g
      BY <2>3 DEF Seats, Taken
    <3>5. \A f \in Fd : sock'[f] # Free => player[sock'[f]].state # "new"
      BY <2>3 DEF Seats, Taken
    <3>6. QED
      BY <1>1, <3>1, <3>2, <3>3, <3>4, <3>5 DEF Seats, Taken
  <2>6. Waiting'
    <3>1. \A n \in DOMAIN backlog : \A f \in Fd : sock'[f] # backlog[n]
      <4>1. \A n \in DOMAIN backlog : backlog[n] \in Client
        BY <1>2
      <4>2. QED
        BY <1>2, <2>3, <4>1 DEF Waiting
    <3>2. QED
      BY <1>1, <2>1, <3>1 DEF Waiting
  <2>7. QED
    BY <2>5, <2>6
<1>7. CASE /\ SetNumber \/ Guess
           /\ UNCHANGED <<server, sock, first_player, players, backlog>>
           /\ todo' \in SUBSET todo
  BY <1>1, <1>7 DEF Seats, Waiting, Taken
<1>8. QED
  BY <1>3, <1>4, <1>5, <1>6, <1>7, ServerCases

\* What select() reported is still so: the server reads from and closes only
\* the connection it has come to.
LEMMA ServerSelected ==
  ASSUME TypeOK, Seats, Waiting, Selected, ServerStep
  PROVE  Selected'
<1>1. /\ sock \in [Fd -> Client \cup {Free}] /\ todo \subseteq Fd \cup {Listen}
      /\ conn \in Connections /\ Listen \notin Fd /\ Free \notin Client
  BY GuessGameAssumption
  DEF TypeOK, Listen, Free, Fd, Client, GuessGameAssumption, Connections
<1>2. PICK m \in Reply : \A c \in Client : Touched(conn[c], conn'[c], m)
  BY ServerTouches
<1>3. ASSUME NEW f \in todo, f # Listen
      PROVE  /\ f \in Fd /\ Taken(f) /\ sock[f] \in Client
             /\ ServerReadable(conn[sock[f]])
  BY <1>1, <1>3 DEF Selected, Taken
<1>4. \A c \in Client : ServerReadable(conn[c]) /\ conn'[c].toServer = conn[c].toServer
                          => ServerReadable(conn'[c])
  BY <1>2 DEF Touched, ServerReadable
<1>5. CASE \E k : ServerEnds(k)
  <2>1. todo' = {}
    BY <1>5, ServerEndsAlone
  <2>2. QED
    BY <2>1 DEF Selected
<1>6. CASE StartPass
  <2>1. /\ todo' = Readable \cup (IF backlog # <<>> THEN {Listen} ELSE {})
        /\ UNCHANGED <<sock, conn>>
    BY <1>6 DEF StartPass
  <2>2. \A f \in Readable : sock[f] # Free /\ ServerReadable(conn[sock[f]])
    BY DEF Readable
  <2>3. QED
    BY <2>1, <2>2 DEF Selected, Taken
<1>7. CASE Accept
  <2> DEFINE new == Least({f \in Fd : sock[f] = Free})
             c   == Head(backlog)
  <2>1. /\ c \in Client /\ (\A f \in Fd : sock[f] # c)
        /\ new \in Fd /\ sock[new] = Free
    BY <1>7, Newcomer DEF Accept
  <2>2. /\ todo' = todo \ {Listen} /\ sock' = [sock EXCEPT ![new] = c]
        /\ conn' = [conn EXCEPT ![c] = ServerSends(@, <<[kind |-> "CHOOSED"]>>)]
             \/ conn' = conn
    BY <1>7 DEF Accept
  <2> HIDE DEF new, c
  <2>3. ASSUME NEW f \in todo, f # Listen
        PROVE  sock'[f] # Free /\ ServerReadable(conn'[sock'[f]])
    <3>1. f \in Fd /\ Taken(f) /\ sock[f] \in Client /\ ServerReadable(conn[sock[f]])
      BY <1>3, <2>3
    <3>2. f # new /\ sock[f] # c
      BY <2>1, <3>1 DEF Taken
    <3>3. sock'[f] = sock[f]
      BY <1>1, <2>1, <2>2, <3>1, <3>2
    <3>4. conn'[sock[f]] = conn[sock[f]]
      BY <1>1, <2>2, <3>1, <3>2 DEF Connections
    <3>5. QED
      BY <3>1, <3>3, <3>4 DEF Taken
  <2>4. QED
    BY <2>2, <2>3 DEF Selected, Taken
<1>8. CASE \E i \in Fd : \E c \in Client :
             /\ At(i, c) /\ conn[c].peer # "open" /\ i # first_player
             /\ todo' = todo \ {i} /\ sock' = [sock EXCEPT ![i] = Free]
             /\ \E n \in DOMAIN players :
                   players[n] = i /\ players' = RemoveAt(players, n)
             /\ conn' = [conn EXCEPT ![c] = ServerCloses(conn[c])]
             /\ UNCHANGED <<server, first_player, guess_number, backlog>>
  <2>1. PICK i \in Fd, c \in Client :
          /\ At(i, c) /\ todo' = todo \ {i} /\ sock' = [sock EXCEPT ![i] = Free]
          /\ conn' = [conn EXCEPT ![c] = ServerCloses(conn[c])]
    BY <1>8
  <2>2. sock[i] = c
    BY <2>1 DEF At
  <2>3. ASSUME NEW f \in todo, f # Listen, f # i
        PROVE  sock'[f] # Free /\ ServerReadable(conn'[sock'[f]])
    <3>1. f \in Fd /\ Taken(f) /\ sock[f] \in Client /\ ServerReadable(conn[sock[f]])
      BY <1>3, <2>3
    <3>2. sock[f] # c
      BY <1>1, <2>2, <2>3, <3>1 DEF Seats
    <3>3. sock'[f] = sock[f] /\ conn'[sock[f]] = conn[sock[f]]
      BY <1>1, <2>1, <2>3, <3>1, <3>2 DEF Connections
    <3>4. QED
      BY <3>1, <3>3 DEF Taken
  <2>4. QED
    BY <2>1, <2>3 DEF Selected, Taken
<1>9. CASE (SetNumber \/ Guess) /\ ~(\E k : ServerEnds(k))
  <2>1. PICK i \in Fd, c \in Client :
          /\ At(i, c) /\ sock' = sock /\ todo' = todo \ {i}
          /\ LET read == [conn EXCEPT ![c].toServer = <<>>]
             IN  \/ conn' = send_to_all_players(read, [kind |-> "CHOOSED"])
                 \/ conn' = Sent(read, i, [kind |-> "ACCESS"])
                 \/ conn' = Sent(read, i, [kind |-> "WRONG"])
                 \/ conn' = read
    <3>1. CASE SetNumber
      BY <1>9, <3>1 DEF SetNumber
    <3>2. CASE Guess
      BY <1>9, <3>2 DEF Guess
    <3>3. QED
      BY <1>9, <3>1, <3>2
  <2> DEFINE read == [conn EXCEPT ![c].toServer = <<>>]
  <2>2. sock[i] = c /\ sock[i] \in Client
    BY <2>1 DEF At
  <2>3. read \in Connections /\ \A d \in Client : d # c => read[d] = conn[d]
    <3>1. [kind |-> "WRONG"] \in Reply
      BY DEF Reply
    <3>2. QED
      BY <2>1, <3>1, RecvEffect
  <2>4. \A d \in Client : d # c => conn'[d].toServer = conn[d].toServer
    <3>1. /\ [kind |-> "WRONG"] \in Reply /\ [kind |-> "CHOOSED"] \in Reply
          /\ [kind |-> "ACCESS"] \in Reply
      BY DEF Reply
    <3>2. \/ conn' = send_to_all_players(read, [kind |-> "CHOOSED"])
          \/ conn' = Sent(read, i, [kind |-> "ACCESS"])
          \/ conn' = Sent(read, i, [kind |-> "WRONG"])
          \/ conn' = read
      BY <2>1
    <3> HIDE DEF read
    <3>3. CASE conn' = send_to_all_players(read, [kind |-> "CHOOSED"])
      <4> DEFINE m1 == [kind |-> "CHOOSED"]
                 msgs == <<m1>>
      <4>1. m1 \in Reply /\ msgs \in Seq(Reply)
        BY <3>1
      <4>2. \A d \in Client : conn'[d] \in {read[d], ServerSends(read[d], msgs)}
        BY <2>3, <3>1, <3>3, SentToAllEffect
      <4> HIDE DEF msgs
      <4>3. \A d \in Client : ServerSends(read[d], msgs).toServer = read[d].toServer
        BY <2>3, <4>1, ServerSendsEffect DEF Connections
      <4>4. QED
        BY <2>3, <4>2, <4>3
    <3>4. CASE \/ conn' = Sent(read, i, [kind |-> "ACCESS"])
               \/ conn' = Sent(read, i, [kind |-> "WRONG"])
      <4>0. \A m1 \in Reply : \A d \in Client : d # c => Sent(read, i, m1)[d] = read[d]
        BY <2>2, <2>3, SentEffect
      <4>1. \A d \in Client : d # c => conn'[d] = read[d]
        BY <3>1, <3>4, <4>0
      <4>2. QED
        BY <2>3, <4>1
    <3>5. CASE conn' = read
      BY <2>3, <3>5
    <3>6. QED
      BY <3>2, <3>3, <3>4, <3>5
  <2>5. ASSUME NEW f \in todo, f # Listen, f # i
        PROVE  sock[f] # Free /\ ServerReadable(conn'[sock[f]])
    <3>1. f \in Fd /\ Taken(f) /\ sock[f] \in Client /\ ServerReadable(conn[sock[f]])
      BY <1>3, <2>5
    <3>2. sock[f] # c
      BY <1>1, <2>2, <2>5, <3>1 DEF Seats
    <3>3. QED
      BY <1>4, <2>4, <3>1, <3>2 DEF Taken
  <2>6. QED
    BY <2>1, <2>5 DEF Selected, Taken
<1>10. QED
  BY <1>5, <1>6, <1>7, <1>8, <1>9, ServerCases

LEMMA ServerLively ==
  ASSUME TypeOK, Seats, Waiting, Lively, ServerStep
  PROVE  Lively'
<1>1. player' = player /\ \A c \in Client : conn'[c].peer = "open" <=> conn[c].peer = "open"
  BY ServerTouches DEF Touched
<1>2. QED
  BY <1>1 DEF Lively

LEMMA ServerTruth ==
  ASSUME TypeOK, Seats, Waiting, Truth, ServerStep
  PROVE  Truth'
<1>1. player' = player /\ (found => found') /\ found' \in BOOLEAN
  BY ServerTouches
<1>2. PICK m \in Reply : /\ m.kind = "RIGHT" => found'
                        /\ \A c \in Client : Touched(conn[c], conn'[c], m)
  BY ServerTouches
<1>3. ASSUME NEW c \in Client, NEW n \in DOMAIN (conn'[c].toClient),
             conn'[c].toClient[n].kind = "RIGHT"
      PROVE  found'
  <2> DEFINE t == conn[c].toClient
             msgs == <<m>>
  <2>1. t \in Seq(Reply) /\ msgs \in Seq(Reply) /\ Len(msgs) = 1 /\ msgs[1] = m
    BY DEF TypeOK, Connection
  <2>2. \A k \in 1 .. Len(t) : t[k].kind = "RIGHT" => found
    BY <2>1 DEF Truth
  <2>3. conn'[c].toClient = t \/ conn'[c].toClient = t \o msgs
    BY <1>2 DEF Touched
  <2>4. CASE conn'[c].toClient = t
    BY <1>1, <1>3, <2>1, <2>2, <2>4
  <2>5. CASE conn'[c].toClient = t \o msgs
    <3> HIDE DEF t, msgs
    <3>1. /\ t \o msgs \in Seq(Reply) /\ Len(t \o msgs) = Len(t) + Len(msgs)
          /\ \A k \in 1 .. Len(t) + Len(msgs) :
                (t \o msgs)[k] = IF k <= Len(t) THEN t[k] ELSE msgs[k - Len(t)]
      BY <2>1, ConcatProperties
    <3>2. n \in 1 .. Len(t) + 1 /\ Len(t) \in Nat
      BY <1>3, <2>1, <2>5, <3>1
    <3>3. CASE n <= Len(t)
      <4>1. conn'[c].toClient[n] = t[n] /\ n \in 1 .. Len(t)
        BY <2>1, <2>5, <3>1, <3>2, <3>3
      <4>2. QED
        BY <1>1, <1>3, <2>2, <4>1
    <3>4. CASE ~(n <= Len(t))
      <4>1. n - Len(t) = 1 /\ n \in 1 .. Len(t) + Len(msgs)
        BY <2>1, <3>2, <3>4
      <4>2. conn'[c].toClient[n] = m
        BY <2>1, <2>5, <3>1, <3>4, <4>1
      <4>3. QED
        BY <1>2, <1>3, <4>2
    <3>5. QED
      BY <3>3, <3>4
  <2>6. QED
    BY <2>3, <2>4, <2>5
<1>4. \A c \in Client : player'[c].right => found' \/ player'[c].reset
  BY <1>1 DEF Truth
<1>5. QED
  BY <1>3, <1>4 DEF Truth

\* A client that nobody has accepted, or whose descriptor has been closed, is
\* sent nothing; the latter has ended.
LEMMA ServerRequests ==
  ASSUME TypeOK, Seats, Waiting, Selected, Lively, Requests, ServerStep
  PROVE  Requests'
<1>1. /\ player' = player
      /\ \A c \in Client : conn'[c].toServer \in {conn[c].toServer, <<>>}
  BY ServerTouches DEF Touched
<1>2. /\ conn \in Connections /\ sock \in [Fd -> Client \cup {Free}]
      /\ Free \notin Client
  BY GuessGameAssumption DEF TypeOK, Connections, Free, Client, GuessGameAssumption
<1>3. ASSUME NEW c \in Client, player[c].state # "ended",
             server' = "up", \A f \in Fd : sock'[f] # c
      PROVE  conn'[c].toClient = <<>>
  <2>1. CASE \E k : ServerEnds(k)
    BY <1>3, <2>1, ServerEndsAlone
  <2>2. CASE StartPass
    BY <1>3, <2>2 DEF StartPass, Requests
  <2>3. CASE Accept
    <3> DEFINE new == Least({f \in Fd : sock[f] = Free})
               d   == Head(backlog)
    <3>1. /\ d \in Client /\ (\A f \in Fd : sock[f] # d)
          /\ new \in Fd /\ sock[new] = Free
      BY <2>3, Newcomer DEF Accept
    <3>2. /\ sock' = [sock EXCEPT ![new] = d] /\ server' = server
          /\ conn' = [conn EXCEPT ![d] = ServerSends(@, <<[kind |-> "CHOOSED"]>>)]
               \/ conn' = conn
      BY <2>3 DEF Accept
    <3> HIDE DEF new, d
    <3>3. sock'[new] = d /\ \A f \in Fd : f # new => sock'[f] = sock[f]
      BY <1>2, <3>1, <3>2
    <3>4. c # d /\ \A f \in Fd : sock[f] # c
      BY <1>2, <1>3, <3>1, <3>3
    <3>5. conn'[c] = conn[c]
      BY <1>2, <3>2, <3>4 DEF Connections
    <3>6. QED
      BY <1>3, <3>2, <3>4, <3>5 DEF Requests
  <2>4. CASE \E i \in Fd : \E d \in Client :
               /\ At(i, d) /\ conn[d].peer # "open" /\ i # first_player
               /\ todo' = todo \ {i} /\ sock' = [sock EXCEPT ![i] = Free]
               /\ \E n \in DOMAIN players :
                     players[n] = i /\ players' = RemoveAt(players, n)
               /\ conn' = [conn EXCEPT ![d] = ServerCloses(conn[d])]
               /\ UNCHANGED <<server, first_player, guess_number, backlog>>
    <3>1. PICK i \in Fd, d \in Client :
            /\ At(i, d) /\ conn[d].peer # "open"
            /\ sock' = [sock EXCEPT ![i] = Free] /\ server' = server
            /\ conn' = [conn EXCEPT ![d] = ServerCloses(conn[d])]
      BY <2>4
    <3>2. c # d
      BY <1>3, <3>1 DEF Lively
    <3>3. sock[i] = d /\ \A f \in Fd : f # i => sock'[f] = sock[f]
      BY <1>2, <3>1 DEF At
    <3>4. \A f \in Fd : sock[f] # c
      BY <1>3, <3>2, <3>3
    <3>5. conn'[c] = conn[c]
      BY <1>2, <3>1, <3>2 DEF Connections
    <3>6. QED
      BY <1>3, <3>1, <3>4, <3>5 DEF Requests
  <2>5. CASE (SetNumber \/ Guess) /\ ~(\E k : ServerEnds(k))
    <3>1. PICK i \in Fd, d \in Client :
            /\ At(i, d) /\ sock' = sock /\ server' = server
            /\ LET read == [conn EXCEPT ![d].toServer = <<>>]
               IN  \/ conn' = send_to_all_players(read, [kind |-> "CHOOSED"])
                   \/ conn' = Sent(read, i, [kind |-> "ACCESS"])
                   \/ conn' = Sent(read, i, [kind |-> "WRONG"])
                   \/ conn' = read
      <4>1. CASE SetNumber
        BY <2>5, <4>1 DEF SetNumber
      <4>2. CASE Guess
        BY <2>5, <4>2 DEF Guess
      <4>3. QED
        BY <2>5, <4>1, <4>2
    <3> DEFINE read == [conn EXCEPT ![d].toServer = <<>>]
    <3>2. sock[i] = d /\ c # d
      BY <1>3, <3>1 DEF At
    <3>3. read \in Connections /\ read[c] = conn[c]
      <4>1. [kind |-> "WRONG"] \in Reply
        BY DEF Reply
      <4>2. QED
        BY <3>1, <3>2, <4>1, RecvEffect
    <3>4. \/ conn' = send_to_all_players(read, [kind |-> "CHOOSED"])
          \/ conn' = Sent(read, i, [kind |-> "ACCESS"])
          \/ conn' = Sent(read, i, [kind |-> "WRONG"])
          \/ conn' = read
      BY <3>1
    <3> HIDE DEF read
    <3>5. conn'[c] = conn[c]
      <4>1. CASE conn' = send_to_all_players(read, [kind |-> "CHOOSED"])
        <5>1. ~(\E f \in Reached(read) : sock[f] = c)
          <6>1. Reached(read) \subseteq Fd
            BY DEF Reached, TypeOK
          <6>2. QED
            BY <1>3, <3>1, <6>1
        <5>2. QED
          BY <3>3, <4>1, <5>1 DEF send_to_all_players
      <4>2. CASE \/ conn' = Sent(read, i, [kind |-> "ACCESS"])
                 \/ conn' = Sent(read, i, [kind |-> "WRONG"])
        <5>1. [kind |-> "ACCESS"] \in Reply /\ [kind |-> "WRONG"] \in Reply
          BY DEF Reply
        <5>2. \A m \in Reply : Sent(read, i, m)[c] = read[c]
          BY <3>2, <3>3, SentEffect
        <5>3. QED
          BY <3>3, <4>2, <5>1, <5>2
      <4>3. QED
        BY <3>3, <3>4, <4>1, <4>2
    <3>6. QED
      BY <1>3, <3>1, <3>5 DEF Requests
  <2>6. QED
    BY <2>1, <2>2, <2>3, <2>4, <2>5, ServerCases
<1>4. ASSUME NEW c \in Client, player[c].state # "ended", NEW n \in DOMAIN (conn'[c].toServer)
      PROVE  IF conn'[c].toServer[n].kind = "guess" THEN player[c].choosed
                                                    ELSE player[c].asked
  <2>1. conn'[c].toServer = conn[c].toServer
    BY <1>1, <1>4
  <2>2. QED
    BY <1>4, <2>1 DEF Requests
<1>5. QED
  BY <1>1, <1>3, <1>4 DEF Requests

\* A list of news with one more.
LEMMA NewsAppended ==
  ASSUME NEW t \in Seq(Reply), \A n \in DOMAIN t : t[n].kind = "CHOOSED"
  PROVE  LET u == t \o <<[kind |-> "CHOOSED"]>>
         IN  u # <<>> /\ \A n \in DOMAIN u : u[n].kind = "CHOOSED"
<1> DEFINE m    == [kind |-> "CHOOSED"]
           msgs == <<m>>
<1>1. msgs \in Seq(Reply) /\ Len(msgs) = 1 /\ msgs[1] = m /\ m.kind = "CHOOSED"
  BY DEF Reply
<1> HIDE DEF msgs
<1>2. /\ t \o msgs \in Seq(Reply) /\ Len(t \o msgs) = Len(t) + Len(msgs)
      /\ \A n \in 1 .. Len(t) + Len(msgs) :
            (t \o msgs)[n] = IF n <= Len(t) THEN t[n] ELSE msgs[n - Len(t)]
  BY <1>1, ConcatProperties
<1>3. ASSUME NEW n \in 1 .. Len(t) + 1 PROVE (t \o msgs)[n].kind = "CHOOSED"
  <2>1. CASE n <= Len(t)
    BY <1>1, <1>2, <2>1
  <2>2. CASE ~(n <= Len(t))
    <3>1. n - Len(t) = 1
      BY <2>2
    <3>2. QED
      BY <1>1, <1>2, <2>2, <3>1
  <2>3. QED
    BY <2>1, <2>2
<1>4. t \o msgs # <<>> /\ DOMAIN (t \o msgs) = 1 .. Len(t) + 1
  BY <1>1, <1>2
<1>5. QED
  BY <1>3, <1>4 DEF msgs

\* Only news is sent to who is not informed, and everybody is sent it.
LEMMA ServerReplies ==
  ASSUME TypeOK, Seats, Waiting, Selected, Lively, Requests, Replies, ServerStep
  PROVE  Replies'
<1>1. /\ player' = player
      /\ \A c \in Client : conn'[c].peer = "open" <=> conn[c].peer = "open"
  BY ServerTouches DEF Touched
<1>2. /\ conn \in Connections /\ sock \in [Fd -> Client \cup {Free}]
      /\ Free \notin Client /\ NoFd \notin Fd
      /\ \A c \in Client : conn[c].toClient \in Seq(Reply)
  BY GuessGameAssumption
  DEF TypeOK, Connections, Free, Client, GuessGameAssumption, NoFd, Fd, Connection
<1>3. ASSUME NEW f \in Fd, sock'[f] # Free, conn'[sock'[f]].peer = "open",
             ~(player[sock'[f]].choosed
                 \/ (player[sock'[f]].asked /\ f # first_player'))
      PROVE  /\ \A n \in DOMAIN (conn'[sock'[f]].toClient) :
                   conn'[sock'[f]].toClient[n].kind = "CHOOSED"
             /\ guess_number' > 0 => conn'[sock'[f]].toClient # <<>>
  <2>1. CASE \E k : ServerEnds(k)
    BY <1>3, <2>1, ServerEndsAlone
  <2>2. CASE StartPass
    <3>1. UNCHANGED <<sock, conn, first_player, guess_number>>
      BY <2>2 DEF StartPass
    <3>2. QED
      BY <1>3, <3>1 DEF Replies, Informed, Taken
  <2>3. CASE Accept
    <3> DEFINE new == Least({g \in Fd : sock[g] = Free})
               c   == Head(backlog)
               msgs == <<[kind |-> "CHOOSED"]>>
    <3>1. /\ c \in Client /\ (\A g \in Fd : sock[g] # c)
          /\ new \in Fd /\ sock[new] = Free /\ player[c].state # "new"
      BY <2>3, Newcomer DEF Accept
    <3>2. /\ sock' = [sock EXCEPT ![new] = c] /\ server = "up"
          /\ first_player' = IF first_player = NoFd THEN new ELSE first_player
          /\ conn' = IF guess_number > 0
                     THEN [conn EXCEPT ![c] = ServerSends(@, msgs)] ELSE conn
          /\ guess_number' = guess_number
      BY <2>3 DEF Accept, TellsNewcomer
    <3>3. msgs \in Seq(Reply) /\ msgs = <<[kind |-> "CHOOSED"]>>
      BY DEF Reply
    <3> HIDE DEF new, c, msgs
    <3>4. sock'[new] = c /\ \A g \in Fd : g # new => sock'[g] = sock[g]
      BY <1>2, <3>1, <3>2
    <3>5. CASE f = new
      <4>1. conn[c].peer = "open" /\ player[c].state # "ended"
        BY <1>1, <1>3, <3>1, <3>4, <3>5 DEF Lively
      <4>2. conn[c].toClient = <<>>
        BY <3>1, <3>2, <4>1 DEF Requests
      <4>3. CASE guess_number > 0
        <5>1. conn'[c] = ServerSends(conn[c], msgs)
          BY <1>2, <3>1, <3>2, <4>3 DEF Connections
        <5>2. ServerSends(conn[c], msgs) = [conn[c] EXCEPT !.toClient = <<>> \o msgs]
          BY <4>1, <4>2 DEF ServerSends
        <5>3. conn'[c].toClient = <<>> \o msgs
          BY <1>2, <3>1, <5>1, <5>2 DEF Connections, Connection
        <5>4. /\ <<>> \o msgs # <<>>
              /\ \A n \in DOMAIN (<<>> \o msgs) : (<<>> \o msgs)[n].kind = "CHOOSED"
          <6>1. <<>> \in Seq(Reply) /\ DOMAIN <<>> = {}
            OBVIOUS
          <6>2. QED
            BY <3>3, <6>1, NewsAppended
        <5>5. QED
          BY <3>4, <3>5, <5>3, <5>4
      <4>4. CASE ~(guess_number > 0)
        BY <3>2, <3>4, <3>5, <4>2, <4>4
      <4>5. QED
        BY <4>3, <4>4
    <3>6. CASE f # new
      <4>1. sock'[f] = sock[f] /\ sock[f] \in Client /\ sock[f] # c
        BY <1>2, <1>3, <3>1, <3>4, <3>6
      <4>2. conn'[sock[f]] = conn[sock[f]]
        BY <1>2, <3>2, <4>1 DEF Connections
      <4>3. f # first_player' <=> f # first_player
        BY <1>2, <3>2, <3>6
      <4>4. QED
        BY <1>2, <1>3, <3>2, <4>1, <4>2, <4>3 DEF Replies, Informed, Taken
    <3>7. QED
      BY <3>5, <3>6
  <2>4. CASE \E i \in Fd : \E c \in Client :
               /\ At(i, c) /\ conn[c].peer # "open" /\ i # first_player
               /\ todo' = todo \ {i} /\ sock' = [sock EXCEPT ![i] = Free]
               /\ \E n \in DOMAIN players :
                     players[n] = i /\ players' = RemoveAt(players, n)
               /\ conn' = [conn EXCEPT ![c] = ServerCloses(conn[c])]
               /\ UNCHANGED <<server, first_player, guess_number, backlog>>
    <3>1. PICK i \in Fd, c \in Client :
            /\ At(i, c) /\ sock' = [sock EXCEPT ![i] = Free]
            /\ conn' = [conn EXCEPT ![c] = ServerCloses(conn[c])]
            /\ UNCHANGED <<first_player, guess_number>>
      BY <2>4
    <3>2. sock[i] = c
      BY <3>1 DEF At
    <3>3. f # i /\ sock'[f] = sock[f] /\ sock[f] \in Client
      BY <1>2, <1>3, <3>1
    <3>4. sock[f] # c
      BY <1>2, <3>2, <3>3 DEF Seats, Taken
    <3>5. conn'[sock[f]] = conn[sock[f]]
      BY <1>2, <3>1, <3>3, <3>4 DEF Connections
    <3>6. QED
      BY <1>2, <1>3, <3>1, <3>3, <3>5 DEF Replies, Informed, Taken
  <2>5. CASE (SetNumber \/ Guess) /\ ~(\E k : ServerEnds(k))
    <3> DEFINE asks(c) == conn[c].toServer # <<>> /\ conn[c].toServer[1].kind = "set"
               guesses(c) == conn[c].toServer # <<>> /\ conn[c].toServer[1].kind = "guess"
    <3>1. PICK i \in Fd, c \in Client :
            /\ At(i, c) /\ UNCHANGED <<sock, first_player>>
            /\ LET read == [conn EXCEPT ![c].toServer = <<>>]
               IN  \/ /\ SurvivesSending(read)
                      /\ conn' = send_to_all_players(read, [kind |-> "CHOOSED"])
                   \/ /\ i # first_player /\ asks(c) /\ guess_number' = guess_number
                      /\ conn' = Sent(read, i, [kind |-> "ACCESS"])
                   \/ /\ guesses(c) /\ guess_number' = guess_number
                      /\ conn' = Sent(read, i, [kind |-> "WRONG"])
                   \/ conn' = read /\ guess_number' = guess_number
      <4>1. CASE SetNumber
        BY <2>5, <4>1 DEF SetNumber, MaySet
      <4>2. CASE Guess
        BY <2>5, <4>2 DEF Guess
      <4>3. QED
        BY <2>5, <4>1, <4>2
    <3> DEFINE read == [conn EXCEPT ![c].toServer = <<>>]
               k    == conn[sock[f]]
    <3>2. sock[i] = c /\ sock'[f] = sock[f] /\ sock[f] \in Client /\ Taken(f)
      BY <1>2, <1>3, <3>1 DEF At, Taken
    <3>3. /\ read \in Connections /\ read[sock[f]].toClient = k.toClient
          /\ read[sock[f]].peer = k.peer
          /\ \A d \in Client : d # c => read[d] = conn[d]
      <4>1. [kind |-> "WRONG"] \in Reply
        BY DEF Reply
      <4>2. /\ read \in Connections
            /\ \A d \in Client : read[d].toClient = conn[d].toClient
            /\ read[c].peer = conn[c].peer
            /\ \A d \in Client : d # c => read[d] = conn[d]
        BY <3>1, <4>1, RecvEffect
      <4>3. QED
        BY <3>2, <4>2
    <3>4. \/ /\ SurvivesSending(read)
             /\ conn' = send_to_all_players(read, [kind |-> "CHOOSED"])
          \/ /\ i # first_player /\ asks(c) /\ guess_number' = guess_number
             /\ conn' = Sent(read, i, [kind |-> "ACCESS"])
          \/ /\ guesses(c) /\ guess_number' = guess_number
             /\ conn' = Sent(read, i, [kind |-> "WRONG"])
          \/ conn' = read /\ guess_number' = guess_number
      BY <3>1
    <3>5. k.peer = "open" /\ player[sock[f]].state # "ended" /\ ~Informed(f)
      BY <1>1, <1>3, <3>1, <3>2 DEF Lively, Informed
    <3>6. /\ \A n \in DOMAIN k.toClient : k.toClient[n].kind = "CHOOSED"
          /\ guess_number > 0 => k.toClient # <<>>
      BY <3>2, <3>5 DEF Replies
    <3>7. f = i => ~asks(c) \/ i = first_player
      <4> SUFFICES ASSUME f = i, asks(c), i # first_player PROVE FALSE
        OBVIOUS
      <4>1. 1 \in DOMAIN conn[c].toServer
        BY <1>2 DEF Connections, Connection
      <4>2. player[c].asked
        BY <3>2, <3>5, <4>1 DEF Requests
      <4>3. QED
        BY <3>2, <3>5, <4>2 DEF Informed
    <3>8. f = i => ~guesses(c)
      <4> SUFFICES ASSUME f = i, guesses(c) PROVE FALSE
        OBVIOUS
      <4>1. 1 \in DOMAIN conn[c].toServer
        BY <1>2 DEF Connections, Connection
      <4>2. player[c].choosed
        BY <3>2, <3>5, <4>1 DEF Requests
      <4>3. QED
        BY <3>2, <3>5, <4>2 DEF Informed
    <3> HIDE DEF read, k, asks, guesses
    <3>9. CASE /\ SurvivesSending(read)
               /\ conn' = send_to_all_players(read, [kind |-> "CHOOSED"])
      <4> DEFINE m    == [kind |-> "CHOOSED"]
                 msgs == <<m>>
      <4>1. m \in Reply /\ msgs \in Seq(Reply)
        BY DEF Reply
      <4>2. conn'[sock[f]] = ServerSends(read[sock[f]], msgs)
        BY <3>2, <3>3, <3>9, <4>1, AllPlayersReached
      <4> HIDE DEF m, msgs
      <4>3. ServerSends(read[sock[f]], msgs)
              = [read[sock[f]] EXCEPT !.toClient = k.toClient \o msgs]
        BY <3>3, <3>5 DEF ServerSends
      <4>4. conn'[sock[f]].toClient = k.toClient \o msgs
        BY <3>2, <3>3, <4>2, <4>3 DEF Connections, Connection
      <4>5. k.toClient \in Seq(Reply)
        BY <1>2, <3>2 DEF k
      <4>6. /\ k.toClient \o msgs # <<>>
            /\ \A n \in DOMAIN (k.toClient \o msgs) :
                  (k.toClient \o msgs)[n].kind = "CHOOSED"
        BY <3>6, <4>5, NewsAppended DEF m, msgs
      <4>7. QED
        BY <3>2, <4>4, <4>6
    <3>10. CASE /\ \/ /\ i # first_player /\ asks(c)
                      /\ conn' = Sent(read, i, [kind |-> "ACCESS"])
                   \/ guesses(c) /\ conn' = Sent(read, i, [kind |-> "WRONG"])
                /\ guess_number' = guess_number
      <4>1. f # i
        BY <3>7, <3>8, <3>10
      <4>2. sock[f] # c
        BY <1>2, <3>2, <4>1 DEF Seats, Taken
      <4>3. [kind |-> "ACCESS"] \in Reply /\ [kind |-> "WRONG"] \in Reply
        BY DEF Reply
      <4>4. \A m \in Reply : Sent(read, i, m)[sock[f]] = read[sock[f]]
        BY <3>2, <3>3, <4>2, SentEffect
      <4>5. conn'[sock[f]] = k
        BY <3>2, <3>3, <3>10, <4>2, <4>3, <4>4 DEF k
      <4>6. QED
        BY <3>2, <3>6, <3>10, <4>5
    <3>11. CASE conn' = read /\ guess_number' = guess_number
      BY <3>2, <3>3, <3>6, <3>11
    <3>12. QED
      BY <3>4, <3>9, <3>10, <3>11
  <2>6. QED
    BY <2>1, <2>2, <2>3, <2>4, <2>5, ServerCases
<1>4. QED
  BY <1>1, <1>3 DEF Replies, Informed, Taken

-----------------------------------------------------------------------------
(* The steps of a client.                                                  *)

PlayerRecord == [state : {"new", "playing", "ended"}, choosed : BOOLEAN,
                 lives : 0 .. Lives, asked : BOOLEAN,
                 right : BOOLEAN, reset : BOOLEAN]

\* What a client that runs does.
ClientActs(c) ==
    \/ Kill(c)
    \/ Receive(c)
    \/ \E d \in Digit : TypeSet(c, d)
    \/ \E d \in Tried : TypeGuess(c, d)

\* What it has asked for in t is what q may.
Justified(q, t) ==
    \A n \in DOMAIN t : IF t[n].kind = "guess" THEN q.choosed ELSE q.asked

\* The client in state q on connection k ends, and becomes p on connection l.
EndsAs(p, l) ==
    /\ p.state = "ended" /\ l.peer # "open" /\ l.toClient = <<>>

\* It goes on, and may have read what it was sent.
GoesOnAs(q, k, p, l) ==
    /\ p.state = "playing" /\ l.peer = k.peer
    /\ q.choosed => p.choosed
    /\ q.asked => p.asked
    /\ Justified(p, l.toServer)
    /\ l.toClient # k.toClient =>
          /\ l.toClient = <<>> /\ k.toClient # <<>>
          /\ k.toClient[1].kind = "CHOOSED" => p.choosed

\* One step of the client: from q on k to p on l.
Acted(q, k, p, l) ==
    /\ p \in PlayerRecord /\ l \in Connection(Request, Reply)
    /\ p.lives > 0 /\ (p.right => found \/ p.reset)
    /\ l.toClient \in {k.toClient, <<>>}
    /\ ServerReadable(k) => ServerReadable(l)
    /\ EndsAs(p, l) \/ GoesOnAs(q, k, p, l)

LEMMA EndsEffect ==
  ASSUME TypeOK, NEW c \in Client, NEW q \in PlayerRecord,
         NEW k \in Connection(Request, Reply), NEW l \in Connection(Request, Reply),
         q.right => found \/ q.reset, Ends(c, q, k),
         k.toServer = l.toServer
  PROVE  /\ player' \in [Client -> PlayerRecord] /\ conn' \in Connections
         /\ \A d \in Client : d # c => player'[d] = player[d] /\ conn'[d] = conn[d]
         /\ Acted(q, l, player'[c], conn'[c])
<1>1. player \in [Client -> PlayerRecord] /\ conn \in Connections
  BY DEF TypeOK, PlayerRecord, Connections
<1> DEFINE p == [NewPlayer EXCEPT !.state = "ended", !.right = q.right, !.reset = q.reset]
<1>2. p \in PlayerRecord /\ p.lives > 0 /\ p.state = "ended"
      /\ p.right = q.right /\ p.reset = q.reset
  <2>1. NewPlayer \in PlayerRecord /\ NewPlayer.lives = Lives
    BY GuessGameAssumption DEF NewPlayer, PlayerRecord, GuessGameAssumption
  <2>2. q.right \in BOOLEAN /\ q.reset \in BOOLEAN
    BY DEF PlayerRecord
  <2>3. p \in PlayerRecord /\ p.lives = Lives /\ p.state = "ended"
        /\ p.right = q.right /\ p.reset = q.reset
    BY <2>1, <2>2 DEF PlayerRecord
  <2>4. QED
    BY <2>3, GuessGameAssumption DEF GuessGameAssumption
<1>3. PICK seen \in ClientEnds(k) : conn' = [conn EXCEPT ![c] = seen]
  BY DEF Ends
<1>4. /\ seen \in Connection(Request, Reply) /\ seen.peer # "open"
      /\ seen.toClient = <<>>
  BY ClientEndsEffect
<1>5. player' = [player EXCEPT ![c] = p]
  BY DEF Ends
<1> HIDE DEF p
<1>6. /\ player'[c] = p /\ conn'[c] = seen
      /\ \A d \in Client : d # c => player'[d] = player[d] /\ conn'[d] = conn[d]
  BY <1>1, <1>3, <1>5 DEF Connections
<1>7. player' \in [Client -> PlayerRecord] /\ conn' \in Connections
  BY <1>1, <1>2, <1>3, <1>4, <1>5 DEF Connections
<1>8. Acted(q, l, p, seen)
  BY <1>2, <1>4 DEF Acted, EndsAs, ServerReadable
<1>9. QED
  BY <1>6, <1>7, <1>8

\* A command that is sent, or that ends the client.
LEMMA CommandEffect ==
  ASSUME TypeOK, Lively, Requests, Truth, NEW c \in Client, NEW m \in Request,
         NEW q \in PlayerRecord, Command(c, m, q),
         IF m.kind = "guess" THEN q.choosed ELSE q.asked,
         player[c].choosed => q.choosed, player[c].asked => q.asked,
         q.state = player[c].state, q.lives = player[c].lives,
         q.right = player[c].right, q.reset = player[c].reset
  PROVE  /\ player' \in [Client -> PlayerRecord] /\ conn' \in Connections
         /\ \A d \in Client : d # c => player'[d] = player[d] /\ conn'[d] = conn[d]
         /\ Acted(player[c], conn[c], player'[c], conn'[c])
<1>1. player \in [Client -> PlayerRecord] /\ conn \in Connections
      /\ conn[c] \in Connection(Request, Reply)
  BY DEF TypeOK, PlayerRecord, Connections
<1>2. q.right => found \/ q.reset
  BY DEF Truth
<1>3. CASE ~ClientMaySend(conn[c])
  <2>1. Ends(c, q, conn[c])
    BY <1>3 DEF Command
  <2>2. /\ player' \in [Client -> PlayerRecord] /\ conn' \in Connections
        /\ \A d \in Client : d # c => player'[d] = player[d] /\ conn'[d] = conn[d]
        /\ Acted(q, conn[c], player'[c], conn'[c])
    BY <1>1, <1>2, <2>1, EndsEffect
  <2>3. EndsAs(player'[c], conn'[c])
    <3>1. player'[c].state = "ended"
      BY <1>1, <2>1 DEF Ends, NewPlayer
    <3>2. QED
      BY <2>2, <3>1 DEF Acted, GoesOnAs
  <2>4. QED
    BY <2>2, <2>3 DEF Acted
<1>4. CASE ClientMaySend(conn[c])
  <2> DEFINE k == conn[c]
             l == ClientSends(k, m)
  <2>1. /\ conn' = [conn EXCEPT ![c] = l] /\ player' = [player EXCEPT ![c] = q]
        /\ Playing(c)
    BY <1>1, <1>4 DEF Command, Connections
  <2>2. /\ l \in Connection(Request, Reply) /\ l.peer = k.peer
        /\ l.toClient = k.toClient
        /\ l.toServer \in {k.toServer, Append(k.toServer, m)}
    BY <1>1, ClientSendsEffect
  <2>9. k \in Connection(Request, Reply) /\ k.toServer \in Seq(Request)
    BY <1>1 DEF Connection
  <2>10. Justified(player[c], k.toServer)
    BY <2>1 DEF Requests, Justified, Playing
  <2> HIDE DEF l, k
  <2>3. Justified(q, l.toServer)
    <3>1. Justified(q, k.toServer)
      BY <2>10 DEF Justified
    <3>2. Justified(q, Append(k.toServer, m))
      <4> DEFINE t == Append(k.toServer, m)
      <4>1. /\ t \in Seq(Request) /\ Len(t) = Len(k.toServer) + 1
            /\ \A n \in 1 .. Len(k.toServer) : t[n] = k.toServer[n]
            /\ t[Len(k.toServer) + 1] = m /\ Len(k.toServer) \in Nat
        BY <2>9, AppendProperties
      <4> HIDE DEF t
      <4>2. ASSUME NEW n \in DOMAIN t
            PROVE  IF t[n].kind = "guess" THEN q.choosed ELSE q.asked
        <5>1. n \in 1 .. Len(k.toServer) + 1
          BY <4>1
        <5>2. CASE n = Len(k.toServer) + 1
          BY <4>1, <5>2
        <5>3. CASE n # Len(k.toServer) + 1
          <6>1. n \in DOMAIN k.toServer /\ t[n] = k.toServer[n]
            BY <2>9, <4>1, <5>1, <5>3
          <6>2. QED
            BY <3>1, <6>1 DEF Justified
        <5>4. QED
          BY <5>2, <5>3
      <4>3. QED
        BY <4>2 DEF Justified, t
    <3>3. QED
      BY <2>2, <3>1, <3>2
  <2>4. /\ player'[c] = q /\ conn'[c] = l
        /\ \A d \in Client : d # c => player'[d] = player[d] /\ conn'[d] = conn[d]
    BY <1>1, <2>1 DEF Connections
  <2>5. player' \in [Client -> PlayerRecord] /\ conn' \in Connections
    BY <1>1, <2>1, <2>2 DEF Connections
  <2>6. ServerReadable(k) => ServerReadable(l)
    <3>1. k.toServer # <<>> => l.toServer # <<>>
      BY <2>2, <2>9
    <3>2. QED
      BY <2>2, <3>1 DEF ServerReadable
  <2>7. Acted(player[c], k, q, l)
    <3>1. q.state = "playing" /\ q.lives > 0
      BY <2>1 DEF Playing, Lively
    <3>2. QED
      BY <1>2, <2>2, <2>3, <2>6, <3>1 DEF Acted, GoesOnAs
  <2>8. QED
    BY <2>4, <2>5, <2>7 DEF k
<1>5. QED
  BY <1>3, <1>4

\* What a client makes of a message.
LEMMA AnsweredEffect ==
  ASSUME NEW q \in PlayerRecord, q.lives > 0, NEW m \in Reply
  PROVE  /\ Answered(q, m) \in PlayerRecord
         /\ Answered(q, m).state = q.state
         /\ q.choosed => Answered(q, m).choosed
         /\ q.asked => Answered(q, m).asked
         /\ Answered(q, m).reset = q.reset
         /\ m.kind = "CHOOSED" => Answered(q, m).choosed
         /\ Answered(q, m).right => q.right \/ m.kind = "RIGHT"
<1>1. m.kind \in {"CHOOSED", "ACCESS", "WRONG", "RIGHT"}
  BY DEF Reply
<1>2. CASE m.kind = "CHOOSED"
  <2>1. Answered(q, m) = [q EXCEPT !.choosed = TRUE]
    BY <1>2 DEF Answered
  <2>2. QED
    BY <1>2, <2>1 DEF PlayerRecord
<1>3. CASE m.kind = "ACCESS"
  BY <1>3 DEF Answered
<1>4. CASE m.kind = "WRONG"
  <2>1. Answered(q, m) = [q EXCEPT !.lives = q.lives - 1]
    BY <1>4 DEF Answered
  <2>2. q.lives - 1 \in 0 .. Lives
    BY GuessGameAssumption DEF PlayerRecord, GuessGameAssumption
  <2>3. QED
    BY <1>4, <2>1, <2>2 DEF PlayerRecord
<1>5. CASE m.kind = "RIGHT"
  <2>1. Answered(q, m) = [q EXCEPT !.right = TRUE]
    BY <1>5 DEF Answered
  <2>2. QED
    BY <1>5, <2>1 DEF PlayerRecord
<1>6. QED
  BY <1>1, <1>2, <1>3, <1>4, <1>5

\* Every step of a client that runs.
LEMMA ActsEffect ==
  ASSUME TypeOK, Lively, Requests, Truth, NEW c \in Client, ClientActs(c)
  PROVE  /\ Playing(c) /\ UNCHANGED <<serverVars, found>> /\ typed' \in 0 .. MaxTyped
         /\ player' \in [Client -> PlayerRecord] /\ conn' \in Connections
         /\ \A d \in Client : d # c => player'[d] = player[d] /\ conn'[d] = conn[d]
         /\ Acted(player[c], conn[c], player'[c], conn'[c])
<1>1. Playing(c) /\ UNCHANGED <<serverVars, found>>
  BY DEF ClientActs, Kill, Receive, TypeSet, TypeGuess, Command
<1>2. typed' \in 0 .. MaxTyped
  <2>1. typed \in 0 .. MaxTyped /\ MaxTyped \in Nat
    BY GuessGameAssumption DEF TypeOK, GuessGameAssumption
  <2>2. typed' = typed \/ (typed < MaxTyped /\ typed' = typed + 1)
    BY DEF ClientActs, Kill, Receive, TypeSet, TypeGuess, Command
  <2>3. QED
    BY <2>1, <2>2
<1> DEFINE q == player[c]
           k == conn[c]
<1>3. /\ player \in [Client -> PlayerRecord] /\ conn \in Connections
      /\ q \in PlayerRecord /\ k \in Connection(Request, Reply)
  BY DEF TypeOK, PlayerRecord, Connections
<1>4. q.lives > 0 /\ (q.right => found \/ q.reset) /\ q.state = "playing"
  BY <1>1 DEF Lively, Truth, Playing
<1>5. Justified(q, k.toServer)
  BY <1>4 DEF Requests, Justified
<1>6. k.toServer \in Seq(Request) /\ k.toClient \in Seq(Reply)
  BY <1>3 DEF Connection
<1> DEFINE Effect == /\ player' \in [Client -> PlayerRecord] /\ conn' \in Connections
                     /\ \A d \in Client :
                           d # c => player'[d] = player[d] /\ conn'[d] = conn[d]
                     /\ Acted(q, k, player'[c], conn'[c])
<1>7. ASSUME Kill(c) \/ (Leaves(c) /\ Ends(c, q, k))
      PROVE  Effect
  <2>1. Ends(c, q, k)
    BY <1>7 DEF Kill
  <2>2. QED
    BY <1>3, <1>4, <2>1, EndsEffect
<1>8. ASSUME NEW d \in Digit, TypeSet(c, d) PROVE Effect
  <2> DEFINE m == [kind |-> "set", number |-> d]
             p == [q EXCEPT !.asked = TRUE]
  <2>1. m \in Request /\ m.kind = "set" /\ Command(c, m, p)
    BY <1>8 DEF Request, TypeSet
  <2>2. /\ p \in PlayerRecord /\ p.asked /\ p.choosed = q.choosed
        /\ p.state = q.state /\ p.lives = q.lives
        /\ p.right = q.right /\ p.reset = q.reset
    BY <1>3 DEF PlayerRecord
  <2> HIDE DEF m, p
  <2>3. QED
    BY <2>1, <2>2, CommandEffect
<1>9. ASSUME NEW d \in Tried, TypeGuess(c, d) PROVE Effect
  <2> DEFINE m == [kind |-> "guess", number |-> d]
  <2>1. m \in Request /\ m.kind = "guess" /\ Command(c, m, q) /\ q.choosed
    BY <1>9, GuessGameAssumption DEF Request, TypeGuess, MayGuess, GuessGameAssumption
  <2> HIDE DEF m
  <2>2. QED
    BY <1>3, <2>1, CommandEffect
<1>10. ASSUME Receive(c), ~Leaves(c) PROVE Effect
  <2> DEFINE p == Answered(q, k.toClient[1])
             l == [k EXCEPT !.toClient = <<>>]
  <2>1. /\ l \in Connection(Request, Reply) /\ l.toClient = <<>>
        /\ l.toServer = k.toServer /\ l.peer = k.peer
    <3>1. <<>> \in Seq(Reply)
      OBVIOUS
    <3>2. QED
      BY <1>3, <3>1 DEF Connection
  <2>2. ASSUME k.toClient # <<>>
        PROVE  /\ p \in PlayerRecord /\ p.state = "playing"
               /\ q.choosed => p.choosed
               /\ q.asked => p.asked
               /\ k.toClient[1].kind = "CHOOSED" => p.choosed
               /\ p.right => found \/ p.reset
    <3>1. 1 \in DOMAIN k.toClient /\ k.toClient[1] \in Reply
      BY <1>6, <2>2
    <3>2. k.toClient[1].kind = "RIGHT" => found
      BY <3>1 DEF Truth
    <3>3. /\ p \in PlayerRecord /\ p.state = q.state /\ p.reset = q.reset
          /\ q.choosed => p.choosed
          /\ q.asked => p.asked
          /\ k.toClient[1].kind = "CHOOSED" => p.choosed
          /\ p.right => q.right \/ k.toClient[1].kind = "RIGHT"
      BY <1>3, <1>4, <3>1, AnsweredEffect
    <3> HIDE DEF p, q, k
    <3>4. QED
      BY <1>4, <3>2, <3>3
  <2>3. CASE k.toClient # <<>> /\ p.lives # 0
    <3>1. /\ player' = [player EXCEPT ![c] = p]
          /\ conn' = [conn EXCEPT ![c] = l]
      BY <1>3, <1>10, <2>3 DEF Receive
    <3> HIDE DEF p, q, k, l
    <3>2. p.lives > 0
      BY <2>2, <2>3 DEF PlayerRecord
    <3>3. Justified(p, k.toServer)
      BY <1>5, <2>2, <2>3 DEF Justified
    <3>4. ServerReadable(k) => ServerReadable(l)
      BY <2>1 DEF ServerReadable
    <3>5. Acted(q, k, p, l)
      BY <2>1, <2>2, <2>3, <3>2, <3>3, <3>4 DEF Acted, GoesOnAs
    <3>6. QED
      BY <1>3, <2>1, <2>2, <2>3, <3>1, <3>5 DEF Connections
  <2>4. CASE k.toClient # <<>> /\ p.lives = 0
    <3>1. Ends(c, p, l)
      BY <1>10, <2>4 DEF Receive
    <3>2. p \in PlayerRecord /\ (p.right => found \/ p.reset)
      BY <2>2, <2>4
    <3> HIDE DEF p, l
    <3>3. /\ player' \in [Client -> PlayerRecord] /\ conn' \in Connections
          /\ \A d \in Client : d # c => player'[d] = player[d] /\ conn'[d] = conn[d]
          /\ Acted(p, k, player'[c], conn'[c])
      BY <1>3, <2>1, <3>1, <3>2, EndsEffect
    <3>4. player'[c].state = "ended"
      BY <1>3, <3>1 DEF Ends, NewPlayer
    <3>5. Acted(q, k, player'[c], conn'[c])
      BY <3>3, <3>4 DEF Acted, GoesOnAs
    <3>6. QED
      BY <3>3, <3>5
  <2>5. CASE k.toClient = <<>>
    <3> DEFINE r == [q EXCEPT !.right = TRUE, !.reset = TRUE]
               j == Reported(k)
    <3>1. /\ player' = [player EXCEPT ![c] = r]
          /\ conn' = [conn EXCEPT ![c] = j]
      BY <1>3, <1>10, <2>5 DEF Receive, PlayerRecord
    <3>2. /\ r \in PlayerRecord /\ r.reset /\ r.lives = q.lives /\ r.state = q.state
          /\ r.choosed = q.choosed /\ r.asked = q.asked
      BY <1>3 DEF PlayerRecord
    <3>3. /\ j \in Connection(Request, Reply) /\ j.toServer = k.toServer
          /\ j.toClient = k.toClient /\ j.peer = k.peer
      BY <1>3, RefusedEffect
    <3> HIDE DEF r, j, q, k
    <3>4. Justified(r, j.toServer)
      BY <1>5, <3>2, <3>3 DEF Justified
    <3>5. Acted(q, k, r, j)
      BY <1>4, <3>2, <3>3, <3>4 DEF Acted, GoesOnAs, ServerReadable
    <3>6. QED
      BY <1>3, <3>1, <3>2, <3>3, <3>5 DEF Connections
  <2>6. QED
    BY <2>3, <2>4, <2>5
<1>11. ASSUME Receive(c), Leaves(c) PROVE Ends(c, q, k)
  BY <1>11 DEF Receive, Leaves
<1> HIDE DEF Effect, q, k
<1>12. Effect
  BY <1>7, <1>8, <1>9, <1>10, <1>11 DEF ClientActs
<1>13. QED
  BY <1>1, <1>2, <1>12 DEF Effect, q, k

LEMMA ClientKeeps ==
  ASSUME IInv, NEW c \in Client, ClientActs(c)
  PROVE  IInv'
<1> USE DEF IInv
<1>1. /\ Playing(c) /\ UNCHANGED <<serverVars, found>> /\ typed' \in 0 .. MaxTyped
      /\ player' \in [Client -> PlayerRecord] /\ conn' \in Connections
      /\ \A d \in Client : d # c => player'[d] = player[d] /\ conn'[d] = conn[d]
      /\ Acted(player[c], conn[c], player'[c], conn'[c])
  BY ActsEffect
<1> DEFINE q == player[c]
           k == conn[c]
           p == player'[c]
           l == conn'[c]
<1>2. /\ UNCHANGED <<server, todo, sock, first_player, guess_number, players>>
      /\ UNCHANGED <<backlog, found>>
  BY <1>1 DEF serverVars
<1>3. p.state # "new" /\ p.lives > 0 /\ (p.right => found \/ p.reset)
      /\ l.toClient \in {k.toClient, <<>>} /\ (ServerReadable(k) => ServerReadable(l))
      /\ (EndsAs(p, l) \/ GoesOnAs(q, k, p, l))
  BY <1>1 DEF Acted, EndsAs, GoesOnAs
<1>4. q.state = "playing" /\ k.peer = "open"
  BY <1>1 DEF Playing, Lively
<1>5. ASSUME NEW d \in Client, d # c
      PROVE  player'[d] = player[d] /\ conn'[d] = conn[d]
  BY <1>1, <1>5
<1>6. TypeOK'
  BY <1>1, <1>2 DEF TypeOK, PlayerRecord, Connections
<1>7. \A d \in Client : player[d].state # "new" => player'[d].state # "new"
  BY <1>1, <1>3
<1>8. sock \in [Fd -> Client \cup {Free}] /\ backlog \in Seq(Client)
  BY DEF TypeOK
<1>9. Seats'
  BY <1>2, <1>7, <1>8 DEF Seats, Taken
<1>10. Waiting'
  <2>1. \A n \in DOMAIN backlog : backlog[n] \in Client
    BY <1>8
  <2>2. QED
    BY <1>2, <1>7, <2>1 DEF Waiting
<1>11. Selected'
  <2>1. \A d \in Client : ServerReadable(conn[d]) => ServerReadable(conn'[d])
    BY <1>1, <1>3
  <2>2. \A i \in todo : i # Listen => sock[i] # Free /\ sock[i] \in Client
                                      /\ ServerReadable(conn[sock[i]])
    BY <1>8 DEF Selected, Taken, TypeOK
  <2>3. \A i \in todo : i # Listen => sock[i] # Free /\ ServerReadable(conn'[sock[i]])
    BY <2>1, <2>2
  <2>4. QED
    BY <1>2, <2>3 DEF Selected, Taken, ServerReadable
<1> HIDE DEF q, k, p, l
<1>12. Lively'
  <2>1. p.state = "ended" <=> l.peer # "open"
    BY <1>3, <1>4 DEF EndsAs, GoesOnAs
  <2>2. \A d \in Client :
           /\ player'[d].lives > 0
           /\ (player'[d].state = "ended") <=> (conn'[d].peer # "open")
    BY <1>1, <1>3, <2>1 DEF Lively, p, l
  <2>3. QED
    BY <2>2 DEF Lively
<1>13. Requests'
  <2>1. ASSUME NEW d \in Client, player'[d].state # "ended"
        PROVE  /\ Justified(player'[d], conn'[d].toServer)
               /\ server = "up" /\ (\A f \in Fd : sock[f] # d) => conn'[d].toClient = <<>>
    <3>1. CASE d = c
      <4>1. Justified(p, l.toServer)
        BY <1>3, <2>1, <3>1 DEF EndsAs, GoesOnAs, p
      <4>2. server = "up" /\ (\A f \in Fd : sock[f] # c) => k.toClient = <<>>
        BY <1>4 DEF Requests, q, k
      <4>3. QED
        BY <1>3, <3>1, <4>1, <4>2 DEF p, l
    <3>2. CASE d # c
      <4>1. player'[d] = player[d] /\ conn'[d] = conn[d]
        BY <1>5, <3>2
      <4>2. QED
        BY <2>1, <4>1 DEF Requests, Justified
    <3>3. QED
      BY <3>1, <3>2
  <2>2. QED
    BY <1>2, <2>1 DEF Requests, Justified
<1>14. Replies'
  <2>1. ASSUME NEW f \in Fd, sock[f] # Free, conn'[sock[f]].peer = "open",
               ~(player'[sock[f]].choosed
                 \/ (player'[sock[f]].asked /\ f # first_player))
        PROVE  /\ \A n \in DOMAIN conn'[sock[f]].toClient :
                     conn'[sock[f]].toClient[n].kind = "CHOOSED"
               /\ guess_number > 0 => conn'[sock[f]].toClient # <<>>
    <3>1. sock[f] \in Client
      BY <1>8, <2>1
    <3>2. CASE sock[f] = c
      <4>1. GoesOnAs(q, k, p, l)
        BY <1>3, <2>1, <3>2 DEF EndsAs, l
      <4>2. ~Informed(f)
        BY <2>1, <3>2, <4>1 DEF Informed, GoesOnAs, p, q
      <4>3. /\ \A n \in DOMAIN k.toClient : k.toClient[n].kind = "CHOOSED"
            /\ guess_number > 0 => k.toClient # <<>>
        BY <1>4, <2>1, <3>2, <4>2 DEF Replies, Taken, k
      <4>4. k.toClient # <<>> => 1 \in DOMAIN k.toClient
        <5>1. k.toClient \in Seq(Reply)
          BY DEF TypeOK, Connection, k
        <5>2. QED
          BY <5>1
      <4>5. l.toClient = k.toClient
        BY <2>1, <3>2, <4>1, <4>3, <4>4 DEF GoesOnAs, p
      <4>6. QED
        BY <3>2, <4>3, <4>5 DEF l
    <3>3. CASE sock[f] # c
      <4>1. player'[sock[f]] = player[sock[f]] /\ conn'[sock[f]] = conn[sock[f]]
        BY <1>5, <3>1, <3>3
      <4>2. QED
        BY <2>1, <4>1 DEF Replies, Taken, Informed
    <3>4. QED
      BY <3>2, <3>3
  <2>2. QED
    BY <1>2, <2>1 DEF Replies, Taken, Informed
<1>15. Truth'
  <2>1. ASSUME NEW d \in Client
        PROVE  /\ \A n \in DOMAIN conn'[d].toClient :
                     conn'[d].toClient[n].kind = "RIGHT" => found
               /\ player'[d].right => found \/ player'[d].reset
    <3>1. CASE d = c
      <4>1. \A n \in DOMAIN k.toClient : k.toClient[n].kind = "RIGHT" => found
        BY DEF Truth, k
      <4>2. DOMAIN <<>> = {}
        OBVIOUS
      <4>3. QED
        BY <1>3, <3>1, <4>1, <4>2 DEF p, l
    <3>2. CASE d # c
      <4>1. player'[d] = player[d] /\ conn'[d] = conn[d]
        BY <1>5, <3>2
      <4>2. QED
        BY <4>1 DEF Truth
    <3>3. QED
      BY <3>1, <3>2
  <2>2. QED
    BY <1>2, <2>1 DEF Truth
<1>16. QED
  BY <1>6, <1>9, <1>10, <1>11, <1>12, <1>13, <1>14, <1>15

\* A newcomer waits behind those who came before it.
LEMMA ConnectKeeps ==
  ASSUME IInv, NEW c \in Client, Connect(c)
  PROVE  IInv'
<1> USE DEF IInv
<1>1. /\ player[c].state = "new"
      /\ player' = [player EXCEPT ![c].state = "playing"]
      /\ backlog' = Append(backlog, c)
      /\ UNCHANGED <<server, todo, sock, first_player, guess_number, players>>
      /\ UNCHANGED <<conn, typed, found>>
  BY DEF Connect
<1>2. player \in [Client -> PlayerRecord] /\ backlog \in Seq(Client)
      /\ sock \in [Fd -> Client \cup {Free}]
  BY DEF TypeOK, PlayerRecord
<1>3. /\ player' \in [Client -> PlayerRecord]
      /\ \A d \in Client :
            /\ player'[d].state = IF d = c THEN "playing" ELSE player[d].state
            /\ player'[d].choosed = player[d].choosed
            /\ player'[d].lives = player[d].lives
            /\ player'[d].asked = player[d].asked
            /\ player'[d].right = player[d].right
            /\ player'[d].reset = player[d].reset
  BY <1>1, <1>2 DEF PlayerRecord
<1>4. /\ Len(backlog) \in Nat /\ DOMAIN backlog = 1 .. Len(backlog)
      /\ backlog' \in Seq(Client) /\ DOMAIN (backlog') = 1 .. Len(backlog) + 1
      /\ backlog'[Len(backlog) + 1] = c
      /\ \A n \in 1 .. Len(backlog) : backlog'[n] = backlog[n]
  BY <1>1, <1>2, AppendProperties
<1>5. /\ \A f \in Fd : sock[f] # c
      /\ \A n \in DOMAIN backlog : backlog[n] # c
  <2>1. Free \notin Client
    BY DEF Free, Client
  <2>2. QED
    BY <1>1, <2>1 DEF Seats, Waiting, Taken
<1>6. TypeOK'
  BY <1>1, <1>3, <1>4 DEF TypeOK, PlayerRecord
<1>7. Seats'
  <2>1. \A f \in Fd : sock[f] # Free => player'[sock[f]].state # "new"
    BY <1>2, <1>3 DEF Seats, Taken
  <2>2. QED
    BY <1>1, <2>1 DEF Seats, Taken
<1>8. Waiting'
  <2>1. \A m, n \in 1 .. Len(backlog) : backlog[m] = backlog[n] => m = n
    BY <1>4 DEF Waiting
  <2>2. \A m, n \in DOMAIN (backlog') : backlog'[m] = backlog'[n] => m = n
    BY <1>4, <1>5, <2>1
  <2>3. ASSUME NEW n \in DOMAIN (backlog')
        PROVE  /\ player'[backlog'[n]].state # "new"
               /\ \A f \in Fd : sock[f] # backlog'[n]
    <3>1. CASE n = Len(backlog) + 1
      BY <1>3, <1>4, <1>5, <3>1
    <3>2. CASE n # Len(backlog) + 1
      <4>1. n \in DOMAIN backlog /\ backlog'[n] = backlog[n] /\ backlog[n] \in Client
        BY <1>2, <1>4, <3>2
      <4>2. QED
        BY <1>3, <4>1 DEF Waiting
    <3>3. QED
      BY <3>1, <3>2
  <2>4. Listen \in todo => backlog' # <<>>
    BY <1>1, <1>2
  <2>5. QED
    BY <1>1, <2>2, <2>3, <2>4 DEF Waiting
<1>9. Selected'
  BY <1>1 DEF Selected, Taken, ServerReadable
<1>10. Lively'
  <2>1. \A d \in Client :
           /\ player'[d].lives > 0
           /\ (player'[d].state = "ended") <=> (conn[d].peer # "open")
    BY <1>1, <1>3 DEF Lively
  <2>2. QED
    BY <1>1, <2>1 DEF Lively
<1>11. Requests'
  <2>1. \A d \in Client : player'[d].state # "ended" => player[d].state # "ended"
    BY <1>1, <1>3
  <2>2. QED
    BY <1>1, <1>3, <2>1 DEF Requests
<1>12. Replies'
  <2>1. \A f \in Fd : sock[f] # Free =>
           /\ player'[sock[f]].choosed = player[sock[f]].choosed
           /\ player'[sock[f]].asked = player[sock[f]].asked
    BY <1>2, <1>3
  <2>2. QED
    BY <1>1, <2>1 DEF Replies, Taken, Informed
<1>13. Truth'
  BY <1>1, <1>3 DEF Truth
<1>14. QED
  BY <1>6, <1>7, <1>8, <1>9, <1>10, <1>11, <1>12, <1>13

\* Who finds no server changes nothing but itself.
LEMMA RefusedKeeps ==
  ASSUME IInv, NEW c \in Client, ConnectFails(c)
  PROVE  IInv'
<1> USE DEF IInv
<1>1. /\ player[c].state = "new"
      /\ player' = [player EXCEPT ![c].state = "playing"]
      /\ conn' = [conn EXCEPT ![c] = Unconnected(@)]
      /\ UNCHANGED <<server, todo, sock, first_player, guess_number, players>>
      /\ UNCHANGED <<backlog, typed, found>>
  BY DEF ConnectFails, serverVars
<1>2. /\ player \in [Client -> PlayerRecord] /\ backlog \in Seq(Client)
      /\ sock \in [Fd -> Client \cup {Free}] /\ conn \in Connections
  BY DEF TypeOK, PlayerRecord, Connections
<1>3. /\ player' \in [Client -> PlayerRecord]
      /\ \A d \in Client :
            /\ player'[d].state = IF d = c THEN "playing" ELSE player[d].state
            /\ player'[d].choosed = player[d].choosed
            /\ player'[d].lives = player[d].lives
            /\ player'[d].asked = player[d].asked
            /\ player'[d].right = player[d].right
            /\ player'[d].reset = player[d].reset
  BY <1>1, <1>2 DEF PlayerRecord
<1>4. /\ conn' \in Connections
      /\ \A d \in Client :
            /\ conn'[d].peer = conn[d].peer
            /\ conn'[d].toServer = conn[d].toServer
            /\ conn'[d].toClient = conn[d].toClient
  <2>1. \A d \in Client : conn'[d] = IF d = c THEN Unconnected(conn[c]) ELSE conn[d]
    BY <1>1, <1>2 DEF Connections
  <2>2. conn[c] \in Connection(Request, Reply)
    BY <1>2 DEF Connections
  <2>3. QED
    BY <1>1, <1>2, <2>1, <2>2, RefusedEffect DEF Connections
<1>5. TypeOK'
  BY <1>1, <1>3, <1>4 DEF TypeOK, PlayerRecord, Connections
<1>6. \A d \in Client : player[d].state # "new" => player'[d].state # "new"
  BY <1>1, <1>3
<1>7. Seats'
  BY <1>1, <1>2, <1>6 DEF Seats, Taken
<1>8. Waiting'
  <2>1. \A n \in DOMAIN backlog : backlog[n] \in Client
    BY <1>2
  <2>2. QED
    BY <1>1, <1>6, <2>1 DEF Waiting
<1>9. Selected'
  <2>1. \A i \in todo : i # Listen => sock[i] # Free /\ sock[i] \in Client
                                      /\ ServerReadable(conn[sock[i]])
    BY <1>2 DEF Selected, Taken, TypeOK
  <2>2. \A i \in todo : i # Listen => sock[i] # Free /\ ServerReadable(conn'[sock[i]])
    BY <1>4, <2>1 DEF ServerReadable
  <2>3. QED
    BY <1>1, <2>2 DEF Selected, Taken, ServerReadable
<1>10. Lively'
  <2>1. \A d \in Client :
           /\ player'[d].lives > 0
           /\ (player'[d].state = "ended") <=> (conn'[d].peer # "open")
    BY <1>1, <1>3, <1>4 DEF Lively
  <2>2. QED
    BY <2>1 DEF Lively
<1>11. Requests'
  <2>1. \A d \in Client : player'[d].state # "ended" => player[d].state # "ended"
    BY <1>1, <1>3
  <2>2. QED
    BY <1>1, <1>3, <1>4, <2>1 DEF Requests
<1>12. Replies'
  <2>1. \A f \in Fd : sock[f] # Free =>
           /\ player'[sock[f]].choosed = player[sock[f]].choosed
           /\ player'[sock[f]].asked = player[sock[f]].asked
           /\ conn'[sock[f]].peer = conn[sock[f]].peer
           /\ conn'[sock[f]].toClient = conn[sock[f]].toClient
    BY <1>2, <1>3, <1>4
  <2>2. QED
    BY <1>1, <2>1 DEF Replies, Taken, Informed
<1>13. Truth'
  BY <1>1, <1>3, <1>4 DEF Truth
<1>14. QED
  BY <1>5, <1>7, <1>8, <1>9, <1>10, <1>11, <1>12, <1>13

-----------------------------------------------------------------------------
LEMMA InitiallyIInv == Init => IInv
<1> SUFFICES ASSUME Init PROVE IInv
  OBVIOUS
<1> USE DEF Init
<1>1. /\ DOMAIN <<>> = {} /\ <<>> \in Seq(Fd) /\ <<>> \in Seq(Client)
      /\ <<>> \in Seq(Request) /\ <<>> \in Seq(Reply)
  OBVIOUS
<1>2. NewConn \in Connection(Request, Reply)
      /\ NewConn.toServer = <<>> /\ NewConn.toClient = <<>> /\ NewConn.peer = "open"
  BY <1>1 DEF NewConn, Connection, Knowledge, Heard
<1>3. NewPlayer \in PlayerRecord /\ NewPlayer.lives > 0 /\ NewPlayer.state = "new"
      /\ ~NewPlayer.right
  BY GuessGameAssumption DEF NewPlayer, PlayerRecord, GuessGameAssumption
<1>4. \A c \in Client : conn[c] = NewConn /\ player[c] = NewPlayer
  OBVIOUS
<1>5. TypeOK
  <2>1. 0 \in 0 .. MaxTyped /\ NotSet \in -1 .. 99
    BY GuessGameAssumption DEF NotSet, GuessGameAssumption
  <2>2. sock \in [Fd -> Client \cup {Free}] /\ first_player \in Fd \cup {NoFd}
    OBVIOUS
  <2>3. conn \in Connections /\ player \in [Client -> PlayerRecord]
    BY <1>2, <1>3 DEF Connections
  <2> HIDE DEF Init
  <2>4. QED
    BY <1>1, <2>1, <2>2, <2>3 DEF TypeOK, Connections, PlayerRecord, Init
<1>6. \A f \in Fd : sock[f] = Free
  OBVIOUS
<1>7. Seats /\ Waiting /\ Selected /\ Replies
  BY <1>1, <1>6 DEF Seats, Waiting, Selected, Replies, Taken
<1> HIDE DEF Init
<1>8. Lively /\ Requests /\ Truth
  BY <1>1, <1>2, <1>3, <1>4 DEF Lively, Requests, Truth
<1>9. QED
  BY <1>5, <1>7, <1>8 DEF IInv

LEMMA NextKeeps == IInv /\ [Next]_vars => IInv'
<1> SUFFICES ASSUME IInv, [Next]_vars PROVE IInv'
  OBVIOUS
<1>1. CASE ServerStep
  BY <1>1, ServerTyped, ServerSeated, ServerSelected, ServerLively, ServerRequests,
     ServerReplies, ServerTruth DEF IInv
<1>2. ASSUME NEW c \in Client, Connect(c) PROVE IInv'
  BY <1>2, ConnectKeeps
<1>3. ASSUME NEW c \in Client, ConnectFails(c) PROVE IInv'
  BY <1>3, RefusedKeeps
<1>4. ASSUME NEW c \in Client, ClientActs(c) PROVE IInv'
  BY <1>4, ClientKeeps
<1>5. CASE UNCHANGED vars
  <2>1. /\ UNCHANGED <<server, todo, sock, first_player, guess_number, players>>
        /\ UNCHANGED <<backlog, conn, player, typed, found>>
    BY <1>5 DEF vars, serverVars
  <2>2. TypeOK' /\ Seats' /\ Waiting'
    BY <2>1 DEF IInv, TypeOK, Seats, Waiting, Taken
  <2>3. Selected' /\ Lively' /\ Requests'
    BY <2>1 DEF IInv, Selected, Lively, Requests, Taken, ServerReadable
  <2>4. Replies' /\ Truth'
    BY <2>1 DEF IInv, Replies, Truth, Taken, Informed
  <2>5. QED
    BY <2>2, <2>3, <2>4 DEF IInv
<1>6. QED
  BY <1>1, <1>2, <1>3, <1>4, <1>5 DEF Next, ServerStep, ClientActs

\* The invariant holds throughout.
THEOREM InvariantCorrect == Spec => []IInv
BY InitiallyIInv, NextKeeps, PTL DEF Spec

\* Every variable keeps its type: in particular the server always has a
\* descriptor for who is waiting, and a number that it sets has two digits.
THEOREM TypeCorrect == Spec => []TypeOK
<1>1. IInv => TypeOK
  BY DEF IInv
<1>2. QED
  BY <1>1, InvariantCorrect, PTL

\* No client shows that the number was found unless it was, or its recv failed
\* (the last branch of client.cpp).
THEOREM NoFalseNews == Spec => []RightMeansFound
<1>1. IInv => RightMeansFound
  BY DEF IInv, Truth, RightMeansFound
<1>2. QED
  BY <1>1, InvariantCorrect, PTL

\* Once everything is read, every player who may guess knows that there is a
\* number: send_to_all_players and the greeting of accept leave nobody out,
\* however connections, the choice and the ends of clients interleave.
THEOREM NewsReachesAll == Spec => []EverybodyTold
<1>1. ASSUME IInv, Quiet, guess_number > 0, NEW n \in DOMAIN players
      PROVE  LET q == player[sock[players[n]]]
             IN  q.choosed \/ (q.asked /\ players[n] # first_player)
  <2> DEFINE f == players[n]
             c == sock[f]
  <2>1. f \in Fd /\ Taken(f)
    BY <1>1 DEF IInv, TypeOK, Seats
  <2>2. c \in Client
    BY <1>1, <2>1 DEF IInv, TypeOK, Taken
  <2> HIDE DEF f
  <2>3. conn[c].peer = "open"
    BY <1>1, <2>1 DEF Quiet, Readable, ServerReadable, Taken
  <2>4. player[c].state \notin {"new", "ended"}
    BY <1>1, <2>1, <2>2, <2>3 DEF IInv, Seats, Lively
  <2>5. Playing(c)
    <3>1. player[c].state \in {"new", "playing", "ended"}
      BY <1>1, <2>2 DEF IInv, TypeOK
    <3>2. QED
      BY <2>4, <3>1 DEF Playing
  <2>6. conn[c].toClient = <<>>
    BY <1>1, <2>2, <2>5 DEF Quiet, ClientReadable
  <2>7. Informed(f)
    BY <1>1, <2>1, <2>3, <2>6 DEF IInv, Replies
  <2>8. QED
    BY <2>7 DEF Informed, f
<1>2. IInv => EverybodyTold
  BY <1>1 DEF EverybodyTold
<1>3. QED
  BY <1>2, InvariantCorrect, PTL

=============================================================================
