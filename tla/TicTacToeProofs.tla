-------------------------- MODULE TicTacToeProofs ---------------------------
(***************************************************************************)
(* What noughts and crosses guarantees for every number of clients up to   *)
(* the 50 for which p has room, and every board: as long as no descriptor  *)
(* has been seated twice, the two players of a game share one right to     *)
(* move and one board; and the server goes down only in the wake of a game *)
(* that was left.                                                          *)
(***************************************************************************)
EXTENDS TicTacToe, SocketLemmas

Taken(f) == sock[f] # Free
Occurs(f) == \E g \in DOMAIN p : f \in {p[g].player1, p[g].player2}

\* The descriptor of a player that has a partner.
Seated(f) == Taken(f) /\ f # waiting

\* Each client has one descriptor at most.
Seats ==
    /\ \A f, g \in Fd : Taken(f) /\ sock[f] = sock[g] => f = g
    /\ \A f \in Fd : Taken(f) => player[sock[f]].state # "new"
    /\ stdin => ~Taken(Stdin)

\* What select() reported is open when the pass comes to it, or the pass has
\* come to descriptor 0, which is closed now.
Selected ==
    /\ \A f \in readFds : Taken(f)
    /\ Listen \in todo =>
          \/ \A f \in todo \ {Listen} : Taken(f)
          \/ ~stdin /\ ~Taken(Stdin) /\ Stdin \notin todo

\* The clients come in the order of their numbers, and are accepted in it.
InLine ==
    /\ \A c, d \in Client : c < d /\ player[d].state # "new" => player[c].state # "new"
    /\ \A n \in DOMAIN backlog :
          /\ player[backlog[n]].state # "new" /\ partner[backlog[n]] = Nobody
          /\ \A f \in Fd : Taken(f) => sock[f] < backlog[n]
    /\ \A m, n \in DOMAIN backlog : m < n => backlog[m] < backlog[n]
    /\ \A c \in Client : player[c].state = "new" => partner[c] = Nobody
    /\ Listen \in todo => backlog # <<>>

\* The server may notice that a client has ended, never that before; who has
\* the turn is in a game, and what a client sends are its own moves.
Lively ==
    \A c \in Client :
        /\ player[c].state = "ended" <=> conn[c].peer # "open"
        /\ player[c].state = "ended" => conn[c].toClient = <<>>
        /\ player[c].turn => player[c].inGame
        /\ player[c].state = "new" => ~player[c].inGame
        /\ \A n \in DOMAIN conn[c].toServer :
              conn[c].toServer[n].kind = "move" /\ conn[c].toServer[n].from = c

\* The two descriptors of a game are open together, for two clients that know
\* each other, until both are closed; who is not in a game waits for one.
Tables ==
    ~SharedFd =>
        /\ \A g \in DOMAIN p :
              LET a == p[g].player1   b == p[g].player2
              IN  /\ a # b
                  /\ Seated(a) <=> Seated(b)
                  /\ Seated(a) => partner[sock[a]] = sock[b] /\ partner[sock[b]] = sock[a]
        /\ \A f \in Fd : Seated(f) => Occurs(f)
        /\ \A c \in Client : partner[c] # Nobody => partner[partner[c]] = c /\ partner[c] # c

\* The descriptor in waiting is open, for a client without a partner; only one
\* that was in a game before may have been closed with its old partner's.
WaitsAlone ==
    ~SharedFd /\ waiting # NoFd =>
        /\ Taken(waiting) => partner[sock[waiting]] = Nobody
        /\ ~Occurs(waiting) => /\ Taken(waiting) /\ waiting # Stdin
                               /\ server = "up" => waiting \in readFds
                               /\ waiting \in todo => conn[sock[waiting]].peer # "open"

BlankBoard == [sq \in Cell |-> blank]

\* A client without a partner has got no message and has sent none.
Strangers ==
    ~SharedFd =>
        \A c \in Client : partner[c] = Nobody =>
            /\ conn[c].toClient = <<>> /\ conn[c].toServer = <<>>
            /\ conn[c].end \in {"open", "fin"}
            /\ server = "up" => conn[c].peer \in {"open", "fin"}
            /\ ~player[c].inGame /\ player[c].board = BlankBoard

\* Descriptor 0 is closed when a player that waits leaves: whoever comes next
\* gets it, and becomes the partner of the one that has left, until the server
\* comes to that one's descriptor in the same pass.
ZeroIsShortLived ==
    ~SharedFd /\ server = "up" =>
        /\ ~stdin /\ ~Occurs(Stdin) =>
              /\ waiting # NoFd /\ ~Occurs(waiting) /\ conn[sock[waiting]].peer # "open"
              /\ Listen \in todo => waiting \in todo
        /\ Seated(Stdin) =>
              /\ waiting = NoFd /\ Listen \notin todo
              /\ \E g \in DOMAIN p :
                    /\ p[g].player2 = Stdin /\ p[g].player1 \in todo \ {Listen}
                    /\ conn[sock[p[g].player1]].peer # "open"
                    /\ conn[sock[p[g].player1]].toServer = <<>>

Abandoned == \E c \in Client : partner[c] # Nobody /\ player[c].state = "ended"

\* As long as no player has left its game, all games are complete and what
\* select() reported stays so.
Whole ==
    ~Abandoned =>
        /\ server = "up" /\ ~SharedFd /\ ~Taken(Stdin)
        /\ \A g \in DOMAIN p : Seated(p[g].player1) /\ Seated(p[g].player2)
        /\ \A i \in todo \ {Listen} : Taken(i) /\ ServerReadable(conn[sock[i]])

Mark(c) == IF c < partner[c] THEN x ELSE o

\* The player on turn, and the rights to move that are on their way to one.
Hold(c) == Playing(c) /\ player[c].turn
Coming(c) == {n \in DOMAIN conn[c].toClient : conn[c].toClient[n].kind # "z"}

Differ(c, d) == {sq \in Cell : player[c].board[sq] # player[d].board[sq]}

Together(c, d) == c # d /\ partner[c] = d /\ partner[d] = c /\ NoReset(c, d)

\* There is one right to move in a game.
OneRight(c, d) ==
    /\ Hold(c) => /\ ~Hold(d)
                  /\ conn[c].toServer = <<>> /\ conn[d].toServer = <<>>
                  /\ Coming(c) = {} /\ Coming(d) = {}
    /\ conn[c].toServer # <<>> => /\ Len(conn[c].toServer) = 1 /\ conn[d].toServer = <<>>
                                  /\ Coming(c) = {} /\ Coming(d) = {}
    /\ Coming(c) # {} => Coming(d) = {} /\ \A m, n \in Coming(c) : m = n

\* A player that has not learnt its symbol yet finds it first in its inbox,
\* and nothing but moves behind it.
Openings(c, d) ==
    /\ Playing(c) /\ ~player[c].inGame =>
          /\ conn[c].toClient # <<>>
          /\ conn[c].toClient[1].kind = IF c < d THEN "x" ELSE "z"
          /\ player[c].board = BlankBoard
    /\ \A n \in DOMAIN conn[c].toClient :
          n > 1 \/ player[c].inGame => conn[c].toClient[n].kind = "move"
    /\ player[c].inGame => player[c].symbol = Mark(c)

\* The boards agree but for the move that is on its way, or was the last.
Boards(c, d) ==
    /\ \A q, r \in Differ(c, d) : q = r
    /\ Hold(c) => Differ(c, d) = {}
    /\ \A n \in DOMAIN conn[c].toClient :
          LET m == conn[c].toClient[n]
          IN  /\ m.kind = "x" => Differ(c, d) = {}
              /\ m.kind = "move" => /\ m.from = d /\ player[d].board[m.sq] = Mark(d)
                                    /\ \A sq \in Differ(c, d) : sq = m.sq
    /\ \A n \in DOMAIN conn[c].toServer :
          LET m == conn[c].toServer[n]
          IN  player[c].board[m.sq] = Mark(c) /\ \A sq \in Differ(c, d) : sq = m.sq

\* The right to move is lost only when the second player reads it with its
\* symbol.
Lost(c, d) ==
    /\ conn[c].toServer = <<>> /\ conn[d].toServer = <<>>
    /\ Coming(c) = {} /\ Coming(d) = {} /\ ~Hold(c) /\ ~Hold(d)

Standstill(c, d) ==
    On(c, d) /\ c < d /\ Lost(c, d) =>
        /\ player[d].inGame /\ player[d].board = BlankBoard
        /\ \E s \in Cell : player[c].board = [BlankBoard EXCEPT ![s] = x]

Play ==
    ~SharedFd =>
        \A c, d \in Client : Together(c, d) =>
            OneRight(c, d) /\ Openings(c, d) /\ Boards(c, d) /\ Standstill(c, d)

IInv ==
    /\ TypeOK /\ Seats /\ Selected /\ InLine /\ Lively
    /\ Tables /\ WaitsAlone /\ Strangers /\ ZeroIsShortLived /\ Whole
    /\ MovesReachThePartner /\ Play

-----------------------------------------------------------------------------

(* Descriptors and games.                                                  *)

PlayerRecord == [state : {"new", "playing", "ended"}, inGame : BOOLEAN, turn : BOOLEAN,
                 symbol : {x, o, blank}, board : [Cell -> {x, o, blank}]]
Connections == [Client -> Connection(Message, Message)]
Pair == [player1 : Fd, player2 : Fd]

LEMMA Numbers ==
  /\ N \in Nat /\ Fd \subseteq Nat /\ Stdin \in Fd /\ Listen \notin Fd
  /\ Stdin < Listen /\ \A f \in Fd : f # Stdin => Listen < f
  /\ Client \subseteq Nat /\ Free \notin Client /\ Nobody \notin Client /\ NoFd \notin Fd
BY TicTacToeAssumption
   DEF TicTacToeAssumption, MaxGames, Fd, Stdin, Listen, Client, Free, Nobody, NoFd

LEMMA LeastOf ==
  ASSUME NEW S \in SUBSET Nat, S # {}
  PROVE  Least(S) \in S /\ \A f \in S : Least(S) <= f
<1>1. \E f \in S : \A g \in S : f <= g
  BY LeastExists
<1>2. QED
  BY <1>1 DEF Least

\* The pass goes through its descriptors in ascending order.
LEMMA NextInPass ==
  ASSUME TypeOK, todo # {}
  PROVE  /\ Least(todo) \in todo /\ \A f \in todo : Least(todo) <= f
         /\ Least(todo) # Listen => Least(todo) \in Fd
<1>1. todo \in SUBSET Nat
  BY Numbers DEF TypeOK, Listen
<1>2. QED
  BY <1>1, LeastOf DEF TypeOK

LEMMA GamePlayers ==
  ASSUME TypeOK
  PROVE  \A g \in DOMAIN p : p[g].player1 \in Fd /\ p[g].player2 \in Fd
<1>1. p \in Seq(Pair)
  BY DEF TypeOK, Pair
<1>2. \A g \in DOMAIN p : p[g] \in Pair
  BY <1>1
<1>3. QED
  BY <1>2 DEF Pair

\* find_game finds a game of the descriptor if there is one.
LEMMA GameOf ==
  ASSUME TypeOK, NEW f \in Fd
  PROVE  /\ Occurs(f) => \E g \in DOMAIN p : Game(f) = p[g] /\ f \in {p[g].player1, p[g].player2}
         /\ ~Occurs(f) => Game(f) = [player1 |-> Stdin, player2 |-> Stdin]
         /\ Game(f) \in Pair /\ Other(f) \in {Game(f).player1, Game(f).player2}
         /\ Other(f) \in Fd
<1> DEFINE at == {g \in DOMAIN p : f \in {p[g].player1, p[g].player2}}
<1>1. p \in Seq(Pair)
  BY DEF TypeOK, Pair
<1>2. DOMAIN p \subseteq Nat /\ 0 \notin DOMAIN p
  BY <1>1
<1>3. CASE Occurs(f)
  <2>1. at # {} /\ at \in SUBSET Nat
    BY <1>2, <1>3 DEF Occurs
  <2>2. find_game(f) \in at
    BY <2>1, LeastOf DEF find_game
  <2>3. find_game(f) # 0 /\ find_game(f) \in DOMAIN p
    BY <1>2, <2>2
  <2>4. Game(f) = p[find_game(f)] /\ f \in {p[find_game(f)].player1, p[find_game(f)].player2}
    BY <2>2, <2>3 DEF Game
  <2>5. Game(f) \in Pair
    BY <1>1, <2>3, <2>4
  <2>6. QED
    BY <1>3, <2>3, <2>4, <2>5 DEF Other, Pair
<1>4. CASE ~Occurs(f)
  <2>1. find_game(f) = 0
    BY <1>4 DEF find_game, Occurs
  <2>2. Game(f) = [player1 |-> Stdin, player2 |-> Stdin]
    BY <2>1 DEF Game
  <2>3. QED
    BY <1>4, <2>2, Numbers DEF Other, Pair
<1>5. QED
  BY <1>3, <1>4

\* The descriptor and the client of the connection that is accepted.
Newest == Least({f \in Fd : sock[f] = Free /\ (f = Stdin => ~stdin)})
Comer == Head(backlog)

LEMMA Newcomer ==
  ASSUME TypeOK, Seats, InLine, Listen \in todo
  PROVE  /\ Comer \in Client /\ Tail(backlog) \in Seq(Client) /\ backlog # <<>>
         /\ player[Comer].state # "new" /\ partner[Comer] = Nobody
         /\ \A f \in Fd : Taken(f) => sock[f] < Comer
         /\ Newest \in Fd /\ ~Taken(Newest)
         /\ Newest = Stdin <=> ~stdin /\ ~Taken(Stdin)
<1> DEFINE free == {f \in Fd : sock[f] = Free /\ (f = Stdin => ~stdin)}
<1>1. backlog # <<>> /\ backlog \in Seq(Client) /\ sock \in [Fd -> Client \cup {Free}]
  BY DEF InLine, TypeOK
<1>2. Comer \in Client /\ Tail(backlog) \in Seq(Client) /\ Comer = backlog[1] /\ 1 \in DOMAIN backlog
  BY <1>1 DEF Comer
<1>3. /\ player[Comer].state # "new" /\ partner[Comer] = Nobody
      /\ \A f \in Fd : Taken(f) => sock[f] < Comer
  BY <1>2 DEF InLine
<1>4. free # {}
  <2>1. \A f \in Fd : sock[f] # Comer
    BY <1>1, <1>2, <1>3, Numbers DEF Taken, Client
  <2>2. N \in Nat /\ (\A f \in 4 .. 3 + N : f \in Fd /\ f # Stdin)
    BY Numbers DEF Fd, Stdin
  <2> DEFINE s == [f \in 4 .. 3 + N |-> sock[f]]
  <2>3. s \in [4 .. 3 + N -> 1 .. N \cup {0}]
    BY <1>1, <2>2 DEF Client, Free
  <2>4. \A f, g \in 4 .. 3 + N : s[f] # 0 /\ s[f] = s[g] => f = g
    BY <2>2 DEF Seats, Taken, Free
  <2>5. (\A f \in 4 .. 3 + N : s[f] # Comer) /\ Comer \in 1 .. N
    BY <1>2, <2>1, <2>2 DEF Client
  <2> HIDE DEF s
  <2>6. PICK f \in 4 .. 3 + N : s[f] = 0
    BY <2>2, <2>3, <2>4, <2>5, FreeDescriptor
  <2>7. f \in free
    BY <2>2, <2>6 DEF s, Free
  <2>8. QED
    BY <2>7
<1>5. free \in SUBSET Nat
  BY Numbers
<1>6. Newest \in free /\ \A f \in free : Newest <= f
  BY <1>4, <1>5, LeastOf DEF Newest
<1>7. Newest = Stdin <=> ~stdin /\ ~Taken(Stdin)
  <2>1. Stdin \in free <=> ~stdin /\ ~Taken(Stdin)
    BY Numbers DEF Taken
  <2>2. Stdin \in free => Newest = Stdin
    BY <1>6, Numbers DEF Stdin
  <2>3. QED
    BY <1>6, <2>1, <2>2
<1>8. QED
  BY <1>1, <1>2, <1>3, <1>6, <1>7 DEF Taken

-----------------------------------------------------------------------------

(* What the server's steps do to the connections.                          *)

\* The connection l after the server has read from k or sent on it what the
\* client does not get any more.
Softer(k, l) ==
    /\ l.peer = "open" <=> k.peer = "open"
    /\ l.toServer \in {k.toServer, <<>>}
    /\ l.toClient = k.toClient \/ (SharedFd /\ k.peer = "open")

\* Connections that the server has read from, and none of them new.
Read(l) ==
    /\ l \in Connections
    /\ \A c \in Client :
          /\ Softer(conn[c], l[c]) /\ l[c].end = conn[c].end
          /\ player[c].state = "new" => l[c] = conn[c]

\* Connections that have faded or were closed.
Faded(l) ==
    /\ l \in Connections
    /\ \A c \in Client :
          /\ Softer(conn[c], l[c])
          /\ l[c].end \in {"open", "fin"} => conn[c].end \in {"open", "fin"}
          /\ l[c].end = "open" => conn[c].end = "open" /\ l[c].toServer = conn[c].toServer
          /\ conn[c].toServer = <<>> /\ conn[c].end \in {"open", "fin"} => l[c].end \in {"open", "fin"}

LEMMA FadedSame == ASSUME TypeOK PROVE Faded(conn) /\ Read(conn)
BY DEF Faded, Read, Softer, TypeOK, Connections

LEMMA CloseFades ==
  ASSUME NEW k \in Connection(Message, Message)
  PROVE  /\ ServerCloses(k) \in Connection(Message, Message)
         /\ ServerCloses(k).end # "open" /\ ServerCloses(k).peer = k.peer
         /\ ServerCloses(k).toClient = k.toClient
         /\ ServerCloses(k).toServer \in {k.toServer, <<>>}
         /\ ServerCloses(k).end \in {"open", "fin"} => k.end \in {"open", "fin"}
         /\ k.toServer = <<>> /\ k.end \in {"open", "fin"} => ServerCloses(k).end = "fin"
<1>1. /\ ServerCloses(k) \in Connection(Message, Message)
      /\ ServerCloses(k).end # "open" /\ ServerCloses(k).peer = k.peer
      /\ ServerCloses(k).toClient = k.toClient
      /\ ServerCloses(k).toServer \in {k.toServer, <<>>}
  BY ServerClosesEffect
<1>2. CASE k.end # "open"
  <2>1. ServerCloses(k) = k
    BY <1>2 DEF ServerCloses
  <2>2. QED
    BY <1>1, <1>2, <2>1
<1>3. CASE k.end = "open"
  <2>1. k.toServer = <<>> => ServerCloses(k).end = "fin"
    BY <1>3 DEF ServerCloses, Connection
  <2>2. QED
    BY <1>1, <1>3, <2>1
<1>4. QED
  BY <1>2, <1>3

LEMMA EndFades ==
  ASSUME TypeOK, NEW k, Read(k), ServerEnds(k)
  PROVE  Faded(conn') /\ \A c \in Client : player[c].state # "new" => conn'[c].end # "open"
<1>1. /\ k \in Connections
      /\ conn' = [c \in Client |-> IF player[c].state = "new" THEN k[c] ELSE ServerCloses(k[c])]
  BY DEF ServerEnds, Read
<1>2. ASSUME NEW c \in Client
      PROVE  /\ conn'[c] \in Connection(Message, Message) /\ Softer(conn[c], conn'[c])
             /\ conn'[c].end \in {"open", "fin"} => conn[c].end \in {"open", "fin"}
             /\ conn'[c].end = "open" => conn[c].end = "open" /\ conn'[c].toServer = conn[c].toServer
             /\ conn[c].toServer = <<>> /\ conn[c].end \in {"open", "fin"} => conn'[c].end \in {"open", "fin"}
             /\ player[c].state # "new" => conn'[c].end # "open"
  <2>1. k[c] \in Connection(Message, Message) /\ Softer(conn[c], k[c]) /\ k[c].end = conn[c].end
    BY <1>1 DEF Read, Connections
  <2>2. CASE player[c].state = "new"
    <3>1. conn'[c] = k[c] /\ k[c] = conn[c]
      BY <1>1, <2>2 DEF Read
    <3>2. QED
      BY <2>1, <2>2, <3>1
  <2>3. CASE player[c].state # "new"
    <3>1. conn'[c] = ServerCloses(k[c])
      BY <1>1, <2>3
    <3>2. /\ ServerCloses(k[c]) \in Connection(Message, Message)
          /\ ServerCloses(k[c]).end # "open" /\ ServerCloses(k[c]).peer = k[c].peer
          /\ ServerCloses(k[c]).toClient = k[c].toClient
          /\ ServerCloses(k[c]).toServer \in {k[c].toServer, <<>>}
          /\ ServerCloses(k[c]).end \in {"open", "fin"} => k[c].end \in {"open", "fin"}
          /\ k[c].toServer = <<>> /\ k[c].end \in {"open", "fin"} => ServerCloses(k[c]).end = "fin"
      BY <2>1, CloseFades
    <3>3. conn[c].toServer = <<>> => k[c].toServer = <<>>
      BY <2>1 DEF Softer
    <3>4. QED
      BY <2>1, <3>1, <3>2, <3>3 DEF Softer
  <2>4. QED
    BY <2>2, <2>3
<1>3. conn' \in Connections
  BY <1>1, <1>2 DEF Connections
<1>4. QED
  BY <1>2, <1>3 DEF Faded

LEMMA SentEffect ==
  ASSUME NEW s \in [Fd -> Client \cup {Free}], NEW k \in Connections, NEW f \in Fd,
         NEW msgs \in Seq(Message)
  PROVE  /\ Sent(s, k, f, msgs) \in Connections
         /\ \A c \in Client :
               Sent(s, k, f, msgs)[c] = IF s[f] = c THEN ServerSends(k[c], msgs) ELSE k[c]
<1>1. \A c \in Client : ServerSends(k[c], msgs) \in Connection(Message, Message)
  BY ServerSendsEffect DEF Connections
<1>2. CASE s[f] = Free
  BY <1>2, Numbers DEF Sent
<1>3. CASE s[f] # Free
  BY <1>1, <1>3 DEF Sent, Connections
<1>4. QED
  BY <1>2, <1>3

-----------------------------------------------------------------------------

(* The server's steps.                                                     *)

\* A client with a descriptor waits, or sits opposite its partner.
LEMMA Mates ==
  ASSUME IInv, ~SharedFd, NEW i \in Fd, Taken(i)
  PROVE  \/ i = waiting /\ partner[sock[i]] = Nobody
         \/ /\ Seated(i) /\ Occurs(i) /\ Seated(Other(i)) /\ Other(i) # i
            /\ {Game(i).player1, Game(i).player2} = {i, Other(i)}
            /\ partner[sock[i]] = sock[Other(i)] /\ partner[sock[Other(i)]] = sock[i]
<1>1. CASE i = waiting
  BY <1>1, Numbers DEF IInv, WaitsAlone
<1>2. CASE i # waiting
  <2>1. Seated(i) /\ Occurs(i)
    BY <1>2 DEF Seated, IInv, Tables
  <2>2. PICK g \in DOMAIN p : Game(i) = p[g] /\ i \in {p[g].player1, p[g].player2}
    BY <2>1, GameOf DEF IInv
  <2>3. /\ p[g].player1 # p[g].player2 /\ (Seated(p[g].player1) <=> Seated(p[g].player2))
        /\ Seated(p[g].player1) => /\ partner[sock[p[g].player1]] = sock[p[g].player2]
                                   /\ partner[sock[p[g].player2]] = sock[p[g].player1]
    BY DEF IInv, Tables
  <2>4. CASE i = p[g].player1
    <3>1. Other(i) = p[g].player2
      BY <2>2, <2>4 DEF Other
    <3>2. QED
      BY <2>1, <2>2, <2>3, <2>4, <3>1
  <2>5. CASE i = p[g].player2
    <3>1. Other(i) = p[g].player1
      BY <2>2, <2>3, <2>5 DEF Other
    <3>2. QED
      BY <2>1, <2>2, <2>3, <2>5, <3>1
  <2>6. QED
    BY <2>2, <2>4, <2>5
<1>3. QED
  BY <1>1, <1>2

Stops ==
    /\ server = "up" /\ server' = "down" /\ todo' = {} /\ readFds' = {}
    /\ UNCHANGED <<sock, stdin, p, waiting, backlog, player, partner>>
    /\ Faded(conn') /\ Abandoned
    /\ \A c \in Client : player[c].state # "new" => conn'[c].end # "open"

Opened == [sock EXCEPT ![Newest] = Comer]
Told == Sent(Opened, conn, waiting, <<[kind |-> "x"]>>)
Both == Sent(Opened, Told, Newest, <<[kind |-> "z"]>>)

Accepts ==
    /\ server = "up" /\ Listen \in todo /\ Stdin \notin todo /\ todo' = todo \ {Listen}
    /\ sock' = Opened /\ readFds' = readFds \cup {Newest} /\ backlog' = Tail(backlog)
    /\ UNCHANGED <<server, stdin, player>>

SitsDown ==
    /\ Accepts /\ waiting = NoFd /\ waiting' = Newest
    /\ UNCHANGED <<p, partner, conn>>

PairsUp ==
    /\ Accepts /\ waiting # NoFd /\ waiting' = NoFd
    /\ p' = Append(p, [player1 |-> waiting, player2 |-> Newest])
    /\ partner' = IF Opened[waiting] = Free THEN partner
                  ELSE [partner EXCEPT ![Comer] = Opened[waiting], ![Opened[waiting]] = Comer]
    /\ conn' = Both

LEMMA AcceptSteps ==
  ASSUME IInv, Accept
  PROVE  Stops \/ SitsDown \/ PairsUp
<1>1. /\ server = "up" /\ Listen \in todo /\ Stdin \notin todo
  <2>1. server = "up" /\ todo # {} /\ Least(todo) = Listen
    BY DEF Accept
  <2>2. QED
    BY <2>1, NextInPass, Numbers DEF IInv, Listen, Stdin
<1>2. /\ Comer \in Client /\ player[Comer].state # "new" /\ partner[Comer] = Nobody
      /\ \A f \in Fd : Taken(f) => sock[f] < Comer
      /\ Newest \in Fd /\ ~Taken(Newest)
  BY <1>1, Newcomer DEF IInv
<1>3. CASE waiting = NoFd
  BY <1>1, <1>3 DEF Accept, Accepts, SitsDown, Opened, Newest, Comer
<1>4. CASE waiting # NoFd /\ ~(SigPipe(Opened, conn, waiting) \/ SigPipe(Opened, Told, Newest))
  BY <1>1, <1>4 DEF Accept, Accepts, PairsUp, Opened, Told, Both, Newest, Comer
<1>5. CASE waiting # NoFd /\ (SigPipe(Opened, conn, waiting) \/ SigPipe(Opened, Told, Newest))
  <2>1. ServerEnds(Told)
    BY <1>5 DEF Accept, Opened, Told, Newest, Comer
  <2> DEFINE w == Opened[waiting]
             msg == <<[kind |-> "x"]>>
  <2>2. /\ waiting \in Fd /\ Opened \in [Fd -> Client \cup {Free}] /\ conn \in Connections
        /\ sock \in [Fd -> Client \cup {Free}]
    BY <1>2, <1>5 DEF IInv, TypeOK, Opened, Connections
  <2>3. w \in Client \cup {Free} /\ Opened[Newest] = Comer
        /\ (w # Free => player[w].state # "new")
    BY <1>2, <2>2 DEF Opened, IInv, Seats, Taken
  <2>4. msg \in Seq(Message)
    BY DEF Message
  <2>0. Told = Sent(Opened, conn, waiting, msg)
    BY DEF Told
  <2> HIDE DEF msg
  <2>5. /\ Told \in Connections
        /\ \A c \in Client : Told[c] = IF w = c THEN ServerSends(conn[c], msg) ELSE conn[c]
    <3>1. conn \in Connections /\ Opened \in [Fd -> Client \cup {Free}] /\ waiting \in Fd
      BY <2>2
    <3>2. /\ Sent(Opened, conn, waiting, msg) \in Connections
          /\ \A c \in Client : Sent(Opened, conn, waiting, msg)[c]
                = IF Opened[waiting] = c THEN ServerSends(conn[c], msg) ELSE conn[c]
      BY <2>4, <3>1, SentEffect
    <3>3. QED
      BY <2>0, <3>2
  <2>6. \A c \in Client :
           /\ ServerSends(conn[c], msg).toServer = conn[c].toServer
           /\ ServerSends(conn[c], msg).end = conn[c].end
           /\ conn[c].peer = "open" => ServerSends(conn[c], msg).peer = "open"
           /\ conn[c].peer # "open" => /\ ServerSends(conn[c], msg).peer # "open"
                                       /\ ServerSends(conn[c], msg).toClient = conn[c].toClient
    <3> SUFFICES ASSUME NEW c \in Client, NEW k, k = conn[c]
                 PROVE  /\ ServerSends(k, msg).toServer = k.toServer
                        /\ ServerSends(k, msg).end = k.end
                        /\ k.peer = "open" => ServerSends(k, msg).peer = "open"
                        /\ k.peer # "open" => /\ ServerSends(k, msg).peer # "open"
                                              /\ ServerSends(k, msg).toClient = k.toClient
      OBVIOUS
    <3>1. k \in Connection(Message, Message)
      BY <2>2 DEF Connections
    <3>2. QED
      BY <2>4, <3>1, ServerSendsEffect
  <2>7. SigPipe(Opened, conn, waiting) => w \in Client /\ conn[w].peer = "dead"
    BY <2>3 DEF SigPipe, BreaksPipe
  <2>8. SigPipe(Opened, Told, Newest) => Told[Comer].peer = "dead"
    BY <2>3 DEF SigPipe, BreaksPipe
  <2>9. ~SharedFd => conn[Comer].peer \in {"open", "fin"}
    BY <1>1, <1>2 DEF IInv, Strangers
  <2>10. ~SharedFd /\ w \in Client => conn[w].peer # "open"
    <3> SUFFICES ASSUME ~SharedFd, w \in Client, conn[w].peer = "open" PROVE FALSE
      OBVIOUS
    <3>1. Told[Comer].peer = "dead"
      BY <1>5, <2>7, <2>8
    <3>2. CASE w = Comer
      <4>1. ServerSends(conn[w], msg).peer = "open" /\ Told[w] = ServerSends(conn[w], msg)
        BY <2>5, <2>6
      <4>2. QED
        BY <3>1, <3>2, <4>1
    <3>3. CASE w # Comer
      BY <1>2, <2>5, <2>9, <3>1, <3>3
    <3>4. QED
      BY <3>2, <3>3
  <2>11. Read(Told)
    <3> SUFFICES ASSUME NEW c \in Client
                 PROVE  /\ Softer(conn[c], Told[c]) /\ Told[c].end = conn[c].end
                        /\ player[c].state = "new" => Told[c] = conn[c]
      BY <2>5 DEF Read
    <3>1. CASE w = c
      <4>1. Told[c] = ServerSends(conn[c], msg) /\ player[c].state # "new"
        BY <2>3, <2>5, <3>1, Numbers
      <4>2. SharedFd \/ conn[c].peer # "open"
        BY <2>10, <3>1
      <4> DEFINE l == ServerSends(conn[c], msg)
      <4>3. /\ l.toServer = conn[c].toServer /\ l.end = conn[c].end
            /\ conn[c].peer = "open" => l.peer = "open"
            /\ conn[c].peer # "open" => l.peer # "open" /\ l.toClient = conn[c].toClient
        BY <2>6
      <4> HIDE DEF l
      <4>4. QED
        BY <4>1, <4>2, <4>3 DEF Softer, l
    <3>2. CASE w # c
      BY <2>5, <3>2 DEF Softer
    <3>3. QED
      BY <3>1, <3>2
  <2>12. Abandoned
    <3> SUFFICES ASSUME ~Abandoned PROVE FALSE
      OBVIOUS
    <3>1. /\ ~SharedFd
          /\ \A g \in DOMAIN p : p[g].player1 # waiting /\ p[g].player2 # waiting
      BY DEF IInv, Whole, Seated
    <3>2. ~Occurs(waiting)
      BY <3>1 DEF Occurs
    <3>3. Taken(waiting) /\ partner[sock[waiting]] = Nobody
      BY <1>5, <3>1, <3>2 DEF IInv, WaitsAlone
    <3>4. w = sock[waiting] /\ w \in Client /\ w < Comer
      BY <1>2, <2>2, <2>3, <3>3 DEF Opened, Taken
    <3>5. w # Comer
      BY <1>2, <3>4, Numbers
    <3>6. conn[w].peer \in {"open", "fin"}
      BY <1>1, <3>1, <3>3, <3>4 DEF IInv, Strangers
    <3>7. Told[Comer].peer \in {"open", "fin"}
      BY <1>2, <2>5, <2>9, <3>1, <3>5
    <3>8. QED
      BY <1>5, <2>7, <2>8, <3>6, <3>7
  <2>13. QED
    BY <1>1, <2>1, <2>11, <2>12, EndFades DEF IInv, ServerEnds, Stops
<1>6. QED
  BY <1>3, <1>4, <1>5

-----------------------------------------------------------------------------

Serves(i, c) ==
    /\ server = "up" /\ i \in todo /\ todo' = todo \ {i} /\ c = sock[i]
    /\ Listen \in todo => i = Stdin
    /\ UNCHANGED <<server, p, waiting, backlog, player, partner>>

Relays(i, c) ==
    /\ Serves(i, c) /\ conn[c].toServer # <<>>
    /\ conn' = Sent(sock, [conn EXCEPT ![c].toServer = <<>>], Other(i), conn[c].toServer)
    /\ UNCHANGED <<readFds, sock, stdin>>

Gone(i) == {Game(i).player1, Game(i).player2}

Leaves(i, c) ==
    /\ Serves(i, c) /\ conn[c].toServer = <<>>
    /\ sock' = [f \in Fd |-> IF f \in Gone(i) THEN Free ELSE sock[f]]
    /\ stdin' = (stdin /\ Stdin \notin Gone(i))
    /\ readFds' = readFds \ Gone(i)
    /\ Faded(conn')
    /\ \A d \in Client :
          /\ sock[Other(i)] # d => conn'[d].peer = conn[d].peer
          /\ IF \E f \in Gone(i) : sock[f] = d THEN conn'[d].end # "open" ELSE conn'[d] = conn[d]

\* What the server reads of a client is taken out of its connection.
LEMMA ReadOne ==
  ASSUME TypeOK, Seats, NEW i \in Fd, Taken(i)
  PROVE  /\ sock[i] \in Client /\ Read([conn EXCEPT ![sock[i]].toServer = <<>>])
         /\ conn[sock[i]].toServer = <<>> => [conn EXCEPT ![sock[i]].toServer = <<>>] = conn
<1> DEFINE c == sock[i]
           none == <<>>
           k == [conn[c] EXCEPT !.toServer = none]
           read == [conn EXCEPT ![c] = k]
<1>1. c \in Client /\ player[c].state # "new" /\ conn \in Connections
  BY DEF TypeOK, Taken, Seats, Connections
<1>2. none \in Seq(Message) /\ conn[c] \in Connection(Message, Message)
  BY <1>1 DEF Connections
<1>3. [conn EXCEPT ![sock[i]].toServer = <<>>] = read
  OBVIOUS
<1> HIDE DEF c, none
<1>4. /\ k \in Connection(Message, Message) /\ k.toServer = none /\ k.toClient = conn[c].toClient
      /\ k.peer = conn[c].peer /\ k.end = conn[c].end
      /\ conn[c].toServer = none => k = conn[c]
  BY <1>2 DEF Connection
<1> HIDE DEF k
<1>5. read \in Connections /\ \A d \in Client : read[d] = IF d = c THEN k ELSE conn[d]
  BY <1>1, <1>4 DEF Connections
<1>6. k = conn[c] => read = conn
  BY <1>1 DEF Connections
<1> HIDE DEF read
<1>7. Read(read)
  <2> SUFFICES ASSUME NEW d \in Client
               PROVE  /\ Softer(conn[d], read[d]) /\ read[d].end = conn[d].end
                      /\ player[d].state = "new" => read[d] = conn[d]
    BY <1>5 DEF Read
  <2>1. CASE d = c
    BY <1>1, <1>4, <1>5, <2>1 DEF Softer, none
  <2>2. CASE d # c
    BY <1>5, <2>2 DEF Softer
  <2>3. QED
    BY <2>1, <2>2
<1>8. QED
  BY <1>1, <1>3, <1>4, <1>6, <1>7 DEF c, none

\* recv() returned 0: the players of the game are closed.
LEMMA LeaveFades ==
  ASSUME TypeOK, NEW o1 \in Fd, sock[o1] \in Client \cup {Free}, NEW shut \in SUBSET Client,
         sock[o1] # Free => sock[o1] \in shut,
         conn' = [d \in Client |-> IF d \in shut THEN ServerCloses(Sent(sock, conn, o1, <<>>)[d])
                                                 ELSE Sent(sock, conn, o1, <<>>)[d]]
  PROVE  /\ Faded(conn')
         /\ \A d \in Client : /\ sock[o1] # d => conn'[d].peer = conn[d].peer
                              /\ IF d \in shut THEN conn'[d].end # "open" ELSE conn'[d] = conn[d]
<1> DEFINE none == <<>>
           sent == Sent(sock, conn, o1, none)
<1>1. /\ none \in Seq(Message) /\ \A s \in Seq(Message) : s \o none = s
      /\ conn \in Connections /\ sock \in [Fd -> Client \cup {Free}]
  BY DEF TypeOK, Connections
<1>2. conn' = [d \in Client |-> IF d \in shut THEN ServerCloses(sent[d]) ELSE sent[d]]
  OBVIOUS
<1> HIDE DEF none
<1>3. /\ sent \in Connections
      /\ \A d \in Client : sent[d] = IF sock[o1] = d THEN ServerSends(conn[d], none) ELSE conn[d]
  BY <1>1, SentEffect
<1> HIDE DEF sent
<1>4. ASSUME NEW d \in Client
      PROVE  /\ sent[d] \in Connection(Message, Message) /\ Softer(conn[d], sent[d])
             /\ sent[d].end = conn[d].end /\ sent[d].toServer = conn[d].toServer
             /\ sock[o1] # d => sent[d] = conn[d]
  <2>1. conn[d] \in Connection(Message, Message) /\ sent[d] \in Connection(Message, Message)
    BY <1>1, <1>3 DEF Connections
  <2>2. CASE sock[o1] = d
    <3> DEFINE k == conn[d]
               l == ServerSends(k, none)
    <3>1. sent[d] = l
      BY <1>3, <2>2
    <3>2. /\ l.toServer = k.toServer /\ l.end = k.end
          /\ k.peer = "open" => l.peer = "open" /\ l.toClient = k.toClient \o none
          /\ k.peer # "open" => l.peer # "open" /\ l.toClient = k.toClient
      BY <1>1, <2>1, ServerSendsEffect
    <3>3. k.toClient \o none = k.toClient
      BY <1>1, <2>1 DEF Connection
    <3> HIDE DEF l
    <3>4. QED
      BY <2>1, <2>2, <3>1, <3>2, <3>3 DEF Softer
  <2>3. CASE sock[o1] # d
    BY <1>3, <2>1, <2>3 DEF Softer
  <2>4. QED
    BY <2>2, <2>3
<1>5. ASSUME NEW d \in Client
      PROVE  /\ conn'[d] \in Connection(Message, Message) /\ Softer(conn[d], conn'[d])
             /\ conn'[d].end \in {"open", "fin"} => conn[d].end \in {"open", "fin"}
             /\ conn'[d].end = "open" => conn[d].end = "open" /\ conn'[d].toServer = conn[d].toServer
             /\ conn[d].toServer = <<>> /\ conn[d].end \in {"open", "fin"} => conn'[d].end \in {"open", "fin"}
             /\ sock[o1] # d => conn'[d].peer = conn[d].peer
             /\ IF d \in shut THEN conn'[d].end # "open" ELSE conn'[d] = conn[d]
  <2>1. CASE d \in shut
    <3> DEFINE k == sent[d]
               l == ServerCloses(k)
    <3>1. conn'[d] = l
      BY <1>2, <2>1
    <3>2. /\ l \in Connection(Message, Message) /\ l.end # "open" /\ l.peer = k.peer
          /\ l.toClient = k.toClient /\ l.toServer \in {k.toServer, <<>>}
          /\ l.end \in {"open", "fin"} => k.end \in {"open", "fin"}
          /\ k.toServer = <<>> /\ k.end \in {"open", "fin"} => l.end = "fin"
      BY <1>4, CloseFades
    <3> HIDE DEF l
    <3>3. QED
      BY <1>4, <2>1, <3>1, <3>2 DEF Softer
  <2>2. CASE d \notin shut
    <3>1. conn'[d] = sent[d] /\ sent[d] = conn[d]
      BY <1>2, <1>4, <2>2, Numbers
    <3>2. QED
      BY <1>4, <2>2, <3>1
  <2>3. QED
    BY <2>1, <2>2
<1>6. conn' \in Connections
  BY <1>2, <1>5 DEF Connections
<1>7. QED
  BY <1>5, <1>6 DEF Faded

LEMMA ServeSteps ==
  ASSUME IInv, Serve
  PROVE  \/ Stops
         \/ \E i \in Fd, c \in Client : Relays(i, c) \/ Leaves(i, c)
<1> DEFINE i == Least(todo)
           c == sock[i]
           data == conn[c].toServer
           read == [conn EXCEPT ![c].toServer = <<>>]
           Ending == \/ c = Free
                     \/ data = <<>> /\ conn[c].peer = "reset"
                     \/ SigPipe(sock, read, Other(i))
<1>1. server = "up" /\ todo # {} /\ i # Listen
  BY DEF Serve
<1>2. i \in todo /\ i \in Fd /\ (Listen \in todo => i = Stdin)
  <2>1. i \in todo /\ (\A f \in todo : i <= f) /\ i \in Fd
    BY <1>1, NextInPass DEF IInv
  <2> HIDE DEF i
  <2>2. QED
    BY <2>1, Numbers DEF Listen, Stdin
<1>3. /\ Taken(i) => c \in Client /\ Read(read) /\ (data = <<>> => read = conn)
      /\ ~Taken(i) <=> c = Free
  BY <1>2, ReadOne DEF IInv, Taken
<1>4. Read(conn) /\ TypeOK
  BY FadedSame DEF IInv
<1>5. CASE Ending
  <2>1. ServerEnds(IF c = Free \/ data = <<>> THEN conn ELSE read)
    BY <1>5 DEF Serve
  <2>2. Read(IF c = Free \/ data = <<>> THEN conn ELSE read)
    BY <1>3, <1>4
  <2>3. Faded(conn') /\ \A d \in Client : player[d].state # "new" => conn'[d].end # "open"
    BY <1>4, <2>1, <2>2, EndFades
  <2>4. /\ server' = "down" /\ todo' = {} /\ readFds' = {}
        /\ UNCHANGED <<sock, stdin, p, waiting, backlog, player, partner>>
    BY <2>1 DEF ServerEnds
  <2>5. Abandoned
    <3> SUFFICES ASSUME ~Abandoned PROVE FALSE
      OBVIOUS
    <3>1. /\ ~SharedFd /\ Taken(i) /\ ServerReadable(conn[c]) /\ ~Taken(Stdin)
          /\ \A g \in DOMAIN p : Seated(p[g].player1) /\ Seated(p[g].player2)
      BY <1>1, <1>2 DEF IInv, Whole
    <3>2. c \in Client /\ c # Free /\ Read(read)
      BY <1>3, <3>1
    <3>3. CASE Seated(i) /\ Occurs(i) /\ Seated(Other(i)) /\ partner[c] = sock[Other(i)]
               /\ partner[sock[Other(i)]] = c
      <4> DEFINE d == sock[Other(i)]
      <4>1. d \in Client /\ partner[c] # Nobody /\ partner[d] # Nobody
        BY <1>2, <1>4, <3>2, <3>3, GameOf, Numbers DEF TypeOK, Seated, Taken
      <4>2. conn[c].peer = "open" /\ conn[d].peer = "open"
        BY <3>2, <4>1 DEF Abandoned, IInv, Lively
      <4>3. read[d].peer = "open"
        BY <3>2, <4>1, <4>2 DEF Read, Softer
      <4>4. QED
        BY <1>5, <3>2, <4>2, <4>3 DEF SigPipe, BreaksPipe
    <3>4. CASE i = waiting /\ partner[c] = Nobody
      <4>1. ~Occurs(i)
        BY <3>1, <3>4 DEF Occurs, Seated
      <4>2. Other(i) = Stdin
        BY <1>2, <1>4, <4>1, GameOf
      <4>3. ~SigPipe(sock, read, Other(i))
        BY <3>1, <4>2 DEF SigPipe, Taken
      <4>4. conn[c].peer \in {"open", "fin"}
        BY <1>1, <3>1, <3>2, <3>4 DEF IInv, Strangers
      <4>5. QED
        BY <1>5, <3>2, <4>3, <4>4
    <3>5. QED
      BY <1>2, <3>1, <3>3, <3>4, Mates
  <2>6. QED
    BY <1>1, <2>3, <2>4, <2>5 DEF Stops
<1>6. CASE ~Ending
  <2>1. c \in Client /\ Taken(i) /\ Read(read)
    BY <1>3, <1>6
  <2>2. Serves(i, c)
    <3>1. /\ todo' = todo \ {i} /\ UNCHANGED <<server, p, waiting, backlog, player, partner>>
      BY <1>6 DEF Serve
    <3> HIDE DEF Ending, data, read
    <3>2. QED
      BY <1>1, <1>2, <3>1 DEF Serves
  <2>3. CASE data # <<>>
    <3>1. conn' = Sent(sock, read, Other(i), data) /\ UNCHANGED <<readFds, sock, stdin>>
      BY <1>6, <2>3 DEF Serve
    <3>2. Relays(i, c)
      BY <2>2, <2>3, <3>1 DEF Relays
    <3>3. QED
      BY <1>2, <2>1, <3>2
  <2>4. CASE data = <<>>
    <3> DEFINE shut == {d \in Client : \E f \in Gone(i) : sock[f] = d}
               sent == Sent(sock, conn, Other(i), <<>>)
    <3>1. read = conn
      BY <1>3, <2>1, <2>4
    <3>2. /\ conn' = [d \in Client |-> IF \E f \in Gone(i) : sock[f] = d
                                       THEN ServerCloses(Sent(sock, read, Other(i), data)[d])
                                       ELSE Sent(sock, read, Other(i), data)[d]]
          /\ sock' = [f \in Fd |-> IF f \in Gone(i) THEN Free ELSE sock[f]]
          /\ stdin' = (stdin /\ Stdin \notin Gone(i))
          /\ readFds' = readFds \ Gone(i)
      BY <1>6, <2>4 DEF Serve, Gone
    <3>3. conn' = [d \in Client |-> IF d \in shut THEN ServerCloses(sent[d]) ELSE sent[d]]
      BY <2>4, <3>1, <3>2
    <3>4. /\ Other(i) \in Fd /\ Other(i) \in Gone(i) /\ sock[Other(i)] \in Client \cup {Free}
          /\ (sock[Other(i)] # Free => sock[Other(i)] \in shut)
      BY <1>2, <1>4, GameOf DEF Gone, TypeOK
    <3>5. /\ Faded(conn')
          /\ \A d \in Client : /\ sock[Other(i)] # d => conn'[d].peer = conn[d].peer
                               /\ IF d \in shut THEN conn'[d].end # "open" ELSE conn'[d] = conn[d]
      <4>1. shut \in SUBSET Client
        OBVIOUS
      <4> HIDE DEF shut
      <4>2. QED
        BY <1>4, <3>3, <3>4, <4>1, LeaveFades
    <3>6. Leaves(i, c)
      BY <2>2, <2>4, <3>2, <3>5 DEF Leaves
    <3>7. QED
      BY <1>2, <2>1, <3>6
  <2>5. QED
    BY <2>3, <2>4
<1>7. QED
  BY <1>5, <1>6

-----------------------------------------------------------------------------

(* The clients' steps.                                                     *)

\* A client that is connected and has not ended does something.
Acts(c) ==
    /\ Playing(c) /\ player' \in [Client -> PlayerRecord] /\ conn' \in Connections
    /\ player'[c].state \in {"playing", "ended"}
    /\ \A d \in Client : d # c => player'[d] = player[d] /\ conn'[d] = conn[d]
    /\ conn[c].toServer # <<>> => conn'[c].toServer # <<>>
    /\ UNCHANGED serverVars

\* It ends, perhaps with a last move that it does not send.
Departs(c) ==
    /\ Acts(c)
    /\ player'[c].state = "ended" /\ player'[c].inGame = player[c].inGame
    /\ player'[c].turn = player[c].turn /\ player'[c].symbol = player[c].symbol
    /\ \/ player'[c].board = player[c].board
       \/ /\ player[c].inGame /\ player[c].turn
          /\ \E sq \in Cell : player'[c].board = [player[c].board EXCEPT ![sq] = player[c].symbol]
    /\ conn'[c] \in ClientEnds(conn[c])
    /\ conn'[c].peer # "open" /\ conn'[c].toClient = <<>>
    /\ conn'[c].toServer = conn[c].toServer /\ conn'[c].end = conn[c].end

\* It sends a move; after the server's end that gives an error.
Sends(c, sq) ==
    /\ Acts(c) /\ player[c].inGame /\ player[c].turn /\ player[c].board[sq] = blank
    /\ player'[c].state = "playing" /\ player'[c].inGame = player[c].inGame
    /\ ~player'[c].turn /\ player'[c].symbol = player[c].symbol
    /\ player'[c].board = [player[c].board EXCEPT ![sq] = player[c].symbol]
    /\ conn'[c].peer = conn[c].peer /\ conn'[c].toClient = conn[c].toClient
    /\ \/ /\ conn'[c].end = conn[c].end /\ conn[c].end = "open"
          /\ conn'[c].toServer = Append(conn[c].toServer, [kind |-> "move", from |-> c, sq |-> sq])
       \/ conn'[c].end = "dead" /\ conn[c].end # "open" /\ conn'[c].toServer = conn[c].toServer

\* It reads a message.
Reads(c) ==
    /\ Acts(c) /\ conn[c].toClient # <<>>
    /\ player' = [player EXCEPT ![c] = FirstMessage(player[c], conn[c].toClient[1])]
    /\ conn'[c].peer = conn[c].peer /\ conn'[c].toClient = <<>>
    /\ conn'[c].toServer = conn[c].toServer /\ conn'[c].end = conn[c].end

\* It takes the end of the connection for a message.
Misreads(c) ==
    /\ Acts(c) /\ conn[c].end = "reset" /\ conn[c].toClient = <<>>
    /\ player' = [player EXCEPT ![c] = FirstMessage(player[c], [kind |-> "none"])]
    /\ conn'[c].peer = conn[c].peer /\ conn'[c].toClient = <<>>
    /\ conn'[c].toServer = conn[c].toServer /\ conn'[c].end = "dead"

\* A player's record stays one when a mark is set.
LEMMA MarkedBoard ==
  ASSUME NEW q \in PlayerRecord, NEW sq, NEW mark \in {x, o, blank}
  PROVE  /\ [q EXCEPT !.board[sq] = mark] \in PlayerRecord
         /\ [q EXCEPT !.board[sq] = mark].board = [q.board EXCEPT ![sq] = mark]
         /\ [q EXCEPT !.board[sq] = mark].state = q.state
         /\ [q EXCEPT !.board[sq] = mark].inGame = q.inGame
         /\ [q EXCEPT !.board[sq] = mark].turn = q.turn
         /\ [q EXCEPT !.board[sq] = mark].symbol = q.symbol
BY DEF PlayerRecord

LEMMA EndsEffect ==
  ASSUME TypeOK, NEW c \in Client, Playing(c), UNCHANGED serverVars, NEW q \in PlayerRecord,
         Ends(c, q), q.inGame = player[c].inGame, q.turn = player[c].turn, q.symbol = player[c].symbol,
         \/ q.board = player[c].board
         \/ /\ player[c].inGame /\ player[c].turn
            /\ \E sq \in Cell : q.board = [player[c].board EXCEPT ![sq] = player[c].symbol]
  PROVE  Departs(c)
<1>1. player \in [Client -> PlayerRecord] /\ conn \in Connections /\ conn[c] \in Connection(Message, Message)
  BY DEF TypeOK, PlayerRecord, Connections
<1>2. PICK k \in ClientEnds(conn[c]) : conn' = [conn EXCEPT ![c] = k]
  BY DEF Ends
<1>3. /\ k \in Connection(Message, Message) /\ k.peer # "open" /\ k.toClient = <<>>
      /\ k.toServer = conn[c].toServer /\ k.end = conn[c].end
  BY <1>1, <1>2, ClientEndsEffect
<1> DEFINE r == [q EXCEPT !.state = "ended"]
<1>4. /\ r \in PlayerRecord /\ r.state = "ended" /\ r.inGame = q.inGame /\ r.turn = q.turn
      /\ r.symbol = q.symbol /\ r.board = q.board
  BY DEF PlayerRecord
<1>5. player' = [player EXCEPT ![c] = r]
  BY DEF Ends
<1> HIDE DEF r
<1>6. player' \in [Client -> PlayerRecord] /\ player'[c] = r
      /\ \A d \in Client : d # c => player'[d] = player[d]
  BY <1>1, <1>4, <1>5
<1>7. conn' \in Connections /\ conn'[c] = k /\ \A d \in Client : d # c => conn'[d] = conn[d]
  BY <1>1, <1>2, <1>3 DEF Connections
<1>8. Acts(c)
  BY <1>3, <1>4, <1>6, <1>7 DEF Acts
<1>9. QED
  BY <1>2, <1>3, <1>4, <1>6, <1>7, <1>8 DEF Departs

LEMMA MoveSteps ==
  ASSUME TypeOK, NEW c \in Client, NEW sq \in Cell, Move(c, sq)
  PROVE  Departs(c) \/ Sends(c, sq)
<1> DEFINE sym == player[c].symbol
           q == [player[c] EXCEPT !.board[sq] = sym]
           msg == [kind |-> "move", from |-> c, sq |-> sq]
<1>1. player \in [Client -> PlayerRecord] /\ conn \in Connections /\ conn[c] \in Connection(Message, Message)
  BY DEF TypeOK, PlayerRecord, Connections
<1>2. player[c] \in PlayerRecord /\ sym \in {x, o, blank} /\ msg \in Message
  BY <1>1 DEF PlayerRecord, Message
<1>3. /\ Playing(c) /\ player[c].inGame /\ player[c].turn /\ player[c].board[sq] = blank
      /\ UNCHANGED serverVars
      /\ \/ Ends(c, q)
         \/ /\ ClientMaySend(conn[c])
            /\ player' = [player EXCEPT ![c] = [q EXCEPT !.turn = FALSE]]
            /\ conn' = [conn EXCEPT ![c] = ClientSends(conn[c], msg)]
  BY DEF Move
<1> HIDE DEF msg
<1>4. CASE Ends(c, q)
  <2>1. /\ q \in PlayerRecord /\ q.board = [player[c].board EXCEPT ![sq] = sym]
        /\ q.inGame = player[c].inGame /\ q.turn = player[c].turn /\ q.symbol = sym
    BY <1>2, MarkedBoard DEF PlayerRecord
  <2> HIDE DEF q
  <2>2. Departs(c)
    BY <1>3, <1>4, <2>1, EndsEffect
  <2>3. QED
    BY <2>2
<1>5. CASE /\ ClientMaySend(conn[c])
           /\ player' = [player EXCEPT ![c] = [q EXCEPT !.turn = FALSE]]
           /\ conn' = [conn EXCEPT ![c] = ClientSends(conn[c], msg)]
  <2> DEFINE r == [q EXCEPT !.turn = FALSE]
             k == ClientSends(conn[c], msg)
  <2>0. /\ q \in PlayerRecord /\ q.board = [player[c].board EXCEPT ![sq] = sym]
        /\ q.state = "playing" /\ q.inGame = player[c].inGame /\ q.symbol = player[c].symbol
    <3>1. player[c].state = "playing"
      BY <1>3 DEF Playing
    <3>2. /\ q \in PlayerRecord /\ q.board = [player[c].board EXCEPT ![sq] = sym]
          /\ q.state = player[c].state /\ q.inGame = player[c].inGame /\ q.symbol = sym
      BY <1>2, MarkedBoard DEF PlayerRecord
    <3> HIDE DEF q
    <3>3. QED
      BY <3>1, <3>2
  <2> HIDE DEF q
  <2>1. /\ r \in PlayerRecord /\ r.state = "playing" /\ r.inGame = player[c].inGame /\ ~r.turn
        /\ r.symbol = sym /\ r.board = [player[c].board EXCEPT ![sq] = sym]
    BY <2>0 DEF PlayerRecord
  <2>2. /\ k \in Connection(Message, Message) /\ k.peer = conn[c].peer /\ k.toClient = conn[c].toClient
        /\ k.toServer \in {conn[c].toServer, Append(conn[c].toServer, msg)}
    BY <1>1, <1>2, ClientSendsEffect
  <2>3. \/ k.end = conn[c].end /\ conn[c].end = "open" /\ k.toServer = Append(conn[c].toServer, msg)
        \/ k.end = "dead" /\ conn[c].end # "open" /\ k.toServer = conn[c].toServer
    BY <1>1 DEF ClientSends, Connection
  <2>4. conn[c].toServer # <<>> => k.toServer # <<>>
    <3>0. conn[c].toServer \in Seq(Message)
      BY <1>1 DEF Connection
    <3>1. Append(conn[c].toServer, msg) # <<>>
      BY <1>2, <3>0
    <3>2. QED
      BY <2>2, <3>1
  <2> HIDE DEF k
  <2>5. conn' \in Connections /\ conn'[c] = k /\ \A d \in Client : d # c => conn'[d] = conn[d]
    BY <1>1, <1>5, <2>2 DEF Connections, k
  <2>6. player' = [player EXCEPT ![c] = r]
    BY <1>5
  <2> HIDE DEF r
  <2>7. player' \in [Client -> PlayerRecord] /\ player'[c] = r
        /\ \A d \in Client : d # c => player'[d] = player[d]
    BY <1>1, <2>1, <2>6
  <2>8. Acts(c)
    BY <1>3, <2>1, <2>4, <2>5, <2>7 DEF Acts
  <2>9. Sends(c, sq)
    BY <1>3, <2>1, <2>2, <2>3, <2>5, <2>7, <2>8 DEF Sends, msg
  <2>10. QED
    BY <2>9
<1>6. QED
  BY <1>3, <1>4, <1>5

\* What a client makes of a message leaves it a client that is playing.
LEMMA FirstMessageType ==
  ASSUME NEW q \in PlayerRecord, NEW m, m.kind = "move" => m \in [kind : {"move"}, from : Client, sq : Cell]
  PROVE  /\ FirstMessage(q, m) \in PlayerRecord
         /\ FirstMessage(q, m).state = q.state /\ FirstMessage(q, m).inGame
<1> DEFINE b == IF m.kind = "move" THEN [q.board EXCEPT ![m.sq] = IF q.symbol = o THEN x ELSE o] ELSE q.board
           s == CASE m.kind = "x" -> x [] m.kind = "z" -> o [] OTHER -> q.symbol
<1>1. b \in [Cell -> {x, o, blank}] /\ s \in {x, o, blank}
  BY DEF PlayerRecord
<1>2. FirstMessage(q, m) = IF q.inGame THEN [q EXCEPT !.turn = TRUE, !.board = b]
                           ELSE [q EXCEPT !.inGame = TRUE, !.turn = (m.kind = "x"), !.symbol = s]
  BY DEF FirstMessage
<1> HIDE DEF b, s
<1>3. QED
  BY <1>1, <1>2 DEF PlayerRecord

LEMMA ReceiveSteps ==
  ASSUME TypeOK, NEW c \in Client, Receive(c)
  PROVE  Departs(c) \/ Reads(c) \/ Misreads(c)
<1> DEFINE inbox == conn[c].toClient
           none == <<>>
           nothing == [kind |-> "none"]
<1>1. /\ player \in [Client -> PlayerRecord] /\ conn \in Connections
      /\ conn[c] \in Connection(Message, Message) /\ player[c] \in PlayerRecord
      /\ none \in Seq(Message) /\ nothing.kind # "move"
  BY DEF TypeOK, PlayerRecord, Connections
<1>2. /\ Playing(c) /\ UNCHANGED serverVars
      /\ \/ /\ inbox # none
            /\ player' = [player EXCEPT ![c] = FirstMessage(player[c], inbox[1])]
            /\ conn' = [conn EXCEPT ![c] = [conn[c] EXCEPT !.toClient = none]]
         \/ Ends(c, player[c])
         \/ /\ inbox = none /\ conn[c].end = "reset"
            /\ player' = [player EXCEPT ![c] = FirstMessage(player[c], nothing)]
            /\ conn' = [conn EXCEPT ![c] = [conn[c] EXCEPT !.end = "dead"]]
  BY DEF Receive
<1>0. none = <<>> /\ nothing = [kind |-> "none"]
  OBVIOUS
<1> HIDE DEF none, nothing
<1>3. CASE Ends(c, player[c])
  BY <1>1, <1>2, <1>3, EndsEffect
<1>4. CASE /\ inbox # none
           /\ player' = [player EXCEPT ![c] = FirstMessage(player[c], inbox[1])]
           /\ conn' = [conn EXCEPT ![c] = [conn[c] EXCEPT !.toClient = none]]
  <2> DEFINE r == FirstMessage(player[c], inbox[1])
             k == [conn[c] EXCEPT !.toClient = none]
  <2>1. inbox[1] \in Message
    BY <1>0, <1>1, <1>4 DEF Connection
  <2>2. r \in PlayerRecord /\ r.state = "playing"
    BY <1>1, <1>2, <2>1, FirstMessageType DEF Message, Playing
  <2>3. /\ k \in Connection(Message, Message) /\ k.peer = conn[c].peer /\ k.toClient = none
        /\ k.toServer = conn[c].toServer /\ k.end = conn[c].end
    BY <1>1 DEF Connection
  <2> HIDE DEF r, k
  <2>4. player' = [player EXCEPT ![c] = r] /\ conn' = [conn EXCEPT ![c] = k]
    BY <1>4 DEF r, k
  <2>5. player' \in [Client -> PlayerRecord] /\ player'[c] = r
        /\ \A d \in Client : d # c => player'[d] = player[d]
    BY <1>1, <2>2, <2>4
  <2>6. conn' \in Connections /\ conn'[c] = k /\ \A d \in Client : d # c => conn'[d] = conn[d]
    BY <1>1, <2>3, <2>4 DEF Connections
  <2>7. Acts(c)
    BY <1>2, <2>2, <2>3, <2>5, <2>6 DEF Acts
  <2>8. Reads(c)
    BY <1>0, <1>4, <2>3, <2>6, <2>7 DEF Reads
  <2>9. QED
    BY <2>8
<1>5. CASE /\ inbox = none /\ conn[c].end = "reset"
           /\ player' = [player EXCEPT ![c] = FirstMessage(player[c], nothing)]
           /\ conn' = [conn EXCEPT ![c] = [conn[c] EXCEPT !.end = "dead"]]
  <2> DEFINE r == FirstMessage(player[c], nothing)
             k == [conn[c] EXCEPT !.end = "dead"]
  <2>1. r \in PlayerRecord /\ r.state = "playing"
    BY <1>1, <1>2, FirstMessageType DEF Playing
  <2>2. /\ k \in Connection(Message, Message) /\ k.peer = conn[c].peer /\ k.toClient = conn[c].toClient
        /\ k.toServer = conn[c].toServer /\ k.end = "dead"
    BY <1>1 DEF Connection, Knowledge, Heard
  <2> HIDE DEF r, k
  <2>3. player' = [player EXCEPT ![c] = r] /\ conn' = [conn EXCEPT ![c] = k]
    BY <1>5 DEF r, k
  <2>4. player' \in [Client -> PlayerRecord] /\ player'[c] = r
        /\ \A d \in Client : d # c => player'[d] = player[d]
    BY <1>1, <2>1, <2>3
  <2>5. conn' \in Connections /\ conn'[c] = k /\ \A d \in Client : d # c => conn'[d] = conn[d]
    BY <1>1, <2>2, <2>3 DEF Connections
  <2>6. Acts(c)
    BY <1>2, <2>1, <2>2, <2>4, <2>5 DEF Acts
  <2>7. Misreads(c)
    BY <1>0, <1>5, <2>2, <2>5, <2>6 DEF Misreads
  <2>8. QED
    BY <2>7
<1>6. QED
  BY <1>2, <1>3, <1>4, <1>5

\* Every step of the program is one of these.
LEMMA Steps ==
  ASSUME IInv, Next
  PROVE  \/ StartPass \/ Stops \/ SitsDown \/ PairsUp
         \/ \E i \in Fd, c \in Client : Relays(i, c) \/ Leaves(i, c)
         \/ \E c \in Client : Connect(c) \/ Departs(c) \/ Reads(c) \/ Misreads(c)
         \/ \E c \in Client, sq \in Cell : Sends(c, sq)
<1>1. CASE StartPass
  BY <1>1
<1>2. CASE Accept
  BY <1>2, AcceptSteps
<1>3. CASE Serve
  BY <1>3, ServeSteps
<1>4. ASSUME NEW c \in Client, Connect(c) \/ Exit(c) \/ Receive(c) \/ \E sq \in Cell : Move(c, sq)
      PROVE  \/ Connect(c) \/ Departs(c) \/ Reads(c) \/ Misreads(c)
             \/ \E sq \in Cell : Sends(c, sq)
  <2>1. TypeOK /\ player[c] \in PlayerRecord
    BY DEF IInv, TypeOK, PlayerRecord
  <2>2. CASE Exit(c)
    <3>1. Playing(c) /\ Ends(c, player[c]) /\ UNCHANGED serverVars
      BY <2>2 DEF Exit
    <3>2. QED
      BY <2>1, <3>1, EndsEffect
  <2>3. CASE Receive(c)
    BY <2>1, <2>3, ReceiveSteps
  <2>4. CASE \E sq \in Cell : Move(c, sq)
    BY <2>1, <2>4, MoveSteps
  <2>5. QED
    BY <1>4, <2>2, <2>3, <2>4
<1>5. QED
  BY <1>1, <1>2, <1>3, <1>4 DEF Next

-----------------------------------------------------------------------------

(* The invariant through the clients' steps.                               *)

\* What a client does leaves the server's state alone, and what the server
\* knows to be over stays so.
LEMMA ClientKeeps ==
  ASSUME IInv, NEW c \in Client, Acts(c)
  PROVE  /\ TypeOK' /\ Seats' /\ Selected' /\ InLine' /\ Tables' /\ WaitsAlone'
         /\ ZeroIsShortLived' /\ Whole' /\ (SharedFd' <=> SharedFd)
<1>1. /\ server' = server /\ todo' = todo /\ readFds' = readFds /\ sock' = sock /\ stdin' = stdin
      /\ p' = p /\ waiting' = waiting /\ backlog' = backlog /\ partner' = partner
  BY DEF Acts, serverVars
<1>2. /\ player' \in [Client -> PlayerRecord] /\ conn' \in Connections
      /\ player[c].state = "playing" /\ player'[c].state \in {"playing", "ended"}
      /\ \A d \in Client : d # c => player'[d] = player[d] /\ conn'[d] = conn[d]
      /\ conn[c].toServer # <<>> => conn'[c].toServer # <<>>
  BY DEF Acts, Playing
<1>3. conn[c].peer = "open"
  BY <1>2 DEF IInv, Lively
<1>4. \A d \in Client : conn[d].peer # "open" => conn'[d] = conn[d]
  BY <1>2, <1>3
<1>5. \A d \in Client : player'[d].state = "new" <=> player[d].state = "new"
  BY <1>2
<1>6. \A d \in Client : player[d].state = "ended" => player'[d].state = "ended"
  BY <1>2
<1>7. \A d \in Client : ServerReadable(conn[d]) => ServerReadable(conn'[d])
  BY <1>2, <1>3 DEF ServerReadable
<1>8. sock \in [Fd -> Client \cup {Free}] /\ waiting \in Fd \cup {NoFd} /\ p \in Seq(Pair)
      /\ backlog \in Seq(Client)
  BY DEF IInv, TypeOK, Pair
<1>9. \A f \in Fd : Taken(f) => sock[f] \in Client
  BY <1>8 DEF Taken
<1>10. SharedFd' <=> SharedFd
  BY <1>1 DEF SharedFd
<1>11. \A f : (Taken(f)' <=> Taken(f)) /\ (Seated(f)' <=> Seated(f)) /\ (Occurs(f)' <=> Occurs(f))
  BY <1>1 DEF Taken, Seated, Occurs
<1>12. TypeOK'
  BY <1>1, <1>2 DEF IInv, TypeOK, PlayerRecord, Connections
<1>13. Seats'
  BY <1>1, <1>5, <1>9, <1>11 DEF IInv, Seats
<1>14. Selected'
  BY <1>1, <1>11 DEF IInv, Selected
<1>15. InLine'
  <2>1. \A n \in DOMAIN backlog : backlog[n] \in Client
    BY <1>8
  <2>2. \A d, e \in Client : d < e /\ player'[e].state # "new" => player'[d].state # "new"
    BY <1>5 DEF IInv, InLine
  <2>3. \A n \in DOMAIN backlog :
          /\ player'[backlog[n]].state # "new" /\ partner[backlog[n]] = Nobody
          /\ \A f \in Fd : Taken(f) => sock[f] < backlog[n]
    BY <1>5, <2>1 DEF IInv, InLine
  <2>4. /\ \A m, n \in DOMAIN backlog : m < n => backlog[m] < backlog[n]
        /\ \A d \in Client : player'[d].state = "new" => partner[d] = Nobody
        /\ Listen \in todo => backlog # <<>>
    BY <1>5 DEF IInv, InLine
  <2>5. QED
    BY <1>1, <2>2, <2>3, <2>4 DEF InLine, Taken
<1>16. Tables'
  BY <1>1, <1>10, <1>11 DEF IInv, Tables
<1>17. WaitsAlone'
  <2>1. ~SharedFd /\ waiting # NoFd => waiting \in Fd /\ (Taken(waiting) => sock[waiting] \in Client)
    BY <1>8, <1>9
  <2>2. QED
    BY <1>1, <1>4, <1>10, <1>11, <2>1 DEF IInv, WaitsAlone
<1>18. ZeroIsShortLived'
  <2> SUFFICES ASSUME ~SharedFd, server = "up"
               PROVE  /\ ~stdin /\ ~Occurs(Stdin) =>
                           /\ waiting # NoFd /\ ~Occurs(waiting) /\ conn'[sock[waiting]].peer # "open"
                           /\ Listen \in todo => waiting \in todo
                      /\ Seated(Stdin) =>
                           /\ waiting = NoFd /\ Listen \notin todo
                           /\ \E g \in DOMAIN p :
                                /\ p[g].player2 = Stdin /\ p[g].player1 \in todo \ {Listen}
                                /\ conn'[sock[p[g].player1]].peer # "open"
                                /\ conn'[sock[p[g].player1]].toServer = <<>>
    BY <1>1, <1>10, <1>11 DEF ZeroIsShortLived
  <2>1. /\ ~stdin /\ ~Occurs(Stdin) =>
             /\ waiting # NoFd /\ ~Occurs(waiting) /\ conn[sock[waiting]].peer # "open"
             /\ Listen \in todo => waiting \in todo
        /\ Seated(Stdin) =>
             /\ waiting = NoFd /\ Listen \notin todo
             /\ \E g \in DOMAIN p :
                  /\ p[g].player2 = Stdin /\ p[g].player1 \in todo \ {Listen}
                  /\ conn[sock[p[g].player1]].peer # "open"
                  /\ conn[sock[p[g].player1]].toServer = <<>>
    BY DEF IInv, ZeroIsShortLived
  <2>2. waiting # NoFd /\ ~Occurs(waiting) => sock[waiting] \in Client
    BY <1>8, <1>9 DEF IInv, WaitsAlone
  <2>3. CASE Seated(Stdin)
    <3>1. PICK g \in DOMAIN p : /\ p[g].player2 = Stdin /\ p[g].player1 \in todo \ {Listen}
                                /\ conn[sock[p[g].player1]].peer # "open"
                                /\ conn[sock[p[g].player1]].toServer = <<>>
      BY <2>1, <2>3
    <3>2. Seated(p[g].player1) /\ p[g].player1 \in Fd
      <4>1. Seated(p[g].player1) <=> Seated(p[g].player2)
        BY DEF IInv, Tables
      <4>2. p[g].player1 \in Fd
        BY GamePlayers DEF IInv
      <4>3. QED
        BY <2>3, <3>1, <4>1, <4>2
    <3>3. sock[p[g].player1] \in Client
      BY <1>9, <3>2 DEF Seated
    <3>4. QED
      BY <1>4, <2>1, <2>2, <2>3, <3>1, <3>3
  <2>4. CASE ~Seated(Stdin)
    BY <1>4, <2>1, <2>2, <2>4
  <2>5. QED
    BY <2>3, <2>4
<1>19. Whole'
  <2>1. Abandoned => Abandoned'
    BY <1>1, <1>6 DEF Abandoned
  <2>2. \A i \in todo \ {Listen} : i \in Fd
    BY DEF IInv, TypeOK
  <2> SUFFICES ASSUME ~Abandoned
               PROVE  /\ server = "up" /\ ~SharedFd /\ ~Taken(Stdin)
                      /\ \A g \in DOMAIN p : Seated(p[g].player1) /\ Seated(p[g].player2)
                      /\ \A i \in todo \ {Listen} : Taken(i) /\ ServerReadable(conn'[sock[i]])
    BY <1>1, <1>10, <1>11, <2>1 DEF Whole
  <2>3. QED
    BY <1>7, <1>9, <2>2 DEF IInv, Whole
<1>20. QED
  BY <1>10, <1>12, <1>13, <1>14, <1>15, <1>16, <1>17, <1>18, <1>19

\* A game of which nothing changes.
LEMMA PairFrame ==
  ASSUME NEW a \in Client, NEW b \in Client,
         player'[a] = player[a], player'[b] = player[b], conn'[a] = conn[a], conn'[b] = conn[b],
         partner'[a] = partner[a], partner'[b] = partner[b]
  PROVE  /\ Together(a, b)' <=> Together(a, b)
         /\ OneRight(a, b) => OneRight(a, b)'
         /\ Openings(a, b) => Openings(a, b)'
         /\ Boards(a, b) => Boards(a, b)'
         /\ Standstill(a, b) => Standstill(a, b)'
<1>1. /\ Hold(a)' <=> Hold(a)
      /\ Hold(b)' <=> Hold(b)
      /\ Playing(a)' <=> Playing(a)
      /\ Playing(b)' <=> Playing(b)
  BY DEF Hold, Playing
<1>2. Coming(a)' = Coming(a) /\ Coming(b)' = Coming(b)
  BY DEF Coming
<1>3. Differ(a, b)' = Differ(a, b)
  BY DEF Differ
<1>4. Mark(a)' = Mark(a) /\ Mark(b)' = Mark(b)
  BY DEF Mark
<1>5. Together(a, b)' <=> Together(a, b)
  BY DEF Together, NoReset
<1>6. OneRight(a, b) => OneRight(a, b)'
  BY <1>1, <1>2 DEF OneRight
<1>7. Openings(a, b) => Openings(a, b)'
  BY <1>1, <1>4 DEF Openings
<1>8. Boards(a, b) => Boards(a, b)'
  BY <1>1, <1>3, <1>4 DEF Boards
<1>9. Standstill(a, b) => Standstill(a, b)'
  <2>1. On(a, b)' <=> On(a, b)
    BY DEF On, Playing
  <2>2. Lost(a, b)' <=> Lost(a, b)
    BY <1>1, <1>2 DEF Lost
  <2>3. QED
    BY <2>1, <2>2 DEF Standstill
<1>10. QED
  BY <1>5, <1>6, <1>7, <1>8, <1>9

\* What a client does is seen in its own game alone.
LEMMA PlayOfOne ==
  ASSUME IInv, NEW c \in Client, Acts(c),
         \A e \in Client : ~SharedFd /\ Together(c, e)' /\ Together(c, e) =>
            /\ OneRight(c, e)' /\ OneRight(e, c)' /\ Openings(c, e)'
            /\ Boards(c, e)' /\ Boards(e, c)' /\ Standstill(c, e)' /\ Standstill(e, c)',
         conn'[c].end \in {"open", "fin"} => conn[c].end \in {"open", "fin"}
  PROVE  Play'
<1>1. SharedFd' <=> SharedFd
  BY ClientKeeps
<1>2. /\ partner' = partner
      /\ \A d \in Client : d # c => player'[d] = player[d] /\ conn'[d] = conn[d]
  BY DEF Acts, serverVars
<1> SUFFICES ASSUME ~SharedFd, NEW a \in Client, NEW b \in Client, Together(a, b)'
             PROVE  OneRight(a, b)' /\ Openings(a, b)' /\ Boards(a, b)' /\ Standstill(a, b)'
  BY <1>1 DEF Play
<1>3. Together(a, b)
  BY <1>2 DEF Together, NoReset
<1>4. OneRight(a, b) /\ Openings(a, b) /\ Boards(a, b) /\ Standstill(a, b) /\ a # b
  BY <1>3 DEF IInv, Play, Together
<1>5. CASE a = c
  BY <1>3, <1>5
<1>6. CASE b = c
  <2>1. Together(c, a)' /\ Together(c, a)
    BY <1>2, <1>3, <1>6 DEF Together, NoReset
  <2>2. OneRight(a, b)' /\ Boards(a, b)' /\ Standstill(a, b)'
    BY <1>6, <2>1
  <2>3. Openings(a, b)'
    <3>1. player'[a] = player[a] /\ conn'[a] = conn[a] /\ partner'[a] = partner[a]
      BY <1>2, <1>4, <1>6
    <3>2. (Mark(a)' = Mark(a)) /\ (Playing(a)' <=> Playing(a))
      BY <3>1 DEF Mark, Playing
    <3>3. QED
      BY <1>4, <3>1, <3>2 DEF Openings
  <2>4. QED
    BY <2>2, <2>3
<1>7. CASE a # c /\ b # c
  BY <1>2, <1>4, <1>7, PairFrame
<1>8. QED
  BY <1>5, <1>6, <1>7

\* What is left to show of a client's step.
LEMMA ClientSuffices ==
  ASSUME IInv, NEW c \in Client, Acts(c),
         player'[c].state = "ended" <=> conn'[c].peer # "open",
         player'[c].state = "ended" => conn'[c].toClient = <<>>,
         player'[c].turn => player'[c].inGame,
         \A n \in DOMAIN conn'[c].toServer :
            conn'[c].toServer[n].kind = "move" /\ conn'[c].toServer[n].from = c,
         conn'[c].toClient \in {conn[c].toClient, <<>>},
         ~SharedFd /\ partner[c] = Nobody =>
            /\ conn'[c].toClient = <<>> /\ conn'[c].toServer = <<>>
            /\ conn'[c].end \in {"open", "fin"} /\ conn'[c].peer \in {"open", "fin"}
            /\ ~player'[c].inGame /\ player'[c].board = BlankBoard,
         Play'
  PROVE  IInv'
<1>1. /\ TypeOK' /\ Seats' /\ Selected' /\ InLine' /\ Tables' /\ WaitsAlone'
      /\ ZeroIsShortLived' /\ Whole' /\ (SharedFd' <=> SharedFd)
  BY ClientKeeps
<1>2. /\ partner' = partner /\ server' = server
      /\ player[c].state = "playing" /\ player'[c].state \in {"playing", "ended"}
      /\ \A d \in Client : d # c => player'[d] = player[d] /\ conn'[d] = conn[d]
  BY DEF Acts, serverVars, Playing
<1>3. Lively'
  <2> SUFFICES ASSUME NEW d \in Client
               PROVE  /\ player'[d].state = "ended" <=> conn'[d].peer # "open"
                      /\ player'[d].state = "ended" => conn'[d].toClient = <<>>
                      /\ player'[d].turn => player'[d].inGame
                      /\ player'[d].state = "new" => ~player'[d].inGame
                      /\ \A n \in DOMAIN conn'[d].toServer :
                            conn'[d].toServer[n].kind = "move" /\ conn'[d].toServer[n].from = d
    BY DEF Lively
  <2>1. CASE d = c
    BY <1>2, <2>1
  <2>2. CASE d # c
    BY <1>2, <2>2 DEF IInv, Lively
  <2>3. QED
    BY <2>1, <2>2
<1>4. Strangers'
  <2> SUFFICES ASSUME ~SharedFd, NEW d \in Client, partner[d] = Nobody
               PROVE  /\ conn'[d].toClient = <<>> /\ conn'[d].toServer = <<>>
                      /\ conn'[d].end \in {"open", "fin"}
                      /\ server = "up" => conn'[d].peer \in {"open", "fin"}
                      /\ ~player'[d].inGame /\ player'[d].board = BlankBoard
    BY <1>1, <1>2 DEF Strangers, BlankBoard
  <2>1. CASE d = c
    BY <2>1
  <2>2. CASE d # c
    BY <1>2, <2>2 DEF IInv, Strangers
  <2>3. QED
    BY <2>1, <2>2
<1>5. MovesReachThePartner'
  <2>0. \A s : s = <<>> => DOMAIN s = {}
    OBVIOUS
  <2> SUFFICES ASSUME ~SharedFd, NEW d \in Client, NEW n \in DOMAIN conn'[d].toClient,
                      conn'[d].toClient[n].kind = "move"
               PROVE  conn'[d].toClient[n].from = partner[d]
    BY <1>1, <1>2 DEF MovesReachThePartner
  <2>1. conn'[d].toClient = conn[d].toClient
    BY <1>2, <2>0
  <2>2. QED
    BY <2>1 DEF IInv, MovesReachThePartner
<1>6. QED
  BY <1>1, <1>3, <1>4, <1>5 DEF IInv

\* A player leaves.
LEMMA DepartsKeeps ==
  ASSUME IInv, NEW c \in Client, Departs(c)
  PROVE  IInv'
<1>1. /\ Acts(c) /\ player[c].state = "playing"
      /\ player'[c].state = "ended" /\ player'[c].inGame = player[c].inGame
      /\ player'[c].turn = player[c].turn /\ player'[c].symbol = player[c].symbol
      /\ \/ player'[c].board = player[c].board
         \/ /\ player[c].inGame /\ player[c].turn
            /\ \E sq \in Cell : player'[c].board = [player[c].board EXCEPT ![sq] = player[c].symbol]
      /\ conn'[c] \in ClientEnds(conn[c])
      /\ conn'[c].peer # "open" /\ conn'[c].toClient = <<>>
      /\ conn'[c].toServer = conn[c].toServer /\ conn'[c].end = conn[c].end
      /\ partner' = partner
      /\ \A d \in Client : d # c => player'[d] = player[d] /\ conn'[d] = conn[d]
  BY DEF Departs, Acts, Playing, serverVars
<1>2. /\ player[c].turn => player[c].inGame
      /\ \A n \in DOMAIN conn[c].toServer :
            conn[c].toServer[n].kind = "move" /\ conn[c].toServer[n].from = c
  BY DEF IInv, Lively
<1>3. ASSUME ~SharedFd, partner[c] = Nobody
      PROVE  /\ conn'[c].toServer = <<>> /\ conn'[c].end \in {"open", "fin"}
             /\ conn'[c].peer \in {"open", "fin"}
             /\ ~player'[c].inGame /\ player'[c].board = BlankBoard
  <2>1. /\ conn[c].toClient = <<>> /\ conn[c].toServer = <<>>
        /\ conn[c].end \in {"open", "fin"} /\ ~player[c].inGame /\ player[c].board = BlankBoard
    BY <1>3 DEF IInv, Strangers
  <2>2. conn'[c].peer = "fin"
    <3>1. conn'[c] = [conn[c] EXCEPT !.peer = "fin", !.toClient = <<>>]
      BY <1>1, <2>1 DEF ClientEnds
    <3>2. conn[c] \in Connection(Message, Message)
      BY DEF IInv, TypeOK
    <3>3. QED
      BY <3>1, <3>2 DEF Connection
  <2>3. QED
    BY <1>1, <2>1, <2>2
<1>4. ASSUME NEW e \in Client, ~SharedFd, Together(c, e)', Together(c, e)
      PROVE  /\ OneRight(c, e)' /\ OneRight(e, c)' /\ Openings(c, e)'
             /\ Boards(c, e)' /\ Boards(e, c)' /\ Standstill(c, e)' /\ Standstill(e, c)'
  <2>1. /\ OneRight(c, e) /\ OneRight(e, c) /\ Openings(c, e) /\ Boards(c, e) /\ Boards(e, c)
        /\ e # c /\ player'[e] = player[e] /\ conn'[e] = conn[e]
    BY <1>1, <1>4 DEF IInv, Play, Together, NoReset
  <2>2. Coming(c)' = {} /\ Coming(e)' = Coming(e) /\ ~(Hold(c)') /\ (Hold(e)' <=> Hold(e))
        /\ (Mark(c)' = Mark(c)) /\ (Mark(e)' = Mark(e)) /\ ~(Playing(c)')
    BY <1>1, <2>1 DEF Coming, Hold, Playing, Mark
  <2>3. OneRight(c, e)' /\ OneRight(e, c)'
    BY <1>1, <2>1, <2>2 DEF OneRight
  <2>4. Openings(c, e)'
    BY <1>1, <2>1, <2>2 DEF Openings
  <2>5. Standstill(c, e)' /\ Standstill(e, c)'
    BY <2>2 DEF Standstill, On
  <2>6. CASE player'[c].board = player[c].board
    <3>1. Differ(c, e)' = Differ(c, e) /\ Differ(e, c)' = Differ(e, c)
      BY <2>1, <2>6 DEF Differ
    <3>2. QED
      BY <1>1, <2>1, <2>2, <2>3, <2>4, <2>5, <2>6, <3>1 DEF Boards
  <2>7. CASE /\ player[c].inGame /\ player[c].turn
             /\ \E sq \in Cell : player'[c].board = [player[c].board EXCEPT ![sq] = player[c].symbol]
    <3>1. PICK sq \in Cell : player'[c].board = [player[c].board EXCEPT ![sq] = player[c].symbol]
      BY <2>7
    <3>2. Hold(c)
      BY <1>1, <2>7 DEF Hold, Playing
    <3>3. /\ ~Hold(e) /\ conn[c].toServer = <<>> /\ conn[e].toServer = <<>> /\ Coming(e) = {}
          /\ Differ(c, e) = {}
      BY <2>1, <3>2 DEF OneRight, Boards
    <3>4. \A q \in Differ(c, e)' : q = sq
      BY <2>1, <3>1, <3>3 DEF Differ
    <3>5. \A q \in Differ(e, c)' : q = sq
      BY <3>4 DEF Differ
    <3>6. \A n \in DOMAIN conn[e].toClient : conn[e].toClient[n].kind = "z"
      BY <3>3 DEF Coming
    <3>7. Boards(c, e)' /\ Boards(e, c)'
      BY <1>1, <2>1, <2>2, <3>3, <3>4, <3>5, <3>6 DEF Boards
    <3>8. QED
      BY <2>3, <2>4, <2>5, <3>7
  <2>8. QED
    BY <1>1, <2>6, <2>7
<1>5. Play'
  BY <1>1, <1>4, PlayOfOne
<1>6. QED
  BY <1>1, <1>2, <1>3, <1>5, ClientSuffices

\* The end of the connection, taken for a message, belongs to no game that is
\* still spoken of.
LEMMA MisreadsKeeps ==
  ASSUME IInv, NEW c \in Client, Misreads(c)
  PROVE  IInv'
<1>1. /\ Acts(c) /\ player[c].state = "playing" /\ conn[c].end = "reset" /\ conn'[c].end = "dead"
      /\ conn'[c].peer = conn[c].peer /\ conn'[c].toClient = <<>>
      /\ conn'[c].toServer = conn[c].toServer
  BY DEF Misreads, Acts, Playing
<1>2. player'[c].state = "playing" /\ player'[c].inGame
  <2>1. player \in [Client -> PlayerRecord]
    BY DEF IInv, TypeOK, PlayerRecord
  <2> DEFINE nothing == [kind |-> "none"]
  <2>2. nothing.kind # "move" /\ player' = [player EXCEPT ![c] = FirstMessage(player[c], nothing)]
    BY DEF Misreads
  <2> HIDE DEF nothing
  <2>3. QED
    BY <1>1, <2>1, <2>2, FirstMessageType
<1>3. /\ conn[c].peer = "open"
      /\ \A n \in DOMAIN conn[c].toServer :
            conn[c].toServer[n].kind = "move" /\ conn[c].toServer[n].from = c
  BY <1>1 DEF IInv, Lively
<1>4. SharedFd \/ partner[c] # Nobody
  BY <1>1 DEF IInv, Strangers
<1>5. \A e \in Client : ~(Together(c, e)')
  BY <1>1 DEF Together, NoReset
<1>6. Play'
  BY <1>1, <1>5, PlayOfOne
<1>7. QED
  BY <1>1, <1>2, <1>3, <1>4, <1>6, ClientSuffices

\* A player makes a move.
LEMMA SendsKeeps ==
  ASSUME IInv, NEW c \in Client, NEW sq \in Cell, Sends(c, sq)
  PROVE  IInv'
<1> DEFINE msg == [kind |-> "move", from |-> c, sq |-> sq]
<1>1. /\ Acts(c) /\ player[c].state = "playing" /\ player[c].inGame /\ player[c].turn
      /\ player[c].board[sq] = blank
      /\ player'[c].state = "playing" /\ player'[c].inGame /\ ~player'[c].turn
      /\ player'[c].symbol = player[c].symbol
      /\ player'[c].board = [player[c].board EXCEPT ![sq] = player[c].symbol]
      /\ conn'[c].peer = conn[c].peer /\ conn'[c].toClient = conn[c].toClient
      /\ \/ /\ conn'[c].end = conn[c].end /\ conn[c].end = "open"
            /\ conn'[c].toServer = Append(conn[c].toServer, msg)
         \/ conn'[c].end = "dead" /\ conn[c].end # "open" /\ conn'[c].toServer = conn[c].toServer
      /\ partner' = partner
      /\ \A d \in Client : d # c => player'[d] = player[d] /\ conn'[d] = conn[d]
  BY DEF Sends, Acts, Playing, serverVars
<1>2. /\ conn[c].peer = "open" /\ (SharedFd \/ partner[c] # Nobody)
      /\ \A n \in DOMAIN conn[c].toServer :
            conn[c].toServer[n].kind = "move" /\ conn[c].toServer[n].from = c
  BY <1>1 DEF IInv, Lively, Strangers
<1>0. /\ conn[c].toServer \in Seq(Message) /\ player[c].board \in [Cell -> {x, o, blank}]
      /\ msg \in Message /\ msg.kind = "move" /\ msg.from = c /\ msg.sq = sq
  <2>1. conn[c] \in Connection(Message, Message)
    BY DEF IInv, TypeOK
  <2>2. player[c] \in PlayerRecord
    BY DEF IInv, TypeOK, PlayerRecord
  <2>3. QED
    BY <2>1, <2>2 DEF Connection, PlayerRecord, Message
<1> HIDE DEF msg
<1>3. \A n \in DOMAIN conn'[c].toServer :
         conn'[c].toServer[n].kind = "move" /\ conn'[c].toServer[n].from = c
  <2> SUFFICES ASSUME NEW s, s = Append(conn[c].toServer, msg), NEW n \in DOMAIN s
               PROVE  s[n].kind = "move" /\ s[n].from = c
    BY <1>1, <1>2
  <2>1. CASE n \in DOMAIN conn[c].toServer
    BY <1>0, <1>2, <2>1
  <2>2. CASE n \notin DOMAIN conn[c].toServer
    BY <1>0, <2>2
  <2>3. QED
    BY <2>1, <2>2
<1>4. ASSUME NEW e \in Client, ~SharedFd, Together(c, e)', Together(c, e)
      PROVE  /\ OneRight(c, e)' /\ OneRight(e, c)' /\ Openings(c, e)'
             /\ Boards(c, e)' /\ Boards(e, c)' /\ Standstill(c, e)' /\ Standstill(e, c)'
  <2>1. /\ OneRight(c, e) /\ OneRight(e, c) /\ Openings(c, e) /\ Boards(c, e) /\ Boards(e, c)
        /\ e # c /\ player'[e] = player[e] /\ conn'[e] = conn[e]
    BY <1>1, <1>4 DEF IInv, Play, Together, NoReset
  <2>2. Hold(c)
    BY <1>1 DEF Hold, Playing
  <2>3. /\ ~Hold(e) /\ conn[c].toServer = <<>> /\ conn[e].toServer = <<>>
        /\ Coming(c) = {} /\ Coming(e) = {} /\ Differ(c, e) = {} /\ player[c].symbol = Mark(c)
    BY <1>1, <2>1, <2>2 DEF OneRight, Boards, Openings
  <2>4. conn'[c].end \in {"open", "fin"}
    BY <1>4 DEF Together, NoReset
  <2>5. conn'[c].toServer = Append(conn[c].toServer, msg)
    BY <1>1, <2>4
  <2>6. /\ conn'[c].toServer # <<>> /\ Len(conn'[c].toServer) = 1
        /\ \A n \in DOMAIN conn'[c].toServer : conn'[c].toServer[n] = msg
    <3> SUFFICES ASSUME NEW s, s = Append(conn[c].toServer, msg)
                 PROVE  s # <<>> /\ Len(s) = 1 /\ \A n \in DOMAIN s : s[n] = msg
      BY <2>5
    <3>1. QED
      BY <1>0, <2>3
  <2>7. /\ ~(Hold(c)') /\ ~(Hold(e)')
        /\ Coming(c)' = {} /\ Coming(e)' = {}
        /\ (Mark(c)' = Mark(c)) /\ (Mark(e)' = Mark(e))
    BY <1>1, <2>1, <2>3 DEF Coming, Hold, Playing, Mark
  <2>8. OneRight(c, e)' /\ OneRight(e, c)'
    BY <2>1, <2>3, <2>6, <2>7 DEF OneRight
  <2>9. Openings(c, e)'
    BY <1>1, <2>1, <2>7 DEF Openings
  <2>10. \A q \in Cell : player'[c].board[q] # player[e].board[q] => q = sq
    BY <1>0, <1>1, <2>3 DEF Differ
  <2>11. /\ \A q \in Differ(c, e)' : q = sq
         /\ \A q \in Differ(e, c)' : q = sq
    BY <2>1, <2>10 DEF Differ
  <2>12. player'[c].board[sq] = Mark(c)
    BY <1>0, <1>1, <2>3
  <2>13. /\ \A n \in DOMAIN conn'[c].toClient : conn'[c].toClient[n].kind = "z"
         /\ \A n \in DOMAIN conn'[e].toClient : conn'[e].toClient[n].kind = "z"
    BY <2>7 DEF Coming
  <2>14. conn'[e].toServer = <<>>
    BY <2>1, <2>3
  <2>15. Boards(c, e)'
    BY <1>0, <2>6, <2>7, <2>11, <2>12, <2>13 DEF Boards
  <2>16. Boards(e, c)'
    BY <2>7, <2>11, <2>13, <2>14 DEF Boards
  <2>17. Standstill(c, e)' /\ Standstill(e, c)'
    BY <2>6 DEF Standstill, Lost
  <2>18. QED
    BY <2>8, <2>9, <2>15, <2>16, <2>17
<1>5. Play'
  <2>1. conn'[c].end \in {"open", "fin"} => conn[c].end \in {"open", "fin"}
    BY <1>1
  <2>2. QED
    BY <1>1, <1>4, <2>1, PlayOfOne
<1>6. QED
  BY <1>1, <1>2, <1>3, <1>5, ClientSuffices

\* The first message gives a player its symbol, every other one a mark.
LEMMA FirstMessageEffect ==
  ASSUME NEW q \in PlayerRecord, NEW m \in Message
  PROVE  /\ FirstMessage(q, m).state = q.state /\ FirstMessage(q, m).inGame
         /\ q.inGame /\ m.kind = "move" =>
              /\ FirstMessage(q, m).turn /\ FirstMessage(q, m).symbol = q.symbol
              /\ FirstMessage(q, m).board
                    = [q.board EXCEPT ![m.sq] = IF q.symbol = o THEN x ELSE o]
         /\ ~q.inGame =>
              /\ FirstMessage(q, m).turn <=> m.kind = "x"
              /\ m.kind = "x" => FirstMessage(q, m).symbol = x
              /\ m.kind = "z" => FirstMessage(q, m).symbol = o
              /\ FirstMessage(q, m).board = q.board
<1>0. FirstMessage(q, m).state = q.state /\ FirstMessage(q, m).inGame
  BY FirstMessageType DEF Message
<1>1. CASE q.inGame /\ m.kind = "move"
  <2> DEFINE b == [q.board EXCEPT ![m.sq] = IF q.symbol = o THEN x ELSE o]
  <2>1. FirstMessage(q, m) = [q EXCEPT !.turn = TRUE, !.board = b]
    BY <1>1 DEF FirstMessage
  <2> HIDE DEF b
  <2>2. /\ FirstMessage(q, m).turn /\ FirstMessage(q, m).symbol = q.symbol
        /\ FirstMessage(q, m).board = b
    BY <2>1 DEF PlayerRecord
  <2>3. QED
    BY <1>0, <1>1, <2>2 DEF b
<1>2. CASE q.inGame /\ m.kind # "move"
  BY <1>0, <1>2
<1>3. CASE ~q.inGame
  <2> DEFINE s == CASE m.kind = "x" -> x [] m.kind = "z" -> o [] OTHER -> q.symbol
  <2>1. (m.kind = "x" => s = x) /\ (m.kind = "z" => s = o)
    OBVIOUS
  <2>2. FirstMessage(q, m) = [q EXCEPT !.inGame = TRUE, !.turn = (m.kind = "x"), !.symbol = s]
    BY <1>3 DEF FirstMessage
  <2> HIDE DEF s
  <2>3. /\ FirstMessage(q, m).turn <=> m.kind = "x"
        /\ FirstMessage(q, m).symbol = s /\ FirstMessage(q, m).board = q.board
    BY <2>2 DEF PlayerRecord
  <2>4. QED
    BY <1>0, <1>3, <2>1, <2>3
<1>4. QED
  BY <1>1, <1>2, <1>3

\* A player reads its symbol or its partner's move.
LEMMA ReadsKeeps ==
  ASSUME IInv, NEW c \in Client, Reads(c)
  PROVE  IInv'
<1> DEFINE m == conn[c].toClient[1]
           q == player[c]
           r == FirstMessage(q, m)
           none == <<>>
<1>1. /\ Acts(c) /\ q.state = "playing" /\ conn[c].toClient # none
      /\ player' = [player EXCEPT ![c] = r]
      /\ conn'[c].peer = conn[c].peer /\ conn'[c].toClient = none
      /\ conn'[c].toServer = conn[c].toServer /\ conn'[c].end = conn[c].end
      /\ partner' = partner
      /\ \A d \in Client : d # c => player'[d] = player[d] /\ conn'[d] = conn[d]
  BY DEF Reads, Acts, Playing, serverVars
<1>0. /\ player \in [Client -> PlayerRecord] /\ q \in PlayerRecord
      /\ conn[c].toClient \in Seq(Message) /\ DOMAIN none = {} /\ none = <<>>
  <2>1. player \in [Client -> PlayerRecord] /\ conn[c] \in Connection(Message, Message)
    BY DEF IInv, TypeOK, PlayerRecord
  <2>2. QED
    BY <2>1 DEF Connection
<1>2. 1 \in DOMAIN conn[c].toClient /\ m \in Message
  BY <1>0, <1>1
<1> HIDE DEF none, m
<1>3. /\ r.state = "playing" /\ r.inGame
      /\ q.inGame /\ m.kind = "move" =>
           r.turn /\ r.symbol = q.symbol /\ r.board = [q.board EXCEPT ![m.sq] = IF q.symbol = o THEN x ELSE o]
      /\ ~q.inGame =>
           /\ r.turn <=> m.kind = "x"
           /\ m.kind = "x" => r.symbol = x
           /\ m.kind = "z" => r.symbol = o
           /\ r.board = q.board
  BY <1>0, <1>1, <1>2, FirstMessageEffect
<1>4. player'[c] = r
  BY <1>0, <1>1
<1> HIDE DEF r
<1>5. /\ conn[c].peer = "open" /\ (SharedFd \/ partner[c] # Nobody)
      /\ \A n \in DOMAIN conn[c].toServer :
            conn[c].toServer[n].kind = "move" /\ conn[c].toServer[n].from = c
      /\ q.turn => q.inGame
  BY <1>0, <1>1 DEF IInv, Lively, Strangers
<1>6. ASSUME NEW e \in Client, ~SharedFd, Together(c, e)', Together(c, e)
      PROVE  /\ OneRight(c, e)' /\ OneRight(e, c)' /\ Openings(c, e)'
             /\ Boards(c, e)' /\ Boards(e, c)' /\ Standstill(c, e)' /\ Standstill(e, c)'
  <2>1. /\ OneRight(c, e) /\ OneRight(e, c) /\ Openings(c, e) /\ Boards(c, e) /\ Boards(e, c)
        /\ Standstill(c, e) /\ Standstill(e, c)
        /\ e # c /\ player'[e] = player[e] /\ conn'[e] = conn[e]
        /\ partner[c] = e /\ partner[e] = c
    BY <1>1, <1>6 DEF IInv, Play, Together, NoReset
  <2>2. /\ Coming(c)' = {} /\ Coming(e)' = Coming(e) /\ (Hold(e)' <=> Hold(e))
        /\ (Mark(c)' = Mark(c)) /\ (Mark(e)' = Mark(e)) /\ (Playing(c)') /\ (Playing(e)' <=> Playing(e))
        /\ Hold(c)' <=> r.turn
    BY <1>0, <1>1, <1>3, <1>4, <2>1 DEF Coming, Hold, Playing, Mark
  <2>3. c < e \/ e < c
    <3>1. Client \subseteq Int
      BY Numbers
    <3>2. QED
      BY <2>1, <3>1
  <2>4. Mark(c) = IF c < e THEN x ELSE o
    BY <2>1 DEF Mark
  <2>5. Mark(e) = IF c < e THEN o ELSE x
    <3>1. Client \subseteq Int
      BY Numbers
    <3>2. QED
      BY <2>1, <3>1 DEF Mark
  <2>6. /\ q.inGame => m.kind = "move" /\ q.symbol = Mark(c)
        /\ ~q.inGame => (m.kind = IF c < e THEN "x" ELSE "z") /\ q.board = BlankBoard
    BY <1>1, <1>2, <2>1 DEF Openings, Playing, m
  <2>7. r.symbol = Mark(c)
    BY <1>3, <2>4, <2>6
  <2>8. Openings(c, e)'
    BY <1>0, <1>1, <1>3, <1>4, <2>2, <2>7 DEF Openings
  <2>9. CASE m.kind # "z"
    <3>1. 1 \in Coming(c)
      BY <1>2, <2>9 DEF Coming, m
    <3>2. /\ conn[c].toServer = <<>> /\ conn[e].toServer = <<>> /\ Coming(e) = {} /\ ~Hold(e)
      BY <2>1, <3>1 DEF OneRight
    <3>3. r.turn
      BY <1>3, <2>6, <2>9
    <3>4. OneRight(c, e)' /\ OneRight(e, c)'
      BY <1>1, <2>1, <2>2, <3>2 DEF OneRight
    <3>5. \A sq \in Cell : r.board[sq] = player[e].board[sq]
      <4>1. CASE q.inGame
        <5>1. player[e].board[m.sq] = Mark(e) /\ \A sq \in Differ(c, e) : sq = m.sq
          BY <1>2, <2>1, <2>6, <4>1 DEF Boards, m
        <5>2. r.board = [q.board EXCEPT ![m.sq] = Mark(e)]
          BY <1>3, <2>4, <2>5, <2>6, <4>1 DEF x, o
        <5>3. q.board \in [Cell -> {x, o, blank}]
          BY <1>0 DEF PlayerRecord
        <5>4. QED
          BY <5>1, <5>2, <5>3 DEF Differ
      <4>2. CASE ~q.inGame
        <5>1. m.kind = "x"
          BY <2>6, <2>9, <4>2
        <5>2. Differ(c, e) = {}
          BY <1>2, <2>1, <5>1 DEF Boards, m
        <5>3. r.board = q.board
          BY <1>3, <4>2
        <5>4. QED
          BY <5>2, <5>3 DEF Differ
      <4>3. QED
        BY <4>1, <4>2
    <3>6. Differ(c, e)' = {} /\ Differ(e, c)' = {}
      BY <1>4, <2>1, <3>5 DEF Differ
    <3>7. \A n \in DOMAIN conn[e].toClient : conn[e].toClient[n].kind = "z"
      BY <3>2 DEF Coming
    <3>8. Boards(c, e)'
      BY <1>0, <1>1, <3>2, <3>6 DEF Boards
    <3>9. Boards(e, c)'
      BY <1>0, <2>1, <3>2, <3>6, <3>7 DEF Boards
    <3>10. Standstill(c, e)' /\ Standstill(e, c)'
      BY <2>2, <3>3 DEF Standstill, Lost
    <3>11. QED
      BY <2>8, <3>4, <3>8, <3>9, <3>10
  <2>10. CASE m.kind = "z"
    <3>1. ~q.inGame /\ ~(c < e) /\ e < c /\ ~r.turn /\ r.board = q.board /\ q.board = BlankBoard
      BY <1>3, <2>3, <2>6, <2>10
    <3>2. OneRight(c, e)' /\ OneRight(e, c)'
      BY <1>1, <2>1, <2>2, <3>1 DEF OneRight
    <3>3. (Differ(c, e)' = Differ(c, e)) /\ (Differ(e, c)' = Differ(e, c))
      BY <1>4, <2>1, <3>1 DEF Differ
    <3>4. Boards(c, e)'
      BY <1>0, <1>1, <1>4, <2>1, <2>2, <3>1, <3>3 DEF Boards
    <3>5. Boards(e, c)'
      BY <1>4, <2>1, <2>2, <3>1, <3>3 DEF Boards
    <3>6. Standstill(c, e)'
      BY <3>1 DEF Standstill
    <3>7. Standstill(e, c)'
      <4> SUFFICES ASSUME On(e, c)', Lost(e, c)'
                   PROVE  r.inGame /\ r.board = BlankBoard
                          /\ \E s \in Cell : player[e].board = [BlankBoard EXCEPT ![s] = x]
        BY <1>4, <2>1 DEF Standstill, BlankBoard
      <4>1. /\ On(e, c) /\ ~Hold(c) /\ ~Hold(e) /\ Coming(e) = {}
            /\ conn[c].toServer = <<>> /\ conn[e].toServer = <<>>
        BY <1>1, <1>5, <2>1, <2>2, <3>1 DEF On, Lost, Playing, Hold
      <4>2. Coming(c) # {}
        BY <2>1, <3>1, <4>1 DEF Standstill, Lost
      <4>3. PICK n \in DOMAIN conn[c].toClient : conn[c].toClient[n].kind # "z"
        BY <4>2 DEF Coming
      <4>4. n > 1
        BY <1>0, <2>10, <4>3 DEF m
      <4>5. conn[c].toClient[n].kind = "move"
        BY <2>1, <4>3, <4>4 DEF Openings
      <4> DEFINE s == conn[c].toClient[n].sq
      <4>6. player[e].board[s] = x /\ \A sq \in Differ(c, e) : sq = s
        BY <2>1, <2>5, <3>1, <4>5 DEF Boards
      <4>7. conn[c].toClient[n] \in Message
        BY <1>0
      <4>8. s \in Cell
        BY <4>5, <4>7 DEF Message
      <4> HIDE DEF s
      <4>9. player[e].board \in [Cell -> {x, o, blank}] /\ BlankBoard \in [Cell -> {x, o, blank}]
        BY <1>0 DEF PlayerRecord, BlankBoard
      <4>10. \A sq \in Cell : player[e].board[sq] = [BlankBoard EXCEPT ![s] = x][sq]
        BY <3>1, <4>6, <4>8, <4>9 DEF Differ
      <4>11. player[e].board = [BlankBoard EXCEPT ![s] = x]
        BY <4>9, <4>10
      <4>12. QED
        BY <1>3, <3>1, <4>8, <4>11
    <3>8. QED
      BY <2>8, <3>2, <3>4, <3>5, <3>6, <3>7
  <2>11. QED
    BY <2>9, <2>10
<1>7. Play'
  BY <1>1, <1>6, PlayOfOne
<1>8. QED
  BY <1>0, <1>1, <1>3, <1>4, <1>5, <1>7, ClientSuffices

\* A client connects: it comes last in the queue, and nobody knows it.
LEMMA ConnectKeeps ==
  ASSUME IInv, NEW c \in Client, Connect(c)
  PROVE  IInv'
<1>1. /\ server' = server /\ todo' = todo /\ readFds' = readFds /\ sock' = sock /\ stdin' = stdin
      /\ p' = p /\ waiting' = waiting /\ partner' = partner /\ conn' = conn
      /\ server = "up" /\ player[c].state = "new" /\ backlog' = Append(backlog, c)
      /\ \A d \in Client : d < c => player[d].state # "new"
      /\ player' = [player EXCEPT ![c].state = "playing"]
  BY DEF Connect
<1>2. /\ player \in [Client -> PlayerRecord] /\ backlog \in Seq(Client) /\ Client \subseteq Int
      /\ sock \in [Fd -> Client \cup {Free}]
  BY Numbers DEF IInv, TypeOK, PlayerRecord
<1> DEFINE q == [player[c] EXCEPT !.state = "playing"]
<1>3. /\ q \in PlayerRecord /\ q.state = "playing" /\ q.inGame = player[c].inGame
      /\ q.turn = player[c].turn /\ q.board = player[c].board
  <2>1. player[c] \in PlayerRecord
    BY <1>2
  <2>2. QED
    BY <2>1 DEF PlayerRecord
<1>0. player' = [player EXCEPT ![c] = q]
  BY <1>1
<1> HIDE DEF q
<1>4. /\ player' \in [Client -> PlayerRecord] /\ player'[c] = q
      /\ \A d \in Client : d # c => player'[d] = player[d]
  BY <1>0, <1>2, <1>3
<1>5. (SharedFd' <=> SharedFd) /\ (Abandoned' <=> Abandoned)
  BY <1>1, <1>3, <1>4 DEF SharedFd, Abandoned
<1>6. TypeOK'
  <2>1. Append(backlog, c) \in Seq(Client)
    BY <1>2
  <2>2. QED
    BY <1>1, <1>4, <2>1 DEF IInv, TypeOK, PlayerRecord
<1>7. Seats' /\ Selected'
  BY <1>1, <1>2, <1>3, <1>4 DEF IInv, Seats, Selected, Taken
<1>8. InLine'
  <2>1. ASSUME NEW d \in Client, player[d].state # "new"
        PROVE  d < c
    <3>1. d # c /\ ~(c < d)
      BY <1>1, <2>1 DEF IInv, InLine
    <3>2. QED
      BY <1>2, <3>1
  <2>2. ASSUME NEW d \in Client, NEW e \in Client, d < e, player'[e].state # "new"
        PROVE  player'[d].state # "new"
    <3>1. CASE e = c
      BY <1>1, <1>2, <1>4, <2>2, <3>1
    <3>2. CASE e # c
      <4>1. player[e].state # "new"
        BY <1>4, <2>2, <3>2
      <4>2. player[d].state # "new"
        BY <2>2, <4>1 DEF IInv, InLine
      <4>3. QED
        BY <1>3, <1>4, <4>2
    <3>3. QED
      BY <3>1, <3>2
  <2> DEFINE s == Append(backlog, c)
  <2>3. /\ \A n \in DOMAIN s : \/ n \in DOMAIN backlog /\ s[n] = backlog[n]
                               \/ n = Len(backlog) + 1 /\ s[n] = c
        /\ Len(backlog) \in Nat /\ DOMAIN backlog = 1 .. Len(backlog) /\ s # <<>>
        /\ DOMAIN s \subseteq Int
    BY <1>2
  <2>4. \A n \in DOMAIN backlog : backlog[n] \in Client
    BY <1>2
  <2> HIDE DEF s
  <2>5. ASSUME NEW n \in DOMAIN s
        PROVE  /\ player'[s[n]].state # "new" /\ partner[s[n]] = Nobody
               /\ \A f \in Fd : Taken(f) => sock[f] < s[n]
    <3>1. CASE n \in DOMAIN backlog /\ s[n] = backlog[n]
      <4>1. /\ player[backlog[n]].state # "new" /\ partner[backlog[n]] = Nobody
            /\ \A f \in Fd : Taken(f) => sock[f] < backlog[n]
        BY <3>1 DEF IInv, InLine
      <4>2. QED
        BY <1>1, <1>4, <2>4, <3>1, <4>1
    <3>2. CASE s[n] = c
      <4>1. \A f \in Fd : Taken(f) => sock[f] \in Client /\ player[sock[f]].state # "new"
        BY <1>2 DEF IInv, Seats, Taken
      <4>2. QED
        BY <1>1, <1>3, <1>4, <2>1, <3>2, <4>1 DEF IInv, InLine
    <3>3. QED
      BY <2>3, <3>1, <3>2
  <2>6. ASSUME NEW m \in DOMAIN s, NEW n \in DOMAIN s, m < n
        PROVE  s[m] < s[n]
    <3>1. m \in DOMAIN backlog /\ s[m] = backlog[m]
      BY <2>3, <2>6
    <3>2. player[backlog[m]].state # "new" /\ backlog[m] \in Client
      BY <2>4, <3>1 DEF IInv, InLine
    <3>3. CASE n \in DOMAIN backlog /\ s[n] = backlog[n]
      BY <2>6, <3>1, <3>3 DEF IInv, InLine
    <3>4. CASE s[n] = c
      BY <2>1, <3>1, <3>2, <3>4
    <3>5. QED
      BY <2>3, <3>3, <3>4
  <2>7. \A d \in Client : player'[d].state = "new" => partner[d] = Nobody
    BY <1>3, <1>4 DEF IInv, InLine
  <2>8. backlog' = s
    BY <1>1 DEF s
  <2>9. QED
    BY <1>1, <2>2, <2>3, <2>5, <2>6, <2>7, <2>8 DEF InLine, Taken
<1>9. Lively'
  <2> SUFFICES ASSUME NEW d \in Client
               PROVE  /\ player'[d].state = "ended" <=> conn[d].peer # "open"
                      /\ player'[d].state = "ended" => conn[d].toClient = <<>>
                      /\ player'[d].turn => player'[d].inGame
                      /\ player'[d].state = "new" => ~player'[d].inGame
                      /\ \A n \in DOMAIN conn[d].toServer :
                            conn[d].toServer[n].kind = "move" /\ conn[d].toServer[n].from = d
    BY <1>1 DEF Lively
  <2>1. QED
    BY <1>1, <1>3, <1>4 DEF IInv, Lively
<1>10. Tables' /\ WaitsAlone'
  BY <1>1, <1>5 DEF IInv, Tables, WaitsAlone, Seated, Taken, Occurs
<1>11. Strangers'
  BY <1>1, <1>3, <1>4, <1>5 DEF IInv, Strangers, BlankBoard
<1>12. ZeroIsShortLived' /\ Whole'
  BY <1>1, <1>5 DEF IInv, ZeroIsShortLived, Whole, Seated, Taken, Occurs
<1>13. MovesReachThePartner'
  BY <1>1, <1>5 DEF IInv, MovesReachThePartner
<1>14. Play'
  <2> SUFFICES ASSUME ~SharedFd, NEW a \in Client, NEW b \in Client, Together(a, b)'
               PROVE  OneRight(a, b)' /\ Openings(a, b)' /\ Boards(a, b)' /\ Standstill(a, b)'
    BY <1>5 DEF Play
  <2>1. partner[a] = b /\ partner[b] = a /\ partner[c] = Nobody
    BY <1>1 DEF Together, IInv, InLine
  <2>2. player'[a] = player[a] /\ player'[b] = player[b]
    BY <1>4, <2>1, Numbers
  <2>3. Together(a, b)
    BY <1>1 DEF Together, NoReset
  <2>4. OneRight(a, b) /\ Openings(a, b) /\ Boards(a, b) /\ Standstill(a, b)
    BY <2>3 DEF IInv, Play
  <2>5. QED
    BY <1>1, <2>2, <2>4, PairFrame
<1>15. QED
  BY <1>6, <1>7, <1>8, <1>9, <1>10, <1>11, <1>12, <1>13, <1>14 DEF IInv

-----------------------------------------------------------------------------

(* The invariant through the server's steps.                               *)

\* select() reports descriptors that are open.
LEMMA StartPassKeeps ==
  ASSUME IInv, StartPass
  PROVE  IInv'
<1>1. /\ server' = server /\ readFds' = readFds /\ sock' = sock /\ stdin' = stdin
      /\ p' = p /\ waiting' = waiting /\ backlog' = backlog /\ partner' = partner
      /\ conn' = conn /\ player' = player
      /\ server = "up" /\ todo = {}
      /\ todo' = Readable \cup IF backlog # <<>> THEN {Listen} ELSE {}
  BY DEF StartPass
<1>2. /\ sock \in [Fd -> Client \cup {Free}] /\ waiting \in Fd \cup {NoFd} /\ readFds \subseteq Fd
      /\ Listen \notin Fd
  BY Numbers DEF IInv, TypeOK
<1>3. /\ \A f \in todo' \ {Listen} : f \in readFds /\ ServerReadable(conn[sock[f]])
      /\ \A f \in readFds : Taken(f) /\ f # Listen /\ (ServerReadable(conn[sock[f]]) => f \in todo')
      /\ Listen \in todo' => backlog # <<>>
  BY <1>1, <1>2 DEF IInv, Selected, Readable
<1>4. (SharedFd' <=> SharedFd) /\ (Abandoned' <=> Abandoned)
  BY <1>1 DEF SharedFd, Abandoned
<1>5. TypeOK'
  <2>1. todo' \subseteq Fd \cup {Listen}
    BY <1>1, <1>2 DEF Readable
  <2>2. QED
    BY <1>1, <2>1 DEF IInv, TypeOK
<1>6. Seats' /\ Selected'
  BY <1>1, <1>3 DEF IInv, Seats, Selected, Taken
<1>7. InLine' /\ Lively'
  BY <1>1, <1>3 DEF IInv, InLine, Lively, Taken
<1>8. Tables' /\ Strangers' /\ MovesReachThePartner'
  BY <1>1, <1>4 DEF IInv, Tables, Strangers, MovesReachThePartner, BlankBoard, Seated, Taken, Occurs
<1>9. WaitsAlone'
  <2> SUFFICES ASSUME ~SharedFd, waiting # NoFd, ~Occurs(waiting), waiting \in todo'
               PROVE  conn[sock[waiting]].peer # "open"
    BY <1>1, <1>4 DEF IInv, WaitsAlone, Taken, Occurs
  <2>1. waiting \in Fd /\ ServerReadable(conn[sock[waiting]]) /\ Taken(waiting)
    BY <1>2, <1>3 DEF IInv, WaitsAlone
  <2>2. sock[waiting] \in Client /\ partner[sock[waiting]] = Nobody
    BY <1>2, <2>1 DEF IInv, WaitsAlone, Taken
  <2>3. conn[sock[waiting]].toServer = <<>>
    BY <2>2 DEF IInv, Strangers
  <2>4. QED
    BY <2>1, <2>3 DEF ServerReadable
<1>10. ZeroIsShortLived'
  <2> SUFFICES ASSUME ~SharedFd
               PROVE  /\ ~stdin /\ ~Occurs(Stdin) =>
                           /\ waiting # NoFd /\ ~Occurs(waiting) /\ conn[sock[waiting]].peer # "open"
                           /\ Listen \in todo' => waiting \in todo'
                      /\ ~Seated(Stdin)
    BY <1>1, <1>4 DEF ZeroIsShortLived, Seated, Taken, Occurs
  <2>1. ~Seated(Stdin)
    BY <1>1 DEF IInv, ZeroIsShortLived
  <2>2. ASSUME ~stdin, ~Occurs(Stdin)
        PROVE  /\ waiting # NoFd /\ ~Occurs(waiting) /\ conn[sock[waiting]].peer # "open"
               /\ waiting \in todo'
    <3>1. waiting # NoFd /\ ~Occurs(waiting) /\ conn[sock[waiting]].peer # "open"
      BY <1>1, <2>2 DEF IInv, ZeroIsShortLived
    <3>2. waiting \in readFds
      BY <1>1, <3>1 DEF IInv, WaitsAlone
    <3>3. QED
      BY <1>3, <3>1, <3>2 DEF ServerReadable
  <2>3. QED
    BY <2>1, <2>2
<1>11. Whole'
  <2>1. ~Abandoned =>
          /\ server = "up" /\ ~SharedFd /\ ~Taken(Stdin)
          /\ \A g \in DOMAIN p : Seated(p[g].player1) /\ Seated(p[g].player2)
          /\ \A i \in todo' \ {Listen} : Taken(i) /\ ServerReadable(conn[sock[i]])
    BY <1>3 DEF IInv, Whole
  <2>2. QED
    BY <1>1, <1>4, <2>1 DEF Whole, Seated, Taken
<1>12. Play'
  <2> SUFFICES ASSUME ~SharedFd, NEW a \in Client, NEW b \in Client, Together(a, b)'
               PROVE  OneRight(a, b)' /\ Openings(a, b)' /\ Boards(a, b)' /\ Standstill(a, b)'
    BY <1>4 DEF Play
  <2>1. Together(a, b)
    BY <1>1 DEF Together, NoReset
  <2>2. OneRight(a, b) /\ Openings(a, b) /\ Boards(a, b) /\ Standstill(a, b)
    BY <2>1 DEF IInv, Play
  <2>3. QED
    BY <1>1, <2>2, PairFrame
<1>13. QED
  BY <1>5, <1>6, <1>7, <1>8, <1>9, <1>10, <1>11, <1>12 DEF IInv

\* What the server reads away and closes brings no right to move about, and
\* loses none in a connection that stays open.
LEMMA FadedKeeps ==
  ASSUME IInv, Faded(conn'), player' = player, partner' = partner, p' = p
  PROVE  Lively' /\ MovesReachThePartner' /\ Play'
<1>1. SharedFd' <=> SharedFd
  BY DEF SharedFd
<1>2. \A c \in Client : Softer(conn[c], conn'[c])
  BY DEF Faded
<1>0. \A s : s = <<>> => DOMAIN s = {}
  OBVIOUS
<1>3. Lively'
  <2> SUFFICES ASSUME NEW c \in Client
               PROVE  /\ player[c].state = "ended" <=> conn'[c].peer # "open"
                      /\ player[c].state = "ended" => conn'[c].toClient = <<>>
                      /\ player[c].turn => player[c].inGame
                      /\ player[c].state = "new" => ~player[c].inGame
                      /\ \A n \in DOMAIN conn'[c].toServer :
                            conn'[c].toServer[n].kind = "move" /\ conn'[c].toServer[n].from = c
    BY DEF Lively
  <2>1. /\ player[c].state = "ended" <=> conn[c].peer # "open"
        /\ player[c].state = "ended" => conn[c].toClient = <<>>
        /\ player[c].turn => player[c].inGame
        /\ player[c].state = "new" => ~player[c].inGame
        /\ \A n \in DOMAIN conn[c].toServer :
              conn[c].toServer[n].kind = "move" /\ conn[c].toServer[n].from = c
    BY DEF IInv, Lively
  <2>2. /\ conn'[c].peer = "open" <=> conn[c].peer = "open"
        /\ conn'[c].toServer \in {conn[c].toServer, <<>>}
        /\ conn'[c].toClient = conn[c].toClient \/ conn[c].peer = "open"
    BY <1>2 DEF Softer
  <2>3. \A n \in DOMAIN conn'[c].toServer :
            conn'[c].toServer[n].kind = "move" /\ conn'[c].toServer[n].from = c
    BY <1>0, <2>1, <2>2
  <2>4. QED
    BY <2>1, <2>2, <2>3
<1>4. ~SharedFd => \A c \in Client : conn'[c].toClient = conn[c].toClient
  BY <1>2 DEF Softer
<1>5. MovesReachThePartner'
  BY <1>1, <1>4 DEF IInv, MovesReachThePartner
<1>6. Play'
  <2> SUFFICES ASSUME ~SharedFd, NEW a \in Client, NEW b \in Client, Together(a, b)'
               PROVE  OneRight(a, b)' /\ Openings(a, b)' /\ Boards(a, b)' /\ Standstill(a, b)'
    BY <1>1 DEF Play
  <2>1. /\ conn'[a].toClient = conn[a].toClient /\ conn'[b].toClient = conn[b].toClient
        /\ conn'[a].toServer \in {conn[a].toServer, <<>>}
        /\ conn'[b].toServer \in {conn[b].toServer, <<>>}
        /\ conn'[a].end = "open" => conn[a].end = "open" /\ conn'[a].toServer = conn[a].toServer
        /\ conn'[b].end = "open" => conn[b].end = "open" /\ conn'[b].toServer = conn[b].toServer
    BY <1>2, <1>4 DEF Softer, Faded
  <2>2. Together(a, b)
    BY DEF Together, NoReset, Faded
  <2>3. OneRight(a, b) /\ Openings(a, b) /\ Boards(a, b) /\ Standstill(a, b)
    BY <2>2 DEF IInv, Play
  <2>4. /\ Coming(a)' = Coming(a) /\ Coming(b)' = Coming(b)
        /\ (Hold(a)' <=> Hold(a)) /\ (Hold(b)' <=> Hold(b))
        /\ (Mark(a)' = Mark(a)) /\ (Mark(b)' = Mark(b)) /\ (Playing(a)' <=> Playing(a))
        /\ (Playing(b)' <=> Playing(b)) /\ (Differ(a, b)' = Differ(a, b))
    BY <2>1 DEF Coming, Hold, Mark, Playing, Differ
  <2>5. OneRight(a, b)'
    BY <2>1, <2>3, <2>4 DEF OneRight
  <2>6. Openings(a, b)'
    BY <2>1, <2>3, <2>4 DEF Openings
  <2>7. Boards(a, b)'
    BY <1>0, <2>1, <2>3, <2>4 DEF Boards
  <2>8. Standstill(a, b)'
    <3> SUFFICES ASSUME On(a, b)', a < b, Lost(a, b)'
                 PROVE  /\ player[b].inGame /\ player[b].board = BlankBoard
                        /\ \E s \in Cell : player[a].board = [BlankBoard EXCEPT ![s] = x]
      BY DEF Standstill, BlankBoard
    <3>1. conn'[a].end = "open" /\ conn'[b].end = "open" /\ Playing(a) /\ Playing(b)
      BY <2>4 DEF On
    <3>2. On(a, b)
      BY <2>1, <3>1 DEF On
    <3>3. Lost(a, b)
      BY <2>1, <2>4, <3>1 DEF Lost
    <3>4. QED
      BY <2>3, <3>2, <3>3 DEF Standstill
  <2>9. QED
    BY <2>5, <2>6, <2>7, <2>8
<1>7. QED
  BY <1>3, <1>5, <1>6

\* A client without a partner keeps a connection to match.
LEMMA FadedStrangers ==
  ASSUME IInv, Faded(conn'), player' = player, partner' = partner, p' = p,
         \A c \in Client : ~SharedFd /\ partner[c] = Nobody /\ server' = "up" =>
            server = "up" /\ conn'[c].peer = conn[c].peer
  PROVE  Strangers'
<1>1. SharedFd' <=> SharedFd
  BY DEF SharedFd
<1> SUFFICES ASSUME ~SharedFd, NEW c \in Client, partner[c] = Nobody
             PROVE  /\ conn'[c].toClient = <<>> /\ conn'[c].toServer = <<>>
                    /\ conn'[c].end \in {"open", "fin"}
                    /\ server' = "up" => conn'[c].peer \in {"open", "fin"}
                    /\ ~player[c].inGame /\ player[c].board = BlankBoard
  BY <1>1 DEF Strangers, BlankBoard
<1>2. /\ conn[c].toClient = <<>> /\ conn[c].toServer = <<>>
      /\ conn[c].end \in {"open", "fin"}
      /\ server = "up" => conn[c].peer \in {"open", "fin"}
      /\ ~player[c].inGame /\ player[c].board = BlankBoard
  BY DEF IInv, Strangers
<1>3. QED
  BY <1>2 DEF Faded, Softer

\* The server goes down.
LEMMA StopsKeeps ==
  ASSUME IInv, Stops
  PROVE  IInv'
<1>1. /\ server' = "down" /\ todo' = {} /\ readFds' = {} /\ sock' = sock /\ stdin' = stdin
      /\ p' = p /\ waiting' = waiting /\ backlog' = backlog /\ partner' = partner
      /\ player' = player /\ Faded(conn') /\ Abandoned
  BY DEF Stops
<1>2. (SharedFd' <=> SharedFd) /\ (Abandoned' <=> Abandoned)
  BY <1>1 DEF SharedFd, Abandoned
<1>3. TypeOK'
  BY <1>1 DEF IInv, TypeOK, Faded, Connections
<1>4. Seats' /\ Selected' /\ InLine'
  BY <1>1 DEF IInv, Seats, Selected, InLine, Taken
<1>5. Lively' /\ MovesReachThePartner' /\ Play'
  BY <1>1, FadedKeeps
<1>6. Tables'
  BY <1>1, <1>2 DEF IInv, Tables, Seated, Taken, Occurs
<1>7. WaitsAlone'
  BY <1>1, <1>2 DEF IInv, WaitsAlone, Taken, Occurs
<1>8. Strangers'
  BY <1>1, FadedStrangers
<1>9. ZeroIsShortLived' /\ Whole'
  BY <1>1, <1>2 DEF ZeroIsShortLived, Whole
<1>10. QED
  BY <1>3, <1>4, <1>5, <1>6, <1>7, <1>8, <1>9 DEF IInv

\* The descriptors that are closed with i are those of its one game, or
\* descriptor 0, on which nobody plays then.
LEMMA GoneTogether ==
  ASSUME IInv, ~SharedFd, server = "up", NEW i \in Fd, Taken(i)
  PROVE  /\ Occurs(i) => /\ \A f \in Gone(i) : Occurs(f) /\ f \in Fd
                         /\ \A g \in DOMAIN p : \/ Gone(i) = {p[g].player1, p[g].player2}
                                                \/ Gone(i) \cap {p[g].player1, p[g].player2} = {}
                         /\ i \in Gone(i)
         /\ ~Occurs(i) => /\ Gone(i) = {Stdin} /\ i = waiting /\ i # Stdin
                          /\ ~Taken(Stdin)
         /\ ~Occurs(waiting) /\ waiting # NoFd => waiting \notin Gone(i)
         /\ Taken(Other(i)) => partner[sock[Other(i)]] = sock[i]
<1>1. waiting \in Fd \cup {NoFd} /\ NoFd \notin Fd
  BY Numbers DEF IInv, TypeOK
<1>2. CASE Occurs(i)
  <2>1. PICK g \in DOMAIN p : Game(i) = p[g] /\ i \in {p[g].player1, p[g].player2}
    BY <1>2, GameOf DEF IInv
  <2>2. Gone(i) = {p[g].player1, p[g].player2}
    BY <2>1 DEF Gone
  <2>3. \A f \in Gone(i) : Occurs(f) /\ f \in Fd
    BY <2>2, GamePlayers DEF Occurs, IInv
  <2>4. \A h \in DOMAIN p : \/ Gone(i) = {p[h].player1, p[h].player2}
                            \/ Gone(i) \cap {p[h].player1, p[h].player2} = {}
    BY <2>2 DEF SharedFd
  <2>5. Taken(Other(i)) => partner[sock[Other(i)]] = sock[i]
    <3>1. CASE i = waiting
      <4>1. ~Seated(i)
        BY <3>1 DEF Seated
      <4>2. /\ p[g].player1 # p[g].player2
            /\ Seated(p[g].player1) <=> Seated(p[g].player2)
        BY DEF IInv, Tables
      <4>3. Other(i) # i /\ Other(i) \in {p[g].player1, p[g].player2}
        BY <2>1, <4>2 DEF Other
      <4>4. ~Seated(Other(i))
        BY <2>1, <4>1, <4>2, <4>3
      <4>5. QED
        BY <3>1, <4>3, <4>4 DEF Seated
    <3>2. CASE i # waiting
      BY <3>2, Mates
    <3>3. QED
      BY <3>1, <3>2
  <2>6. QED
    BY <1>2, <2>1, <2>2, <2>3, <2>4, <2>5
<1>3. CASE ~Occurs(i)
  <2>1. i = waiting /\ waiting # NoFd
    BY <1>1, <1>3, Mates
  <2>2. Gone(i) = {Stdin} /\ Other(i) = Stdin
    BY <1>3, GameOf DEF IInv, Gone
  <2>3. i # Stdin
    BY <1>3, <2>1 DEF IInv, WaitsAlone
  <2>4. ~Taken(Stdin)
    BY <2>1, <2>3 DEF IInv, ZeroIsShortLived, Seated
  <2>5. QED
    BY <1>3, <2>1, <2>2, <2>3, <2>4
<1>4. QED
  BY <1>2, <1>3

\* A player leaves, and its partner goes with it.
LEMMA LeavesKeeps ==
  ASSUME IInv, NEW i \in Fd, NEW c \in Client, Leaves(i, c)
  PROVE  IInv'
<1>1. /\ server = "up" /\ server' = "up" /\ i \in todo /\ todo' = todo \ {i} /\ c = sock[i]
      /\ Listen \in todo => i = Stdin
      /\ p' = p /\ waiting' = waiting /\ backlog' = backlog
      /\ player' = player /\ partner' = partner
      /\ conn[c].toServer = <<>>
      /\ sock' = [f \in Fd |-> IF f \in Gone(i) THEN Free ELSE sock[f]]
      /\ stdin' = (stdin /\ Stdin \notin Gone(i))
      /\ readFds' = readFds \ Gone(i)
      /\ Faded(conn')
  BY DEF Leaves, Serves
<1>2. /\ sock \in [Fd -> Client \cup {Free}] /\ waiting \in Fd \cup {NoFd} /\ readFds \subseteq Fd
      /\ todo \subseteq Fd \cup {Listen} /\ Listen \notin Fd /\ Stdin \in Fd /\ Stdin # Listen
      /\ NoFd \notin Fd
  BY Numbers DEF IInv, TypeOK
<1>3. Taken(i)
  BY <1>1, Numbers DEF Taken
<1>4. /\ \A f \in Fd : sock'[f] = IF f \in Gone(i) THEN Free ELSE sock[f]
      /\ \A f \in Fd : sock'[f] # Free <=> Taken(f) /\ f \notin Gone(i)
      /\ \A f \in Fd : (sock'[f] # Free) => sock'[f] = sock[f]
  BY <1>1 DEF Taken
<1>5. /\ SharedFd' <=> SharedFd
      /\ Abandoned' <=> Abandoned
      /\ \A f : Occurs(f)' <=> Occurs(f)
  BY <1>1 DEF SharedFd, Abandoned, Occurs
<1>6. \A d \in Client : conn'[d].peer = "open" <=> conn[d].peer = "open"
  BY <1>1 DEF Faded, Softer
<1>7. TypeOK'
  <2>1. sock' \in [Fd -> Client \cup {Free}] /\ stdin' \in BOOLEAN /\ readFds' \subseteq Fd
        /\ todo' \subseteq Fd \cup {Listen}
    BY <1>1, <1>2 DEF IInv, TypeOK
  <2>2. QED
    BY <1>1, <2>1 DEF IInv, TypeOK, Faded, Connections
<1>8. Seats'
  <2>1. \A f, g \in Fd : Taken(f) /\ sock[f] = sock[g] => f = g
    BY DEF IInv, Seats
  <2>2. \A f \in Fd : Taken(f) => player[sock[f]].state # "new"
    BY DEF IInv, Seats
  <2>3. stdin => ~Taken(Stdin)
    BY DEF IInv, Seats
  <2>4. \A f, g \in Fd : sock'[f] # Free /\ sock'[f] = sock'[g] => f = g
    BY <1>4, <2>1
  <2>5. \A f \in Fd : sock'[f] # Free => player'[sock'[f]].state # "new"
    BY <1>1, <1>4, <2>2
  <2>6. stdin' => sock'[Stdin] = Free
    BY <1>1, <1>2, <1>4, <2>3
  <2>7. QED
    BY <2>4, <2>5, <2>6 DEF Seats, Taken
<1>9. Selected'
  <2>1. \A f \in readFds' : sock'[f] # Free
    BY <1>1, <1>2, <1>4 DEF IInv, Selected
  <2>2. Listen \in todo' => ~stdin' /\ sock'[Stdin] = Free /\ Stdin \notin todo'
    <3> SUFFICES ASSUME Listen \in todo' PROVE ~stdin' /\ sock'[Stdin] = Free /\ Stdin \notin todo'
      OBVIOUS
    <3>1. i = Stdin
      BY <1>1
    <3>2. Stdin \in Gone(i)
      BY <3>1, GameOf DEF IInv, Gone
    <3>3. QED
      BY <1>1, <1>4, <3>1, <3>2
  <2>3. QED
    BY <2>1, <2>2 DEF Selected, Taken
<1>10. InLine'
  <2>1. \A n \in DOMAIN backlog : \A f \in Fd : sock'[f] # Free => sock'[f] < backlog[n]
    BY <1>4 DEF IInv, InLine
  <2>2. Listen \in todo' => Listen \in todo
    BY <1>1
  <2>3. /\ \A d, e \in Client : d < e /\ player[e].state # "new" => player[d].state # "new"
        /\ \A n \in DOMAIN backlog : player[backlog[n]].state # "new" /\ partner[backlog[n]] = Nobody
        /\ \A m, n \in DOMAIN backlog : m < n => backlog[m] < backlog[n]
        /\ \A d \in Client : player[d].state = "new" => partner[d] = Nobody
        /\ Listen \in todo => backlog # <<>>
    BY DEF IInv, InLine
  <2>4. QED
    BY <1>1, <2>1, <2>2, <2>3 DEF InLine, Taken
<1>11. Lively' /\ MovesReachThePartner' /\ Play'
  BY <1>1, FadedKeeps
<1>12. Strangers'
  <2>1. ASSUME NEW d \in Client, ~SharedFd, partner[d] = Nobody
        PROVE  conn'[d].peer = conn[d].peer
    <3>1. sock[Other(i)] # d
      BY <1>1, <1>3, <2>1, GoneTogether, Numbers DEF Taken
    <3>2. QED
      BY <3>1 DEF Leaves
  <2>2. QED
    BY <1>1, <2>1, FadedStrangers
<1>13. ASSUME ~SharedFd
       PROVE  Tables' /\ WaitsAlone' /\ ZeroIsShortLived'
  <2>1. /\ Occurs(i) => /\ \A f \in Gone(i) : Occurs(f) /\ f \in Fd
                        /\ \A g \in DOMAIN p : \/ Gone(i) = {p[g].player1, p[g].player2}
                                               \/ Gone(i) \cap {p[g].player1, p[g].player2} = {}
                        /\ i \in Gone(i)
        /\ ~Occurs(i) => /\ Gone(i) = {Stdin} /\ i = waiting /\ i # Stdin /\ ~Taken(Stdin)
        /\ ~Occurs(waiting) /\ waiting # NoFd => waiting \notin Gone(i)
    BY <1>1, <1>3, <1>13, GoneTogether
  <2>2. \A f \in Fd : Seated(f)' <=> Seated(f) /\ f \notin Gone(i)
    BY <1>1, <1>4 DEF Seated, Taken
  <2>3. Tables'
    <3>1. ASSUME NEW g \in DOMAIN p
          PROVE  /\ p[g].player1 # p[g].player2
                 /\ Seated(p[g].player1)' <=> Seated(p[g].player2)'
                 /\ Seated(p[g].player1)' => /\ partner[sock'[p[g].player1]] = sock'[p[g].player2]
                                             /\ partner[sock'[p[g].player2]] = sock'[p[g].player1]
      <4> DEFINE a == p[g].player1
                 b == p[g].player2
      <4>1. /\ a # b /\ (Seated(a) <=> Seated(b))
            /\ Seated(a) => partner[sock[a]] = sock[b] /\ partner[sock[b]] = sock[a]
        BY <1>13 DEF IInv, Tables
      <4>2. a \in Fd /\ b \in Fd
        BY GamePlayers DEF IInv
      <4>3. Seated(a) => (a \in Gone(i) <=> b \in Gone(i))
        <5>1. CASE Occurs(i)
          BY <2>1, <5>1
        <5>2. CASE ~Occurs(i)
          BY <2>1, <4>1, <5>2 DEF Seated
        <5>3. QED
          BY <5>1, <5>2
      <4> HIDE DEF a, b
      <4>4. (sock'[a] # Free /\ a # waiting <=> Seated(a) /\ a \notin Gone(i))
            /\ (sock'[b] # Free /\ b # waiting <=> Seated(b) /\ b \notin Gone(i))
        BY <1>4, <4>2 DEF Seated
      <4>5. /\ sock'[a] # Free /\ a # waiting <=> sock'[b] # Free /\ b # waiting
            /\ sock'[a] # Free /\ a # waiting => partner[sock'[a]] = sock'[b] /\ partner[sock'[b]] = sock'[a]
        BY <1>4, <4>1, <4>2, <4>3, <4>4
      <4>6. QED
        BY <1>1, <4>1, <4>5 DEF Seated, Taken, a, b
    <3>2. \A f \in Fd : Seated(f)' => Occurs(f)
      BY <1>13, <2>2 DEF IInv, Tables
    <3>3. \A d \in Client : partner[d] # Nobody => partner[partner[d]] = d /\ partner[d] # d
      BY <1>13 DEF IInv, Tables
    <3>4. QED
      BY <1>1, <1>5, <3>1, <3>2, <3>3 DEF Tables
  <2>4. WaitsAlone'
    <3> SUFFICES ASSUME waiting # NoFd
                 PROVE  /\ sock'[waiting] # Free => partner[sock'[waiting]] = Nobody
                        /\ ~Occurs(waiting) => /\ sock'[waiting] # Free /\ waiting # Stdin
                                               /\ waiting \in readFds'
                                               /\ waiting \in todo' => conn'[sock'[waiting]].peer # "open"
      BY <1>1, <1>5 DEF WaitsAlone, Taken
    <3>1. waiting \in Fd
      BY <1>2
    <3>2. /\ Taken(waiting) => partner[sock[waiting]] = Nobody
          /\ ~Occurs(waiting) => /\ Taken(waiting) /\ waiting # Stdin /\ waiting \in readFds
                                 /\ waiting \in todo => conn[sock[waiting]].peer # "open"
      BY <1>1, <1>13 DEF IInv, WaitsAlone
    <3>3. sock'[waiting] # Free => partner[sock'[waiting]] = Nobody
      BY <1>4, <3>1, <3>2
    <3>4. ASSUME ~Occurs(waiting)
          PROVE  /\ sock'[waiting] = sock[waiting] /\ waiting \in readFds'
                 /\ sock'[waiting] # Free /\ sock'[waiting] \in Client
      BY <1>1, <1>2, <1>4, <2>1, <3>1, <3>2, <3>4
    <3>5. QED
      BY <1>1, <1>6, <3>2, <3>3, <3>4
  <2>5. ZeroIsShortLived'
    <3>1. ASSUME ~stdin', ~Occurs(Stdin)
          PROVE  /\ waiting # NoFd /\ ~Occurs(waiting) /\ conn'[sock'[waiting]].peer # "open"
                 /\ Listen \in todo' => waiting \in todo'
      <4>1. waiting # NoFd /\ ~Occurs(waiting) /\ conn[sock[waiting]].peer # "open"
            /\ (Listen \in todo => waiting \in todo)
        <5>1. CASE ~stdin
          BY <1>1, <1>13, <3>1, <5>1 DEF IInv, ZeroIsShortLived
        <5>2. CASE stdin
          <6>1. Stdin \in Gone(i)
            BY <1>1, <3>1, <5>2
          <6>2. ~Occurs(i)
            BY <2>1, <3>1, <6>1
          <6>3. i = waiting /\ i # Stdin
            BY <2>1, <6>2
          <6>4. conn[sock[waiting]].peer # "open" /\ waiting # NoFd
            BY <1>1, <1>2, <1>13, <6>2, <6>3 DEF IInv, WaitsAlone
          <6>5. QED
            BY <1>1, <6>2, <6>3, <6>4
        <5>3. QED
          BY <5>1, <5>2
      <4>2. waiting \in Fd /\ Taken(waiting) /\ waiting # Stdin /\ waiting \notin Gone(i)
        BY <1>2, <1>13, <2>1, <4>1 DEF IInv, WaitsAlone
      <4>3. sock'[waiting] = sock[waiting] /\ sock[waiting] \in Client
        BY <1>2, <1>4, <4>2 DEF Taken
      <4>4. QED
        BY <1>1, <1>6, <4>1, <4>2, <4>3
    <3>2. ASSUME Seated(Stdin)'
          PROVE  /\ waiting = NoFd /\ Listen \notin todo'
                 /\ \E g \in DOMAIN p :
                      /\ p[g].player2 = Stdin /\ p[g].player1 \in todo' \ {Listen}
                      /\ conn'[sock'[p[g].player1]].peer # "open"
                      /\ conn'[sock'[p[g].player1]].toServer = <<>>
      <4>1. Seated(Stdin) /\ Stdin \notin Gone(i)
        BY <1>2, <2>2, <3>2
      <4>2. waiting = NoFd /\ Listen \notin todo
        BY <1>1, <1>13, <4>1 DEF IInv, ZeroIsShortLived
      <4>3. PICK g \in DOMAIN p : /\ p[g].player2 = Stdin /\ p[g].player1 \in todo \ {Listen}
                                  /\ conn[sock[p[g].player1]].peer # "open"
                                  /\ conn[sock[p[g].player1]].toServer = <<>>
        BY <1>1, <1>13, <4>1 DEF IInv, ZeroIsShortLived
      <4> DEFINE a == p[g].player1
      <4>4. a \in Fd /\ Seated(a)
        <5>1. Seated(p[g].player1) <=> Seated(p[g].player2)
          BY <1>13 DEF IInv, Tables
        <5>2. QED
          BY <4>1, <4>3, <5>1, GamePlayers DEF IInv
      <4>5. a \notin Gone(i) /\ a # i
        BY <1>2, <2>1, <4>1, <4>2, <4>3
      <4> HIDE DEF a
      <4>6. sock'[a] = sock[a] /\ sock[a] \in Client /\ a \in todo' \ {Listen}
        BY <1>1, <1>2, <1>4, <4>3, <4>4, <4>5 DEF Seated, Taken, a
      <4>7. conn'[sock[a]].toServer \in {conn[sock[a]].toServer, <<>>}
        BY <1>1, <4>6 DEF Faded, Softer
      <4>8. conn'[sock'[a]].toServer = <<>> /\ conn'[sock'[a]].peer # "open"
        BY <1>6, <4>3, <4>6, <4>7 DEF a
      <4>9. QED
        BY <1>1, <4>2, <4>3, <4>6, <4>8 DEF a
    <3>3. QED
      BY <1>1, <1>5, <3>1, <3>2 DEF ZeroIsShortLived
  <2>6. QED
    BY <2>3, <2>4, <2>5
<1>14. Tables' /\ WaitsAlone' /\ ZeroIsShortLived'
  <2>1. SharedFd => Tables' /\ WaitsAlone' /\ ZeroIsShortLived'
    BY <1>5 DEF Tables, WaitsAlone, ZeroIsShortLived
  <2>2. QED
    BY <1>13, <2>1
<1>15. Whole'
  <2> SUFFICES ASSUME ~Abandoned
               PROVE  /\ server' = "up" /\ ~SharedFd /\ sock'[Stdin] = Free
                      /\ \A g \in DOMAIN p : Seated(p[g].player1)' /\ Seated(p[g].player2)'
                      /\ \A j \in todo' \ {Listen} : sock'[j] # Free /\ ServerReadable(conn'[sock'[j]])
    BY <1>1, <1>5 DEF Whole, Taken
  <2>1. /\ ~SharedFd /\ ~Taken(Stdin)
        /\ \A g \in DOMAIN p : Seated(p[g].player1) /\ Seated(p[g].player2)
        /\ \A j \in todo \ {Listen} : Taken(j) /\ ServerReadable(conn[sock[j]])
    BY DEF IInv, Whole
  <2>2. partner[c] = Nobody
    <3>1. ServerReadable(conn[c])
      BY <1>1, <1>2, <2>1
    <3>2. conn[c].peer # "open"
      BY <1>1, <3>1 DEF ServerReadable
    <3>3. QED
      BY <3>2 DEF IInv, Lively, Abandoned
  <2>3. i = waiting
    BY <1>1, <1>3, <2>1, <2>2, Mates DEF Seated, Taken, Free, Nobody
  <2>4. ~Occurs(i)
    BY <2>1, <2>3 DEF Occurs, Seated
  <2>5. Gone(i) = {Stdin}
    BY <1>1, <1>3, <2>1, <2>4, GoneTogether
  <2>6. \A f \in Fd : sock'[f] = sock[f]
    BY <1>4, <2>1, <2>5 DEF Taken
  <2>7. \A d \in Client : conn'[d] = conn[d]
    BY <2>1, <2>5, Numbers DEF Leaves, Taken
  <2>8. \A g \in DOMAIN p : Seated(p[g].player1)' /\ Seated(p[g].player2)'
    BY <1>1, <2>1, <2>6, GamePlayers DEF Seated, Taken, IInv
  <2>9. \A j \in todo' \ {Listen} : sock'[j] # Free /\ ServerReadable(conn'[sock'[j]])
    <3> SUFFICES ASSUME NEW j \in todo' \ {Listen}
                 PROVE  sock'[j] # Free /\ ServerReadable(conn'[sock'[j]])
      OBVIOUS
    <3>1. j \in todo \ {Listen} /\ j \in Fd
      BY <1>1, <1>2
    <3>2. Taken(j) /\ ServerReadable(conn[sock[j]]) /\ sock'[j] = sock[j]
      BY <2>1, <2>6, <3>1
    <3>3. sock[j] \in Client
      BY <1>2, <3>1, <3>2 DEF Taken
    <3>4. QED
      BY <2>7, <3>2, <3>3 DEF Taken
  <2>10. QED
    BY <1>1, <1>2, <2>1, <2>6, <2>8, <2>9 DEF Taken
<1>16. QED
  BY <1>7, <1>8, <1>9, <1>10, <1>11, <1>12, <1>14, <1>15 DEF IInv

\* What a relayed message does to the connections.
LEMMA RelayEffect ==
  ASSUME IInv, NEW i \in Fd, NEW c \in Client, Relays(i, c)
  PROVE  /\ conn' \in Connections /\ conn'[c].toServer = <<>>
         /\ \A d \in Client :
               /\ conn'[d].end = conn[d].end
               /\ conn'[d].peer = "open" <=> conn[d].peer = "open"
               /\ d # c => conn'[d].toServer = conn[d].toServer
               /\ conn[d].peer # "open" => conn'[d].toClient = conn[d].toClient
               /\ conn[d].peer = "open" /\ sock[Other(i)] = d =>
                     conn'[d].toClient = conn[d].toClient \o conn[c].toServer
               /\ sock[Other(i)] # d =>
                     conn'[d].toClient = conn[d].toClient /\ conn'[d].peer = conn[d].peer
<1> DEFINE data == conn[c].toServer
           none == <<>>
           k == [conn[c] EXCEPT !.toServer = none]
           read == [conn EXCEPT ![c] = k]
<1>1. /\ conn \in Connections /\ sock \in [Fd -> Client \cup {Free}] /\ Other(i) \in Fd
      /\ none \in Seq(Message) /\ conn[c] \in Connection(Message, Message)
  BY GameOf DEF IInv, TypeOK, Connections
<1>2. conn' = Sent(sock, read, Other(i), data) /\ none = <<>>
  BY DEF Relays
<1> HIDE DEF none
<1>3. /\ k \in Connection(Message, Message) /\ k.toServer = none /\ k.toClient = conn[c].toClient
      /\ k.peer = conn[c].peer /\ k.end = conn[c].end /\ data \in Seq(Message)
  BY <1>1 DEF Connection
<1> HIDE DEF k, data
<1>4. read \in Connections /\ \A d \in Client : read[d] = IF d = c THEN k ELSE conn[d]
  BY <1>1, <1>3 DEF Connections
<1> HIDE DEF read
<1>5. /\ conn' \in Connections
      /\ \A d \in Client : conn'[d] = IF sock[Other(i)] = d THEN ServerSends(read[d], data) ELSE read[d]
  <2>1. /\ Sent(sock, read, Other(i), data) \in Connections
        /\ \A d \in Client : Sent(sock, read, Other(i), data)[d]
              = IF sock[Other(i)] = d THEN ServerSends(read[d], data) ELSE read[d]
    BY <1>1, <1>3, <1>4, SentEffect
  <2>2. QED
    BY <1>2, <2>1
<1>6. ASSUME NEW d \in Client
      PROVE  /\ conn'[d].end = conn[d].end
             /\ conn'[d].peer = "open" <=> conn[d].peer = "open"
             /\ d # c => conn'[d].toServer = conn[d].toServer
             /\ d = c => conn'[d].toServer = none
             /\ conn[d].peer # "open" => conn'[d].toClient = conn[d].toClient
             /\ conn[d].peer = "open" /\ sock[Other(i)] = d =>
                   conn'[d].toClient = conn[d].toClient \o data
             /\ sock[Other(i)] # d =>
                   conn'[d].toClient = conn[d].toClient /\ conn'[d].peer = conn[d].peer
  <2>1. /\ read[d] \in Connection(Message, Message) /\ read[d].end = conn[d].end
        /\ read[d].peer = conn[d].peer /\ read[d].toClient = conn[d].toClient
        /\ d # c => read[d].toServer = conn[d].toServer
        /\ d = c => read[d].toServer = none
    BY <1>3, <1>4 DEF Connections
  <2>2. CASE sock[Other(i)] = d
    <3> DEFINE l == ServerSends(read[d], data)
    <3>1. conn'[d] = l
      BY <1>5, <2>2
    <3>2. /\ l.toServer = read[d].toServer /\ l.end = read[d].end
          /\ read[d].peer = "open" => l.peer = "open" /\ l.toClient = read[d].toClient \o data
          /\ read[d].peer # "open" => l.peer # "open" /\ l.toClient = read[d].toClient
      <4>1. read[d] \in Connection(Message, Message) /\ data \in Seq(Message)
        BY <1>3, <2>1
      <4>2. QED
        BY <4>1, ServerSendsEffect
    <3> HIDE DEF l
    <3>3. QED
      BY <2>1, <2>2, <3>1, <3>2
  <2>3. CASE sock[Other(i)] # d
    BY <1>5, <2>1, <2>3
  <2>4. QED
    BY <2>2, <2>3
<1>7. QED
  BY <1>2, <1>5, <1>6 DEF data

\* A message is relayed to the partner of the client that has sent it.
LEMMA RelayMates ==
  ASSUME IInv, ~SharedFd, NEW i \in Fd, NEW c \in Client, Relays(i, c)
  PROVE  /\ sock[Other(i)] \in Client /\ sock[Other(i)] # c
         /\ partner[c] = sock[Other(i)] /\ partner[sock[Other(i)]] = c
<1>1. Taken(i) /\ c = sock[i] /\ conn[c].toServer # <<>>
  BY Numbers DEF Relays, Serves, Taken
<1>2. partner[c] # Nobody
  BY <1>1 DEF IInv, Strangers
<1>3. Seated(Other(i)) /\ partner[c] = sock[Other(i)] /\ partner[sock[Other(i)]] = c
  BY <1>1, <1>2, Mates
<1>4. sock \in [Fd -> Client \cup {Free}] /\ Other(i) \in Fd
  BY GameOf DEF IInv, TypeOK
<1>5. sock[Other(i)] \in Client
  BY <1>3, <1>4 DEF Seated, Taken
<1>6. partner[c] # c
  BY <1>2 DEF IInv, Tables
<1>7. QED
  BY <1>3, <1>5, <1>6

\* The right to move travels on to the partner.
LEMMA RelaysPlay ==
  ASSUME IInv, ~SharedFd, NEW i \in Fd, NEW c \in Client, Relays(i, c), NEW e \in Client, e = partner[c],
         Together(c, e)
  PROVE  /\ OneRight(c, e)' /\ Openings(c, e)' /\ Boards(c, e)' /\ Standstill(c, e)'
         /\ OneRight(e, c)' /\ Openings(e, c)' /\ Boards(e, c)' /\ Standstill(e, c)'
<1>0. /\ player' = player /\ partner' = partner /\ e = sock[Other(i)] /\ e # c
      /\ partner[e] = c /\ conn[c].toServer # <<>>
  BY RelayMates DEF Relays, Serves
<1>1. /\ OneRight(c, e) /\ Openings(c, e) /\ Boards(c, e) /\ Standstill(c, e)
      /\ OneRight(e, c) /\ Openings(e, c) /\ Boards(e, c) /\ Standstill(e, c)
  <2>1. Together(e, c)
    BY DEF Together, NoReset
  <2>2. QED
    BY <2>1 DEF IInv, Play
<1>2. /\ conn'[c].toServer = <<>> /\ conn'[e].toServer = conn[e].toServer
      /\ conn'[c].toClient = conn[c].toClient
      /\ conn[e].peer = "open" => conn'[e].toClient = conn[e].toClient \o conn[c].toServer
      /\ conn[e].peer # "open" => conn'[e].toClient = conn[e].toClient
      /\ conn'[c].end = conn[c].end /\ conn'[e].end = conn[e].end
  BY <1>0, RelayEffect
<1>3. /\ Len(conn[c].toServer) = 1 /\ conn[e].toServer = <<>> /\ Coming(c) = {} /\ Coming(e) = {}
      /\ ~Hold(c) /\ ~Hold(e)
  BY <1>0, <1>1 DEF OneRight
<1> DEFINE m == conn[c].toServer[1]
           s == conn[e].toClient
           t == conn'[e].toClient
<1>4. /\ conn[c].toServer \in Seq(Message) /\ s \in Seq(Message)
  <2>1. conn[c] \in Connection(Message, Message) /\ conn[e] \in Connection(Message, Message)
    BY DEF IInv, TypeOK
  <2>2. QED
    BY <2>1 DEF Connection
<1>5. 1 \in DOMAIN conn[c].toServer
  BY <1>3, <1>4
<1>6. m.kind = "move" /\ m.from = c
  BY <1>5 DEF IInv, Lively
<1>7. player[c].board[m.sq] = Mark(c) /\ \A sq \in Differ(c, e) : sq = m.sq
  BY <1>1, <1>5 DEF Boards
<1>8. /\ conn[e].peer = "open" => /\ Len(t) = Len(s) + 1 /\ t[Len(s) + 1] = m
                                  /\ \A n \in DOMAIN s : n \in DOMAIN t /\ t[n] = s[n]
                                  /\ DOMAIN t = 1 .. Len(s) + 1
      /\ conn[e].peer # "open" => t = s
      /\ DOMAIN s = 1 .. Len(s) /\ Len(s) \in Nat
  <2>1. DOMAIN s = 1 .. Len(s) /\ Len(s) \in Nat
    BY <1>4
  <2>2. CASE conn[e].peer = "open"
    <3>1. t = s \o conn[c].toServer
      BY <1>2, <2>2
    <3> HIDE DEF t, m, s
    <3>2. \A u : u = s \o conn[c].toServer =>
             /\ Len(u) = Len(s) + 1 /\ u[Len(s) + 1] = conn[c].toServer[1]
             /\ \A n \in 1 .. Len(s) : u[n] = s[n]
             /\ DOMAIN u = 1 .. Len(s) + 1
      <4> SUFFICES ASSUME NEW r, r = conn[c].toServer, NEW u, u = s \o r
                   PROVE  /\ Len(u) = Len(s) + 1 /\ u[Len(s) + 1] = r[1]
                          /\ \A n \in 1 .. Len(s) : u[n] = s[n]
                          /\ DOMAIN u = 1 .. Len(s) + 1
        OBVIOUS
      <4>1. r \in Seq(Message) /\ s \in Seq(Message) /\ Len(r) = 1
        BY <1>3, <1>4
      <4>2. /\ u \in Seq(Message) /\ Len(u) = Len(s) + Len(r)
            /\ \A n \in 1 .. Len(s) + Len(r) : u[n] = IF n <= Len(s) THEN s[n] ELSE r[n - Len(s)]
        BY <4>1, ConcatProperties
      <4>3. QED
        BY <2>1, <4>1, <4>2
    <3>3. QED
      BY <2>1, <2>2, <3>1, <3>2 DEF m
  <2>3. CASE conn[e].peer # "open"
    BY <1>2, <2>1, <2>3
  <2>4. QED
    BY <2>2, <2>3
<1> HIDE DEF m, s, t
<1>9. \A n \in DOMAIN t : \/ n \in DOMAIN s /\ t[n] = s[n]
                          \/ n = Len(s) + 1 /\ t[n] = m /\ conn[e].peer = "open"
  BY <1>8
<1>10. \A n \in DOMAIN s : s[n].kind = "z"
  BY <1>3 DEF Coming, s
<1>11. \A n \in DOMAIN conn[c].toClient : conn[c].toClient[n].kind = "z"
  BY <1>3 DEF Coming
<1>12. /\ ~(Hold(c)') /\ ~(Hold(e)') /\ (Mark(c)' = Mark(c)) /\ (Mark(e)' = Mark(e))
       /\ (Playing(c)' <=> Playing(c)) /\ (Playing(e)' <=> Playing(e))
       /\ (Differ(c, e)' = Differ(c, e)) /\ (Differ(e, c)' = Differ(c, e))
       /\ Coming(c)' = {}
  BY <1>0, <1>2, <1>3, <1>11 DEF Hold, Mark, Playing, Differ, Coming
<1>13. /\ \A n \in Coming(e)' : n = Len(s) + 1
       /\ conn[e].peer = "open" => Len(s) + 1 \in Coming(e)'
  <2>1. /\ \A n \in DOMAIN t : t[n].kind # "z" => n = Len(s) + 1
        /\ conn[e].peer = "open" => Len(s) + 1 \in DOMAIN t /\ t[Len(s) + 1].kind # "z"
    BY <1>6, <1>8, <1>9, <1>10
  <2>2. QED
    BY <2>1 DEF Coming, t
<1>14. OneRight(c, e)' /\ OneRight(e, c)'
  BY <1>2, <1>3, <1>12, <1>13 DEF OneRight
<1>15. Openings(c, e)'
  BY <1>0, <1>1, <1>2, <1>12 DEF Openings
<1>16. Openings(e, c)'
  <2>1. /\ Playing(e) /\ ~player[e].inGame =>
              /\ s # <<>> /\ s[1].kind = IF e < c THEN "x" ELSE "z"
              /\ player[e].board = BlankBoard
        /\ \A n \in DOMAIN s : n > 1 \/ player[e].inGame => s[n].kind = "move"
        /\ player[e].inGame => player[e].symbol = Mark(e)
    BY <1>1 DEF Openings, s
  <2>2. s # <<>> => 1 \in DOMAIN s /\ t # <<>> /\ t[1] = s[1]
    <3> SUFFICES ASSUME s # <<>> PROVE 1 \in DOMAIN s /\ t # <<>> /\ t[1] = s[1]
      OBVIOUS
    <3>1. 1 \in DOMAIN s
      BY <1>4
    <3>2. t[1] = s[1] /\ 1 \in DOMAIN t
      BY <1>8, <3>1
    <3>3. QED
      BY <3>1, <3>2
  <2>3. \A n \in DOMAIN t : n > 1 \/ player[e].inGame => t[n].kind = "move"
    BY <1>6, <1>9, <2>1
  <2>4. QED
    BY <1>0, <1>12, <2>1, <2>2, <2>3 DEF Openings, t, BlankBoard
<1>17. Boards(c, e)'
  <2>1. \A q, r \in Differ(c, e) : q = r
    BY <1>1 DEF Boards
  <2>2. QED
    BY <1>2, <1>11, <1>12, <2>1 DEF Boards
<1>18. Boards(e, c)'
  <2>1. \A q, r \in Differ(c, e) : q = r
    BY <1>1 DEF Boards
  <2>2. \A n \in DOMAIN t : t[n].kind = "z" \/ t[n] = m
    BY <1>9, <1>10
  <2>3. conn'[e].toServer = <<>>
    BY <1>2, <1>3
  <2>4. \A n \in DOMAIN t :
          /\ t[n].kind = "x" => Differ(c, e) = {}
          /\ t[n].kind = "move" => /\ t[n].from = c /\ player[c].board[t[n].sq] = Mark(c)
                                   /\ \A sq \in Differ(c, e) : sq = t[n].sq
    BY <1>6, <1>7, <2>2
  <2>5. QED
    BY <1>0, <1>12, <2>1, <2>3, <2>4 DEF Boards, t
<1>19. Standstill(c, e)' /\ Standstill(e, c)'
  <2>1. CASE conn[e].peer = "open"
    BY <1>13, <2>1 DEF Standstill, Lost
  <2>2. CASE conn[e].peer # "open"
    <3>1. ~Playing(e)
      BY <2>2 DEF IInv, Lively, Playing
    <3>2. QED
      BY <1>12, <3>1 DEF Standstill, On
  <2>3. QED
    BY <2>1, <2>2
<1>20. QED
  BY <1>14, <1>15, <1>16, <1>17, <1>18, <1>19

\* The server relays what a player has sent.
LEMMA RelaysKeeps ==
  ASSUME IInv, NEW i \in Fd, NEW c \in Client, Relays(i, c)
  PROVE  IInv'
<1>1. /\ server = "up" /\ server' = "up" /\ i \in todo /\ todo' = todo \ {i} /\ c = sock[i]
      /\ Listen \in todo => i = Stdin
      /\ p' = p /\ waiting' = waiting /\ backlog' = backlog /\ player' = player
      /\ partner' = partner /\ readFds' = readFds /\ sock' = sock /\ stdin' = stdin
      /\ conn[c].toServer # <<>>
  BY DEF Relays, Serves
<1>2. /\ sock \in [Fd -> Client \cup {Free}] /\ waiting \in Fd \cup {NoFd}
      /\ todo \subseteq Fd \cup {Listen} /\ Listen \notin Fd /\ Stdin \in Fd /\ NoFd \notin Fd
  BY Numbers DEF IInv, TypeOK
<1>3. /\ conn' \in Connections /\ conn'[c].toServer = <<>>
      /\ \A d \in Client :
            /\ conn'[d].end = conn[d].end
            /\ conn'[d].peer = "open" <=> conn[d].peer = "open"
            /\ d # c => conn'[d].toServer = conn[d].toServer
            /\ conn[d].peer # "open" => conn'[d].toClient = conn[d].toClient
            /\ conn[d].peer = "open" /\ sock[Other(i)] = d =>
                  conn'[d].toClient = conn[d].toClient \o conn[c].toServer
            /\ sock[Other(i)] # d =>
                  conn'[d].toClient = conn[d].toClient /\ conn'[d].peer = conn[d].peer
  BY RelayEffect
<1>4. /\ SharedFd' <=> SharedFd
      /\ Abandoned' <=> Abandoned
  BY <1>1 DEF SharedFd, Abandoned
<1>5. TypeOK'
  BY <1>1, <1>2, <1>3 DEF IInv, TypeOK, Connections
<1>6. Seats' /\ InLine'
  BY <1>1, <1>2 DEF IInv, Seats, InLine, Taken
<1>7. Selected'
  <2>1. Listen \in todo' => Listen \in todo
    BY <1>1
  <2>2. Listen \in todo' =>
          \/ \A f \in todo' \ {Listen} : Taken(f)
          \/ ~stdin /\ ~Taken(Stdin) /\ Stdin \notin todo'
    BY <1>1, <2>1 DEF IInv, Selected
  <2>3. \A f \in readFds : Taken(f)
    BY DEF IInv, Selected
  <2>4. QED
    BY <1>1, <2>2, <2>3 DEF Selected, Taken
<1>8. Lively'
  <2> SUFFICES ASSUME NEW d \in Client
               PROVE  /\ player[d].state = "ended" <=> conn'[d].peer # "open"
                      /\ player[d].state = "ended" => conn'[d].toClient = <<>>
                      /\ player[d].turn => player[d].inGame
                      /\ player[d].state = "new" => ~player[d].inGame
                      /\ \A n \in DOMAIN conn'[d].toServer :
                            conn'[d].toServer[n].kind = "move" /\ conn'[d].toServer[n].from = d
    BY <1>1 DEF Lively
  <2>1. /\ player[d].state = "ended" <=> conn[d].peer # "open"
        /\ player[d].state = "ended" => conn[d].toClient = <<>>
        /\ player[d].turn => player[d].inGame
        /\ player[d].state = "new" => ~player[d].inGame
        /\ \A n \in DOMAIN conn[d].toServer :
              conn[d].toServer[n].kind = "move" /\ conn[d].toServer[n].from = d
    BY DEF IInv, Lively
  <2>2. \A s : s = <<>> => DOMAIN s = {}
    OBVIOUS
  <2>3. \A n \in DOMAIN conn'[d].toServer :
            conn'[d].toServer[n].kind = "move" /\ conn'[d].toServer[n].from = d
    <3>1. CASE d = c
      BY <1>3, <2>2, <3>1
    <3>2. CASE d # c
      BY <1>3, <2>1, <3>2
    <3>3. QED
      BY <3>1, <3>2
  <2>4. QED
    BY <1>3, <2>1, <2>3
<1>9. Tables'
  BY <1>1, <1>4 DEF IInv, Tables, Seated, Taken, Occurs
<1>10. WaitsAlone'
  <2> SUFFICES ASSUME ~SharedFd, waiting # NoFd, ~Occurs(waiting), waiting \in todo'
               PROVE  conn'[sock[waiting]].peer # "open"
    BY <1>1, <1>4 DEF IInv, WaitsAlone, Taken, Occurs
  <2>1. Taken(waiting) /\ waiting \in Fd /\ conn[sock[waiting]].peer # "open"
    BY <1>1, <1>2 DEF IInv, WaitsAlone
  <2>2. sock[waiting] \in Client
    BY <1>2, <2>1 DEF Taken
  <2>3. QED
    BY <1>3, <2>1, <2>2
<1>11. Strangers'
  <2> SUFFICES ASSUME ~SharedFd, NEW d \in Client, partner[d] = Nobody
               PROVE  /\ conn'[d].toClient = <<>> /\ conn'[d].toServer = <<>>
                      /\ conn'[d].end \in {"open", "fin"}
                      /\ conn'[d].peer \in {"open", "fin"}
                      /\ ~player[d].inGame /\ player[d].board = BlankBoard
    BY <1>1, <1>4 DEF Strangers, BlankBoard
  <2>1. sock[Other(i)] # d /\ d # c
    BY RelayMates, Numbers
  <2>2. /\ conn[d].toClient = <<>> /\ conn[d].toServer = <<>>
        /\ conn[d].end \in {"open", "fin"} /\ conn[d].peer \in {"open", "fin"}
        /\ ~player[d].inGame /\ player[d].board = BlankBoard
    BY <1>1 DEF IInv, Strangers
  <2>3. QED
    BY <1>3, <2>1, <2>2
<1>12. ZeroIsShortLived'
  <2> SUFFICES ASSUME ~SharedFd
               PROVE  /\ ~stdin /\ ~Occurs(Stdin) =>
                           /\ waiting # NoFd /\ ~Occurs(waiting) /\ conn'[sock[waiting]].peer # "open"
                           /\ Listen \in todo' => waiting \in todo'
                      /\ Seated(Stdin) =>
                           /\ waiting = NoFd /\ Listen \notin todo'
                           /\ \E g \in DOMAIN p :
                                /\ p[g].player2 = Stdin /\ p[g].player1 \in todo' \ {Listen}
                                /\ conn'[sock[p[g].player1]].peer # "open"
                                /\ conn'[sock[p[g].player1]].toServer = <<>>
    BY <1>1, <1>4 DEF ZeroIsShortLived, Seated, Taken, Occurs
  <2>1. ASSUME ~stdin, ~Occurs(Stdin)
        PROVE  /\ waiting # NoFd /\ ~Occurs(waiting) /\ conn'[sock[waiting]].peer # "open"
               /\ Listen \in todo' => waiting \in todo'
    <3>1. /\ waiting # NoFd /\ ~Occurs(waiting) /\ conn[sock[waiting]].peer # "open"
          /\ Listen \in todo => waiting \in todo
      BY <1>1, <2>1 DEF IInv, ZeroIsShortLived
    <3>2. waiting \in Fd /\ Taken(waiting) /\ waiting # Stdin
      BY <1>2, <3>1 DEF IInv, WaitsAlone
    <3>3. sock[waiting] \in Client
      BY <1>2, <3>2 DEF Taken
    <3>4. QED
      BY <1>1, <1>3, <3>1, <3>2, <3>3
  <2>2. ASSUME Seated(Stdin)
        PROVE  /\ waiting = NoFd /\ Listen \notin todo'
               /\ \E g \in DOMAIN p :
                    /\ p[g].player2 = Stdin /\ p[g].player1 \in todo' \ {Listen}
                    /\ conn'[sock[p[g].player1]].peer # "open"
                    /\ conn'[sock[p[g].player1]].toServer = <<>>
    <3>1. waiting = NoFd /\ Listen \notin todo
      BY <1>1, <2>2 DEF IInv, ZeroIsShortLived
    <3>2. PICK g \in DOMAIN p : /\ p[g].player2 = Stdin /\ p[g].player1 \in todo \ {Listen}
                                /\ conn[sock[p[g].player1]].peer # "open"
                                /\ conn[sock[p[g].player1]].toServer = <<>>
      BY <1>1, <2>2 DEF IInv, ZeroIsShortLived
    <3> DEFINE a == p[g].player1
    <3>3. a \in Fd /\ Seated(a)
      <4>1. Seated(p[g].player1) <=> Seated(p[g].player2)
        BY DEF IInv, Tables
      <4>2. QED
        BY <2>2, <3>2, <4>1, GamePlayers DEF IInv
    <3> HIDE DEF a
    <3>4. sock[a] \in Client /\ conn[sock[a]].toServer = <<>> /\ conn[sock[a]].peer # "open"
      BY <1>2, <3>2, <3>3 DEF Seated, Taken, a
    <3>5. a # i /\ sock[a] # c
      BY <1>1, <3>4
    <3>6. conn'[sock[a]].toServer = <<>> /\ conn'[sock[a]].peer # "open"
      BY <1>3, <3>4, <3>5
    <3>7. a \in todo' \ {Listen}
      BY <1>1, <3>2, <3>5 DEF a
    <3>8. QED
      BY <1>1, <3>1, <3>2, <3>6, <3>7 DEF a
  <2>3. QED
    BY <2>1, <2>2
<1>13. Whole'
  <2> SUFFICES ASSUME ~Abandoned
               PROVE  /\ server' = "up" /\ ~SharedFd /\ ~Taken(Stdin)
                      /\ \A g \in DOMAIN p : Seated(p[g].player1) /\ Seated(p[g].player2)
                      /\ \A j \in todo' \ {Listen} : Taken(j) /\ ServerReadable(conn'[sock[j]])
    BY <1>1, <1>4 DEF Whole, Taken, Seated
  <2>1. /\ ~SharedFd /\ ~Taken(Stdin)
        /\ \A g \in DOMAIN p : Seated(p[g].player1) /\ Seated(p[g].player2)
        /\ \A j \in todo \ {Listen} : Taken(j) /\ ServerReadable(conn[sock[j]])
    BY DEF IInv, Whole
  <2>2. ASSUME NEW j \in todo' \ {Listen}
        PROVE  Taken(j) /\ ServerReadable(conn'[sock[j]])
    <3>1. j \in Fd /\ j # i /\ i \in Fd /\ Taken(j) /\ ServerReadable(conn[sock[j]])
      BY <1>1, <1>2, <2>1
    <3>2. sock[j] \in Client /\ sock[j] # c
      BY <1>1, <1>2, <3>1 DEF IInv, Seats, Taken
    <3>3. QED
      BY <1>3, <3>1, <3>2 DEF ServerReadable
  <2>3. QED
    BY <1>1, <2>1, <2>2
<1>14. ASSUME ~SharedFd
       PROVE  MovesReachThePartner' /\ Play'
  <2> DEFINE e == sock[Other(i)]
  <2>1. e \in Client /\ e # c /\ partner[c] = e /\ partner[e] = c
    BY <1>14, RelayMates
  <2> HIDE DEF e
  <2>2. \A d \in Client : d # e => conn'[d].toClient = conn[d].toClient
    BY <1>3 DEF e
  <2>3. \A d \in Client : d # e /\ d # c => conn'[d].toServer = conn[d].toServer
                                            /\ conn'[d].peer = conn[d].peer
    BY <1>3 DEF e
  <2>4. MovesReachThePartner'
    <3> SUFFICES ASSUME NEW d \in Client, NEW n \in DOMAIN conn'[d].toClient,
                        conn'[d].toClient[n].kind = "move"
                 PROVE  conn'[d].toClient[n].from = partner[d]
      BY <1>1 DEF MovesReachThePartner
    <3>1. CASE conn'[d].toClient = conn[d].toClient
      BY <1>14, <3>1 DEF IInv, MovesReachThePartner
    <3>2. CASE d = e /\ conn'[d].toClient = conn[d].toClient \o conn[c].toServer
      <4>1. conn[d].toClient \in Seq(Message) /\ conn[c].toServer \in Seq(Message)
        <5>1. conn[c] \in Connection(Message, Message) /\ conn[d] \in Connection(Message, Message)
          BY DEF IInv, TypeOK
        <5>2. QED
          BY <5>1 DEF Connection
      <4>2. /\ \A k \in DOMAIN conn[d].toClient :
                  conn[d].toClient[k].kind = "move" => conn[d].toClient[k].from = c
            /\ \A k \in DOMAIN conn[c].toServer : conn[c].toServer[k].from = c
        BY <1>14, <2>1, <3>2 DEF IInv, Lively, MovesReachThePartner
      <4>3. \/ n \in DOMAIN conn[d].toClient /\ conn'[d].toClient[n] = conn[d].toClient[n]
            \/ \E k \in DOMAIN conn[c].toServer : conn'[d].toClient[n] = conn[c].toServer[k]
        <5> DEFINE s == conn[d].toClient
                   r == conn[c].toServer
                   t == conn'[d].toClient
        <5>1. s \in Seq(Message) /\ r \in Seq(Message) /\ t = s \o r /\ n \in DOMAIN t
          BY <3>2, <4>1
        <5> HIDE DEF s, r, t
        <5>2. \/ n \in DOMAIN s /\ t[n] = s[n]
              \/ \E k \in DOMAIN r : t[n] = r[k]
          BY <5>1, ConcatElements
        <5>3. QED
          BY <5>2 DEF s, r, t
      <4>4. QED
        BY <2>1, <3>2, <4>2, <4>3
    <3>3. QED
      BY <1>3, <3>1, <3>2 DEF e
  <2>5. Play'
    <3> SUFFICES ASSUME NEW a \in Client, NEW b \in Client, Together(a, b)'
                 PROVE  OneRight(a, b)' /\ Openings(a, b)' /\ Boards(a, b)' /\ Standstill(a, b)'
      BY DEF Play
    <3>1. Together(a, b)
      BY <1>1, <1>3 DEF Together, NoReset
    <3>2. partner[a] = b /\ partner[b] = a
      BY <3>1 DEF Together
    <3>3. CASE a = c /\ b = e
      BY <1>14, <2>1, <3>1, <3>3, RelaysPlay
    <3>4. CASE a = e /\ b = c
      <4>1. Together(c, e)
        BY <3>1, <3>4 DEF Together, NoReset
      <4>2. QED
        BY <1>14, <2>1, <3>4, <4>1, RelaysPlay
    <3>5. CASE a \notin {c, e} /\ b \notin {c, e}
      <4>1. conn'[a] = conn[a] /\ conn'[b] = conn[b]
        <5>1. \A d \in {a, b} : conn[d] \in Connection(Message, Message)
                                /\ conn'[d] \in Connection(Message, Message)
          BY <1>3 DEF IInv, TypeOK, Connections
        <5>2. \A d \in {a, b} : /\ conn'[d].toClient = conn[d].toClient
                                /\ conn'[d].toServer = conn[d].toServer
                                /\ conn'[d].peer = conn[d].peer /\ conn'[d].end = conn[d].end
          BY <1>3, <2>2, <2>3, <3>5
        <5>3. \A k, l \in Connection(Message, Message) :
                 /\ k.toClient = l.toClient /\ k.toServer = l.toServer
                 /\ k.peer = l.peer /\ k.end = l.end
                 => k = l
          BY DEF Connection
        <5>4. QED
          BY <5>1, <5>2, <5>3
      <4>2. OneRight(a, b) /\ Openings(a, b) /\ Boards(a, b) /\ Standstill(a, b)
        BY <1>14, <3>1 DEF IInv, Play
      <4>3. QED
        BY <1>1, <4>1, <4>2, PairFrame
    <3>6. QED
      BY <2>1, <3>2, <3>3, <3>4, <3>5
  <2>6. QED
    BY <2>4, <2>5
<1>15. MovesReachThePartner' /\ Play'
  <2>1. SharedFd => MovesReachThePartner' /\ Play'
    BY <1>4 DEF MovesReachThePartner, Play
  <2>2. QED
    BY <1>14, <2>1
<1>16. QED
  BY <1>5, <1>6, <1>7, <1>8, <1>9, <1>10, <1>11, <1>12, <1>13, <1>15 DEF IInv

\* A connection is accepted: its client is the last one that has come.
LEMMA AcceptsKeeps ==
  ASSUME IInv, Accepts,
         \/ partner' = partner
         \/ \E w \in Client :
               /\ partner' = [partner EXCEPT ![Comer] = w, ![w] = Comer]
               /\ w = Comer \/ \E f \in Fd : Taken(f) /\ sock[f] = w
  PROVE  Seats' /\ Selected' /\ InLine'
<1>1. /\ Listen \in todo /\ todo' = todo \ {Listen}
      /\ readFds' = readFds \cup {Newest} /\ backlog' = Tail(backlog)
      /\ stdin' = stdin /\ player' = player
  BY DEF Accepts
<1>2. /\ Comer \in Client /\ Tail(backlog) \in Seq(Client) /\ backlog # <<>>
      /\ player[Comer].state # "new" /\ partner[Comer] = Nobody
      /\ \A f \in Fd : Taken(f) => sock[f] < Comer
      /\ Newest \in Fd /\ ~Taken(Newest)
      /\ Newest = Stdin <=> ~stdin /\ ~Taken(Stdin)
  BY <1>1, Newcomer DEF IInv
<1>3. /\ sock \in [Fd -> Client \cup {Free}] /\ Client \subseteq Int /\ readFds \subseteq Fd
      /\ Stdin \in Fd /\ Free \notin Client /\ backlog \in Seq(Client)
      /\ partner \in [Client -> Client \cup {Nobody}]
  BY Numbers DEF IInv, TypeOK
<1>4. \A f \in Fd : sock'[f] = IF f = Newest THEN Comer ELSE sock[f]
  <2>1. sock' = [sock EXCEPT ![Newest] = Comer]
    BY DEF Accepts, Opened
  <2>2. QED
    BY <1>2, <1>3, <2>1
<1>5. Seats'
  <2>1. \A f, g \in Fd : Taken(f) /\ sock[f] = sock[g] => f = g
    BY DEF IInv, Seats
  <2>2. \A f \in Fd : Taken(f) => player[sock[f]].state # "new"
    BY DEF IInv, Seats
  <2>3. stdin => ~Taken(Stdin)
    BY DEF IInv, Seats
  <2>4. \A f \in Fd : sock[f] # Comer
    BY <1>2, <1>3 DEF Taken
  <2>5. \A f, g \in Fd : sock'[f] # Free /\ sock'[f] = sock'[g] => f = g
    BY <1>4, <2>1, <2>4 DEF Taken
  <2>6. \A f \in Fd : sock'[f] # Free => player[sock'[f]].state # "new"
    BY <1>2, <1>4, <2>2 DEF Taken
  <2>7. stdin => sock'[Stdin] = Free
    BY <1>2, <1>3, <1>4, <2>3 DEF Taken
  <2>8. QED
    BY <1>1, <2>5, <2>6, <2>7 DEF Seats, Taken
<1>6. Selected'
  <2>1. \A f \in readFds' : sock'[f] # Free
    BY <1>1, <1>2, <1>3, <1>4 DEF IInv, Selected, Taken
  <2>2. QED
    BY <1>1, <2>1 DEF Selected, Taken
<1>7. InLine'
  <2> DEFINE s == Tail(backlog)
  <2>1. /\ 1 \in DOMAIN backlog /\ Comer = backlog[1] /\ DOMAIN s \subseteq Int
        /\ \A n \in DOMAIN s : n + 1 \in DOMAIN backlog /\ s[n] = backlog[n + 1] /\ 1 < n + 1
        /\ \A n \in DOMAIN backlog : backlog[n] \in Client
    BY <1>2, <1>3 DEF Comer
  <2> HIDE DEF s
  <2>2. /\ \A d, e \in Client : d < e /\ player[e].state # "new" => player[d].state # "new"
        /\ \A n \in DOMAIN backlog :
              /\ player[backlog[n]].state # "new" /\ partner[backlog[n]] = Nobody
              /\ \A f \in Fd : Taken(f) => sock[f] < backlog[n]
        /\ \A m, n \in DOMAIN backlog : m < n => backlog[m] < backlog[n]
        /\ \A d \in Client : player[d].state = "new" => partner[d] = Nobody
    BY DEF IInv, InLine
  <2>3. ASSUME NEW d \in Client, partner[d] = Nobody, d # Comer,
               \A f \in Fd : Taken(f) => sock[f] # d
        PROVE  partner'[d] = Nobody
    BY <1>2, <1>3, <2>3
  <2>4. ASSUME NEW n \in DOMAIN s
        PROVE  /\ player[s[n]].state # "new" /\ partner'[s[n]] = Nobody
               /\ \A f \in Fd : sock'[f] # Free => sock'[f] < s[n]
    <3>1. /\ s[n] \in Client /\ player[s[n]].state # "new" /\ partner[s[n]] = Nobody
          /\ \A f \in Fd : Taken(f) => sock[f] < s[n]
          /\ Comer < s[n]
      BY <2>1, <2>2
    <3>2. s[n] # Comer /\ \A f \in Fd : Taken(f) => sock[f] # s[n]
      <4>1. s[n] # Comer
        BY <1>2, <1>3, <3>1
      <4>2. ASSUME NEW f \in Fd, Taken(f) PROVE sock[f] # s[n]
        <5>1. sock[f] \in Client /\ sock[f] < s[n]
          BY <1>3, <3>1, <4>2 DEF Taken
        <5>2. sock[f] \in Int /\ s[n] \in Int
          BY <1>3, <3>1, <5>1
        <5>3. QED
          BY <5>1, <5>2
      <4>3. QED
        BY <4>1, <4>2
    <3>3. partner'[s[n]] = Nobody
      BY <2>3, <3>1, <3>2
    <3>4. QED
      BY <1>4, <3>1, <3>3 DEF Taken
  <2>5. \A m, n \in DOMAIN s : m < n => s[m] < s[n]
    BY <2>1, <2>2
  <2>6. \A d \in Client : player[d].state = "new" => partner'[d] = Nobody
    <3> SUFFICES ASSUME NEW d \in Client, player[d].state = "new" PROVE partner'[d] = Nobody
      OBVIOUS
    <3>1. \A f \in Fd : Taken(f) => sock[f] # d
      BY DEF IInv, Seats
    <3>2. QED
      BY <1>2, <2>2, <2>3, <3>1
  <2>7. QED
    BY <1>1, <2>2, <2>4, <2>5, <2>6 DEF InLine, Taken, s
<1>8. QED
  BY <1>5, <1>6, <1>7

\* A player sits down and waits.
LEMMA SitsDownKeeps ==
  ASSUME IInv, SitsDown
  PROVE  IInv'
<1>1. /\ server = "up" /\ server' = "up" /\ Listen \in todo /\ todo' = todo \ {Listen}
      /\ readFds' = readFds \cup {Newest} /\ backlog' = Tail(backlog)
      /\ stdin' = stdin /\ player' = player /\ p' = p /\ partner' = partner /\ conn' = conn
      /\ waiting = NoFd /\ waiting' = Newest
  BY DEF SitsDown, Accepts
<1>2. /\ Comer \in Client /\ Tail(backlog) \in Seq(Client) /\ backlog # <<>>
      /\ player[Comer].state # "new" /\ partner[Comer] = Nobody
      /\ \A f \in Fd : Taken(f) => sock[f] < Comer
      /\ Newest \in Fd /\ ~Taken(Newest)
      /\ Newest = Stdin <=> ~stdin /\ ~Taken(Stdin)
  BY <1>1, Newcomer DEF IInv
<1>3. /\ sock \in [Fd -> Client \cup {Free}] /\ todo \subseteq Fd \cup {Listen} /\ Client \subseteq Int
      /\ Listen \notin Fd /\ NoFd \notin Fd /\ Stdin \in Fd /\ Free \notin Client /\ backlog \in Seq(Client)
  BY Numbers DEF IInv, TypeOK
<1>4. /\ sock' \in [Fd -> Client \cup {Free}]
      /\ \A f \in Fd : sock'[f] = IF f = Newest THEN Comer ELSE sock[f]
  <2>1. sock' = [sock EXCEPT ![Newest] = Comer]
    BY DEF SitsDown, Accepts, Opened
  <2>2. QED
    BY <1>2, <1>3, <2>1
<1>5. /\ SharedFd' <=> SharedFd
      /\ Abandoned' <=> Abandoned
      /\ \A f : Occurs(f)' <=> Occurs(f)
  BY <1>1 DEF SharedFd, Abandoned, Occurs
<1>6. \A f \in Fd : /\ Seated(f)' <=> Seated(f)
                    /\ Taken(f) => f # Newest /\ sock'[f] = sock[f]
  BY <1>1, <1>2, <1>3, <1>4 DEF Seated, Taken
<1>7. TypeOK'
  <2>1. readFds' \subseteq Fd /\ todo' \subseteq Fd \cup {Listen}
    BY <1>1, <1>2, <1>3 DEF IInv, TypeOK
  <2>2. QED
    BY <1>1, <1>2, <1>4, <2>1 DEF IInv, TypeOK
<1>8. Seats' /\ Selected' /\ InLine'
  BY <1>1, AcceptsKeeps DEF SitsDown
<1>9. Lively'
  BY <1>1 DEF IInv, Lively
<1>10. Tables'
  <2> SUFFICES ASSUME ~SharedFd PROVE Tables'
    BY <1>5 DEF Tables
  <2>1. ASSUME NEW g \in DOMAIN p
        PROVE  /\ p[g].player1 # p[g].player2
               /\ Seated(p[g].player1)' <=> Seated(p[g].player2)'
               /\ Seated(p[g].player1)' => /\ partner[sock'[p[g].player1]] = sock'[p[g].player2]
                                           /\ partner[sock'[p[g].player2]] = sock'[p[g].player1]
    <3>1. /\ p[g].player1 # p[g].player2 /\ (Seated(p[g].player1) <=> Seated(p[g].player2))
          /\ Seated(p[g].player1) => /\ partner[sock[p[g].player1]] = sock[p[g].player2]
                                     /\ partner[sock[p[g].player2]] = sock[p[g].player1]
      BY DEF IInv, Tables
    <3>2. p[g].player1 \in Fd /\ p[g].player2 \in Fd
      BY GamePlayers DEF IInv
    <3>3. QED
      BY <1>1, <1>6, <3>1, <3>2 DEF Seated
  <2>2. \A f \in Fd : Seated(f)' => Occurs(f)
    BY <1>6 DEF IInv, Tables
  <2>3. \A c \in Client : partner[c] # Nobody => partner[partner[c]] = c /\ partner[c] # c
    BY DEF IInv, Tables
  <2>4. QED
    BY <1>1, <1>5, <2>1, <2>2, <2>3 DEF Tables
<1>11. WaitsAlone'
  <2> SUFFICES ASSUME ~SharedFd
               PROVE  /\ sock'[Newest] # Free /\ partner[sock'[Newest]] = Nobody
                      /\ ~Occurs(Newest) => Newest # Stdin
                      /\ Newest \in readFds' /\ Newest \notin todo'
    BY <1>1, <1>5 DEF WaitsAlone, Taken
  <2>1. sock'[Newest] = Comer
    BY <1>2, <1>4
  <2>2. Occurs(Newest) \/ Newest # Stdin
    BY <1>1, <1>2 DEF IInv, ZeroIsShortLived
  <2>3. Newest \notin todo
    BY <1>1, <1>2, <1>3 DEF IInv, Selected
  <2>4. QED
    BY <1>1, <1>2, <1>3, <2>1, <2>2, <2>3
<1>12. Strangers' /\ MovesReachThePartner'
  BY <1>1, <1>5 DEF IInv, Strangers, MovesReachThePartner, BlankBoard
<1>13. ZeroIsShortLived'
  <2>1. ~SharedFd => ~Seated(Stdin) /\ (stdin \/ Occurs(Stdin))
    BY <1>1 DEF IInv, ZeroIsShortLived
  <2>2. ~SharedFd => ~(Seated(Stdin)') /\ (stdin' \/ Occurs(Stdin)')
    BY <1>1, <1>3, <1>5, <1>6, <2>1
  <2>3. QED
    BY <1>5, <2>2 DEF ZeroIsShortLived
<1>14. Whole'
  <2> SUFFICES ASSUME ~Abandoned
               PROVE  /\ ~SharedFd /\ sock'[Stdin] = Free
                      /\ \A g \in DOMAIN p : Seated(p[g].player1)' /\ Seated(p[g].player2)'
                      /\ \A j \in todo' \ {Listen} : sock'[j] # Free /\ ServerReadable(conn[sock'[j]])
    BY <1>1, <1>5 DEF Whole, Taken
  <2>1. /\ ~SharedFd /\ ~Taken(Stdin)
        /\ \A g \in DOMAIN p : Seated(p[g].player1) /\ Seated(p[g].player2)
        /\ \A j \in todo \ {Listen} : Taken(j) /\ ServerReadable(conn[sock[j]])
    BY DEF IInv, Whole
  <2>2. ~Occurs(Stdin)
    BY <2>1 DEF Occurs, Seated
  <2>3. Newest # Stdin
    BY <1>1, <1>2, <2>1, <2>2 DEF IInv, ZeroIsShortLived
  <2>4. sock'[Stdin] = Free
    BY <1>3, <1>4, <2>1, <2>3 DEF Taken
  <2>5. \A g \in DOMAIN p : Seated(p[g].player1)' /\ Seated(p[g].player2)'
    BY <1>1, <1>6, <2>1, GamePlayers DEF IInv
  <2>6. \A j \in todo' \ {Listen} : sock'[j] # Free /\ ServerReadable(conn[sock'[j]])
    BY <1>1, <1>3, <1>6, <2>1 DEF Taken
  <2>7. QED
    BY <2>1, <2>4, <2>5, <2>6
<1>15. Play'
  <2> SUFFICES ASSUME ~SharedFd, NEW a \in Client, NEW b \in Client, Together(a, b)'
               PROVE  OneRight(a, b)' /\ Openings(a, b)' /\ Boards(a, b)' /\ Standstill(a, b)'
    BY <1>5 DEF Play
  <2>1. Together(a, b)
    BY <1>1 DEF Together, NoReset
  <2>2. OneRight(a, b) /\ Openings(a, b) /\ Boards(a, b) /\ Standstill(a, b)
    BY <2>1 DEF IInv, Play
  <2>3. QED
    BY <1>1, <2>2, PairFrame
<1>16. QED
  BY <1>7, <1>8, <1>9, <1>10, <1>11, <1>12, <1>13, <1>14, <1>15 DEF IInv

\* What the two symbols do to the connections.
LEMMA BothEffect ==
  ASSUME IInv, Listen \in todo, waiting \in Fd, NEW w, w = Opened[waiting]
  PROVE  /\ Both \in Connections
         /\ \A d \in Client :
               /\ Both[d].end = conn[d].end /\ Both[d].toServer = conn[d].toServer
               /\ Both[d].peer = "open" <=> conn[d].peer = "open"
               /\ conn[d].peer # "open" => Both[d].toClient = conn[d].toClient
               /\ d # w /\ d # Comer => Both[d] = conn[d]
               /\ d = w /\ d # Comer /\ conn[d].peer = "open" =>
                     Both[d].toClient = conn[d].toClient \o <<[kind |-> "x"]>>
               /\ d # w /\ d = Comer /\ conn[d].peer = "open" =>
                     Both[d].toClient = conn[d].toClient \o <<[kind |-> "z"]>>
<1> DEFINE mx == <<[kind |-> "x"]>>
           mz == <<[kind |-> "z"]>>
<1>0. Comer \in Client /\ Newest \in Fd
  BY Newcomer DEF IInv
<1>1. mx \in Seq(Message) /\ mz \in Seq(Message)
  BY DEF Message
<1>2. Told = Sent(Opened, conn, waiting, mx) /\ Both = Sent(Opened, Told, Newest, mz)
  BY DEF Told, Both
<1> HIDE DEF mx, mz
<1>3. /\ Opened \in [Fd -> Client \cup {Free}] /\ conn \in Connections /\ Opened[Newest] = Comer
  BY <1>0 DEF IInv, TypeOK, Opened, Connections
<1>4. /\ Told \in Connections
      /\ \A c \in Client : Told[c] = IF w = c THEN ServerSends(conn[c], mx) ELSE conn[c]
  <2>1. /\ Sent(Opened, conn, waiting, mx) \in Connections
        /\ \A c \in Client : Sent(Opened, conn, waiting, mx)[c]
              = IF Opened[waiting] = c THEN ServerSends(conn[c], mx) ELSE conn[c]
    BY <1>1, <1>3, SentEffect
  <2>2. QED
    BY <1>2, <2>1
<1>5. /\ Both \in Connections
      /\ \A c \in Client : Both[c] = IF Comer = c THEN ServerSends(Told[c], mz) ELSE Told[c]
  <2>1. /\ Sent(Opened, Told, Newest, mz) \in Connections
        /\ \A c \in Client : Sent(Opened, Told, Newest, mz)[c]
              = IF Opened[Newest] = c THEN ServerSends(Told[c], mz) ELSE Told[c]
    BY <1>0, <1>1, <1>3, <1>4, SentEffect
  <2>2. QED
    BY <1>2, <1>3, <2>1
<1>6. ASSUME NEW d \in Client
      PROVE  /\ Told[d].end = conn[d].end /\ Told[d].toServer = conn[d].toServer
             /\ Told[d].peer = "open" <=> conn[d].peer = "open"
             /\ conn[d].peer # "open" => Told[d].toClient = conn[d].toClient
             /\ d # w => Told[d] = conn[d]
             /\ d = w /\ conn[d].peer = "open" => Told[d].toClient = conn[d].toClient \o mx
             /\ Told[d] \in Connection(Message, Message)
  <2>1. conn[d] \in Connection(Message, Message) /\ Told[d] \in Connection(Message, Message)
    BY <1>3, <1>4 DEF Connections
  <2>2. CASE w = d
    <3> DEFINE l == ServerSends(conn[d], mx)
    <3>1. Told[d] = l
      BY <1>4, <2>2
    <3>2. /\ l.toServer = conn[d].toServer /\ l.end = conn[d].end
          /\ conn[d].peer = "open" => l.peer = "open" /\ l.toClient = conn[d].toClient \o mx
          /\ conn[d].peer # "open" => l.peer # "open" /\ l.toClient = conn[d].toClient
      <4>1. conn[d] \in Connection(Message, Message) /\ mx \in Seq(Message)
        BY <1>1, <2>1
      <4>2. QED
        BY <4>1, ServerSendsEffect
    <3> HIDE DEF l
    <3>3. QED
      BY <2>1, <2>2, <3>1, <3>2
  <2>3. CASE w # d
    BY <1>4, <2>1, <2>3
  <2>4. QED
    BY <2>2, <2>3
<1> HIDE DEF Told
<1>7. ASSUME NEW d \in Client
      PROVE  /\ Both[d].end = conn[d].end /\ Both[d].toServer = conn[d].toServer
             /\ Both[d].peer = "open" <=> conn[d].peer = "open"
             /\ conn[d].peer # "open" => Both[d].toClient = conn[d].toClient
             /\ d # w /\ d # Comer => Both[d] = conn[d]
             /\ d = w /\ d # Comer /\ conn[d].peer = "open" =>
                   Both[d].toClient = conn[d].toClient \o mx
             /\ d # w /\ d = Comer /\ conn[d].peer = "open" =>
                   Both[d].toClient = conn[d].toClient \o mz
  <2>1. CASE d = Comer
    <3> DEFINE k == Told[d]
               l == ServerSends(k, mz)
    <3>1. Both[d] = l
      BY <1>5, <2>1
    <3>2. k \in Connection(Message, Message)
      BY <1>6
    <3>3. /\ l.toServer = k.toServer /\ l.end = k.end
          /\ k.peer = "open" => l.peer = "open" /\ l.toClient = k.toClient \o mz
          /\ k.peer # "open" => l.peer # "open" /\ l.toClient = k.toClient
      BY <1>1, <3>2, ServerSendsEffect
    <3> HIDE DEF l
    <3>4. QED
      BY <1>6, <2>1, <3>1, <3>3
  <2>2. CASE d # Comer
    BY <1>5, <1>6, <2>2
  <2>3. QED
    BY <2>1, <2>2
<1>8. QED
  BY <1>5, <1>7 DEF mx, mz

\* The newest game is one of two descriptors that are in no other, for two
\* clients that nobody knows yet.
LEMMA NewGame ==
  ASSUME IInv, PairsUp, ~SharedFd'
  PROVE  /\ ~SharedFd /\ ~Occurs(waiting) /\ ~Occurs(Newest) /\ waiting # Newest /\ waiting # Stdin
         /\ Taken(waiting) /\ Opened[waiting] = sock[waiting] /\ sock[waiting] \in Client
         /\ sock[waiting] < Comer /\ partner[sock[waiting]] = Nobody
         /\ partner' \in [Client -> Client \cup {Nobody}]
         /\ \A d \in Client : partner'[d] = IF d = Comer THEN sock[waiting]
                                            ELSE IF d = sock[waiting] THEN Comer ELSE partner[d]
<1> DEFINE w == sock[waiting]
<1>1. /\ server = "up" /\ Listen \in todo /\ waiting # NoFd
      /\ p' = Append(p, [player1 |-> waiting, player2 |-> Newest])
      /\ partner' = IF Opened[waiting] = Free THEN partner
                    ELSE [partner EXCEPT ![Comer] = Opened[waiting], ![Opened[waiting]] = Comer]
  BY DEF PairsUp, Accepts
<1>2. /\ Comer \in Client /\ \A f \in Fd : Taken(f) => sock[f] < Comer
      /\ Newest \in Fd /\ ~Taken(Newest)
  BY <1>1, Newcomer DEF IInv
<1>3. /\ sock \in [Fd -> Client \cup {Free}] /\ waiting \in Fd /\ Client \subseteq Int
      /\ Free \notin Client /\ p \in Seq(Pair) /\ partner \in [Client -> Client \cup {Nobody}]
  BY <1>1, Numbers DEF IInv, TypeOK, Pair
<1>4. /\ \A g \in DOMAIN p : g \in DOMAIN p' /\ p'[g] = p[g] /\ g # Len(p) + 1
      /\ Len(p) + 1 \in DOMAIN p'
      /\ p'[Len(p) + 1].player1 = waiting /\ p'[Len(p) + 1].player2 = Newest
  <2> DEFINE e == [player1 |-> waiting, player2 |-> Newest]
  <2>1. e \in Pair /\ e.player1 = waiting /\ e.player2 = Newest
    BY <1>2, <1>3 DEF Pair
  <2> HIDE DEF e
  <2>2. p' = Append(p, e)
    BY <1>1 DEF e
  <2>3. \A q : q = Append(p, e) => /\ \A g \in DOMAIN p : g \in DOMAIN q /\ q[g] = p[g] /\ g # Len(p) + 1
                                   /\ Len(p) + 1 \in DOMAIN q /\ q[Len(p) + 1] = e
    BY <1>3, <2>1
  <2>4. QED
    BY <2>1, <2>2, <2>3
<1>5. ~SharedFd
  BY <1>4 DEF SharedFd
<1>6. ~Occurs(waiting) /\ ~Occurs(Newest)
  <2>1. ASSUME NEW f \in {waiting, Newest}, Occurs(f)
        PROVE  FALSE
    <3>1. PICK g \in DOMAIN p : f \in {p[g].player1, p[g].player2}
      BY <2>1 DEF Occurs
    <3>2. QED
      BY <1>4, <3>1 DEF SharedFd
  <2>2. QED
    BY <2>1
<1>7. Taken(waiting) /\ waiting # Stdin /\ partner[w] = Nobody
  BY <1>1, <1>5, <1>6 DEF IInv, WaitsAlone
<1>8. waiting # Newest
  BY <1>2, <1>7
<1>9. w \in Client /\ w < Comer /\ Opened[waiting] = w
  BY <1>2, <1>3, <1>7, <1>8 DEF Taken, Opened
<1>10. partner' = [partner EXCEPT ![Comer] = w, ![w] = Comer] /\ w # Comer
  BY <1>1, <1>2, <1>3, <1>9
<1> HIDE DEF w
<1>11. /\ partner' \in [Client -> Client \cup {Nobody}]
       /\ \A d \in Client : partner'[d] = IF d = Comer THEN w ELSE IF d = w THEN Comer ELSE partner[d]
  BY <1>2, <1>3, <1>9, <1>10
<1>12. QED
  BY <1>5, <1>6, <1>7, <1>8, <1>9, <1>11 DEF w

\* The game of a new pair begins with an empty board and the two symbols.
LEMMA NewPlay ==
  ASSUME IInv, NEW a \in Client, NEW b \in Client, a < b, player' = player,
         ~player[a].inGame, ~player[b].inGame, player[a].board = BlankBoard, player[b].board = BlankBoard,
         conn'[a].toServer = <<>>, conn'[b].toServer = <<>>,
         conn'[a].toClient = IF conn[a].peer = "open" THEN <<[kind |-> "x"]>> ELSE <<>>,
         conn'[b].toClient = IF conn[b].peer = "open" THEN <<[kind |-> "z"]>> ELSE <<>>
  PROVE  /\ OneRight(a, b)' /\ Openings(a, b)' /\ Boards(a, b)' /\ Standstill(a, b)'
         /\ OneRight(b, a)' /\ Openings(b, a)' /\ Boards(b, a)' /\ Standstill(b, a)'
<1>1. ~(b < a)
  BY Numbers DEF Client
<1>2. /\ ~(Hold(a)') /\ ~(Hold(b)')
      /\ Playing(a)' => conn[a].peer = "open"
      /\ Playing(b)' => conn[b].peer = "open"
  BY DEF Hold, Playing, IInv, Lively
<1>3. /\ \A n \in DOMAIN conn'[a].toClient : n = 1 /\ conn'[a].toClient[n].kind = "x"
      /\ \A n \in DOMAIN conn'[b].toClient : n = 1 /\ conn'[b].toClient[n].kind = "z"
      /\ conn[a].peer = "open" => 1 \in DOMAIN conn'[a].toClient /\ conn'[a].toClient # <<>>
                                  /\ conn'[a].toClient[1].kind = "x"
      /\ conn[b].peer = "open" => 1 \in DOMAIN conn'[b].toClient /\ conn'[b].toClient # <<>>
                                  /\ conn'[b].toClient[1].kind = "z"
  <2> DEFINE mx == <<[kind |-> "x"]>>
             mz == <<[kind |-> "z"]>>
             none == <<>>
  <2>1. /\ DOMAIN mx = {1} /\ mx[1].kind = "x" /\ DOMAIN mz = {1} /\ mz[1].kind = "z"
        /\ DOMAIN none = {} /\ none = <<>>
    OBVIOUS
  <2>2. /\ conn'[a].toClient = IF conn[a].peer = "open" THEN mx ELSE none
        /\ conn'[b].toClient = IF conn[b].peer = "open" THEN mz ELSE none
    OBVIOUS
  <2> HIDE DEF mx, mz, none
  <2>3. QED
    BY <2>1, <2>2
<1>4. /\ Coming(b)' = {} /\ \A m \in Coming(a)' : m = 1
      /\ conn[a].peer = "open" => Coming(a)' # {}
  BY <1>3 DEF Coming
<1>5. Differ(a, b)' = {} /\ Differ(b, a)' = {}
  BY DEF Differ
<1>6. OneRight(a, b)' /\ OneRight(b, a)'
  BY <1>2, <1>4 DEF OneRight
<1>7. Openings(a, b)'
  BY <1>2, <1>3 DEF Openings, BlankBoard
<1>8. Openings(b, a)'
  BY <1>1, <1>2, <1>3 DEF Openings, BlankBoard
<1>9. \A s : s = <<>> => DOMAIN s = {}
  OBVIOUS
<1>10. Boards(a, b)' /\ Boards(b, a)'
  BY <1>3, <1>5, <1>9 DEF Boards
<1>11. Standstill(a, b)' /\ Standstill(b, a)'
  BY <1>1, <1>2, <1>4 DEF Standstill, Lost, On
<1>12. QED
  BY <1>6, <1>7, <1>8, <1>10, <1>11

\* The player that waits gets its partner.
LEMMA PairsUpKeeps ==
  ASSUME IInv, PairsUp
  PROVE  IInv'
<1> DEFINE w == Opened[waiting]
           v == sock[waiting]
           last == Len(p) + 1
<1>1. /\ server = "up" /\ server' = "up" /\ Listen \in todo /\ todo' = todo \ {Listen}
      /\ readFds' = readFds \cup {Newest} /\ backlog' = Tail(backlog)
      /\ stdin' = stdin /\ player' = player /\ conn' = Both
      /\ waiting # NoFd /\ waiting' = NoFd
      /\ p' = Append(p, [player1 |-> waiting, player2 |-> Newest])
      /\ partner' = IF w = Free THEN partner ELSE [partner EXCEPT ![Comer] = w, ![w] = Comer]
  BY DEF PairsUp, Accepts
<1>2. /\ Comer \in Client /\ Tail(backlog) \in Seq(Client) /\ backlog # <<>>
      /\ player[Comer].state # "new" /\ partner[Comer] = Nobody
      /\ \A f \in Fd : Taken(f) => sock[f] < Comer
      /\ Newest \in Fd /\ ~Taken(Newest)
      /\ Newest = Stdin <=> ~stdin /\ ~Taken(Stdin)
  BY <1>1, Newcomer DEF IInv
<1>3. /\ sock \in [Fd -> Client \cup {Free}] /\ todo \subseteq Fd \cup {Listen} /\ Client \subseteq Int
      /\ Listen \notin Fd /\ NoFd \notin Fd /\ Stdin \in Fd /\ Free \notin Client /\ backlog \in Seq(Client)
      /\ waiting \in Fd /\ p \in Seq(Pair) /\ partner \in [Client -> Client \cup {Nobody}]
      /\ Nobody \notin Client
  BY <1>1, Numbers DEF IInv, TypeOK, Pair
<1>4. /\ sock' = Opened /\ sock' \in [Fd -> Client \cup {Free}]
      /\ \A f \in Fd : sock'[f] = IF f = Newest THEN Comer ELSE sock[f]
  <2>1. sock' = Opened /\ Opened = [sock EXCEPT ![Newest] = Comer]
    BY DEF PairsUp, Accepts, Opened
  <2>2. QED
    BY <1>2, <1>3, <2>1
<1>5. /\ Both \in Connections
      /\ \A d \in Client :
            /\ Both[d].end = conn[d].end /\ Both[d].toServer = conn[d].toServer
            /\ Both[d].peer = "open" <=> conn[d].peer = "open"
            /\ conn[d].peer # "open" => Both[d].toClient = conn[d].toClient
            /\ d # w /\ d # Comer => Both[d] = conn[d]
            /\ d = w /\ d # Comer /\ conn[d].peer = "open" =>
                  Both[d].toClient = conn[d].toClient \o <<[kind |-> "x"]>>
            /\ d # w /\ d = Comer /\ conn[d].peer = "open" =>
                  Both[d].toClient = conn[d].toClient \o <<[kind |-> "z"]>>
  BY <1>1, <1>3, BothEffect
<1>6. /\ p' \in Seq(Pair) /\ last \in DOMAIN p'
      /\ p'[last].player1 = waiting /\ p'[last].player2 = Newest
      /\ \A g \in DOMAIN p : g \in DOMAIN p' /\ p'[g] = p[g]
      /\ \A g \in DOMAIN p' : g = last \/ g \in DOMAIN p
  <2> DEFINE e == [player1 |-> waiting, player2 |-> Newest]
  <2>1. e \in Pair /\ e.player1 = waiting /\ e.player2 = Newest
    BY <1>2, <1>3 DEF Pair
  <2> HIDE DEF e
  <2>2. p' = Append(p, e)
    BY <1>1 DEF e
  <2>3. \A q : q = Append(p, e) => /\ \A g \in DOMAIN p : g \in DOMAIN q /\ q[g] = p[g]
                                   /\ last \in DOMAIN q /\ q[last] = e
                                   /\ \A g \in DOMAIN q : g = last \/ g \in DOMAIN p
                                   /\ q \in Seq(Pair)
    BY <1>3, <2>1
  <2>4. QED
    BY <2>1, <2>2, <2>3
<1>7. /\ w \in Client \cup {Free}
      /\ w # Free => w = Comer \/ \E f \in Fd : Taken(f) /\ sock[f] = w
      /\ partner' \in [Client -> Client \cup {Nobody}]
      /\ \A d \in Client : partner[d] # Nobody => partner'[d] # Nobody
      /\ w \in Client => partner'[w] # Nobody
  <2>1. w \in Client \cup {Free} /\ w = sock'[waiting]
    BY <1>3, <1>4
  <2>2. w # Free => w = Comer \/ \E f \in Fd : Taken(f) /\ sock[f] = w
    BY <1>3, <1>4, <2>1 DEF Taken
  <2> HIDE DEF w
  <2>3. CASE w = Free
    BY <1>1, <1>3, <2>1, <2>2, <2>3
  <2>4. CASE w \in Client
    <3>1. partner' = [partner EXCEPT ![Comer] = w, ![w] = Comer]
      BY <1>1, <1>3, <2>4
    <3>2. \A d \in Client : partner'[d] = IF d = w THEN Comer ELSE IF d = Comer THEN w ELSE partner[d]
      BY <1>2, <1>3, <2>4, <3>1
    <3>3. partner' \in [Client -> Client \cup {Nobody}]
      BY <1>2, <1>3, <2>4, <3>1
    <3>4. QED
      BY <1>2, <1>3, <2>1, <2>2, <2>4, <3>2, <3>3
  <2>5. QED
    BY <2>1, <2>3, <2>4
<1> HIDE DEF w
<1>8. Abandoned => Abandoned'
  BY <1>1, <1>7 DEF Abandoned
<1>9. \A f \in Fd : Taken(f) => f # Newest /\ sock'[f] = sock[f]
  BY <1>2, <1>4
<1>10. TypeOK'
  <2>1. readFds' \subseteq Fd /\ todo' \subseteq Fd \cup {Listen}
    BY <1>1, <1>2, <1>3 DEF IInv, TypeOK
  <2>2. QED
    BY <1>1, <1>2, <1>4, <1>5, <1>6, <1>7, <2>1 DEF IInv, TypeOK, Pair, Connections
<1>11. Seats' /\ Selected' /\ InLine'
  <2>1. CASE w = Free
    BY <1>1, <2>1, AcceptsKeeps DEF PairsUp
  <2>2. CASE w # Free
    <3>1. w \in Client /\ partner' = [partner EXCEPT ![Comer] = w, ![w] = Comer]
      BY <1>1, <1>7, <2>2
    <3>2. w = Comer \/ \E f \in Fd : Taken(f) /\ sock[f] = w
      BY <1>7, <2>2
    <3>3. Accepts
      BY DEF PairsUp
    <3>4. QED
      BY <3>1, <3>2, <3>3, AcceptsKeeps
  <2>3. QED
    BY <2>1, <2>2
<1>12. Lively'
  <2> SUFFICES ASSUME NEW d \in Client
               PROVE  /\ player[d].state = "ended" <=> Both[d].peer # "open"
                      /\ player[d].state = "ended" => Both[d].toClient = <<>>
                      /\ player[d].turn => player[d].inGame
                      /\ player[d].state = "new" => ~player[d].inGame
                      /\ \A n \in DOMAIN Both[d].toServer :
                            Both[d].toServer[n].kind = "move" /\ Both[d].toServer[n].from = d
    BY <1>1 DEF Lively
  <2>1. /\ Both[d].toServer = conn[d].toServer
        /\ Both[d].peer = "open" <=> conn[d].peer = "open"
        /\ conn[d].peer # "open" => Both[d].toClient = conn[d].toClient
    BY <1>5
  <2>2. QED
    BY <2>1 DEF IInv, Lively
<1>13. Whole'
  <2> SUFFICES ASSUME ~(Abandoned')
               PROVE  /\ ~(SharedFd') /\ sock'[Stdin] = Free
                      /\ \A g \in DOMAIN p' : Seated(p[g].player1)' /\ Seated(p[g].player2)'
                      /\ \A j \in todo' \ {Listen} : sock'[j] # Free /\ ServerReadable(conn'[sock'[j]])
    BY <1>1 DEF Whole, Taken
  <2>1. /\ ~SharedFd /\ ~Taken(Stdin)
        /\ \A g \in DOMAIN p : Seated(p[g].player1) /\ Seated(p[g].player2)
        /\ \A j \in todo \ {Listen} : Taken(j) /\ ServerReadable(conn[sock[j]])
    BY <1>8 DEF IInv, Whole
  <2>2. ~Occurs(Stdin) /\ ~Occurs(Newest) /\ ~Occurs(waiting)
    BY <1>2, <2>1 DEF Occurs, Seated
  <2>3. Taken(waiting)
    BY <1>1, <2>1, <2>2 DEF IInv, WaitsAlone
  <2>4. w = v /\ v \in Client /\ sock'[waiting] = v
    BY <1>3, <1>4, <1>9, <2>3 DEF Taken, w
  <2>5. ~(SharedFd')
    <3> SUFFICES ASSUME NEW g \in DOMAIN p', NEW h \in DOMAIN p', g # h,
                        {p'[g].player1, p'[g].player2} \cap {p'[h].player1, p'[h].player2} # {}
                 PROVE  FALSE
      BY DEF SharedFd
    <3>1. CASE g \in DOMAIN p /\ h \in DOMAIN p
      BY <1>6, <2>1, <3>1 DEF SharedFd
    <3>2. CASE g = last /\ h \in DOMAIN p
      BY <1>6, <2>2, <3>2 DEF Occurs
    <3>3. CASE g \in DOMAIN p /\ h = last
      BY <1>6, <2>2, <3>3 DEF Occurs
    <3>4. QED
      BY <1>6, <3>1, <3>2, <3>3
  <2>6. Newest # Stdin
    <3>1. conn[v].peer = "open"
      BY <1>1, <1>7, <2>4 DEF Abandoned, IInv, Lively
    <3>2. stdin \/ Occurs(Stdin)
      BY <1>1, <2>1, <3>1 DEF IInv, ZeroIsShortLived
    <3>3. QED
      BY <1>2, <2>2, <3>2
  <2>7. sock'[Stdin] = Free
    BY <1>3, <1>4, <2>1, <2>6 DEF Taken
  <2>8. \A g \in DOMAIN p' : Seated(p[g].player1)' /\ Seated(p[g].player2)'
    <3> SUFFICES ASSUME NEW g \in DOMAIN p'
                 PROVE  /\ sock'[p'[g].player1] # Free /\ p'[g].player1 # NoFd
                        /\ sock'[p'[g].player2] # Free /\ p'[g].player2 # NoFd
      BY <1>1 DEF Seated, Taken
    <3>1. CASE g = last
      BY <1>2, <1>3, <1>4, <1>6, <2>4, <3>1
    <3>2. CASE g \in DOMAIN p
      <4>1. p[g].player1 \in Fd /\ p[g].player2 \in Fd /\ p'[g] = p[g]
        BY <1>6, <3>2, GamePlayers DEF IInv
      <4>2. Taken(p[g].player1) /\ Taken(p[g].player2)
        BY <2>1, <3>2 DEF Seated
      <4>3. QED
        BY <1>3, <1>9, <4>1, <4>2 DEF Taken
    <3>3. QED
      BY <1>6, <3>1, <3>2
  <2>9. ASSUME NEW j \in todo' \ {Listen}
        PROVE  sock'[j] # Free /\ ServerReadable(conn'[sock'[j]])
    <3>1. j \in Fd /\ Taken(j) /\ ServerReadable(conn[sock[j]]) /\ sock'[j] = sock[j]
      BY <1>1, <1>3, <1>9, <2>1
    <3>2. sock[j] \in Client
      BY <1>3, <3>1 DEF Taken
    <3>3. QED
      BY <1>1, <1>5, <3>1, <3>2 DEF ServerReadable, Taken
  <2>10. QED
    BY <2>5, <2>7, <2>8, <2>9
<1>14. ASSUME ~(SharedFd')
       PROVE  Tables' /\ WaitsAlone' /\ Strangers' /\ ZeroIsShortLived'
              /\ MovesReachThePartner' /\ Play'
  <2>1. /\ ~SharedFd /\ ~Occurs(waiting) /\ ~Occurs(Newest) /\ waiting # Newest /\ waiting # Stdin
        /\ Taken(waiting) /\ w = v /\ v \in Client
        /\ v < Comer /\ partner[v] = Nobody
        /\ \A d \in Client : partner'[d] = IF d = Comer THEN v ELSE IF d = v THEN Comer ELSE partner[d]
    BY <1>14, NewGame DEF w
  <2>2. v # Comer /\ sock'[waiting] = v /\ sock'[Newest] = Comer
    BY <1>2, <1>3, <1>4, <1>9, <2>1
  <2>3. /\ conn[v].toClient = <<>> /\ conn[v].toServer = <<>>
        /\ ~player[v].inGame /\ player[v].board = BlankBoard
        /\ conn[Comer].toClient = <<>> /\ conn[Comer].toServer = <<>>
        /\ ~player[Comer].inGame /\ player[Comer].board = BlankBoard
    BY <1>2, <2>1 DEF IInv, Strangers
  <2> HIDE DEF v
  <2>4. \A f \in Fd : f # waiting /\ f # Newest =>
                         /\ Seated(f)' <=> Seated(f)
                         /\ sock'[f] = sock[f]
    BY <1>1, <1>3, <1>4 DEF Seated, Taken
  <2>5. \A f \in Fd : Taken(f) /\ f # waiting => sock[f] \in Client /\ sock[f] # v /\ sock[f] # Comer
    <3> SUFFICES ASSUME NEW f \in Fd, Taken(f), f # waiting
                 PROVE  sock[f] \in Client /\ sock[f] # v /\ sock[f] # Comer
      OBVIOUS
    <3>1. sock[f] \in Client /\ sock[f] < Comer
      BY <1>2, <1>3 DEF Taken
    <3>2. sock[f] # v
      BY <1>3 DEF IInv, Seats, v
    <3>3. sock[f] \in Int /\ Comer \in Int
      BY <1>2, <1>3, <3>1
    <3>4. QED
      BY <3>1, <3>2, <3>3
  <2>6. Tables'
    <3>1. ASSUME NEW g \in DOMAIN p'
          PROVE  /\ p'[g].player1 # p'[g].player2
                 /\ Seated(p[g].player1)' <=> Seated(p[g].player2)'
                 /\ Seated(p[g].player1)' => /\ partner'[sock'[p'[g].player1]] = sock'[p'[g].player2]
                                             /\ partner'[sock'[p'[g].player2]] = sock'[p'[g].player1]
      <4>1. CASE g = last
        <5>1. p'[g].player1 = waiting /\ p'[g].player2 = Newest
          BY <1>6, <4>1
        <5>2. Seated(p[g].player1)' /\ Seated(p[g].player2)'
          BY <1>1, <1>2, <1>3, <2>1, <2>2, <5>1 DEF Seated, Taken
        <5>3. QED
          BY <1>2, <2>1, <2>2, <5>1, <5>2
      <4>2. CASE g \in DOMAIN p
        <5> DEFINE a == p[g].player1
                   b == p[g].player2
        <5>1. /\ a # b /\ (Seated(a) <=> Seated(b))
              /\ Seated(a) => partner[sock[a]] = sock[b] /\ partner[sock[b]] = sock[a]
          BY <2>1, <4>2 DEF IInv, Tables
        <5>2. a \in Fd /\ b \in Fd /\ p'[g] = p[g]
          BY <1>6, <4>2, GamePlayers DEF IInv
        <5>3. a # waiting /\ a # Newest /\ b # waiting /\ b # Newest
          BY <2>1, <4>2 DEF Occurs
        <5>4. /\ sock'[a] # Free /\ a # NoFd <=> Seated(a)
              /\ sock'[b] # Free /\ b # NoFd <=> Seated(b)
              /\ sock'[a] = sock[a] /\ sock'[b] = sock[b]
          BY <1>3, <2>4, <5>2, <5>3 DEF Seated, Taken
        <5> HIDE DEF a, b
        <5>5. Seated(a) => /\ sock[a] \in Client /\ sock[a] # v /\ sock[a] # Comer
                           /\ sock[b] \in Client /\ sock[b] # v /\ sock[b] # Comer
          BY <2>5, <5>1, <5>2, <5>3 DEF Seated
        <5>6. Seated(a) => partner'[sock[a]] = sock[b] /\ partner'[sock[b]] = sock[a]
          BY <2>1, <5>1, <5>5
        <5>7. QED
          BY <1>1, <5>1, <5>2, <5>4, <5>6 DEF Seated, Taken, a, b
      <4>3. QED
        BY <1>6, <4>1, <4>2
    <3>2. ASSUME NEW f \in Fd, Seated(f)'
          PROVE  Occurs(f)'
      <4>1. CASE f \in {waiting, Newest}
        BY <1>6, <4>1 DEF Occurs
      <4>2. CASE f \notin {waiting, Newest}
        <5>1. Occurs(f)
          BY <2>1, <2>4, <3>2, <4>2 DEF IInv, Tables
        <5>2. QED
          BY <1>6, <5>1 DEF Occurs
      <4>3. QED
        BY <4>1, <4>2
    <3>3. ASSUME NEW d \in Client, partner'[d] # Nobody
          PROVE  partner'[partner'[d]] = d /\ partner'[d] # d
      <4>1. CASE d \in {v, Comer}
        BY <1>2, <2>1, <2>2, <4>1
      <4>2. CASE d \notin {v, Comer}
        <5>1. partner'[d] = partner[d] /\ partner[d] \in Client
          BY <1>3, <2>1, <3>3, <4>2
        <5>2. partner[partner[d]] = d /\ partner[d] # d
          BY <2>1, <3>3, <5>1 DEF IInv, Tables
        <5>3. partner[d] # v /\ partner[d] # Comer
          BY <1>2, <1>3, <2>1, <5>2
        <5>4. QED
          BY <2>1, <5>1, <5>2, <5>3
      <4>3. QED
        BY <4>1, <4>2
    <3>4. QED
      BY <3>1, <3>2, <3>3 DEF Tables
  <2>7. WaitsAlone'
    BY <1>1 DEF WaitsAlone
  <2>8. Strangers'
    <3> SUFFICES ASSUME NEW d \in Client, partner'[d] = Nobody
                 PROVE  /\ Both[d].toClient = <<>> /\ Both[d].toServer = <<>>
                        /\ Both[d].end \in {"open", "fin"} /\ Both[d].peer \in {"open", "fin"}
                        /\ ~player[d].inGame /\ player[d].board = BlankBoard
      BY <1>1 DEF Strangers, BlankBoard
    <3>1. d # Comer /\ d # v /\ partner[d] = Nobody
      BY <1>2, <1>3, <2>1
    <3>2. Both[d] = conn[d]
      BY <1>5, <2>1, <3>1
    <3>3. QED
      BY <1>1, <2>1, <3>1, <3>2 DEF IInv, Strangers
  <2>9. ZeroIsShortLived'
    <3>1. ~Seated(Stdin)
      BY <1>1, <2>1 DEF IInv, ZeroIsShortLived
    <3>2. ASSUME ~stdin, ~(Occurs(Stdin)') PROVE FALSE
      <4>1. Stdin # Newest /\ ~Occurs(Stdin)
        BY <1>6, <3>2 DEF Occurs
      <4>2. Taken(Stdin)
        BY <1>2, <3>2, <4>1
      <4>3. QED
        BY <2>1, <3>1, <4>2 DEF Seated
    <3>3. ASSUME Seated(Stdin)'
          PROVE  \E g \in DOMAIN p' :
                    /\ p'[g].player2 = Stdin /\ p'[g].player1 \in todo' \ {Listen}
                    /\ conn'[sock'[p'[g].player1]].peer # "open"
                    /\ conn'[sock'[p'[g].player1]].toServer = <<>>
      <4>1. Stdin = Newest
        BY <1>3, <2>1, <2>4, <3>1, <3>3
      <4>2. ~stdin /\ ~Occurs(Stdin)
        BY <1>2, <2>1, <4>1
      <4>3. conn[v].peer # "open" /\ waiting \in todo
        BY <1>1, <2>1, <4>2 DEF IInv, ZeroIsShortLived, v
      <4>4. waiting \in todo' \ {Listen}
        BY <1>1, <1>3, <4>3
      <4>5. conn'[v].peer # "open" /\ conn'[v].toServer = <<>>
        BY <1>1, <1>5, <2>1, <2>3, <4>3
      <4>6. QED
        BY <1>6, <2>2, <4>1, <4>4, <4>5
    <3>4. QED
      BY <1>1, <3>2, <3>3 DEF ZeroIsShortLived
  <2>10. /\ conn'[v].toServer = <<>> /\ conn'[Comer].toServer = <<>>
         /\ conn'[v].toClient = IF conn[v].peer = "open" THEN <<[kind |-> "x"]>> ELSE <<>>
         /\ conn'[Comer].toClient = IF conn[Comer].peer = "open" THEN <<[kind |-> "z"]>> ELSE <<>>
    <3> DEFINE mx == <<[kind |-> "x"]>>
               mz == <<[kind |-> "z"]>>
               none == <<>>
    <3>1. none \o mx = mx /\ none \o mz = mz
      <4>1. mx \in Seq(Message) /\ mz \in Seq(Message)
        BY DEF Message
      <4> HIDE DEF mx, mz
      <4>2. QED
        BY <4>1
    <3>2. /\ conn[v].peer = "open" => Both[v].toClient = conn[v].toClient \o mx
          /\ conn[Comer].peer = "open" => Both[Comer].toClient = conn[Comer].toClient \o mz
      BY <1>2, <1>5, <2>1, <2>2
    <3>3. /\ conn[v].peer # "open" => Both[v].toClient = conn[v].toClient
          /\ conn[Comer].peer # "open" => Both[Comer].toClient = conn[Comer].toClient
          /\ Both[v].toServer = conn[v].toServer /\ Both[Comer].toServer = conn[Comer].toServer
      BY <1>2, <1>5, <2>1
    <3>4. /\ conn[v].toClient = none /\ conn[Comer].toClient = none
          /\ conn[v].toServer = none /\ conn[Comer].toServer = none
      BY <2>3
    <3> HIDE DEF mx, mz, none
    <3>5. /\ conn'[v].toServer = none /\ conn'[Comer].toServer = none
          /\ conn'[v].toClient = IF conn[v].peer = "open" THEN mx ELSE none
          /\ conn'[Comer].toClient = IF conn[Comer].peer = "open" THEN mz ELSE none
      BY <1>1, <3>1, <3>2, <3>3, <3>4
    <3>6. QED
      BY <3>5 DEF mx, mz, none
  <2>11. MovesReachThePartner'
    <3> SUFFICES ASSUME NEW d \in Client, NEW n \in DOMAIN conn'[d].toClient,
                        conn'[d].toClient[n].kind = "move"
                 PROVE  conn'[d].toClient[n].from = partner'[d]
      BY DEF MovesReachThePartner
    <3>1. CASE d \in {v, Comer}
      <4>1. conn'[d].toClient \in {<<>>, <<[kind |-> "x"]>>, <<[kind |-> "z"]>>}
        BY <2>10, <3>1
      <4>2. \A s \in {<<>>, <<[kind |-> "x"]>>, <<[kind |-> "z"]>>} :
              \A k \in DOMAIN s : s[k].kind # "move"
        OBVIOUS
      <4>3. QED
        BY <4>1, <4>2
    <3>2. CASE d \notin {v, Comer}
      <4>1. conn'[d] = conn[d] /\ partner'[d] = partner[d]
        BY <1>1, <1>5, <2>1, <3>2
      <4>2. QED
        BY <2>1, <4>1 DEF IInv, MovesReachThePartner
    <3>3. QED
      BY <3>1, <3>2
  <2>12. Play'
    <3> SUFFICES ASSUME NEW a \in Client, NEW b \in Client, Together(a, b)'
                 PROVE  OneRight(a, b)' /\ Openings(a, b)' /\ Boards(a, b)' /\ Standstill(a, b)'
      BY DEF Play
    <3>1. partner'[a] = b /\ partner'[b] = a
      BY DEF Together
    <3>2. PICK first \in Client, second \in Client : first = v /\ second = Comer
      BY <1>2, <2>1
    <3>3. /\ first < second /\ player' = player
          /\ ~player[first].inGame /\ player[first].board = BlankBoard
          /\ ~player[second].inGame /\ player[second].board = BlankBoard
          /\ conn'[first].toServer = <<>> /\ conn'[second].toServer = <<>>
          /\ conn'[first].toClient = IF conn[first].peer = "open" THEN <<[kind |-> "x"]>> ELSE <<>>
          /\ conn'[second].toClient = IF conn[second].peer = "open" THEN <<[kind |-> "z"]>> ELSE <<>>
      BY <1>1, <2>1, <2>3, <2>10, <3>2
    <3>4. /\ OneRight(first, second)' /\ Openings(first, second)'
          /\ Boards(first, second)' /\ Standstill(first, second)'
          /\ OneRight(second, first)' /\ Openings(second, first)'
          /\ Boards(second, first)' /\ Standstill(second, first)'
      BY <3>3, NewPlay
    <3>5. partner'[first] = second /\ partner'[second] = first
      BY <2>1, <2>2, <3>2
    <3>6. CASE a = v
      <4>1. a = first /\ b = second
        BY <3>1, <3>2, <3>6, <3>5
      <4>2. QED
        BY <3>4, <4>1
    <3>7. CASE a = Comer
      <4>1. a = second /\ b = first
        BY <3>1, <3>2, <3>7, <3>5
      <4>2. QED
        BY <3>4, <4>1
    <3>8. CASE a # v /\ a # Comer
      <4>1. b # v /\ b # Comer
        BY <1>2, <2>1, <2>2, <3>1, <3>8
      <4>2. conn'[a] = conn[a] /\ conn'[b] = conn[b] /\ partner'[a] = partner[a] /\ partner'[b] = partner[b]
        BY <1>1, <1>5, <2>1, <3>8, <4>1
      <4>3. Together(a, b)
        BY <4>2 DEF Together, NoReset
      <4>4. OneRight(a, b) /\ Openings(a, b) /\ Boards(a, b) /\ Standstill(a, b)
        BY <2>1, <4>3 DEF IInv, Play
      <4>5. QED
        BY <1>1, <4>2, <4>4, PairFrame
    <3>9. QED
      BY <3>6, <3>7, <3>8
  <2>13. QED
    BY <2>6, <2>7, <2>8, <2>9, <2>11, <2>12
<1>15. Tables' /\ WaitsAlone' /\ Strangers' /\ ZeroIsShortLived' /\ MovesReachThePartner' /\ Play'
  <2>1. SharedFd' => Tables' /\ WaitsAlone' /\ Strangers' /\ ZeroIsShortLived'
                     /\ MovesReachThePartner' /\ Play'
    BY DEF Tables, WaitsAlone, Strangers, ZeroIsShortLived, MovesReachThePartner, Play
  <2>2. QED
    BY <1>14, <2>1
<1>16. QED
  BY <1>10, <1>11, <1>12, <1>13, <1>15 DEF IInv

-----------------------------------------------------------------------------
(* The theorems.                                                           *)

LEMMA AtTheStart ==
  ASSUME Init
  PROVE  IInv
<1>1. /\ server = "up" /\ todo = {} /\ readFds = {} /\ stdin = TRUE
      /\ sock = [f \in Fd |-> Free] /\ p = <<>> /\ waiting = NoFd /\ backlog = <<>>
      /\ conn = [c \in Client |-> NewConn] /\ player = [c \in Client |-> NewPlayer]
      /\ partner = [c \in Client |-> Nobody]
  BY DEF Init
<1>2. /\ \A f \in Fd : sock[f] = Free
      /\ \A c \in Client : conn[c] = NewConn /\ player[c] = NewPlayer /\ partner[c] = Nobody
      /\ Nobody \notin Client /\ Free \notin Client /\ Stdin \in Fd
  BY <1>1, Numbers
<1>3. DOMAIN <<>> = {}
  OBVIOUS
<1>4. /\ NewConn.toServer = <<>> /\ NewConn.toClient = <<>>
      /\ NewConn.peer = "open" /\ NewConn.end = "open" /\ NewConn \in Connection(Message, Message)
  BY DEF NewConn, Connection, Knowledge, Heard
<1>5. /\ NewPlayer.state = "new" /\ ~NewPlayer.inGame /\ ~NewPlayer.turn
      /\ NewPlayer.board = BlankBoard /\ NewPlayer \in PlayerRecord
  BY DEF NewPlayer, BlankBoard, PlayerRecord
<1>6. TypeOK
  <2>1. /\ p \in Seq(Pair) /\ backlog \in Seq(Client)
        /\ conn \in Connections /\ player \in [Client -> PlayerRecord]
    BY <1>1, <1>4, <1>5 DEF Connections
  <2>2. /\ sock \in [Fd -> Client \cup {Free}] /\ partner \in [Client -> Client \cup {Nobody}]
    BY <1>1
  <2>3. QED
    BY <1>1, <2>1, <2>2 DEF TypeOK, Pair, Connections, PlayerRecord
<1>7. \A f \in Fd : ~Taken(f) /\ ~Seated(f)
  BY <1>2 DEF Taken, Seated
<1>8. Seats /\ Selected
  BY <1>1, <1>2, <1>7 DEF Seats, Selected
<1>9. InLine
  BY <1>1, <1>2, <1>3, <1>5 DEF InLine
<1>10. Lively
  BY <1>2, <1>3, <1>4, <1>5 DEF Lively
<1>11. Tables /\ WaitsAlone /\ Strangers
  <2>1. Tables
    BY <1>1, <1>2, <1>3, <1>7 DEF Tables
  <2>2. WaitsAlone
    BY <1>1 DEF WaitsAlone
  <2>3. Strangers
    BY <1>2, <1>4, <1>5 DEF Strangers
  <2>4. QED
    BY <2>1, <2>2, <2>3
<1>12. ZeroIsShortLived
  BY <1>1, <1>2, <1>7 DEF ZeroIsShortLived
<1>13. Whole
  BY <1>1, <1>2, <1>3, <1>7 DEF Whole, SharedFd
<1>14. MovesReachThePartner
  BY <1>2, <1>3, <1>4 DEF MovesReachThePartner
<1>15. Play
  BY <1>2 DEF Play, Together
<1>16. QED
  BY <1>6, <1>8, <1>9, <1>10, <1>11, <1>12, <1>13, <1>14, <1>15 DEF IInv

LEMMA Stutters ==
  ASSUME IInv, UNCHANGED vars
  PROVE  IInv'
<1>1. /\ server' = server /\ todo' = todo /\ readFds' = readFds /\ sock' = sock /\ stdin' = stdin
      /\ p' = p /\ waiting' = waiting /\ backlog' = backlog /\ partner' = partner
      /\ conn' = conn /\ player' = player
  BY DEF vars, serverVars
<1>2. /\ \A f : Taken(f)' <=> Taken(f)
      /\ \A f : Occurs(f)' <=> Occurs(f)
      /\ \A f : Seated(f)' <=> Seated(f)
      /\ SharedFd' <=> SharedFd
      /\ Abandoned' <=> Abandoned
  BY <1>1 DEF Taken, Occurs, Seated, SharedFd, Abandoned
<1>3. TypeOK' /\ Seats' /\ Selected' /\ InLine' /\ Lively'
  <2>1. TypeOK'
    BY <1>1 DEF IInv, TypeOK
  <2>2. Seats' /\ Selected'
    BY <1>1 DEF IInv, Seats, Selected, Taken
  <2>3. InLine'
    BY <1>1 DEF IInv, InLine, Taken
  <2>4. Lively'
    BY <1>1 DEF IInv, Lively
  <2>5. QED
    BY <2>1, <2>2, <2>3, <2>4
<1>4. Tables'
  BY <1>1 DEF IInv, Tables, SharedFd, Seated, Taken, Occurs
<1>5. WaitsAlone' /\ Strangers' /\ ZeroIsShortLived'
  <2>1. WaitsAlone'
    BY <1>1 DEF IInv, WaitsAlone, SharedFd, Taken, Occurs
  <2>2. Strangers'
    BY <1>1 DEF IInv, Strangers, SharedFd, BlankBoard
  <2>3. ZeroIsShortLived'
    BY <1>1 DEF IInv, ZeroIsShortLived, SharedFd, Occurs, Seated, Taken
  <2>4. QED
    BY <2>1, <2>2, <2>3
<1>6. Whole'
  BY <1>1 DEF IInv, Whole, SharedFd, Abandoned, Seated, Taken
<1>7. MovesReachThePartner'
  BY <1>1, <1>2 DEF IInv, MovesReachThePartner
<1>8. Play'
  <2> SUFFICES ASSUME ~SharedFd, NEW a \in Client, NEW b \in Client, Together(a, b)'
               PROVE  OneRight(a, b)' /\ Openings(a, b)' /\ Boards(a, b)' /\ Standstill(a, b)'
    BY <1>2 DEF Play
  <2>1. Together(a, b)
    BY <1>1, PairFrame
  <2>2. OneRight(a, b) /\ Openings(a, b) /\ Boards(a, b) /\ Standstill(a, b)
    BY <2>1 DEF IInv, Play
  <2>3. QED
    BY <1>1, <2>2, PairFrame
<1>9. QED
  BY <1>3, <1>4, <1>5, <1>6, <1>7, <1>8 DEF IInv

\* The inductive invariant: who sits where, who waits, and what two players
\* of a game share, through every step of the server and of the clients.
THEOREM InvariantCorrect == Spec => []IInv
<1>1. Init => IInv
  BY AtTheStart
<1>2. IInv /\ [Next]_vars => IInv'
  <2> SUFFICES ASSUME IInv, [Next]_vars PROVE IInv'
    OBVIOUS
  <2>1. CASE Next
    <3>1. CASE StartPass \/ Stops \/ SitsDown \/ PairsUp
      BY <3>1, StartPassKeeps, StopsKeeps, SitsDownKeeps, PairsUpKeeps
    <3>2. CASE \E i \in Fd, c \in Client : Relays(i, c) \/ Leaves(i, c)
      BY <3>2, RelaysKeeps, LeavesKeeps
    <3>3. CASE \E c \in Client : Connect(c) \/ Departs(c) \/ Reads(c) \/ Misreads(c)
      BY <3>3, ConnectKeeps, DepartsKeeps, ReadsKeeps, MisreadsKeeps
    <3>4. CASE \E c \in Client, sq \in Cell : Sends(c, sq)
      BY <3>4, SendsKeeps
    <3>5. QED
      BY <2>1, <3>1, <3>2, <3>3, <3>4, Steps
  <2>2. CASE UNCHANGED vars
    BY <2>2, Stutters
  <2>3. QED
    BY <2>1, <2>2
<1>3. QED
  BY <1>1, <1>2, PTL DEF Spec

\* Every variable of the server and of the clients keeps its type: find_game
\* and accept never leave the arrays, also when game -1 is closed.
THEOREM TypeCorrect == Spec => []TypeOK
<1>1. IInv => TypeOK
  BY DEF IInv
<1>2. QED
  BY <1>1, InvariantCorrect, PTL

\* The server relays a move to the sender's partner only, for any number of
\* games side by side, until a descriptor has been seated twice.
THEOREM MovesReachOnlyThePartner == Spec => []MovesReachThePartner
<1>1. IInv => MovesReachThePartner
  BY DEF IInv
<1>2. QED
  BY <1>1, InvariantCorrect, PTL

\* The server goes down only in the wake of a game that a player has left.
THEOREM StaysUpWhilePlayersStay == Spec => []DownAfterAbandonedGame
<1>1. IInv => DownAfterAbandonedGame
  BY DEF IInv, Whole, Abandoned, DownAfterAbandonedGame
<1>2. QED
  BY <1>1, InvariantCorrect, PTL

\* Two seated players whose connections have not been reset are together.
LEMMA PairedTogether ==
  ASSUME NEW c \in Client, NEW d \in Client, Paired(c, d), NoReset(c, d)
  PROVE  Together(c, d) /\ Together(d, c)
<1>1. c # d
  BY Numbers DEF Paired
<1>2. QED
  BY <1>1 DEF Together, Paired, NoReset

\* The boards of two players that play, or played, without a reset differ in
\* one square at most, the last move's.
THEOREM BoardsNeverDrift == Spec => []BoardsAgree
<1>1. ASSUME IInv PROVE BoardsAgree
  <2> SUFFICES ASSUME NEW c \in Client, NEW d \in Client,
                      Paired(c, d), NoReset(c, d), ~SharedFd
               PROVE  Cardinality(Differ(c, d)) <= 1
    BY DEF BoardsAgree, Differ
  <2>1. \A q, r \in Differ(c, d) : q = r
    <3>1. Together(c, d)
      BY PairedTogether
    <3>2. Boards(c, d)
      BY <1>1, <3>1 DEF IInv, Play
    <3>3. QED
      BY <3>2 DEF Boards
  <2> HIDE DEF Differ
  <2>2. CASE Differ(c, d) = {}
    BY <2>2, FS_EmptySet
  <2>3. CASE Differ(c, d) # {}
    <3>1. PICK q : Differ(c, d) = {q}
      BY <2>1, <2>3
    <3>2. Cardinality({q}) = 1
      BY FS_Singleton
    <3>3. QED
      BY <3>1, <3>2
  <2>4. QED
    BY <2>2, <2>3
<1>2. QED
  BY <1>1, InvariantCorrect, PTL

\* What is on its way to a player or from it, and what it holds.
LEMMA RightsAre ==
  ASSUME IInv, NEW c \in Client, NEW d \in Client, Together(c, d), On(c, d)
  PROVE  /\ \A r \in Rights(c, d) :
              \E e \in {c, d} : \/ Hold(e) /\ r = <<"held", e, 0>>
                                \/ \E n \in Coming(e) : r = <<"coming", e, n>>
                                \/ conn[e].toServer # <<>>
                                   /\ \E n \in DOMAIN conn[e].toServer : r = <<"sent", e, n>>
         /\ Rights(c, d) = {} => Lost(c, d)
<1>1. Playing(c) /\ Playing(d)
  BY DEF On
<1>2. \A s \in Seq(Message) : /\ s = <<>> => DOMAIN s = {}
                              /\ s # <<>> => 1 \in DOMAIN s
  OBVIOUS
<1>3. conn[c].toServer \in Seq(Message) /\ conn[d].toServer \in Seq(Message)
  BY DEF IInv, TypeOK, Connection
<1>4. \A e \in {c, d} : conn[e].toServer # <<>> <=> DOMAIN conn[e].toServer # {}
  BY <1>2, <1>3
<1>5. \A e \in {c, d} : \A r : r \in RightsOf(e) <=>
          \/ Hold(e) /\ r = <<"held", e, 0>>
          \/ \E n \in Coming(e) : r = <<"coming", e, n>>
          \/ \E n \in DOMAIN conn[e].toServer : r = <<"sent", e, n>>
  BY <1>1 DEF RightsOf, Coming, Hold
<1>6. \A r : r \in Rights(c, d) <=> \E e \in {c, d} : r \in RightsOf(e)
  BY DEF Rights
<1>7. Rights(c, d) = {} => Lost(c, d)
  <2> SUFFICES ASSUME Rights(c, d) = {} PROVE Lost(c, d)
    OBVIOUS
  <2>1. \A e \in {c, d} : RightsOf(e) = {}
    BY <1>6
  <2>2. \A e \in {c, d} : ~Hold(e) /\ Coming(e) = {} /\ DOMAIN conn[e].toServer = {}
    BY <1>5, <2>1
  <2>3. QED
    BY <1>4, <2>2 DEF Lost
<1>8. QED
  BY <1>4, <1>5, <1>6, <1>7

\* In a game that goes on there is at most one right to move: no two players
\* on turn, no second move on its way, none behind a player's back.
THEOREM OneOnMoveCorrect == Spec => []OneOnMove
<1>1. ASSUME IInv PROVE OneOnMove
  <2> SUFFICES ASSUME NEW c \in Client, NEW d \in Client,
                      Paired(c, d), On(c, d), ~SharedFd,
                      NEW r \in Rights(c, d), NEW s \in Rights(c, d)
               PROVE  r = s
    BY DEF OneOnMove
  <2>1. Together(c, d) /\ Together(d, c)
    <3>1. NoReset(c, d)
      BY DEF On, NoReset
    <3>2. QED
      BY <3>1, PairedTogether
  <2>2. OneRight(c, d) /\ OneRight(d, c)
    BY <1>1, <2>1 DEF IInv, Play
  <2>3. PICK e \in {c, d} : \/ Hold(e) /\ r = <<"held", e, 0>>
                            \/ \E n \in Coming(e) : r = <<"coming", e, n>>
                            \/ conn[e].toServer # <<>>
                               /\ \E n \in DOMAIN conn[e].toServer : r = <<"sent", e, n>>
    BY <1>1, <2>1, RightsAre
  <2>4. PICK f \in {c, d} : \/ Hold(f) /\ s = <<"held", f, 0>>
                            \/ \E n \in Coming(f) : s = <<"coming", f, n>>
                            \/ conn[f].toServer # <<>>
                               /\ \E n \in DOMAIN conn[f].toServer : s = <<"sent", f, n>>
    BY <1>1, <2>1, RightsAre
  <2>5. \A g \in {c, d} : conn[g].toServer # <<>> => \A n \in DOMAIN conn[g].toServer : n = 1
    <3>1. \A t \in Seq(Message) : Len(t) = 1 => \A n \in DOMAIN t : n = 1
      OBVIOUS
    <3>2. conn[c].toServer \in Seq(Message) /\ conn[d].toServer \in Seq(Message)
      BY <1>1 DEF IInv, TypeOK, Connection
    <3>3. \A g \in {c, d} : conn[g].toServer # <<>> => Len(conn[g].toServer) = 1
      BY <2>2 DEF OneRight
    <3>4. QED
      BY <3>1, <3>2, <3>3
  <2>6. \A g, h \in {c, d} :
          /\ Hold(g) => conn[h].toServer = <<>> /\ Coming(h) = {} /\ (Hold(h) => h = g)
          /\ conn[g].toServer # <<>> => Coming(h) = {} /\ (conn[h].toServer # <<>> => h = g)
          /\ Coming(g) # {} => \A n \in Coming(h) : h = g /\ \A m \in Coming(g) : m = n
    BY <2>2 DEF OneRight
  <2>7. CASE Hold(e) /\ r = <<"held", e, 0>>
    BY <2>4, <2>6, <2>7
  <2>8. CASE \E n \in Coming(e) : r = <<"coming", e, n>>
    BY <2>4, <2>6, <2>8
  <2>9. CASE conn[e].toServer # <<>> /\ \E n \in DOMAIN conn[e].toServer : r = <<"sent", e, n>>
    BY <2>4, <2>5, <2>6, <2>9
  <2>10. QED
    BY <2>3, <2>7, <2>8, <2>9
<1>2. QED
  BY <1>1, InvariantCorrect, PTL

\* The only way in which a game that goes on can lose the right to move: the
\* second player found its symbol and the first move in one recv, so exactly
\* one move has been made, and none by the second player.
THEOREM StandstillOnlyAtTheStart == Spec => []StandstillOnlyAtStart
<1>1. ASSUME IInv PROVE StandstillOnlyAtStart
  <2> SUFFICES ASSUME NEW c \in Client, NEW d \in Client,
                      Paired(c, d), On(c, d), ~SharedFd, Rights(c, d) = {}
               PROVE  /\ player[d].inGame
                      /\ \A sq \in Cell : player[d].board[sq] = blank
                      /\ Cardinality({sq \in Cell : player[c].board[sq] # blank}) = 1
    BY DEF StandstillOnlyAtStart
  <2>1. Together(c, d) /\ c < d
    <3>1. NoReset(c, d)
      BY DEF On, NoReset
    <3>2. QED
      BY <3>1, PairedTogether DEF Paired
  <2>2. Standstill(c, d) /\ Lost(c, d)
    BY <1>1, <2>1, RightsAre DEF IInv, Play
  <2>3. /\ player[d].inGame /\ player[d].board = BlankBoard
        /\ \E s \in Cell : player[c].board = [BlankBoard EXCEPT ![s] = x]
    BY <2>1, <2>2 DEF Standstill
  <2>4. PICK s \in Cell : player[c].board = [BlankBoard EXCEPT ![s] = x]
    BY <2>3
  <2>5. {sq \in Cell : player[c].board[sq] # blank} = {s}
    BY <2>4 DEF BlankBoard, blank, x
  <2>6. Cardinality({s}) = 1
    BY FS_Singleton
  <2>7. QED
    BY <2>3, <2>5, <2>6 DEF BlankBoard
<1>2. QED
  BY <1>1, InvariantCorrect, PTL

-----------------------------------------------------------------------------
(* Who is connected.                                                       *)

\* select() watches every descriptor that is open, and whose connection is open
\* has one or waits in the backlog.
Connected ==
    /\ server = "up" => \A f \in Fd : Taken(f) => f \in readFds
    /\ \A c \in Client : player[c].state # "new" /\ conn[c].end = "open" =>
          /\ server = "up"
          /\ (\E f \in Fd : sock[f] = c) \/ (\E n \in DOMAIN backlog : backlog[n] = c)

LEMMA AcceptsConnected ==
  ASSUME IInv, Connected, Accepts, \A d \in Client : conn'[d].end = conn[d].end
  PROVE  Connected'
<1>1. /\ server = "up" /\ server' = "up" /\ Listen \in todo /\ player' = player
      /\ sock' = [sock EXCEPT ![Newest] = Comer]
      /\ readFds' = readFds \cup {Newest} /\ backlog' = Tail(backlog)
  BY DEF Accepts, Opened
<1>2. Comer \in Client /\ Newest \in Fd /\ ~Taken(Newest) /\ backlog # <<>>
  BY <1>1, Newcomer DEF IInv
<1>3. /\ sock \in [Fd -> Client \cup {Free}] /\ backlog \in Seq(Client) /\ Free \notin Client
      /\ \A f \in Fd : sock'[f] = IF f = Newest THEN Comer ELSE sock[f]
  BY <1>1, <1>2, Numbers DEF IInv, TypeOK
<1>4. ASSUME NEW f \in Fd, sock'[f] # Free PROVE f \in readFds'
  BY <1>1, <1>3, <1>4 DEF Connected, Taken
<1>5. ASSUME NEW d \in Client, player'[d].state # "new", conn'[d].end = "open"
      PROVE  (\E f \in Fd : sock'[f] = d) \/ (\E n \in DOMAIN backlog' : backlog'[n] = d)
  <2>1. (\E f \in Fd : sock[f] = d) \/ (\E n \in DOMAIN backlog : backlog[n] = d)
    BY <1>1, <1>5 DEF Connected
  <2>2. CASE d = Comer
    BY <1>2, <1>3, <2>2
  <2>3. CASE \E f \in Fd : sock[f] = d
    BY <1>2, <1>3, <2>3 DEF Taken
  <2>4. CASE d # Comer /\ \E n \in DOMAIN backlog : backlog[n] = d
    <3>1. PICK n \in DOMAIN backlog : backlog[n] = d
      BY <2>4
    <3>2. Comer = backlog[1]
      BY <1>2, <1>3 DEF Comer
    <3>3. n # 1 /\ n \in 1 .. Len(backlog) /\ Len(backlog) \in Nat
      BY <1>3, <2>4, <3>1, <3>2
    <3>4. n - 1 \in DOMAIN Tail(backlog) /\ Tail(backlog)[n - 1] = backlog[n]
      BY <1>2, <1>3, <3>3
    <3>5. QED
      BY <1>1, <3>1, <3>4
  <2>5. QED
    BY <2>1, <2>2, <2>3, <2>4
<1>6. QED
  BY <1>1, <1>4, <1>5 DEF Connected, Taken

LEMMA ConnectedKeeps ==
  ASSUME IInv, Connected, Next
  PROVE  Connected'
<1>1. /\ sock \in [Fd -> Client \cup {Free}] /\ Free \notin Client /\ backlog \in Seq(Client)
  BY Numbers DEF IInv, TypeOK
<1>2. CASE StartPass
  BY <1>2 DEF StartPass, Connected, Taken
<1>3. CASE Stops
  BY <1>3 DEF Stops, Connected
<1>4. CASE SitsDown
  BY <1>4, AcceptsConnected DEF SitsDown
<1>5. CASE PairsUp
  <2>1. waiting \in Fd
    BY <1>5 DEF PairsUp, IInv, TypeOK
  <2>2. Accepts /\ conn' = Both /\ Listen \in todo
    BY <1>5 DEF PairsUp, Accepts
  <2>3. \A d \in Client : Both[d].end = conn[d].end
    BY <2>1, <2>2, BothEffect
  <2>4. QED
    BY <2>2, <2>3, AcceptsConnected
<1>6. ASSUME NEW i \in Fd, NEW c \in Client, Relays(i, c)
      PROVE  Connected'
  <2>1. \A d \in Client : conn'[d].end = conn[d].end
    BY <1>6, RelayEffect
  <2>2. UNCHANGED <<server, readFds, sock, backlog, player>>
    BY <1>6 DEF Relays, Serves
  <2>3. QED
    BY <2>1, <2>2 DEF Connected, Taken
<1>7. ASSUME NEW i \in Fd, NEW c \in Client, Leaves(i, c)
      PROVE  Connected'
  <2>1. /\ server' = server /\ backlog' = backlog /\ player' = player
        /\ readFds' = readFds \ Gone(i)
        /\ \A f \in Fd : sock'[f] = IF f \in Gone(i) THEN Free ELSE sock[f]
        /\ \A d \in Client : IF \E f \in Gone(i) : sock[f] = d THEN conn'[d].end # "open"
                             ELSE conn'[d] = conn[d]
    BY <1>7 DEF Leaves, Serves
  <2>2. ASSUME NEW f \in Fd, sock'[f] # Free, server = "up" PROVE f \in readFds'
    BY <2>1, <2>2 DEF Connected, Taken
  <2>3. ASSUME NEW d \in Client, player[d].state # "new", conn'[d].end = "open"
        PROVE  /\ server = "up"
               /\ (\E f \in Fd : sock'[f] = d) \/ (\E n \in DOMAIN backlog : backlog[n] = d)
    <3>1. conn[d].end = "open" /\ \A f \in Gone(i) : sock[f] # d
      BY <2>1, <2>3
    <3>2. /\ server = "up"
          /\ (\E f \in Fd : sock[f] = d) \/ (\E n \in DOMAIN backlog : backlog[n] = d)
      BY <2>3, <3>1 DEF Connected
    <3>3. QED
      BY <2>1, <3>1, <3>2
  <2>4. QED
    BY <2>1, <2>2, <2>3 DEF Connected, Taken
<1>8. ASSUME NEW c \in Client, Connect(c)
      PROVE  Connected'
  <2>1. /\ UNCHANGED <<server, readFds, sock, conn>> /\ server = "up"
        /\ backlog' = Append(backlog, c)
        /\ player' = [player EXCEPT ![c].state = "playing"]
    BY <1>8 DEF Connect
  <2>2. \A d \in Client : d # c => player'[d] = player[d]
    BY <2>1 DEF IInv, TypeOK
  <2>3. /\ \A n \in DOMAIN backlog : n \in DOMAIN backlog' /\ backlog'[n] = backlog[n]
        /\ Len(backlog) + 1 \in DOMAIN backlog' /\ backlog'[Len(backlog) + 1] = c
    BY <1>1, <2>1
  <2>4. QED
    BY <2>1, <2>2, <2>3 DEF Connected, Taken
<1>9. ASSUME NEW c \in Client, Acts(c), conn'[c].end = "open" => conn[c].end = "open"
      PROVE  Connected'
  <2>1. UNCHANGED <<server, readFds, sock, backlog>> /\ player[c].state # "new"
    BY <1>9 DEF Acts, serverVars, Playing
  <2>2. \A d \in Client : d # c => player'[d] = player[d] /\ conn'[d] = conn[d]
    BY <1>9 DEF Acts
  <2>3. QED
    BY <1>9, <2>1, <2>2 DEF Connected, Taken
<1>10. CASE \E c \in Client : Departs(c) \/ Reads(c) \/ Misreads(c)
  BY <1>9, <1>10 DEF Departs, Reads, Misreads
<1>11. CASE \E c \in Client, sq \in Cell : Sends(c, sq)
  BY <1>9, <1>11 DEF Sends
<1>12. QED
  BY <1>2, <1>3, <1>4, <1>5, <1>6, <1>7, <1>8, <1>10, <1>11, Steps

\* The server's select watches every open descriptor, and a player whose
\* connection is open has one or waits to be accepted, in every state.
THEOREM ConnectedCorrect == Spec => []Connected
<1>1. Init => Connected
  <2>1. Init => (\A f \in Fd : sock[f] = Free) /\ \A c \in Client : player[c].state = "new"
    BY DEF Init, NewPlayer
  <2>2. QED
    BY <2>1 DEF Connected, Taken
<1>2. IInv /\ Connected /\ [Next]_vars => Connected'
  <2>1. CASE Next
    BY <2>1, ConnectedKeeps
  <2>2. CASE UNCHANGED vars
    BY <2>2 DEF vars, serverVars, Connected, Taken
  <2>3. QED
    BY <2>1, <2>2
<1>3. QED
  BY <1>1, <1>2, InvariantCorrect, PTL DEF Spec

LEMMA Released ==
  ASSUME IInv, Connected, Quiet, ~SharedFd, NEW c \in Client, NEW d \in Client,
         partner[c] = d, partner[d] = c, Playing(c)
  PROVE  Playing(d)
<1>1. /\ sock \in [Fd -> Client \cup {Free}] /\ Free \notin Client /\ Nobody \notin Client
      /\ NoFd \notin Fd /\ DOMAIN <<>> = {}
  BY Numbers DEF IInv, TypeOK
<1>2. player[c].state # "new" /\ conn[c].end = "open"
  BY DEF Quiet, Playing, ClientReadable
<1>3. PICK f \in Fd : sock[f] = c
  <2>1. server = "up" /\ ((\E f \in Fd : sock[f] = c) \/ (\E n \in DOMAIN backlog : backlog[n] = c))
    BY <1>2 DEF Connected
  <2>2. backlog = <<>>
    BY <2>1 DEF Quiet
  <2>3. QED
    BY <1>1, <2>1, <2>2
<1>4. Seated(f)
  <2>1. Taken(f)
    BY <1>1, <1>3 DEF Taken
  <2>2. f # waiting
    BY <1>1, <1>3, <2>1 DEF IInv, WaitsAlone
  <2>3. QED
    BY <2>1, <2>2 DEF Seated
<1>5. PICK g \in DOMAIN p : f \in {p[g].player1, p[g].player2}
  BY <1>4 DEF IInv, Tables, Occurs
<1>6. PICK h \in {p[g].player1, p[g].player2} : Taken(h) /\ sock[h] = d
  <2>1. /\ Seated(p[g].player1) <=> Seated(p[g].player2)
        /\ Seated(p[g].player1) => /\ partner[sock[p[g].player1]] = sock[p[g].player2]
                                   /\ partner[sock[p[g].player2]] = sock[p[g].player1]
    BY DEF IInv, Tables
  <2>2. QED
    BY <1>3, <1>4, <1>5, <2>1 DEF Seated
<1>7. h \in Fd
  BY GamePlayers DEF IInv
<1>8. h \in readFds
  BY <1>2, <1>6, <1>7 DEF Connected
<1>9. conn[d].peer = "open"
  BY <1>6, <1>8 DEF Quiet, Readable, ServerReadable
<1>10. player[d].state \notin {"new", "ended"}
  BY <1>6, <1>7, <1>9 DEF IInv, Seats, Lively
<1>11. QED
  BY <1>10 DEF Playing, IInv, TypeOK

\* When all is quiet, the partner of a player that has left has been released,
\* by the server that went on or by its end.
THEOREM NobodyLeftAlone == Spec => []PartnerReleased
<1>1. IInv /\ Connected => PartnerReleased
  <2> SUFFICES ASSUME IInv, Connected, Quiet, ~SharedFd, NEW c \in Client, NEW d \in Client,
                      Paired(c, d)
               PROVE  Playing(c) <=> Playing(d)
    BY DEF PartnerReleased
  <2>1. partner[c] = d /\ partner[d] = c
    BY DEF Paired
  <2>2. QED
    BY <2>1, Released
<1>2. QED
  BY <1>1, ConnectedCorrect, InvariantCorrect, PTL

=============================================================================
