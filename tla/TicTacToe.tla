----------------------------- MODULE TicTacToe -----------------------------
(***************************************************************************)
(* The noughts-and-crosses server of training/x_si_0 and its clients.  The *)
(* server pairs connections two by two and relays what one player sends to *)
(* the other; it is a single thread that walks through the descriptors of  *)
(* a select() pass in ascending order.  The players keep the board.        *)
(*                                                                         *)
(* A TCP connection keeps its bytes in order and may deliver several       *)
(* sends in one recv().  Descriptors are numbers: the kernel hands out the *)
(* lowest free one, so a descriptor comes back after a close, while the    *)
(* array p of games is never pruned.                                       *)
(***************************************************************************)
EXTENDS Integers, Sequences, FiniteSets, SequencesExt, StreamSocket

CONSTANTS
    N,            \* number of clients that ever connect (bound)
    Cell          \* the squares of the board

\* The array p[25].  Two connections make a game, and one that is alone waits
\* in the next entry: nothing is written behind the array by the first 50.
MaxGames == 25

ASSUME TicTacToeAssumption == N \in 1 .. 2 * MaxGames /\ IsFiniteSet(Cell)

Client == 1 .. N
Stdin  == 0
Listen == 3                       \* sockfd of the server
Fd     == {Stdin} \cup 4 .. 3 + N \* what accept() may return
NoFd   == -1
Free   == 0                       \* an unused descriptor's entry in sock
Nobody == 0

x     == 1
o     == 0
blank == 3

VARIABLES
    server,   \* "up", or "down" after DIE or a fatal signal
    todo,     \* what is left of tmp_fds in the current pass
    readFds,  \* read_fds without the listening socket
    sock,     \* Fd -> the client an open descriptor is connected to
    stdin,    \* TRUE while descriptor 0 is still the terminal
    p,        \* the games: the array p[0..j-1]
    waiting,  \* p[j].player1 while k = 1, NoFd while k = 0
    backlog,  \* connections not accepted yet
    conn,     \* Client -> the two directions of its connection
    player,   \* Client -> the client program's variables
    partner   \* history: whom a client was paired with

serverVars == <<server, todo, readFds, sock, stdin, p, waiting, backlog, partner>>
vars == <<serverVars, conn, player>>

Least(S) == CHOOSE f \in S : \A g \in S : f <= g

NewPlayer == [state |-> "new", inGame |-> FALSE, turn |-> FALSE,
              symbol |-> blank, board |-> [sq \in Cell |-> blank]]

Init ==
    /\ server = "up" /\ todo = {} /\ readFds = {} /\ stdin = TRUE
    /\ sock = [f \in Fd |-> Free]
    /\ p = <<>> /\ waiting = NoFd /\ backlog = <<>>
    /\ conn = [c \in Client |-> NewConn]
    /\ player = [c \in Client |-> NewPlayer]
    /\ partner = [c \in Client |-> Nobody]

-----------------------------------------------------------------------------
\* send() on descriptor f of table s; a descriptor that is no connection
\* gives an error, which is only reported.
Sent(s, k, f, msgs) ==
    IF s[f] = Free THEN k ELSE [k EXCEPT ![s[f]] = ServerSends(@, msgs)]

\* Mistake in SigPipe: a failed send is fatal, as a failed recv is.
SendFailureFatal(s, k, f) == s[f] = Free \/ BreaksPipe(k[s[f]])

SigPipe(s, k, f) == s[f] # Free /\ BreaksPipe(k[s[f]])

\* exit() or a signal: the kernel closes every connection, accepted or not.
ServerEnds(k) ==
    /\ server' = "down"
    /\ todo' = {}
    /\ readFds' = {}
    /\ conn' = [c \in Client |->
                  IF player[c].state = "new" THEN k[c] ELSE ServerCloses(k[c])]
    /\ UNCHANGED <<sock, stdin, p, waiting, backlog, player, partner>>

-----------------------------------------------------------------------------
(***************************************************************************)
(* The server.                                                             *)
(***************************************************************************)

\* select() copies read_fds and keeps what is readable.
Readable == {f \in readFds : ServerReadable(conn[sock[f]])}

StartPass ==
    LET ready == Readable \cup IF backlog # <<>> THEN {Listen} ELSE {}
    IN  /\ server = "up" /\ todo = {} /\ ready # {}
        /\ todo' = ready
        /\ UNCHANGED <<server, readFds, sock, stdin, p, waiting, backlog, partner, conn, player>>

\* A new connection waits for a partner or becomes the second player.  The
\* two symbols are sent from here; a failed send is only reported.
Accept ==
    LET c    == Head(backlog)
        new  == Least({f \in Fd : sock[f] = Free /\ (f = Stdin => ~stdin)})
        open == [sock EXCEPT ![new] = c]
        told == Sent(open, conn, waiting, <<[kind |-> "x"]>>)
        both == Sent(open, told, new, <<[kind |-> "z"]>>)
    IN  /\ server = "up" /\ todo # {} /\ Least(todo) = Listen
        /\ \/ /\ waiting = NoFd
              /\ waiting' = new
              /\ sock' = open /\ readFds' = readFds \cup {new}
              /\ backlog' = Tail(backlog) /\ todo' = todo \ {Listen}
              /\ UNCHANGED <<server, stdin, p, partner, conn, player>>
           \/ /\ waiting # NoFd
              /\ SigPipe(open, conn, waiting) \/ SigPipe(open, told, new)
              /\ ServerEnds(told)
           \/ /\ waiting # NoFd
              /\ ~(SigPipe(open, conn, waiting) \/ SigPipe(open, told, new))
              /\ conn' = both
              /\ p' = Append(p, [player1 |-> waiting, player2 |-> new])
              /\ waiting' = NoFd
              /\ partner' = IF open[waiting] = Free THEN partner
                            ELSE [partner EXCEPT ![c] = open[waiting], ![open[waiting]] = c]
              /\ sock' = open /\ readFds' = readFds \cup {new}
              /\ backlog' = Tail(backlog) /\ todo' = todo \ {Listen}
              /\ UNCHANGED <<server, stdin, player>>

\* Mistake in find_game: it answers with the newest game.
NewestGame(f) == Len(p)

\* find_game returns the first game a descriptor occurs in, also an old one.
find_game(f) ==
    LET at == {g \in DOMAIN p : f \in {p[g].player1, p[g].player2}}
    IN  IF at = {} THEN 0 ELSE Least(at)

\* p[-1] lies in the last, unused bytes of tmp_fds in the repository's own
\* build, so both its players are descriptor 0.
Game(f) == IF find_game(f) = 0 THEN [player1 |-> Stdin, player2 |-> Stdin]
                               ELSE p[find_game(f)]
Other(f) == IF Game(f).player1 = f THEN Game(f).player2 ELSE Game(f).player1

\* recv() on a descriptor of this pass and all that follows from it.  recv
\* fails on a descriptor closed earlier in the pass and on a reset; DIE then
\* ends the server.
Serve ==
    LET i == Least(todo)
        c == sock[i]
        data == conn[c].toServer
        read == [conn EXCEPT ![c].toServer = <<>>]
        sent == Sent(sock, read, Other(i), data)
        gone == {Game(i).player1, Game(i).player2}
    IN  /\ server = "up" /\ todo # {} /\ i # Listen
        /\ IF \/ c = Free
              \/ data = <<>> /\ conn[c].peer = "reset"
              \/ SigPipe(sock, read, Other(i))
           THEN ServerEnds(IF c = Free \/ data = <<>> THEN conn ELSE read)
           ELSE /\ todo' = todo \ {i}
                /\ UNCHANGED <<server, p, waiting, backlog, player, partner>>
                /\ \/ /\ data # <<>>
                      /\ conn' = sent
                      /\ UNCHANGED <<readFds, sock, stdin>>
                   \/ /\ data = <<>>
                      /\ conn' = [d \in Client |-> IF \E f \in gone : sock[f] = d
                                                 THEN ServerCloses(sent[d]) ELSE sent[d]]
                      /\ sock' = [f \in Fd |-> IF f \in gone THEN Free ELSE sock[f]]
                      /\ stdin' = (stdin /\ Stdin \notin gone)
                      /\ readFds' = readFds \ gone

-----------------------------------------------------------------------------
(***************************************************************************)
(* The client program.                                                     *)
(***************************************************************************)

Playing(c) == player[c].state = "playing"

\* The process ends; the server's side learns of it.
Ends(c, q) ==
    /\ player' = [player EXCEPT ![c] = [q EXCEPT !.state = "ended"]]
    /\ \E k \in ClientEnds(conn[c]) : conn' = [conn EXCEPT ![c] = k]

\* Clients are alike, so they connect in the order of their numbers.
Connect(c) ==
    /\ server = "up"
    /\ player[c].state = "new"
    /\ \A d \in Client : d < c => player[d].state # "new"
    /\ player' = [player EXCEPT ![c].state = "playing"]
    /\ backlog' = Append(backlog, c)
    /\ UNCHANGED <<server, todo, readFds, sock, stdin, p, waiting, partner, conn>>

\* verify_finish returns 0 when no square is blank.
verify_finish(board) == \E sq \in Cell : board[sq] = blank

\* A move typed by the player on turn.  The player that fills the board
\* prints DRAW and leaves without sending the move.
Move(c, sq) ==
    LET q == [player[c] EXCEPT !.board[sq] = player[c].symbol]
    IN  /\ Playing(c) /\ player[c].inGame /\ player[c].turn
        /\ player[c].board[sq] = blank
        /\ \/ ~verify_finish(q.board) /\ Ends(c, q)
           \/ verify_finish(q.board) /\ ~ClientMaySend(conn[c]) /\ Ends(c, q)
           \/ /\ verify_finish(q.board) /\ ClientMaySend(conn[c])
              /\ player' = [player EXCEPT ![c] = [q EXCEPT !.turn = FALSE]]
              /\ conn' = [conn EXCEPT ![c] = ClientSends(@, [kind |-> "move", from |-> c, sq |-> sq])]
        /\ UNCHANGED serverVars

\* The command exit.
Exit(c) ==
    /\ Playing(c)
    /\ Ends(c, player[c])
    /\ UNCHANGED serverVars

\* Mistakes in FirstMessage: the second player starts too; the first player's
\* answer does not give the move back; the partner's mark is stored as the
\* player's own.
BothStart(q, m) ==
    IF q.inGame
    THEN [q EXCEPT !.turn = TRUE,
                   !.board = IF m.kind = "move" THEN [@ EXCEPT ![m.sq] = 1 - q.symbol] ELSE @]
    ELSE [q EXCEPT !.inGame = TRUE, !.turn = TRUE, !.symbol = IF m.kind = "x" THEN x ELSE o]

TurnNotGivenBack(q, m) ==
    IF q.inGame
    THEN [q EXCEPT !.turn = (q.symbol = o),
                   !.board = IF m.kind = "move" THEN [@ EXCEPT ![m.sq] = 1 - q.symbol] ELSE @]
    ELSE [q EXCEPT !.inGame = TRUE, !.turn = (m.kind = "x"),
                   !.symbol = IF m.kind = "x" THEN x ELSE o]

OwnMark(q, m) ==
    IF q.inGame
    THEN [q EXCEPT !.turn = TRUE,
                   !.board = IF m.kind = "move" THEN [@ EXCEPT ![m.sq] = q.symbol] ELSE @]
    ELSE [q EXCEPT !.inGame = TRUE, !.turn = (m.kind = "x"),
                   !.symbol = IF m.kind = "x" THEN x ELSE o]

\* What the client makes of the first message in its buffer; a recv that
\* failed leaves the buffer empty.  A symbol met in a game is taken for a
\* move far outside the board.
FirstMessage(q, m) ==
    IF q.inGame
    THEN [q EXCEPT !.turn = TRUE,
                   !.board = IF m.kind = "move"
                             THEN [@ EXCEPT ![m.sq] = IF q.symbol = o THEN x ELSE o] ELSE @]
    ELSE [q EXCEPT !.inGame = TRUE,
                   !.turn   = (m.kind = "x"),
                   !.symbol = CASE m.kind = "x" -> x [] m.kind = "z" -> o [] OTHER -> @]

\* One recv(): it takes all that has arrived, and only the first message of
\* it has an effect.
Receive(c) ==
    LET inbox == conn[c].toClient
    IN  /\ Playing(c)
        /\ \/ /\ inbox # <<>>
              /\ player' = [player EXCEPT ![c] = FirstMessage(@, inbox[1])]
              /\ conn' = [conn EXCEPT ![c].toClient = <<>>]
           \/ /\ inbox # <<>> /\ player[c].inGame /\ inbox[1].kind # "move"
              /\ Ends(c, player[c])           \* the stray write crashes it
           \/ /\ inbox = <<>> /\ conn[c].end = "reset"
              /\ player' = [player EXCEPT ![c] = FirstMessage(@, [kind |-> "none"])]
              /\ conn' = [conn EXCEPT ![c].end = "dead"]
           \/ /\ inbox = <<>> /\ conn[c].end \in {"fin", "dead"}
              /\ Ends(c, player[c])
        /\ UNCHANGED serverVars

Next ==
    \/ StartPass
    \/ Accept
    \/ Serve
    \/ \E c \in Client :
          \/ Connect(c)
          \/ Exit(c)
          \/ Receive(c)
          \/ \E sq \in Cell : Move(c, sq)

Spec == Init /\ [][Next]_vars

-----------------------------------------------------------------------------
(***************************************************************************)
(* Properties.                                                             *)
(***************************************************************************)

\* A descriptor that occurs in two games: find_game answers with the older.
SharedFd ==
    \E g, h \in DOMAIN p :
        g # h /\ {p[g].player1, p[g].player2} \cap {p[h].player1, p[h].player2} # {}

Message == [kind : {"x", "z"}] \cup [kind : {"move"}, from : Client, sq : Cell]

TypeOK ==
    /\ server \in {"up", "down"} /\ stdin \in BOOLEAN
    /\ todo \subseteq Fd \cup {Listen} /\ readFds \subseteq Fd
    /\ sock \in [Fd -> Client \cup {Free}]
    /\ p \in Seq([player1 : Fd, player2 : Fd]) /\ waiting \in Fd \cup {NoFd}
    /\ backlog \in Seq(Client) /\ partner \in [Client -> Client \cup {Nobody}]
    /\ conn \in [Client -> Connection(Message, Message)]
    /\ player \in [Client -> [state : {"new", "playing", "ended"}, inGame : BOOLEAN,
                              turn : BOOLEAN, symbol : {x, o, blank},
                              board : [Cell -> {x, o, blank}]]]

\* Two clients the server seated in one game, c as the first player.
Paired(c, d) == partner[c] = d /\ partner[d] = c /\ c < d

\* The game of c and d as the two players see it is still on.
On(c, d) == \A e \in {c, d} : Playing(e) /\ conn[e].end = "open"

\* Where the right to move is: with a player, on its way to one in the symbol
\* x or in a move, or in a move on its way to the server.
RightsOf(e) ==
    (IF player[e].turn THEN {<<"held", e, 0>>} ELSE {})
      \cup {<<"coming", e, n>> : n \in {n \in DOMAIN conn[e].toClient :
                                          conn[e].toClient[n].kind # "z"}}
      \cup {<<"sent", e, n>> : n \in DOMAIN conn[e].toServer}

Rights(c, d) == RightsOf(c) \cup RightsOf(d)

\* While no descriptor has been seated twice, the two players of a running
\* game never both have the move, nor is there a second move on its way.
OneOnMove ==
    \A c, d \in Client : Paired(c, d) /\ On(c, d) /\ ~SharedFd =>
        \A r, s \in Rights(c, d) : r = s

\* A running game comes to a standstill, with nobody on move, only because
\* the second player got its symbol and the first move in one recv: then it
\* has not marked anything and the first player has made exactly one move.
StandstillOnlyAtStart ==
    \A c, d \in Client :
        Paired(c, d) /\ On(c, d) /\ ~SharedFd /\ Rights(c, d) = {} =>
            /\ player[d].inGame
            /\ \A sq \in Cell : player[d].board[sq] = blank
            /\ Cardinality({sq \in Cell : player[c].board[sq] # blank}) = 1

\* No connection of c and d ended in a reset: a client takes a failed recv for
\* its partner's answer and gives itself the move.
NoReset(c, d) == \A e \in {c, d} : conn[e].end \in {"open", "fin"}

\* The boards of the two players never differ in more than the last move,
\* also after one of them has left: no move is lost with play going on.
BoardsAgree ==
    \A c, d \in Client : Paired(c, d) /\ NoReset(c, d) /\ ~SharedFd =>
        Cardinality({sq \in Cell : player[c].board[sq] # player[d].board[sq]}) <= 1

\* Moves reach only the sender's partner, whatever games are played beside
\* theirs, as long as no descriptor has been seated twice.
MovesReachThePartner ==
    ~SharedFd =>
        \A c \in Client : \A n \in DOMAIN conn[c].toClient :
            conn[c].toClient[n].kind = "move" => conn[c].toClient[n].from = partner[c]

\* The server goes down only in the wake of a game in which a player left:
\* players who stay, and waiting players who leave, do not bring it down.
DownAfterAbandonedGame ==
    server = "down" =>
        \E c \in Client : partner[c] # Nobody /\ player[c].state = "ended"

\* Nothing is left to do: the server blocks in select, and so does every
\* client that is still there.
Quiet ==
    /\ todo = {} /\ Readable = {} /\ (server = "up" => backlog = <<>>)
    /\ \A c \in Client : Playing(c) => ~ClientReadable(conn[c])

\* A player whose partner has left is released, also when the server goes
\* down: once all is quiet, both players of a game are there or neither is.
PartnerReleased ==
    Quiet /\ stdin /\ ~SharedFd =>
        \A c, d \in Client : Paired(c, d) => (Playing(c) <=> Playing(d))

=============================================================================
