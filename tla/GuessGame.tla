----------------------------- MODULE GuessGame -----------------------------
(***************************************************************************)
(* The number game of training/practic.  The first player to connect sets  *)
(* a number, the others guess it; the server tells everybody when a number *)
(* has been chosen and when it has been found.                             *)
(*                                                                         *)
(* Messages carry no length and no end mark: what two sends left in a      *)
(* receive buffer is read as one text, of which only the beginning counts. *)
(***************************************************************************)
EXTENDS Integers, Sequences, FiniteSets, SequencesExt, StreamSocket

CONSTANTS
    N,          \* number of clients that ever connect (bound)
    Digit,      \* the numbers that are set, of one digit (bound)
    Tried,      \* those of them that are guessed (bound)
    Lives,      \* vieti of a client at its start
    MaxTyped    \* number of commands typed at all the clients (bound)

ASSUME GuessGameAssumption ==
    /\ N \in Nat \ {0} /\ Digit \subseteq 0 .. 9 /\ Tried \subseteq Digit
    /\ Lives \in Nat \ {0} /\ MaxTyped \in Nat

Client == 1 .. N
Listen == 3
Fd     == 4 .. 3 + N
NoFd   == -1
Free   == 0
NotSet == -1

VARIABLES
    server,         \* "up" or "down"
    todo,           \* what is left of tmp_fds in the current pass
    sock,           \* Fd -> the client an open descriptor is connected to
    first_player,
    guess_number,
    players,        \* descriptors in the order of their connections
    backlog,        \* connections not accepted yet
    conn,           \* Client -> its connection
    player,         \* Client -> the client program's variables
    typed,          \* number of commands typed so far
    found           \* history: the server has said that the number was found

serverVars == <<server, todo, sock, first_player, guess_number, players, backlog>>
vars == <<serverVars, conn, player, typed, found>>

Least(S) == CHOOSE f \in S : \A g \in S : f <= g

\* The last three are history: whether the player typed set; whether the client
\* showed that the number was found; whether a recv of it failed.
NewPlayer == [state |-> "new", choosed |-> FALSE, lives |-> Lives,
              asked |-> FALSE, right |-> FALSE, reset |-> FALSE]

Init ==
    /\ server = "up" /\ todo = {} /\ sock = [f \in Fd |-> Free]
    /\ first_player = NoFd /\ guess_number = NotSet
    /\ players = <<>> /\ backlog = <<>>
    /\ conn = [c \in Client |-> NewConn]
    /\ player = [c \in Client |-> NewPlayer]
    /\ typed = 0
    /\ found = FALSE

-----------------------------------------------------------------------------
(***************************************************************************)
(* The server.                                                             *)
(***************************************************************************)

\* The server's process ends, by exit, DIE or a signal, and its variables with
\* it; the kernel closes its connections, in the state k.
ServerEnds(k) ==
    /\ server' = "down" /\ todo' = {}
    /\ conn' = [c \in Client |->
                  IF player[c].state = "new" THEN k[c] ELSE ServerCloses(k[c])]
    /\ sock' = [f \in Fd |-> Free] /\ first_player' = NoFd /\ guess_number' = NotSet
    /\ players' = <<>> /\ backlog' = <<>>
    /\ UNCHANGED <<player, typed>>

\* send() of one message on descriptor f.
Sent(k, f, m) == [k EXCEPT ![sock[f]] = ServerSends(@, <<m>>)]

\* A failed send is reported and the loop goes on, but SIGPIPE ends it, and the
\* server: the players before the first one whose connection is broken.
Reached(k) ==
    {players[n] : n \in {m \in DOMAIN players :
                            \A b \in 1 .. m : ~BreaksPipe(k[sock[players[b]]])}}

send_to_all_players(k, m) ==
    [c \in Client |-> IF \E f \in Reached(k) : sock[f] = c THEN ServerSends(k[c], <<m>>) ELSE k[c]]

\* No send of it raises SIGPIPE.
SurvivesSending(k) == \A n \in DOMAIN players : ~BreaksPipe(k[sock[players[n]]])

Readable == {f \in Fd : sock[f] # Free /\ ServerReadable(conn[sock[f]])}

StartPass ==
    LET ready == Readable \cup IF backlog # <<>> THEN {Listen} ELSE {}
    IN  /\ server = "up" /\ todo = {} /\ ready # {}
        /\ todo' = ready
        /\ UNCHANGED <<server, sock, first_player, guess_number, players, backlog,
                       conn, player, typed, found>>

\* quit on the terminal closes the sockets and leaves their bits in read_fds:
\* the next select fails and DIE ends the server.
Quit ==
    /\ server = "up" /\ todo = {}
    /\ ServerEnds(conn)
    /\ UNCHANGED found

\* Mistake in TellsNewcomer: nobody is told.
TellsNobody == FALSE

\* A newcomer learns of a number that is greater than 0.
TellsNewcomer == guess_number > 0

Accept ==
    LET c   == Head(backlog)
        new == Least({f \in Fd : sock[f] = Free})
    IN  /\ server = "up" /\ Listen \in todo
        /\ todo' = todo \ {Listen}
        /\ sock' = [sock EXCEPT ![new] = c]
        /\ first_player' = IF first_player = NoFd THEN new ELSE first_player
        /\ players' = Append(players, new)
        /\ backlog' = Tail(backlog)
        /\ conn' = IF TellsNewcomer
                   THEN [conn EXCEPT ![c] = ServerSends(@, <<[kind |-> "CHOOSED"]>>)] ELSE conn
        /\ UNCHANGED <<server, guess_number, player, typed, found>>

\* The descriptor the pass has come to, and who is behind it.
At(i, c) == server = "up" /\ todo # {} /\ i = Least(todo) /\ i # Listen /\ c = sock[i]

\* The end of a connection.  recv fails on a reset, and DIE ends the server;
\* the first player's end ends the game.
Leaver ==
    \E i \in Fd : \E c \in Client :
        /\ At(i, c) /\ conn[c].toServer = <<>>
        /\ UNCHANGED found
        /\ \/ /\ conn[c].peer = "reset" \/ i = first_player
              /\ ServerEnds(conn)
           \/ /\ conn[c].peer # "reset" /\ i # first_player
              /\ todo' = todo \ {i}
              /\ sock' = [sock EXCEPT ![i] = Free]
              /\ \E n \in DOMAIN players :
                     players[n] = i /\ players' = RemoveAt(players, n)
              /\ conn' = [conn EXCEPT ![c] = ServerCloses(@)]
              /\ UNCHANGED <<server, first_player, guess_number, backlog, player, typed>>

MaySet(i) == i = first_player

\* The number in a buffer that begins with a set command: the digits of a
\* guess sent after it follow immediately.
NumberSet(data) ==
    IF Len(data) > 1 /\ data[2].kind = "guess"
    THEN 10 * data[1].number + data[2].number ELSE data[1].number

\* A buffer that begins with "set ".
SetNumber ==
    \E i \in Fd : \E c \in Client :
        LET data == conn[c].toServer
            read == [conn EXCEPT ![c].toServer = <<>>]
            told == send_to_all_players(read, [kind |-> "CHOOSED"])
        IN  /\ At(i, c) /\ data # <<>> /\ data[1].kind = "set"
            /\ UNCHANGED found
            /\ \/ /\ MaySet(i) /\ ~SurvivesSending(read)
                  /\ ServerEnds(told)
               \/ /\ MaySet(i) /\ SurvivesSending(read)
                  /\ guess_number' = NumberSet(data)
                  /\ conn' = told
                  /\ todo' = todo \ {i}
                  /\ UNCHANGED <<server, sock, first_player, players, backlog, player, typed>>
               \/ /\ ~MaySet(i) /\ BreaksPipe(conn[c])
                  /\ ServerEnds(read)
               \/ /\ ~MaySet(i) /\ ~BreaksPipe(conn[c])
                  /\ conn' = Sent(read, i, [kind |-> "ACCESS"])
                  /\ todo' = todo \ {i}
                  /\ UNCHANGED <<server, sock, first_player, guess_number, players,
                                 backlog, player, typed>>

\* Any other buffer is a number, which the first player may not guess.  After
\* the right one the server closes the sockets and ends; a WRONG that cannot
\* be sent ends it too.
Guess ==
    \E i \in Fd : \E c \in Client :
        LET data == conn[c].toServer
            read == [conn EXCEPT ![c].toServer = <<>>]
            right == data[1].number = guess_number
        IN  /\ At(i, c) /\ data # <<>> /\ data[1].kind = "guess"
            /\ found' = (found \/ (i # first_player /\ right))
            /\ \/ /\ i = first_player
                  /\ conn' = read
                  /\ todo' = todo \ {i}
                  /\ UNCHANGED <<server, sock, first_player, guess_number, players,
                                 backlog, player, typed>>
               \/ /\ i # first_player /\ right
                  /\ ServerEnds(send_to_all_players(read, [kind |-> "RIGHT"]))
               \/ /\ i # first_player /\ ~right /\ conn[c].peer \in {"reset", "dead"}
                  /\ ServerEnds(read)
               \/ /\ i # first_player /\ ~right /\ conn[c].peer \notin {"reset", "dead"}
                  /\ conn' = Sent(read, i, [kind |-> "WRONG"])
                  /\ todo' = todo \ {i}
                  /\ UNCHANGED <<server, sock, first_player, guess_number, players,
                                 backlog, player, typed>>

-----------------------------------------------------------------------------
(***************************************************************************)
(* The client program.                                                     *)
(***************************************************************************)

Playing(c) == player[c].state = "playing"

\* The process ends, its variables with it; k is its connection at that time.
Ends(c, q, k) ==
    /\ player' = [player EXCEPT ![c] =
                    [NewPlayer EXCEPT !.state = "ended", !.right = q.right, !.reset = q.reset]]
    /\ \E seen \in ClientEnds(k) : conn' = [conn EXCEPT ![c] = seen]

\* Clients are alike, so they connect in the order of their numbers.
Connect(c) ==
    /\ server = "up"
    /\ player[c].state = "new"
    /\ \A d \in Client : d < c => player[d].state # "new"
    /\ player' = [player EXCEPT ![c].state = "playing"]
    /\ backlog' = Append(backlog, c)
    /\ UNCHANGED <<server, todo, sock, first_player, guess_number, players, conn, typed, found>>

\* A connect() that fails is only reported, and the client enters its loop.
ConnectFails(c) ==
    /\ server = "down"
    /\ player[c].state = "new"
    /\ \A d \in Client : d < c => player[d].state # "new"
    /\ player' = [player EXCEPT ![c].state = "playing"]
    /\ conn' = [conn EXCEPT ![c] = Unconnected(@)]
    /\ UNCHANGED <<serverVars, typed, found>>

\* What a command sends; a send that fails ends the client.
Command(c, m, q) ==
    /\ Playing(c) /\ typed < MaxTyped
    /\ typed' = typed + 1
    /\ \/ /\ ClientMaySend(conn[c])
          /\ conn' = [conn EXCEPT ![c] = ClientSends(@, m)]
          /\ player' = [player EXCEPT ![c] = q]
       \/ /\ ~ClientMaySend(conn[c])
          /\ Ends(c, q, conn[c])
    /\ UNCHANGED <<serverVars, found>>

\* Everybody may type set; the server decides.  The first client to connect
\* becomes the first player.
TypeSet(c, d) ==
    /\ Command(c, [kind |-> "set", number |-> d], [player[c] EXCEPT !.asked = TRUE])

MayGuess(c) == player[c].choosed

TypeGuess(c, d) ==
    /\ MayGuess(c)
    /\ Command(c, [kind |-> "guess", number |-> d], player[c])

\* The command quit does not work, as strtok has cut its newline off: the
\* user kills the program.
Kill(c) ==
    /\ Playing(c)
    /\ Ends(c, player[c], conn[c])
    /\ UNCHANGED <<serverVars, typed, found>>

\* Mistake in Answered: every message after the choice counts as the good
\* news.
RightByDefault(q, m) ==
    CASE m.kind = "CHOOSED" -> [q EXCEPT !.choosed = TRUE]
      [] OTHER -> [q EXCEPT !.right = TRUE]

\* What the client makes of the first message in its buffer.
Answered(q, m) ==
    CASE m.kind = "WRONG"   -> [q EXCEPT !.lives = @ - 1]
      [] m.kind = "CHOOSED" -> [q EXCEPT !.choosed = TRUE]
      [] m.kind = "ACCESS"  -> q
      [] OTHER              -> [q EXCEPT !.right = TRUE]

\* Mistake in Leaves: the end of the connection is not noticed.
GoesOn(c) == FALSE

\* recv returned 0.
Leaves(c) == conn[c].toClient = <<>> /\ conn[c].end \in {"fin", "dead"}

\* One recv().  A failed one leaves an empty buffer, and what is none of the
\* first three messages is shown as the last.
Receive(c) ==
    LET inbox == conn[c].toClient
        q     == Answered(player[c], inbox[1])
    IN  /\ Playing(c)
        /\ UNCHANGED <<serverVars, typed, found>>
        /\ \/ /\ inbox # <<>> /\ q.lives # 0
              /\ player' = [player EXCEPT ![c] = q]
              /\ conn' = [conn EXCEPT ![c].toClient = <<>>]
           \/ /\ inbox # <<>> /\ q.lives = 0
              /\ Ends(c, q, [conn[c] EXCEPT !.toClient = <<>>])
           \/ /\ inbox = <<>> /\ conn[c].end \in {"reset", "refused"}
              /\ player' = [player EXCEPT ![c].right = TRUE, ![c].reset = TRUE]
              /\ conn' = [conn EXCEPT ![c] = Reported(@)]
           \/ Leaves(c) /\ Ends(c, player[c], conn[c])

Next ==
    \/ StartPass
    \/ Accept
    \/ Leaver
    \/ SetNumber
    \/ Guess
    \/ Quit
    \/ \E c \in Client :
          \/ Connect(c)
          \/ ConnectFails(c)
          \/ Kill(c)
          \/ Receive(c)
          \/ \E d \in Digit : TypeSet(c, d)
          \/ \E d \in Tried : TypeGuess(c, d)

Spec == Init /\ [][Next]_vars

\* The select loops run on; nobody need type, leave or stop the server.  Only
\* finitely many messages are sent, so it is enough that some client with
\* something to read reads it.
FairSpec ==
    /\ Spec
    /\ WF_vars(StartPass \/ Accept \/ Leaver \/ SetNumber \/ Guess)
    /\ WF_vars(\E c \in Client : Receive(c))

-----------------------------------------------------------------------------
(***************************************************************************)
(* Properties.                                                             *)
(***************************************************************************)

Request == [kind : {"set", "guess"}, number : Digit]
Reply   == [kind : {"CHOOSED", "ACCESS", "WRONG", "RIGHT"}]

TypeOK ==
    /\ server \in {"up", "down"} /\ todo \subseteq Fd \cup {Listen}
    /\ sock \in [Fd -> Client \cup {Free}] /\ first_player \in Fd \cup {NoFd}
    /\ guess_number \in -1 .. 99 /\ players \in Seq(Fd) /\ backlog \in Seq(Client)
    /\ conn \in [Client -> Connection(Request, Reply)]
    /\ player \in [Client -> [state : {"new", "playing", "ended"}, choosed : BOOLEAN,
                              lives : 0 .. Lives, asked : BOOLEAN,
                              right : BOOLEAN, reset : BOOLEAN]]
    /\ typed \in 0 .. MaxTyped /\ found \in BOOLEAN

Quiet ==
    /\ todo = {} /\ Readable = {} /\ backlog = <<>>
    /\ \A c \in Client : Playing(c) => ~ClientReadable(conn[c])

\* When all messages have been read, everybody in the game knows that there is
\* a number, whether it came before or after the choice.  Left out is who
\* tried to set a number itself: the refusal may swallow the news.
EverybodyTold ==
    Quiet /\ server = "up" /\ guess_number > 0 =>
        \A n \in DOMAIN players :
            LET q == player[sock[players[n]]]
            IN  q.choosed \/ (q.asked /\ players[n] # first_player)

\* A client shows that the number was found only when it was, or when its recv
\* failed: the server ended with something of that client's unread, or before
\* the client connected.
RightMeansFound == \A c \in Client : player[c].right => found \/ player[c].reset

\* The end of the first player, or of the server, is in the end the end of the
\* game for everybody who had got a connection: who starts after the server's
\* end shows for ever that the number was found.
GameOver ==
    \/ server = "down"
    \/ first_player # NoFd /\ player[sock[first_player]].state = "ended"

GameOverReachesAll ==
    <>[](GameOver => \A c \in Client : Playing(c) => conn[c].end = "refused")

=============================================================================
