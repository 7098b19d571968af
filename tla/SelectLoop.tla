----------------------------- MODULE SelectLoop -----------------------------
(***************************************************************************)
(* What the select servers of lab8, tema2 and training/multi_chat,         *)
(* dns_server, smtp_server and spanzuratoarea (hangman) have in common,    *)
(* and their clients: one loop over the readable descriptors, in ascending *)
(* order, and one connection for each client.  The server of lab7 has the  *)
(* connections, but waits on one of them at a time; those that the clients *)
(* of lab10 and lab11 talk to are not part of the repository.  ChatRelay,  *)
(* ClientList, NameServer, Hangman, Lockstep, HttpClient and MailClient    *)
(* add what a program does with a message; SelectServers puts them         *)
(* together.                                                               *)
(***************************************************************************)
EXTENDS Integers, Sequences, SequencesExt, StreamSocket

CONSTANTS
    Clients,    \* for each program: the clients that ever connect (bound)
    Lines       \* for each program: the lines typed at all of them (bound)

Program == {"lab8cpp", "lab8c", "tema2", "multi_chat", "dns_server", "smtp_server",
            "hangman", "lab7", "lab10", "lab11"}

ASSUME SelectLoopAssumption ==
    Clients \in [Program -> Nat \ {0}] /\ Lines \in [Program -> Nat]

N        == CHOOSE n \in {Clients[p] : p \in Program} : \A p \in Program : Clients[p] <= n
MaxLines == CHOOSE n \in {Lines[p] : p \in Program} : \A p \in Program : Lines[p] <= n

Client == 1 .. N
Listen == 3
Fd     == 4 .. 3 + N
NoFd   == -1
Free   == 0

VARIABLES
    program,    \* which of the programs runs
    server,     \* "up" or "down"
    todo,       \* what is left of tmp_fds in the current pass
    sock,       \* Fd -> the client an open descriptor is connected to
    newcomer,   \* the descriptor whose first message the server waits for
    data,       \* the server program's own variables
    backlog,    \* connections not accepted yet
    conn,       \* Client -> its connection
    client,     \* Client -> the client program's variables
    typed,      \* number of lines typed so far
    quit,       \* history: quit was typed at the server, its game was won, or it
                \* ended by itself where it is not the repository's
    merged,     \* history: the clients of or to which two messages came in one recv
    added,      \* history: the entries typed for the name server's maps; in
                \* hangman, the letters found and who was connected then
    overrun     \* history: the server wrote behind the end of an array

serverVars == <<server, todo, sock, newcomer, data, backlog>>
histories  == <<quit, merged, added>>
vars == <<program, serverVars, conn, client, typed, histories, overrun>>

Least(S) == CHOOSE f \in S : \A g \in S : f <= g

\* A client program: lost are the lives lost in hangman.  Two histories: waits
\* are the requests it has not seen answered, own are the addresses it has
\* added to the maps, the letters it has shown or the lines it has sent.
NewClient == [state |-> "new", lost |-> 0, waits |-> {}, own |-> {}]

LoopInit ==
    /\ server = "up" /\ todo = {} /\ sock = [f \in Fd |-> Free]
    /\ newcomer = NoFd /\ backlog = <<>>
    /\ conn = [c \in Client |-> NewConn]
    /\ client = [c \in Client |-> NewClient]
    /\ typed = 0 /\ quit = FALSE /\ merged = {} /\ added = {} /\ overrun = FALSE

-----------------------------------------------------------------------------
(***************************************************************************)
(* The server's loop.                                                      *)
(***************************************************************************)

\* The server's process ends, by DIE or a signal; the kernel closes its
\* connections, in the state k.
ServerEnds(k) ==
    /\ server' = "down" /\ todo' = {} /\ newcomer' = NoFd /\ backlog' = <<>>
    /\ sock' = [f \in Fd |-> Free]
    /\ conn' = [c \in Client |->
                  IF client[c].state = "new" THEN k[c] ELSE ServerCloses(k[c])]
    /\ UNCHANGED <<program, data, client, typed>>

Readable == {f \in Fd : sock[f] # Free /\ ServerReadable(conn[sock[f]])}

\* select() copies read_fds and keeps what is readable.
StartPass ==
    LET ready == Readable \cup IF backlog # <<>> THEN {Listen} ELSE {}
    IN  /\ program \notin {"lab7", "lab10", "lab11"}
        /\ server = "up" /\ newcomer = NoFd /\ todo = {} /\ ready # {}
        /\ todo' = ready
        /\ UNCHANGED <<program, server, sock, newcomer, data, backlog, conn, client, typed, histories>>

NewFd == Least({f \in Fd : sock[f] = Free})

\* accept() gives the lowest free descriptor; what the program then notes or
\* waits for is its own.
Accept ==
    /\ server = "up" /\ newcomer = NoFd /\ Listen \in todo
    /\ todo' = todo \ {Listen}
    /\ sock' = [sock EXCEPT ![NewFd] = Head(backlog)]
    /\ backlog' = Tail(backlog)
    /\ UNCHANGED <<program, server, conn, client, typed, histories>>

\* The descriptor the pass has come to, and who is behind it.
At(i, c) ==
    /\ server = "up" /\ newcomer = NoFd /\ todo # {}
    /\ i = Least(todo) /\ i # Listen /\ c = sock[i]

\* recv() on it fails on a reset, and DIE ends the server.
RecvFails ==
    \E i \in Fd : \E c \in Client :
        /\ At(i, c) /\ conn[c].toServer = <<>> /\ conn[c].peer = "reset"
        /\ ServerEnds(conn)
        /\ UNCHANGED histories

\* recv() returned 0.
EndOf(i, c) == At(i, c) /\ conn[c].toServer = <<>> /\ conn[c].peer \in {"fin", "dead"}

\* The descriptor of a client that left is closed and taken out of read_fds.
Hangup(i, c) ==
    /\ EndOf(i, c)
    /\ todo' = todo \ {i}
    /\ sock' = [sock EXCEPT ![i] = Free]
    /\ conn' = [conn EXCEPT ![c] = ServerCloses(@)]
    /\ UNCHANGED <<program, server, newcomer, backlog, client, typed, histories>>

MergedIf(several, c) == merged' = IF several THEN merged \cup {c} ELSE merged

\* recv() returned everything that has arrived.
Arrived(i, c) ==
    /\ At(i, c) /\ conn[c].toServer # <<>>
    /\ MergedIf(Len(conn[c].toServer) > 1, c)

Taken(i, c) == Arrived(i, c) /\ UNCHANGED <<quit, added>>

Read(c) == [conn EXCEPT ![c].toServer = <<>>]

\* The message has been dealt with, which leaves the connections in state k.
Served(i, k) ==
    /\ todo' = todo \ {i} /\ conn' = k
    /\ UNCHANGED <<program, server, sock, newcomer, backlog, client, typed>>

\* send() to client c returns an error or raises SIGPIPE.
SendFails(c) == conn[c].peer \in {"reset", "dead"}

-----------------------------------------------------------------------------
(***************************************************************************)
(* The client's loop.                                                      *)
(***************************************************************************)

Running(c) == client[c].state = "running"

\* The process ends, its variables with it; k is its connection at that time.
EndsAt(c, k) ==
    /\ client' = [client EXCEPT ![c] = [NewClient EXCEPT !.state = "ended"]]
    /\ \E seen \in ClientEnds(k) : conn' = [conn EXCEPT ![c] = seen]

Ends(c) == EndsAt(c, conn[c])

\* connect(): the first thing the client sends, if anything, follows at once.
\* Clients are alike, so they connect in the order of their numbers.
Connect(c, state, first) ==
    /\ server = "up" /\ client[c].state = "new" /\ c <= Clients[program]
    /\ \A d \in Client : d < c => client[d].state # "new"
    /\ client' = [client EXCEPT ![c].state = state]
    /\ conn' = [conn EXCEPT ![c].toServer = first]
    /\ backlog' = Append(backlog, c)
    /\ UNCHANGED <<program, server, todo, sock, newcomer, data, typed, histories>>

\* These clients end when connect() fails; the others report it and go on to
\* what they do on a connection.
DiesOnConnect == {"lab8c", "tema2", "hangman", "lab10"}

ConnectFails(c) ==
    /\ server = "down" /\ client[c].state = "new" /\ c <= Clients[program]
    /\ \A d \in Client : d < c => client[d].state # "new"
    /\ \/ program \in DiesOnConnect /\ Ends(c)
       \/ /\ program \notin DiesOnConnect
          /\ client' = [client EXCEPT ![c].state = IF program = "multi_chat" THEN "naming"
                                                   ELSE "running"]
          /\ conn' = [conn EXCEPT ![c] = Unconnected(@)]
    /\ UNCHANGED <<program, serverVars, typed, histories>>

\* A line is typed and sent; q is the client after it.  A send that fails
\* ends the client, by DIE or SIGPIPE.
TypeAndSend(c, m, q) ==
    /\ Running(c) /\ typed < Lines[program]
    /\ typed' = typed + 1
    /\ \/ /\ ClientMaySend(conn[c])
          /\ conn' = [conn EXCEPT ![c] = ClientSends(@, m)]
          /\ client' = [client EXCEPT ![c] = q]
       \/ ~ClientMaySend(conn[c]) /\ Ends(c)
    /\ UNCHANGED <<program, serverVars, quit, merged>>

\* exit is typed, or the program is killed.
Leave(c) ==
    /\ client[c].state \in {"naming", "running", "waiting"}
    /\ Ends(c)
    /\ UNCHANGED <<program, serverVars, typed, histories>>

\* recv() took the first n messages.
Shows(c, n) ==
    LET inbox == conn[c].toClient
        shown == {inbox[k].id : k \in 1 .. n}
    IN  /\ Running(c) /\ inbox # <<>>
        /\ client' = [client EXCEPT ![c].waits = @ \ shown]
        /\ conn' = [conn EXCEPT ![c].toClient = SubSeq(@, n + 1, Len(@))]
        /\ UNCHANGED <<program, serverVars, typed, histories>>

ShowsAll(c) == Shows(c, Len(conn[c].toClient))

\* recv() failed: the client reports it and goes on.  Without a connection it
\* fails each time, and nothing changes.
ReportsReset(c) ==
    /\ Running(c) /\ conn[c].toClient = <<>> /\ conn[c].end = "reset"
    /\ conn' = [conn EXCEPT ![c].end = "dead"]
    /\ UNCHANGED <<program, serverVars, client, typed, histories>>

\* Mistake in NoticesEnd: only an error ends the client.
NoticesErrors(c, how) ==
    /\ Running(c) /\ conn[c].toClient = <<>> /\ conn[c].end \in how \cap {"reset"}
    /\ Ends(c)
    /\ UNCHANGED <<program, serverVars, typed, histories>>

\* recv() returned one of the results in how, and that ends the client.
NoticesEnd(c, how) ==
    /\ Running(c) /\ conn[c].toClient = <<>> /\ conn[c].end \in how
    /\ Ends(c)
    /\ UNCHANGED <<program, serverVars, typed, histories>>

=============================================================================
