---------------------------- MODULE StreamSocket ----------------------------
(***************************************************************************)
(* A TCP connection between a select server of training/ and one client,   *)
(* as the system calls of both programs see it.  Bytes keep their order;   *)
(* one recv() takes everything that has arrived.                           *)
(*                                                                         *)
(* peer is what the server's side has learnt of the client: "open"; "fin"  *)
(* after an orderly close; "reset" while an error waits to be reported;    *)
(* "dead" when recv returns 0 and the next send raises SIGPIPE.  end is    *)
(* what the client's side has learnt of the server, likewise; "refused"    *)
(* when connect() failed: a recv then fails, and a send raises SIGPIPE.    *)
(***************************************************************************)
EXTENDS Sequences

Knowledge == {"open", "fin", "reset", "dead"}
Heard     == Knowledge \cup {"refused"}

Connection(Up, Down) ==
    [toServer : Seq(Up), toClient : Seq(Down), peer : Knowledge, end : Heard]

NewConn == [toServer |-> <<>>, toClient |-> <<>>, peer |-> "open", end |-> "open"]

\* What the server may learn when the client's process ends: unread bytes
\* turn the close into a reset, which may come before or after a FIN.
ClientEnds(k) ==
    {[k EXCEPT !.peer = seen, !.toClient = <<>>] :
        seen \in IF k.toClient = <<>> \/ k.end # "open" THEN {"fin"} ELSE {"reset", "dead"}}

\* Mistake in ServerCloses: the descriptor is forgotten but never closed.
NeverCloses(k) == k

\* The server's close(), or its end: unread bytes make it a reset.
ServerCloses(k) ==
    IF k.end # "open" THEN k
    ELSE [k EXCEPT !.end = IF k.toServer = <<>> THEN "fin" ELSE "reset", !.toServer = <<>>]

\* send() by the server.  It fails on a pending reset; after an orderly close
\* of the client it succeeds and is answered by a reset.
ServerSends(k, msgs) ==
    CASE k.peer = "open"  -> [k EXCEPT !.toClient = @ \o msgs]
      [] k.peer = "reset" -> [k EXCEPT !.peer = "dead"]
      [] k.peer = "fin" /\ msgs # <<>> -> [k EXCEPT !.peer = "dead"]
      [] OTHER -> k

\* That send() raises SIGPIPE, which the servers do not handle.
BreaksPipe(k) == k.peer = "dead"

\* connect() where no server listens.
Unconnected(k) == [k EXCEPT !.end = "refused"]

\* What a recv() that fails leaves: a reset is reported once, that there never
\* was a connection each time.
Reported(k) == IF k.end = "reset" THEN [k EXCEPT !.end = "dead"] ELSE k

\* send() by the client, which fails on a reset and without a connection.
ClientMaySend(k) == k.end \in {"open", "fin"}
ClientSends(k, msg) ==
    IF k.end = "open" THEN [k EXCEPT !.toServer = Append(@, msg)] ELSE [k EXCEPT !.end = "dead"]

\* select() finds the server's descriptor, or the client's, readable.
ServerReadable(k) == k.toServer # <<>> \/ k.peer # "open"
ClientReadable(k) == k.toClient # <<>> \/ k.end # "open"

=============================================================================
