------------------------------ MODULE Lockstep ------------------------------
(***************************************************************************)
(* The chat of lab7: the server accepts two connections, then waits for a  *)
(* line on the first and sends it to the second, waits on the second and   *)
(* sends to the first, and so on.  A client sends a line and then waits    *)
(* for one.                                                                *)
(***************************************************************************)
EXTENDS SelectLoop, FiniteSets

Chat7 == program = "lab7"

\* The number of a block of bytes nobody has sent.
Garbage == 0

\* connfd1 and connfd2, and on which of them the server waits.
LockstepStart == {[connfd |-> <<>>, turn |-> 1]}

LockstepAccept ==
    /\ Chat7 /\ server = "up"
    /\ Len(data.connfd) < 2 /\ backlog # <<>>
    /\ sock' = [sock EXCEPT ![NewFd] = Head(backlog)]
    /\ data' = [data EXCEPT !.connfd = Append(@, NewFd)]
    /\ backlog' = Tail(backlog)
    /\ UNCHANGED <<program, server, todo, newcomer, conn, client, typed, histories>>

\* Mistake in Target: a line goes back to where it came from, as in
\* run_echo_server.
Echo(turn) == turn

\* Which of the two receive_and_send() sends to.
Target(turn) == 3 - turn

\* receive_and_send() and the tests after it.  It sends a block of BUFLEN bytes
\* whatever recv returned, with what the buffer happens to hold when that was 0
\* or an error; of two lines in it the other client prints the first.  An end
\* of either ends the chat, a failure only that of the second.
receive_and_send ==
    LET c      == sock[data.connfd[data.turn]]
        d      == sock[data.connfd[Target(data.turn)]]
        n      == conn[c].toServer
        block  == IF n # <<>> THEN Head(n) ELSE [id |-> 0, from |-> c, nth |-> Garbage]
        failed == n = <<>> /\ conn[c].peer = "reset"
        over   == n = <<>> /\ (~failed \/ data.turn = 2)
        read   == [Read(c) EXCEPT ![c].peer = IF failed THEN "dead" ELSE @]
        sent   == [read EXCEPT ![d] = ServerSends(@, <<block>>)]
    IN  /\ Chat7 /\ server = "up" /\ Len(data.connfd) = 2
        /\ ServerReadable(conn[c])
        /\ \/ BreaksPipe(read[d]) /\ ServerEnds(read)
           \/ ~BreaksPipe(read[d]) /\ over /\ ServerEnds(sent)
           \/ /\ ~BreaksPipe(read[d]) /\ ~over
              /\ conn' = sent
              /\ data' = [data EXCEPT !.turn = 3 - @]
              /\ UNCHANGED <<program, server, todo, sock, newcomer, backlog, client, typed>>
        /\ MergedIf(Len(n) > 1, c)
        /\ UNCHANGED <<quit, added>>

LockstepServer == LockstepAccept \/ receive_and_send

-----------------------------------------------------------------------------
LockstepConnect(c) == Chat7 /\ Connect(c, "running", <<>>)

\* A line is sent, and the client waits for one whether the send failed or not;
\* on a broken connection, or without one, SIGPIPE ends it.
TypeTurn(c) ==
    LET id   == typed + 1
        line == [id |-> id, from |-> c, nth |-> Cardinality(client[c].own) + 1]
    IN  /\ Chat7 /\ Running(c) /\ typed < Lines[program]
        /\ typed' = id
        /\ \/ conn[c].end \in {"dead", "refused"} /\ Ends(c)
           \/ /\ conn[c].end \notin {"dead", "refused"}
              /\ conn' = [conn EXCEPT ![c] = ClientSends(@, line)]
              /\ client' = [client EXCEPT ![c].state = "waiting", ![c].waits = {id},
                                          ![c].own = @ \cup {id}]
        /\ UNCHANGED <<program, serverVars, histories>>

\* recv() takes one block, which fills its buffer; 0 bytes or a failure are
\* shown like a line, and the client turns to its terminal again.
LockstepReceive(c) ==
    /\ Chat7 /\ client[c].state = "waiting"
    /\ ClientReadable(conn[c])
    /\ client' = [client EXCEPT ![c].state = "running", ![c].waits = {}]
    /\ conn' = IF conn[c].toClient # <<>> THEN [conn EXCEPT ![c].toClient = Tail(@)]
               ELSE [conn EXCEPT ![c].end = IF @ = "reset" THEN "dead" ELSE @]
    /\ UNCHANGED <<program, serverVars, typed, histories>>

=============================================================================
