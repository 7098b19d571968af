--------------------------- MODULE OutsideServer ---------------------------
(***************************************************************************)
(* The servers the clients of lab10 and lab11 talk to, which are not part  *)
(* of the repository: they accept the one connection, answer in their own  *)
(* time and may end at any moment.                                         *)
(***************************************************************************)
EXTENDS SelectLoop

Outside == {"lab10", "lab11"}

\* A run of one of these clients has one connection; data are its variables.
ASSUME OutsideAssumption == \A p \in Outside : Clients[p] = 1

OutsideAccept ==
    /\ program \in Outside /\ server = "up" /\ backlog # <<>>
    /\ sock' = [sock EXCEPT ![NewFd] = Head(backlog)]
    /\ backlog' = Tail(backlog)
    /\ UNCHANGED <<program, server, todo, newcomer, data, conn, client, typed, histories>>

OutsideEnds ==
    /\ program \in Outside /\ server = "up"
    /\ quit' = TRUE
    /\ ServerEnds(conn)
    /\ UNCHANGED <<merged, added>>

\* The server has client c's connection, and sends it more or takes something
\* from it, which leaves the connection as k and its own state as d.
OutsideServes(c, k, d) ==
    /\ server = "up" /\ (\E f \in Fd : sock[f] = c) /\ conn[c].peer = "open"
    /\ conn' = [conn EXCEPT ![c] = k]
    /\ data' = d
    /\ UNCHANGED <<program, server, todo, sock, newcomer, backlog, client, typed, histories>>

\* The client goes on, with its own variables d and the connection k.
GoesOn(c, k, d) ==
    /\ conn' = [conn EXCEPT ![c] = k]
    /\ data' = d
    /\ UNCHANGED <<program, server, todo, sock, newcomer, backlog, client, typed, histories>>

\* The client's process ends, leaving d.
Finishes(c, k, d) ==
    /\ EndsAt(c, k)
    /\ data' = d
    /\ UNCHANGED <<program, server, todo, sock, newcomer, backlog, typed, histories>>

=============================================================================
