----------------------------- MODULE ClientList -----------------------------
(***************************************************************************)
(* training/multi_chat: the server keeps a list of its clients, each with  *)
(* the name it sent first, and sends the list to who asks for it.          *)
(***************************************************************************)
EXTENDS SelectLoop

Chat == program = "multi_chat"
NoName == 0

ListStart == {[clients |-> <<>>]}

\* After accept() the server waits for the name in a recv() of its own.  An
\* address too long for ip runs into port, not further, and sockfd is set later.
ListAccept ==
    /\ Chat
    /\ Accept
    /\ newcomer' = NewFd
    /\ UNCHANGED data

\* That recv takes the name alone, which fills the buffer.  When it fails or
\* returns 0, the client enters the list without a name.
RecvName ==
    LET c == sock[newcomer]
        entry(name) == [data EXCEPT !.clients = Append(@, [name |-> name, sockfd |-> newcomer])]
    IN  /\ Chat /\ server = "up" /\ newcomer # NoFd
        /\ ServerReadable(conn[c])
        /\ \/ /\ conn[c].toServer # <<>>
              /\ data' = entry(c)
              /\ conn' = [conn EXCEPT ![c].toServer = Tail(@)]
           \/ /\ conn[c].toServer = <<>>
              /\ data' = entry(NoName)
              /\ conn' = [conn EXCEPT ![c].peer = IF @ = "reset" THEN "dead" ELSE @]
        /\ newcomer' = NoFd
        /\ UNCHANGED <<program, server, todo, sock, backlog, client, typed, histories>>

\* name has room for 30 bytes, and strcpy() copies all that came, over ip, port,
\* sockfd and what lies behind them: the server may end.  It may also go on,
\* with a list that is not what it should be.
LongName ==
    LET c == sock[newcomer]
    IN  /\ Chat /\ server = "up" /\ newcomer # NoFd /\ conn[c].toServer # <<>>
        /\ \/ RecvName
           \/ ServerEnds([conn EXCEPT ![c].toServer = Tail(@)]) /\ UNCHANGED histories
        /\ overrun' = TRUE

\* Mistake in Pruned: the comparison, set right, is also true of those before.
DropsOlder(i) == SelectSeq(data.clients, LAMBDA e : e.sockfd > i)

\* (i == clients[k].sockfd) == i compares a truth value with a descriptor and
\* is never true.
Erases(i, k) == (IF i = data.clients[k].sockfd THEN 1 ELSE 0) = i

\* The entry that is found is erased; none is.
Pruned(i) ==
    LET found == {k \in DOMAIN data.clients : Erases(i, k)}
    IN  IF found = {} THEN data.clients ELSE RemoveAt(data.clients, Least(found))

ListHangup ==
    \E i \in Fd : \E c \in Client :
        /\ Chat
        /\ Hangup(i, c)
        /\ data' = [data EXCEPT !.clients = Pruned(i)]

\* Mistake in IsRequest: it is compared with the line as it was typed.
ComparesNewline(buffer) == FALSE

\* Only a buffer that is LIST and nothing more is a request.
IsRequest(buffer) == Len(buffer) = 1

\* One record for each entry, each sent without a look at the result: after
\* the first that fails, or finds the client gone, SIGPIPE ends the server.
ListServe ==
    \E i \in Fd : \E c \in Client :
        LET buffer  == conn[c].toServer
            request == buffer[1].id
            records == [k \in DOMAIN data.clients |->
                           [id |-> request, name |-> data.clients[k].name]]
            broken  == conn[c].peer = "dead" \/ (conn[c].peer # "open" /\ Len(records) > 1)
        IN  /\ Chat
            /\ Taken(i, c)
            /\ \/ ~IsRequest(buffer) /\ Served(i, Read(c)) /\ UNCHANGED data
               \/ IsRequest(buffer) /\ broken /\ ServerEnds(Read(c))
               \/ /\ IsRequest(buffer) /\ ~broken
                  /\ Served(i, [Read(c) EXCEPT ![c] = ServerSends(@, records)])
                  /\ UNCHANGED data

ListServer == ListAccept \/ RecvName \/ ListHangup \/ ListServe

-----------------------------------------------------------------------------
ListConnect(c) == Chat /\ Connect(c, "naming", <<>>)

\* The user types a name; nobody looks at the result of the send, which raises
\* SIGPIPE when connect() had failed.
TypeName(c) ==
    /\ Chat /\ client[c].state = "naming"
    /\ \/ conn[c].end = "refused" /\ Ends(c)
       \/ /\ conn[c].end # "refused"
          /\ client' = [client EXCEPT ![c].state = "running"]
          /\ conn' = [conn EXCEPT ![c] = IF ClientMaySend(@) THEN ClientSends(@, [id |-> 0])
                                         ELSE [@ EXCEPT !.end = "dead"]]
    /\ UNCHANGED <<program, serverVars, typed, histories>>

\* LIST: a send that fails is reported, a second one raises SIGPIPE.
TypeList(c) ==
    /\ Chat
    /\ UNCHANGED added
    /\ \/ /\ conn[c].end # "reset"
          /\ TypeAndSend(c, [id |-> typed + 1], [client[c] EXCEPT !.waits = @ \cup {typed + 1}])
       \/ /\ conn[c].end = "reset" /\ Running(c) /\ typed < Lines[program]
          /\ typed' = typed + 1
          /\ conn' = [conn EXCEPT ![c].end = "dead"]
          /\ UNCHANGED <<program, serverVars, client, quit, merged>>

\* A record fills the buffer of a recv, so they come one by one.
ListReceive(c) ==
    /\ Chat
    /\ Shows(c, 1) \/ NoticesEnd(c, {"reset", "fin", "dead"})

=============================================================================
