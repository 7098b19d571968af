----------------------------- MODULE NameServer -----------------------------
(***************************************************************************)
(* training/dns_server and training/smtp_server, whose servers are the     *)
(* same program: three maps that clients fill and ask.  The client of      *)
(* smtp_server sends one command, which the server does not know.          *)
(***************************************************************************)
EXTENDS SelectLoop

CONSTANTS
    Host,       \* the names in commands (bound)
    Value       \* what is stored for them (bound)

NameServers == {"dns_server", "smtp_server"}
Kind == {"address", "name", "mail"}
Junk == "junk"

\* The maps lookup, rev_lookup and mail_lookup as one; an absent key has no
\* value.
NamesStart ==
    {[no_clients |-> 0, map |-> [kind \in Kind |-> [h \in Host \cup {Junk} |-> <<>>]]]}

NamesAccept ==
    /\ program \in NameServers
    /\ Accept
    /\ data' = [data EXCEPT !.no_clients = @ + 1]
    /\ UNCHANGED newcomer

NamesHangup ==
    \E i \in Fd : \E c \in Client :
        /\ program \in NameServers
        /\ Hangup(i, c)
        /\ data' = [data EXCEPT !.no_clients = @ - 1]

\* quit closes the sockets and leaves their bits in read_fds: the next select
\* fails and DIE ends the server.
Quit ==
    /\ program \in NameServers /\ server = "up" /\ todo = {}
    /\ quit' = TRUE
    /\ ServerEnds(conn)
    /\ UNCHANGED <<merged, added>>

\* tokenize() splits at blanks, and a command has no end mark: the last word
\* of a command runs into the first word of the next in the buffer.
tokenize(buffer) ==
    LET m == Head(buffer)
    IN  CASE Len(buffer) > 1 /\ m.verb = "add" -> [m EXCEPT !.value = Junk]
          [] Len(buffer) > 1 /\ m.verb = "get" -> [m EXCEPT !.host = Junk]
          [] OTHER -> m

\* Mistake in Stored: a vector is made for the key and nothing is put into it.
NotPushed(values, m) == IF m.kind = "name" THEN <<m.value>> ELSE values

\* A name replaces the old one, addresses and mail servers are added.
Stored(values, m) == IF m.kind = "name" THEN <<m.value>> ELSE Append(values, m.value)

\* What the answer holds: all the addresses, the name, and of the mail servers
\* the last, since the buffer is cleared for each of them.
Found(m) ==
    LET values == data.map[m.kind][m.host]
    IN  IF m.kind = "mail" /\ values # <<>> THEN <<Last(values)>> ELSE values

NamesServe ==
    \E i \in Fd : \E c \in Client :
        LET m     == tokenize(conn[c].toServer)
            reply == [id |-> m.id, kind |-> m.kind, host |-> m.host, own |-> m.own,
                      values |-> Found(m)]
        IN  /\ program \in NameServers
            /\ Taken(i, c)
            /\ \/ /\ m.verb = "add"
                  /\ Served(i, Read(c))
                  /\ data' = [data EXCEPT !.map[m.kind][m.host] = Stored(@, m)]
               \/ /\ m.verb = "get" /\ SendFails(c)
                  /\ ServerEnds(Read(c))
               \/ /\ m.verb = "get" /\ ~SendFails(c)
                  /\ Served(i, [Read(c) EXCEPT ![c] = ServerSends(@, <<reply>>)])
                  /\ UNCHANGED data
               \/ /\ m.verb = "send"
                  /\ Served(i, Read(c))
                  /\ UNCHANGED data

\* The addresses of a host are put together in buffer, which has room for one
\* of any length: what lies behind it is overwritten, and the server goes on
\* with it or ends.
ManyAddresses ==
    \E i \in Fd : \E c \in Client :
        LET m == tokenize(conn[c].toServer)
        IN  /\ program \in NameServers
            /\ Taken(i, c) /\ m.verb = "get" /\ m.kind = "address" /\ Len(Found(m)) > 1
            /\ NamesServe \/ ServerEnds(Read(c))
            /\ overrun' = TRUE

NamesServer == NamesAccept \/ NamesHangup \/ NamesServe

-----------------------------------------------------------------------------
NamesConnect(c) == program \in NameServers /\ Connect(c, "running", <<>>)

\* add_address, add_name and add_mail, which are not answered.
TypeAdd(c, kind, h, v) ==
    /\ program = "dns_server"
    /\ TypeAndSend(c, [id |-> 0, verb |-> "add", kind |-> kind, host |-> h, value |-> v],
                   [client[c] EXCEPT !.own = IF kind = "address" THEN @ \cup {<<h, v>>} ELSE @])
    /\ added' = added \cup {<<kind, h, v>>}

\* get_address, get_name and get_mail; a request for addresses notes those its
\* client has added before it.
TypeGet(c, kind, h) ==
    /\ program = "dns_server"
    /\ TypeAndSend(c, [id |-> typed + 1, verb |-> "get", kind |-> kind, host |-> h,
                       own |-> {v \in Value : kind = "address" /\ <<h, v>> \in client[c].own}],
                   [client[c] EXCEPT !.waits = @ \cup {typed + 1}])
    /\ UNCHANGED added

\* The one command of the mail client.
TypeMail(c) ==
    /\ program = "smtp_server"
    /\ TypeAndSend(c, [id |-> 0, verb |-> "send"], client[c])
    /\ UNCHANGED added

NamesReceive(c) ==
    /\ program \in NameServers
    /\ ShowsAll(c) \/ ReportsReset(c) \/ NoticesEnd(c, {"fin", "dead"})

=============================================================================
