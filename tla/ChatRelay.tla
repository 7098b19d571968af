----------------------------- MODULE ChatRelay -----------------------------
(***************************************************************************)
(* The relay of lab8 in C++ (lab8cpp) and in C (lab8c), and the client of  *)
(* homework 2 on the server in C (tema2).  The first character of a line   *)
(* is the descriptor it is for; the server sends the line there if it has  *)
(* ever accepted a connection on that descriptor.                          *)
(***************************************************************************)
EXTENDS SelectLoop, FiniteSets

Relays == {"lab8cpp", "lab8c", "tema2"}

\* Each connection accepted takes a place of msg, and nobody looks whether one
\* is left: what follows is about relays with as many clients as have room.
MsgRoom == 15

ASSUME RelayAssumption == \A p \in Relays : Clients[p] <= MsgRoom

\* msg[k].name; whether the variable send_msg is negative, which nothing sets
\* before the first send.
RelayStart == {[names |-> <<>>, negative |-> b] : b \in BOOLEAN}

RelayAccept ==
    /\ program \in Relays
    /\ Accept
    /\ data' = [data EXCEPT !.names = Append(@, NewFd)]
    /\ UNCHANGED newcomer

\* The server in C tests send_msg after every recv, also one that returned 0.
RelayHangup ==
    \E i \in Fd : \E c \in Client :
        /\ program \in Relays
        /\ \/ /\ program # "lab8cpp" /\ data.negative
              /\ EndOf(i, c) /\ ServerEnds(conn) /\ UNCHANGED histories
           \/ /\ program = "lab8cpp" \/ ~data.negative
              /\ Hangup(i, c) /\ UNCHANGED data

\* The places of msg a line for descriptor f is sent to.
EveryEntry(f) == {k \in DOMAIN data.names : data.names[k] = f}

\* Mistake in Entries: the search goes on after the line was sent.
SendsOn(f) == EveryEntry(f)

\* The search ends at the first.
Entries(f) == {k \in EveryEntry(f) : \A j \in EveryEntry(f) : k <= j}

\* Mistake in NoSendFails: nobody to send to is an error.
NobodyIsFailure(f) == Entries(f) = {}

\* What DIE tests when nothing was sent: the result of an earlier send, which
\* was no failure, or whatever the variable held at the start.
NoSendFails(f) == Entries(f) = {} /\ data.negative

\* One send of all the lines for each entry.
Sends(lines, entries) ==
    [n \in 1 .. Cardinality(entries) * Len(lines) |-> lines[1 + ((n - 1) % Len(lines))]]

\* A line, or the lines that came together, for the descriptor the first one
\* names.  A descriptor closed since, or a reset, makes the send fail.
RelayServe ==
    \E i \in Fd : \E c \in Client :
        LET lines == conn[c].toServer
            f     == lines[1].to
            d     == sock[f]
            sent  == Sends(lines, Entries(f))
        IN  /\ program \in Relays
            /\ Taken(i, c)
            /\ \/ /\ NoSendFails(f) /\ ServerEnds(Read(c))
               \/ /\ Entries(f) = {} /\ ~NoSendFails(f)
                  /\ Served(i, Read(c)) /\ UNCHANGED data
               \/ /\ Entries(f) # {} /\ (d # Free => SendFails(d))
                  /\ ServerEnds(Read(c))
               \/ /\ Entries(f) # {} /\ d # Free /\ ~SendFails(d)
                  /\ Served(i, [Read(c) EXCEPT ![d] = ServerSends(@, sent)])
                  /\ data' = [data EXCEPT !.negative = FALSE]

RelayServer == RelayAccept \/ RelayHangup \/ RelayServe

-----------------------------------------------------------------------------
\* The client of homework 2 sends its name at once; a name starts with a
\* letter, which is no descriptor.
Registers(c) == program = "tema2" /\ Connect(c, "running", <<[id |-> 0, to |-> NoFd]>>)

RelayConnect(c) == program \in {"lab8cpp", "lab8c"} /\ Connect(c, "running", <<>>)

TypeLine(c, f) ==
    /\ program \in Relays
    /\ TypeAndSend(c, [id |-> typed + 1, to |-> f], client[c])
    /\ UNCHANGED added

\* The client of lab8 in C++ reports an error and goes on.
ReceiveCpp(c) == ReportsReset(c) \/ NoticesEnd(c, {"fin", "dead"})

\* The one in C takes a recv that returned 0 for a message, for ever.
ReceiveC(c) == NoticesEnd(c, {"reset"})

ReceiveTema2(c) == NoticesEnd(c, {"reset", "fin", "dead"})

RelayReceive(c) ==
    \/ program \in Relays /\ ShowsAll(c)
    \/ program = "lab8cpp" /\ ReceiveCpp(c)
    \/ program = "lab8c" /\ ReceiveC(c)
    \/ program = "tema2" /\ ReceiveTema2(c)

=============================================================================
