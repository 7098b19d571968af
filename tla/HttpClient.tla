----------------------------- MODULE HttpClient -----------------------------
(***************************************************************************)
(* The HTTP client of lab10: one request, and a response that comes in     *)
(* pieces, of a header, which ends with HEADER_TERMINATOR, and a body.     *)
(* The header may announce the length of the body; if it does not, the     *)
(* response ends with the connection.  The buffer holds the bytes in the   *)
(* order they were sent, so its size stands for it.                        *)
(***************************************************************************)
EXTENDS OutsideServer

CONSTANTS
    Header,     \* size of the header, terminator included, in pieces (bound)
    Body        \* the sizes of bodies, likewise (bound)

ASSUME HttpAssumption == Header \in Nat \ {0} /\ Body \subseteq Nat

Http == program = "lab10"

\* content_length + (size_t)-1, more than any response holds.
SIZE_MAX == Header + 1 + CHOOSE n \in Body : \A k \in Body : k <= n

\* The server's response and how much of it it has sent; the variables of
\* receive_from_server(), and whether it has returned.
HttpStart ==
    [body : Body, announced : BOOLEAN, sent : {0},
     size : {0}, header_end : {0}, content_length : {0},
     reading : {"header"}, returned : {FALSE}]

HttpSends(c) ==
    /\ Http /\ data.sent < Header + data.body
    /\ OutsideServes(c, [conn[c] EXCEPT !.toServer = <<>>, !.toClient = Append(@, "piece")],
                     [data EXCEPT !.sent = @ + 1])

\* All that was announced has been sent.
Complete == data.announced /\ data.sent = Header + data.body

HttpConnect(c) == Http /\ Connect(c, "running", <<"request">>)

\* read() of what has arrived; buffer_add() appends it.
Emptied(c) == [conn[c] EXCEPT !.toClient = <<>>]
buffer_add(c) == data.size + Len(conn[c].toClient)

\* The place of the terminator, sought in the whole buffer, and its size added.
HeaderEnd(size) == IF size >= Header THEN Header ELSE -1

\* The loop for the header, which goes on to the end of the connection when
\* there is no length.
ReadHeader(c) ==
    LET found == HeaderEnd(buffer_add(c)) = Header /\ data.announced
    IN  /\ data.reading = "header" /\ conn[c].toClient # <<>>
        /\ GoesOn(c, Emptied(c),
                  [data EXCEPT !.size = buffer_add(c), !.header_end = HeaderEnd(buffer_add(c)),
                               !.content_length = IF found THEN data.body ELSE @,
                               !.reading = IF found THEN "body" ELSE @])

HeaderEof(c) ==
    /\ data.reading = "header" /\ conn[c].toClient = <<>> /\ conn[c].end \in {"fin", "dead"}
    /\ GoesOn(c, conn[c], [data EXCEPT !.reading = "body"])

\* Mistake in Total: the length is taken for that of the whole response.
BodyOnly == IF data.header_end = -1 THEN SIZE_MAX ELSE data.content_length

Total == IF data.header_end = -1 THEN SIZE_MAX ELSE data.content_length + data.header_end

ReadBody(c) ==
    /\ data.reading = "body" /\ data.size < Total /\ conn[c].toClient # <<>>
    /\ GoesOn(c, Emptied(c), [data EXCEPT !.size = buffer_add(c)])

\* The response is whole, or the connection at its end.
Returns(c) ==
    /\ data.reading = "body"
    /\ \/ data.size >= Total
       \/ conn[c].toClient = <<>> /\ conn[c].end \in {"fin", "dead"}
    /\ Finishes(c, conn[c], [data EXCEPT !.returned = TRUE])

\* A read that fails ends the program.
ReadFails(c) ==
    /\ data.reading = "header" \/ data.size < Total
    /\ NoticesEnd(c, {"reset"})

receive_from_server(c) ==
    /\ Http /\ Running(c)
    /\ ReadHeader(c) \/ HeaderEof(c) \/ ReadBody(c) \/ Returns(c) \/ ReadFails(c)

=============================================================================
