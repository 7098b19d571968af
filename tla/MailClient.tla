----------------------------- MODULE MailClient -----------------------------
(***************************************************************************)
(* The mail client of lab11: it sends nine commands one after another and  *)
(* reads one line for each, which has to begin with the expected code.     *)
(***************************************************************************)
EXTENDS OutsideServer

Smtp == program = "lab11"

\* HELO, AUTH LOGIN, the user, the password, MAIL FROM, RCPT TO, DATA, the
\* mail, QUIT.
Expected == <<250, 334, 334, 235, 250, 250, 354, 250, 221>>
Greeting == 220
Refused  == 550

\* What the server has answered, and the commands among it that it accepted;
\* the command the client has sent, what recvbuf of send_command() holds, and
\* whether main() has come to its end.
MailStart ==
    {[answered |-> 0, accepted |-> {}, greeted |-> FALSE,
      command |-> 0, writing |-> FALSE, recvbuf |-> 0, returned |-> FALSE]}

\* A reply is one line or several with the same code.
Reply(code) == {<<code>>, <<code, code>>}

SmtpGreets(c) ==
    /\ Smtp /\ ~data.greeted
    /\ \E lines \in Reply(Greeting) :
          OutsideServes(c, ServerSends(conn[c], lines), [data EXCEPT !.greeted = TRUE])

SmtpReplies(c) ==
    /\ Smtp /\ data.greeted /\ conn[c].toServer # <<>>
    /\ \E code \in {Expected[Head(conn[c].toServer)], Refused} : \E lines \in Reply(code) :
          OutsideServes(c, ServerSends([conn[c] EXCEPT !.toServer = Tail(@)], lines),
              [data EXCEPT !.answered = @ + 1,
                           !.accepted = IF code = Refused THEN @
                                        ELSE @ \cup {Head(conn[c].toServer)}])

MailConnect(c) == Smtp /\ Connect(c, "running", <<>>)

\* The first line is read into main()'s buffer and not looked at; nor is
\* whether there was one.
ReadGreeting(c) ==
    /\ data.command = 0 /\ ~data.writing /\ ClientReadable(conn[c])
    /\ GoesOn(c, IF conn[c].toClient # <<>> THEN [conn[c] EXCEPT !.toClient = Tail(@)]
                 ELSE [conn[c] EXCEPT !.end = IF @ = "reset" THEN "dead" ELSE @],
              [data EXCEPT !.writing = TRUE])

\* The two writes of send_command(); SIGPIPE ends the client.
WriteCommand(c) ==
    /\ data.writing
    /\ \/ conn[c].end \in {"reset", "dead", "refused"} /\ Finishes(c, conn[c], data)
       \/ /\ conn[c].end \in {"open", "fin"}
          /\ GoesOn(c, ClientSends(conn[c], data.command + 1),
                    [data EXCEPT !.command = @ + 1, !.writing = FALSE])

\* Mistake in Matches: only the first digit counts.
FirstDigit(code) == code \div 100 = Expected[data.command] \div 100

\* strstr() finds the expected code at the beginning of the line.
Matches(code) == code = Expected[data.command]

\* The program goes on, after QUIT to its end.
Passes(c, k, d) ==
    IF d.command = Len(Expected) THEN Finishes(c, k, [d EXCEPT !.returned = TRUE])
    ELSE GoesOn(c, k, [d EXCEPT !.writing = TRUE])

\* read_line() and the comparison.  A failed read leaves recvbuf as it was,
\* with the last reply or what came to lie there since.
ReadReply(c) ==
    LET line == Head(conn[c].toClient)
        rest == [conn[c] EXCEPT !.toClient = Tail(@)]
    IN  /\ data.command > 0 /\ ~data.writing
        /\ \/ /\ conn[c].toClient # <<>> /\ Matches(line)
              /\ Passes(c, rest, [data EXCEPT !.recvbuf = line])
           \/ /\ conn[c].toClient # <<>> /\ ~Matches(line)
              /\ Finishes(c, rest, data)
           \/ /\ conn[c].toClient = <<>> /\ conn[c].end \in {"fin", "dead", "reset"}
              /\ Finishes(c, conn[c], data)
           \/ /\ conn[c].toClient = <<>> /\ conn[c].end = "reset" /\ Matches(data.recvbuf)
              /\ Passes(c, [conn[c] EXCEPT !.end = "dead"], data)

send_command(c) ==
    /\ Smtp /\ Running(c)
    /\ ReadGreeting(c) \/ WriteCommand(c) \/ ReadReply(c)

=============================================================================
