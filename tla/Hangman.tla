------------------------------- MODULE Hangman -------------------------------
(***************************************************************************)
(* training/spanzuratoarea: the first client sets a word, the others guess *)
(* its letters.  A found letter is told to everybody, a wrong one costs    *)
(* the guesser a life, which only its client counts.                       *)
(***************************************************************************)
EXTENDS SelectLoop

CONSTANTS
    Letter,     \* the letters that are guessed (bound)
    Word,       \* the words that are set, as sets of letters (bound)
    VIETI       \* lives of a client

ASSUME HangmanAssumption == VIETI \in Nat \ {0} /\ {} \notin Word

Game == program = "hangman"

\* No word; also one of less than 10 or more than 25 letters.
NoWord == {}

HangmanStart == {[first_client |-> NoFd, ghiceste |-> NoWord, ghicit |-> {}]}

HangmanAccept ==
    /\ Game
    /\ Accept
    /\ data' = [data EXCEPT !.first_client = IF @ = NoFd THEN NewFd ELSE @]
    /\ UNCHANGED newcomer

\* The end of the first client is the end of the game.
HangmanHangup ==
    \E i \in Fd : \E c \in Client :
        /\ Game
        /\ UNCHANGED data
        /\ \/ i # data.first_client /\ Hangup(i, c)
           \/ i = data.first_client /\ EndOf(i, c) /\ ServerEnds(conn) /\ UNCHANGED histories

\* A line on the server's terminal that is not status ends the game; of all
\* lines only quit does not, as the comparison is the wrong way round.
Stop ==
    /\ Game /\ server = "up" /\ todo = {}
    /\ quit' = TRUE
    /\ ServerEnds(conn)
    /\ UNCHANGED <<merged, added>>

\* An answer to client c alone.
Answer(i, c, m) ==
    /\ UNCHANGED data
    /\ \/ SendFails(c) /\ ServerEnds(Read(c))
       \/ ~SendFails(c) /\ Served(i, [Read(c) EXCEPT ![c] = ServerSends(@, <<m>>)])

Refusal(m) == [id |-> m.id, kind |-> "refusal"]

\* A buffer that begins with set.  The word is set once, and nobody is told.
SetWord ==
    \E i \in Fd : \E c \in Client :
        LET m   == Head(conn[c].toServer)
            may == i = data.first_client /\ data.ghiceste = NoWord /\ m.word # NoWord
        IN  /\ Game
            /\ Taken(i, c) /\ m.verb = "set"
            /\ \/ ~may /\ Answer(i, c, Refusal(m))
               \/ /\ may /\ Served(i, Read(c))
                  /\ data' = [data EXCEPT !.ghiceste = m.word, !.ghicit = {}]

\* word has room for 50 bytes, and sscanf() copies a word of any length into it
\* before its length is looked at: what lies behind word is overwritten, and the
\* server goes on with it or ends.
LongWord ==
    \E i \in Fd : \E c \in Client :
        /\ Game
        /\ Taken(i, c) /\ Head(conn[c].toServer).verb = "set" /\ i = data.first_client
        /\ SetWord \/ ServerEnds(Read(c))
        /\ overrun' = TRUE

\* Mistake in Everybody: the lowest descriptor of a client is left out.
AllButTheFirst == {f \in Fd \ {4} : sock[f] # Free}

\* The descriptors in read_fds from 4 on.
Everybody == {f \in Fd : sock[f] # Free}

\* One send for each in ascending order; DIE or SIGPIPE at the first that fails
\* ends the server: the connections after it, and whether the server is alive.
Reached(k) ==
    {f \in Everybody : \A g \in Everybody : g <= f => k[sock[g]].peer \notin {"reset", "dead"}}

SentToAll(k, m) ==
    [conn  |-> [c \in Client |-> IF \E f \in Reached(k) : sock[f] = c
                                 THEN ServerSends(k[c], <<m>>) ELSE k[c]],
     alive |-> Reached(k) = Everybody]

\* A buffer that begins with guess.  When the last letter is found everybody
\* is told so in a second message, and the server ends.
GuessLetter ==
    \E i \in Fd : \E c \in Client :
        LET m       == Head(conn[c].toServer)
            refused == i = data.first_client \/ data.ghiceste = NoWord
            hit     == m.letter \in data.ghiceste
            ghicit  == data.ghicit \cup {m.letter}
            found   == ghicit = data.ghiceste
            told    == SentToAll(Read(c), [id |-> m.id, kind |-> "litera", letter |-> m.letter])
            won     == SentToAll(told.conn, [id |-> 0, kind |-> "felicitari"])
        IN  /\ Game
            /\ Arrived(i, c) /\ m.verb = "guess"
            /\ \/ refused /\ Answer(i, c, Refusal(m)) /\ UNCHANGED <<quit, added>>
               \/ /\ ~refused /\ ~hit
                  /\ Answer(i, c, [id |-> m.id, kind |-> "gresit"])
                  /\ UNCHANGED <<quit, added>>
               \/ /\ ~refused /\ hit
                  /\ added' = added \cup {<<sock[f], m.letter>> : f \in {g \in Fd : sock[g] # Free}}
                  /\ \/ ~told.alive /\ ServerEnds(told.conn) /\ UNCHANGED quit
                     \/ told.alive /\ found /\ ServerEnds(won.conn) /\ quit' = won.alive
                     \/ /\ told.alive /\ ~found
                        /\ Served(i, told.conn)
                        /\ data' = [data EXCEPT !.ghicit = ghicit]
                        /\ UNCHANGED quit

\* The places of a letter are put together in poz_litere_gasite, which has room
\* for about eight of them: likewise.
ManyPlaces ==
    \E i \in Fd : \E c \in Client :
        LET m == Head(conn[c].toServer)
        IN  /\ Game
            /\ Arrived(i, c) /\ m.verb = "guess"
            /\ i # data.first_client /\ m.letter \in data.ghiceste
            /\ GuessLetter \/ (ServerEnds(Read(c)) /\ UNCHANGED <<quit, added>>)
            /\ overrun' = TRUE

HangmanServer == HangmanAccept \/ HangmanHangup \/ SetWord \/ GuessLetter

-----------------------------------------------------------------------------
HangmanConnect(c) == Game /\ Connect(c, "running", <<>>)

\* Every line but status goes to the server, which knows set and guess;
\* everybody may type both.
TypeWord(c, word) ==
    /\ Game
    /\ TypeAndSend(c, [id |-> 0, verb |-> "set", word |-> word], client[c])
    /\ UNCHANGED added

TypeGuess(c, letter) ==
    /\ Game
    /\ TypeAndSend(c, [id |-> typed + 1, verb |-> "guess", letter |-> letter],
                   [client[c] EXCEPT !.waits = @ \cup {typed + 1}])
    /\ UNCHANGED added

\* A buffer that begins with gresit costs a life, and what else is in it is
\* not shown; any other buffer is shown.
HangmanShows(c) ==
    LET inbox == conn[c].toClient
        read  == [conn[c] EXCEPT !.toClient = <<>>]
        ids   == {inbox[k].id : k \in DOMAIN inbox}
        shown == {inbox[k].letter : k \in {n \in DOMAIN inbox : inbox[n].kind = "litera"}}
        wrong == Head(inbox).kind = "gresit"
        last  == wrong /\ client[c].lost + 1 = VIETI
    IN  /\ Game /\ Running(c) /\ inbox # <<>>
        /\ MergedIf(wrong /\ Len(inbox) > 1, c)
        /\ \/ last /\ EndsAt(c, read)
           \/ /\ ~last
              /\ client' = [client EXCEPT
                               ![c].waits = @ \ (IF wrong THEN {Head(inbox).id} ELSE ids),
                               ![c].lost = IF wrong THEN @ + 1 ELSE @,
                               ![c].own = IF wrong THEN @ ELSE @ \cup shown]
              /\ conn' = [conn EXCEPT ![c] = read]
        /\ UNCHANGED <<program, serverVars, typed, quit, added>>

\* A failed recv is reported, and an empty message shown.
HangmanReceive(c) ==
    Game /\ (HangmanShows(c) \/ ReportsReset(c) \/ NoticesEnd(c, {"fin", "dead"}))

=============================================================================
