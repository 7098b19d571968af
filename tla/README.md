# Formal models of the Protocoale programs

The repository holds the laboratory programs, homework and exam training of a
course on communication protocols: small, independent C and C++ programs that
talk over a network, each with its own concurrency, its own protocol and its own
way of failing. This directory models the ones whose behaviour is worth
checking, next to the code: TLA+ modules, the TLC configurations that check them
on small instances, and theorems with proofs for every value of the constants.

Paths below are relative to `src/`. Module names are files of this directory.

## 1. Inventory

### Link emulator and the programs that run over it

| part | state | operations |
|---|---|---|
| `3lab/link_emulator/link.c` (copies in `lab2`, `lab3`) | shared: the bounded `buffer`, `link_up1/2`, a mutex and a condition; the scheduler's own `in_flight`, `crt_time`, `idle_time` | three threads: `run_forwarding` receives, decides on overflow, loss and corruption, enqueues; `link_scheduler` takes a frame per serialization delay and sends what is due; `run_reverse_forwarding` relays the other way at once |
| `3lab/link_emulator/queue.c` | a linked list on the heap | `create_queue`, `enqueue`, `dequeue` |
| `3lab/send.c`, `recv.c` | loop counters | a window of frames kept on the link, ACK or NACK by parity |
| `lab3/send.c`, `recv.c` (`lab2` alike) | file position, size, counter of written bytes | name message, chunks, an answer to each |

The programs know the emulator through two UDP sockets only. What is hard:
critical sections that do not cover a decision and its use (`link.c:219/272`,
`297/312`), a clock read once per pass, `pthread_cond_wait` without a loop,
replies that are counted and never matched, no timeout anywhere. What makes the
parts correct: the emulator neither loses nor reorders a frame it accepted, keeps
to its rate and never sleeps on a frame; the list is a queue; the window is never
exceeded and an end of the sender means that everything was answered; the output
file is the input file.

### Router

`tema1/router.c` is one thread that takes one frame at a time (`skel.c:
get_packet`, lowest interface first) and forwards it, answers it with ICMP or ARP,
or drops it; it uses a routing table (`route.c`, sorted at the start, binary
search) and an ARP table (`arp.c`) that replies update. `lab4/router.c` and
`mizerie/router.c` are earlier versions with a linear search. Hard: arithmetic on
addresses in network byte order, comparison by `int` difference, the end of the
table, a packed structure that is not packed, a table that grows without a look at
its room, and what a datagram that loops or an answer about an answer leads to. Correct:
a datagram leaves on the right interface for the right hardware address and dies in a
loop; misread ARP data do no more harm than one wrong entry for each host; the search
returns the best route.

### Select servers and their clients

| program | what it is |
|---|---|
| `training/x_si_0` | noughts and crosses: the server pairs connections and relays moves, the clients keep the board |
| `training/practic` | number game: the first player sets a number, the others guess |
| `training/spanzuratoarea` | hangman: the first player sets a word, the others guess letters; who finds one is told to all, who does not loses a life that only the client counts |
| `lab8`, `tema2` | relay of a line to the descriptor its first character names |
| `training/multi_chat` | list of connected clients on request |
| `training/dns_server`, `smtp_server` | look-ups in maps that clients fill |
| `lab7` | two clients in lockstep: no `select`, the server receives from one and sends to the other, by turns |

All but the last are one thread around `select`: a pass copies the set of descriptors, then
serves the readable ones in ascending order. Hard: TCP gives bytes and not
messages, so two sends can arrive in one `recv`; the set of a pass gets stale when
a descriptor is closed in it; the kernel reuses descriptors while the programs
keep them in arrays; a close with unread data becomes a reset, so that `recv`
fails and `DIE` ends the server for everybody, and a second send to a reset
connection raises SIGPIPE; a `connect` that fails is only reported by most clients;
texts are copied into arrays without a look at their length. Correct: the parties of a game agree on its state,
nobody is told what is not so, and who is left alone is released.

### Clients of outside servers

`lab10` sends one HTTP request and puts the response together from reads of any
size (`helpers.c: receive_from_server`, `buffer.c`); `lab11/send_mail.c` sends nine
SMTP commands and reads one line for each. Hard: where the pieces of a response
fall, a connection that ends in the middle of the header (`header_end` is -1 and is
added as a `size_t`), replies of several lines, a read that fails and leaves an old
reply in the buffer. Correct: the response is all there was to get; a client that
ends well was accepted at every command.

### The rest

`lab5` (ping, traceroute), `lab6` (UDP file copy), `lab9` (getaddrinfo), `lab13` and
`training/server_http` (HTTPS through OpenSSL), `1lab` (cat, tac), the Python
topology, checker and tests of the homework, generic `queue.c`/`list.c` of `tema1`
that nothing calls. See "Not modelled" at the end of section 2.

## 2. Modules

| module | models | uses |
|---|---|---|
| `LinkEmulator` | `3lab/link_emulator/link.c`, three threads and the clock | `LinkChannel` |
| `LinkChannel` | abstract: a lossy FIFO channel that empties itself while alive | |
| `LinkQueue` | `queue.c` on an explicit heap | `FifoQueue` |
| `FifoQueue` | abstract: a sequence | |
| `SlidingWindow` | `3lab/send.c`, `recv.c` over the channel | `LinkChannel` |
| `FileTransfer` | `lab3/send.c`, `recv.c` over the channel | `LinkChannel` |
| `RouteTable` | `tema1/route.c`: sort and search; `lab4/router.c`: linear search | |
| `Router` | `tema1/router.c`, `arp.c`, `skel.c` and the hosts around | |
| `StreamSocket` | external: a TCP connection as the system calls of both ends see it | |
| `TicTacToe` | `training/x_si_0/server.c`, `client.c` | `StreamSocket` |
| `GuessGame` | `training/practic/server.cpp`, `client.cpp` | `StreamSocket` |
| `SelectLoop` | what the select servers below share: loop, connections, client | `StreamSocket` |
| `ChatRelay` | `lab8/server.cpp`, `lab8/server.c`, `tema2/server.c` and their clients | `SelectLoop` |
| `ClientList` | `training/multi_chat` | `SelectLoop` |
| `NameServer` | `training/dns_server`, `training/smtp_server` | `SelectLoop` |
| `Hangman` | `training/spanzuratoarea` | `SelectLoop` |
| `Lockstep` | `lab7/server.c`, `client.c` | `SelectLoop` |
| `OutsideServer` | external: the servers of the next two | `SelectLoop` |
| `HttpClient` | `lab10/helpers.c`, `buffer.c`, `client.c` | `OutsideServer` |
| `MailClient` | `lab11/send_mail.c` | `OutsideServer` |
| `SelectServers` | the seven together and their properties | `ChatRelay`, `ClientList`, `NameServer`, `Hangman`, `Lockstep`, `HttpClient`, `MailClient` |
| `LinkEmulatorProofs` | theorems about the emulator and its queue | `LinkEmulator`, `LinkQueue` |
| `RouterProofs` | theorems about the router and its table | `Router`, `RouteTable` |
| `SlidingWindowProofs`, `FileTransferProofs` | theorems about the module each is named after | that module |
| `SocketLemmas` | what the calls of `StreamSocket` do, and why a descriptor is free | `StreamSocket` |
| `GuessGameProofs`, `TicTacToeProofs`, `SelectServersProofs` | theorems about the two games and about all of `SelectServers` | `SocketLemmas` |
| `RouterMC`, `TicTacToeMC`, `SelectServersMC` | instances for TLC | |

In every module the definitions that begin with the comment "Mistake" are not part
of the model: each is the definition that follows with a plausible error, used to
show that a property can fail.

### LinkEmulator

`schPc`, `fwPc` and `revMsg` are the places of the three threads. A critical
section of `buffer_lock` is one step, and the code between two that touches only
the thread's own state is merged with the one before it: `ReadClock` (the top of
the pass), `SendMessage2` for each due frame, `CheckStuff` (the look at
`buffer->size`), `PutInFlight` or `NothingToPut` (the dequeue and the computation
of the sleep), `Park` (lock, assertion, wait); `ReceiveMessage1`, `CheckSpace`,
`Enqueue`; `ReceiveMessage2`, `SendMessage1`. `Tick` is the clock: it may advance
between any two steps, at most `MaxLag` ticks beyond the time at which the
scheduler last woke or read it. A failed assertion ends the process: `schPc =
"aborted"`. `accepted`, `sent1` and `sent2` are histories. Frame 1 of each host
only registers its address. Not modelled: command line, `guess_hz`, frame contents
beyond "intact".

The channel gets `wire` from what is in flight and buffered, `out` from `sent2`,
`alive` from "not aborted".

### SlidingWindow and FileTransfer

Both run over `LinkChannel` with both hosts registered, which is how
`run_experiment.sh` starts them; the emulator may drop, damage or stop, as
constants allow. The reply direction is a FIFO with a counter, since replies are
only counted. `Fill`, `Await`, `Slide`, `Drain` are the sender's loops, `Answer`
the receiver's; `ReadAndSend`, `TakeAnswer`, `RecvName`, `RecvChunk` those of the
file transfer. The length that `RecvChunk` adds to `check` is that of `r` after the
answer was made in it (`Answered`, `recv.c:54-59`), which is 0: the receiver does not end
once it has a file of at least one byte. No property says so, as the line does.
The window comes from the command line and may be anything; properties that need a
window of at most COUNT say so.

### RouteTable and Router

`RouteTable` chooses a table and a destination and runs the look-up once: sorting
(any outcome of `qsort` under the code's comparison, which is not transitive when
prefixes are half the word apart), the binary search with its right end one too
far, the scan with no bound. What lies behind the table is zero memory: `WILD` is
a pointer there. Words have two octets of two bits; masks are little-endian words.
C's `&` is the recursive function `And` of two words, `binarySearch` one of the
range (`Bounds`) that is left to search.

`Router` has one action per branch of the main loop: `HandleArpReply`,
`HandleArpRequest`, `EchoReply`, `WrongChecksum`, `TimeExceeded`,
`DestUnreachable`, `ArpMiss`, `Forward`; around it hosts send any frame and a
neighbour may send back what it was sent, datagrams and the router's own ICMP answers
(`Take`). The look-up is a constant function here, `RouteTable` is about it: its value is
an interface, `NULL`, or `STRAY`, a pointer past the table, as `RouteTable` finds that
there are. `SendByRoute` lets what lies there be any interface or end the router
(`up`). ARP replies are read at the wrong offsets, as the layout of `struct arpPkt` makes
the code do: `Misread` is the address that the reply of a host is taken for, another one
for each host and interface, since two of its bytes are of the router's hardware address.
`update_arp_table` appends without a look at the `ROOM` of the table; what it overwrites
then may end the router too. An exceeded or unreachable message is answered like any
datagram, with its ttl (`IcmpTo`): between the router and a host that sends it back it
goes round for ever. `AtRest` is therefore a state in which only such messages are left, and
`Quiesces` excepts also an interface that is starved, as `get_packet` serves the lowest
one first.

### StreamSocket, TicTacToe, GuessGame

`StreamSocket` knows per connection the bytes under way each way (as messages; one
`recv` takes all) and what each side has learnt of the other: open, FIN, reset
pending, dead; a client that came after the server's end has never had a connection
(`Unconnected`), and its `recv` fails again and again (`Reported`). A server step is one descriptor of the
current pass (`Accept`,
`Serve`; `Accept`, `Leaver`, `SetNumber`, `Guess`), `StartPass` is `select`, and
`todo` what is left of `tmp_fds`. Between two steps of a pass clients run freely.

In `TicTacToe` the server's `p` is never pruned and descriptors come back: the
properties about a game are stated as long as no descriptor sits in two games
(`SharedFd`). `find_game` returns -1 for a player without a partner and `p[-1]` is
read; in the binary the repository holds these bytes are an unused part of
`tmp_fds`, zero, so that descriptor 0 is closed and handed out again. The model
takes that outcome. `p` has 25 entries and its index only grows: `TicTacToeAssumption`
limits the model, and the theorems about it, to the 50 clients whose games fit. In `GuessGame`
several messages in one `recv` are read as one
text: only its beginning counts, and the digits of a guess that follows a `set`
are appended to the number. `ConnectFails` is the client that starts after the server's end:
`open_connection` only reports that, and the client goes on without a connection.

### SelectLoop and the programs of SelectServers

`SelectLoop` has the loop once: `StartPass` is `select`, `todo` the rest of
`tmp_fds`, `Accept` the listening socket's turn, `Hangup` that of a descriptor whose
`recv` returned 0, `RecvFails` that of one with a reset; `Taken` says that one `recv`
takes all that has arrived. A program adds what it keeps (`data`) and what it does
with a message, its client what it sends and how it takes the end. The constant of
every behaviour is `program`. `ConnectFails` is a client that comes after the server's
end: it ends where the code says DIE (`DiesOnConnect`) and goes on without a connection
elsewhere.

*Texts longer than their arrays.* A name of multi_chat (`LongName`), hangman's word and the
places of a letter (`LongWord`, `ManyPlaces`) and a name server's addresses (`ManyAddresses`)
are copied behind the end of an array when they are long. The server may end there, or go
on with other data overwritten: `overrun` remembers it, and no property claims anything
of what such a server knows afterwards.

*Relays.* `data.names` is `msg[].name`, which only grows. `data.negative` says that
`send_msg` is negative: the variable is uninitialized, its value any, and
`DIE(send_msg < 0)` is evaluated even when nothing was sent. `msg` has room for 15
connections in the life of a server; `RelayAssumption` says that no more clients
come. The client of
`lab8/client.c` takes a `recv` of 0 bytes for a message and never ends.
*Client list.* After `accept` the server sits in a blocking `recv` for the name;
`newcomer` is the descriptor it waits for, and no other step of the server is
possible meanwhile. `Pruned` is the comparison `(i == clients[k].sockfd) == i`,
which is never true.
*Name servers.* `tokenize` splits at blanks and commands carry no end mark, so two
commands in one `recv` have one merged word (`Junk`). `quit` closes the sockets
and leaves their bits in the set, so that the next `select` fails.
`merged` is the history of clients whose messages ever came together; `added` and
`own` remember what was typed.
*Hangman.* A word is the set of its letters. `SentToAll` is the broadcast, one send
after another in the order of the descriptors, which the first failure ends together
with the server; `GuessLetter` makes two of them when the last letter is found.
`Stop` is the server's terminal: `strcmp(buffer, "quit\n")` stands without `!`
(`server.cpp:83`), so any line but `quit` and `status` ends the game. The client
(`HangmanShows`) takes a buffer that begins with `gresit` for a lost life and for
nothing else.
*Lockstep.* `receive_and_send` is one turn. It sends a block of BUFLEN bytes whatever
`recv` returned; `Garbage` marks one nobody typed. The second client gets the first
line before the server has read its own, so that it can send a second: both come in
one `recv`, and of a block only the text up to the first zero is printed.
*HTTP client.* Bytes keep their order, so `size` stands for the buffer: the terminator
is in it when `size` reaches the end of the header. `Total` is what is wanted,
`SIZE_MAX` when the connection ended before the header did. Without a length the
first loop reads on until the end of the connection.
*Mail client.* The server answers with one line or two and accepts or refuses;
`ReadReply` reads one line and compares its code. A failed read makes it compare what
the last call left in `recvbuf`, or what came to lie there: one outcome is a match
with the last reply, all others end the program.
For these two `data` holds the client's own variables, and the connection's other
end is the environment's (`OutsideAccept`, `OutsideServes`, `OutsideEnds`), which
owes nobody an answer.

### Not modelled

*Ping and traceroute* (`lab5`): one loop that sends a request and takes the next ICMP
packet for this machine for its answer, whoever it is from; there is no state but
the ttl, and what can go wrong (a lost request is waited for without end, the ttl
starts at 2 as it is incremented before the first send) is what the lines say.
*UDP file copy* (`lab6`): sends and writes datagrams, answers nothing, promises
nothing about losses. *`lab9`, `lab13`, `training/server_http`*: library calls in a
row, getaddrinfo or OpenSSL, whose state is the library's. *`1lab`, `lab2/scriere`*:
sequential files. *The server of homework 2 in C++*: unfinished at this commit, it
does not build. *Copies* of the emulator and of the router in `lab2`, `lab3`,
`mizerie`, `lab4`. *Python topology and checker*: test drivers, read for what they
expect. *Request texts* (`lab10/requests.c`) and every other formatting.

## 3. Runs

| run | instance | shows |
|---|---|---|
| `link` | 2 frames and a reply after the registrations, buffer 1, delays 2 and 1, clock slack 1, a spurious wakeup; loss and corruption; fair threads | no frame lost, duplicated or overtaken; the buffer's bound; the dequeue finds what was seen; no missed signal; the rate; no early frame; the emulator implements `LinkChannel` with its fairness: every accepted frame leaves unless the process aborts |
| `link_assert` | 2 frames | violated: `assert(!buffer->size)` at `link.c:272` fails when a frame comes between the look and the lock |
| `link_queue` | 4 heap cells, 2 values | the list implements `FifoQueue`; nothing dangles |
| `sliding_window` | COUNT 5, window 3; loss, damage, stop | the window; the meaning of the sender's end; a loss is fatal; both end otherwise |
| `file_transfer` | files of 0 to 6 bytes, chunks of 2 | stop and wait; chunks in order, complete at the end; the sender ends unless something is lost |
| `route_lookup` | every table of up to 3 routes, words of 4 bits, every destination | when sorting and search are right; what is found has at least the prefix of a route that matches |
| `route_best` | tables of up to 2 routes | violated: the comment of `route.c:66-67` |
| `router` | 2 interfaces, 3 hosts, 2 frames of any kind, ttl up to 3, two hosts that send back | loops die; the ARP table gets one wrong entry for each host at most; what is forwarded is right but for misread addresses and look-ups past the table; all but error messages about error messages comes to rest |
| `tictactoe` | 4 clients, board of 3 squares | moves reach the partner; one player on move; standstill only in one case; boards agree; who can bring the server down; partners are released |
| `guess_game` | 3 players, numbers 0 and 1, 2 lives, 3 commands | who is told; success is announced only when it happened or a reset was taken for it; the end reaches everybody who was connected |
| `select_servers` | per program 1 to 3 clients and 2 to 5 lines; one host and value; two words of one and two letters, two lives; a response of up to five pieces | nobody brings a server down without leaving or a text too long for it; no line twice; the two of `lab7` in step unless two lines came in one `recv`; a found letter reaches everybody unless the server failed half way or the client read it behind `gresit`; a response is whole and a mail session that ends well was accepted throughout; who is connected is listed; answers hold what was typed; requests are answered and the end reaches all, with the exceptions the properties name |
| `list_erased` | the same | violated: the comment of `multi_chat/server.cpp:120`, that a client that left is erased from the list |

### Bounds

*Link.* Two frames are enough for order and rate, one ahead of the other on the wire
or in the buffer. A buffer of one makes overflow and the look-then-dequeue race
happen at once; the proofs cover every number of frames and every size. With a
serialization delay longer than the propagation delay, frames are due while another
is being serialized. One spurious wakeup lets the scheduler run when nobody called
it. `MaxLag` bounds the drift of the clock over one pass.
*Window and transfer.* COUNT - WINDOW = 2 lets the middle loop run twice; 6 and 5
bytes are whole and broken last chunks.
*Routes.* Two bits per octet give masks that are longer as lengths and larger as
words, or not, and prefixes half the word apart; three routes make a group of one
prefix and a neighbour.
*Router.* Of the three hosts one's reply is misread as an address of the file and two
as addresses it does not have; one destination has no route and the search for another ends
past the table. With room for four entries the fifth is written behind the table. The
hosts on both interfaces send back, so that error messages can go round on each and starve
the other.
*Games.* Four clients play two games side by side and reuse descriptors; with a
board of three squares both players move and the board fills. Five clients were
run once without a difference. In `guess_game`, three commands cover a number set
twice, set and guessed in one `recv`, a guess that is refused; a client's second
life is the one that counts.
*Select servers.* Three clients where a descriptor's reuse by a third matters (a line
for somebody who left, a list with an old entry), two elsewhere; three lines at the
name server make an add and a get merge and a second get ask for what is stored.
At hangman three lines are a word and its two letters, or a word and two wrong
guesses, which is the number of lives (three in the code); five lines at `lab7` are
two rounds and a line sent too early. A header of three pieces and a body of none or
two make the end of the header fall before, on and behind the end of a read. The nine
commands of the mail client are all there.

CHECK_DEADLOCK is off where the programs really stop or wait for ever: after an
abort, after a loss without timeout, when clients have gone.

### Fairness

Weak fairness of each thread or process and of the clock: the kernel schedules
all of them, and no step is disabled again and again by a rival, except the mutex,
whose critical sections are single steps. Nobody is obliged to type, leave, send,
lose or spuriously wake. In the games and the select servers the server
and "some client that can read" are fair; the messages are finitely many. The
servers from outside are not fair: they may fall silent. Liveness that would need a timeout is not
stated: `LossIsFatal` says the opposite.

### Findings

`link_assert`, `route_best` and `list_erased`, with the lines quoted in PROJECT.json. Seen while
modelling, and in the models as they are: an ICMP message that a neighbour returns is
answered for ever (`router.c:153`); a client that starts after its server's end does not end
(`open_connection`, in five of the programs here); the file receiver never ends
(`lab3/recv.c:56-59`); a damaged chunk is written like an intact one
(`lab3/recv.c:48`); `tema1` answers an ARP request with an ether type in host byte
order (`router.c:94`) and sends a request for every datagram without an entry,
where `tests.py:312` wants one; an echo request is answered before its checksum is
verified (`router.c:139`); a window greater than COUNT sends more than the COUNT
frames of `3lab/README:10`; `lab4/router.c:11-25` uses an uninitialized index when
only the default route matches; `quit` is the one line on hangman's terminal that does
not end it (`server.cpp:83`); `lab7/server.c:42` sends a block although nothing was
received, where the comment at line 20 speaks of the message that was. Their tests would be runs of their own and add
nothing to what the line says.

## 4. Proofs

tlapm proves every step; constants are arbitrary under the modules' ASSUMEs (naturals,
percentages, functions of the right type).

**`LinkEmulatorProofs`.** `LinkInv == TypeOK /\ SchedulerInv`. Neither conjunct is
inductive alone: what the scheduler knows at each place (a frame it saw is still in
the buffer, the head of `in_flight` is not yet due, nothing is in flight when it
parks) needs the types of its clock, and the types need to know the place. From
it `TypeCorrect`, `DequeueNeverNull` (`assert(mif->m)` holds), and, if the two
delays are not both zero, `NoMissedSignal`. `BufferNeverOverflows`: only the
forwarder adds, so the space it saw is still there; `ChecksHoldOn` puts it and
`DequeueNeverNull` together. `FramesConserved`: the three
moves of a frame are lemmas (`EnqueueMoves`, `PutInFlightMoves`,
`SendMessage2Moves`), all other steps move nothing, and the concatenation of the
three places equals what was accepted. `LinkImplementsChannel`: every step is a
step of `LinkChannel` or stutters (safety part; fairness is TLC's).

*The queue.* `QueueInv` says that the allocated entries form one line (`InLine`): each
once, each pointing at the next, `last` and `first` at its ends. This is what makes
`dequeue` free the right cell and `enqueue` write through a pointer that is alive,
however often addresses come back from `malloc`; the contents of the list alone are
not inductive. `Chain`, which follows the pointers, meets the line's entries in turn
(`ChainIsLine`: the first place where they differed would be preceded by one where
they agree), so that what is stored is read off the line (`StoredOfLine`); an
`enqueue` makes the line longer by one and appends, a `dequeue` takes its head
(`EnqueueStep`, `DequeueStep`). `QueueIsOneLine`, and `LinkQueueIsFifo`, the whole
refinement of `FifoQueue`, for every set of addresses and values.

**`SlidingWindowProofs`.** The invariant relates the place in the three loops to
`sent` and `got` (`Loops`) and accounts for every frame: sent = lost + under way +
arrived (`Accounted`). From it `WindowNeverExceeded`, `SenderEndsLast`,
`LossBlocksBoth`, `TypeCorrect`.

**`RouterProofs`.** `IInv == QueueInv /\ ArpInv /\ HandInv`: every queued frame is
mortal (`hops + ttl` bounded), every forwarded one right for its interface; an entry
of the table is the file's or what some host's reply is misread as; a frame in hand came
from a host of its interface. `ArpStaysIntact` bounds the entries by those of the file and
one for each misread address: the others keep their places (`Known`), and what was
added is distinct. `LoopsAlwaysDie`, `AlwaysForwardedRight`, `TypeCorrect`.
`RouterAssumption` asks nothing of the routes or of what replies are misread as; it
says that the file has no address twice and fits in the table.

*The table.* For every width of an octet and every length of the file. First what the
arithmetic does: `And` satisfies its recursive equation (`AndRecursion`), stays below
its first argument and commutes (`AndType`, `AndCommutes`); a difference of close
prefixes fits an `int` (`DifferenceIsExact`). So the comparison is an order on a table
whose prefixes are close, and neighbours in order make the whole table ascend
(`CloseAscends`, `QSortOrders`). The search satisfies its equation for every range
within `Bounds` (`SearchRecursion`). Whatever the order of the rows, where it stops
with an index that row has the prefix of the masked destination (`SearchHits`), and
the scan ends on the last row of that group (`RouterFindsGroup`, `LastOfPrefix`); with
one mask the rows outside the range are known to be too low or too high (`Narrowed`),
which settles what an empty range means (`SearchSettles`). `LabLooksUp` does the same
for the linear search. `TableInv` keeps these results as conjuncts, since a state
remembers what was looked up but not how. `CloseTableIsSorted`, `UniformLookUpRight`,
`FoundRouteSharesPrefix` (together `RouterLookUpHolds`), `LabFindsLongestMatch`; that the search may miss the best
route in any other table is the finding `route_best`.

**Timing (`LinkEmulatorProofs`).** `TimingInv == ClockInv /\ FinishInv /\ WireInv`
on top of `LinkInv`. The scheduler's clock is at most `MaxLag` behind (`ClockInv`);
a frame finishes both delays after it was accepted, but for that lag (`FinishInv`);
and the finish times of all that was sent or is in flight, read as one sequence, are
a serialization delay apart and none is later than the propagation delay after
`idle_time` (`WireInv`): the scheduler takes the next frame only when the clock it
has read is past `idle_time`. The property itself speaks of departures and is not
inductive. `NeitherTooFastNorTooEarly`.

**`FileTransferProofs`.** `IInv == TypeOK /\ OneOutstanding /\ Counts /\ Position /\
OnTheWay /\ Output`. Stop and wait is not inductive alone: that the sender reads an
answer to this very chunk depends on both counters (`Counts`), and that the chunk the
receiver takes continues its file depends on where the sender's offset was when it
read (`Position`, `OnTheWay`). `StopAndWait`, `OutputInOrder`, `TypeCorrect`, for every file, every chunk size and a link that loses, damages and stops.

**`SocketLemmas`** states what the calls of `StreamSocket` leave of a connection
(`ServerSendsEffect`, `ServerClosesEffect`, `ClientEndsEffect`, `ClientSendsEffect`),
that a set of numbers has a least element (`LeastExists`), and that as long as
somebody has no descriptor one is free (`FreeDescriptor`, a pigeonhole argument).

**`GuessGameProofs`.** `TypeOK /\ Seats /\ Waiting /\ Selected /\ Lively /\ Requests /\
Replies /\ Truth`. `Seats` ties `players`, the open descriptors and the clients
together one to one; `Selected` says that what `select` reported holds until the pass
gets there, so that this server never calls `recv` on a descriptor it has closed.
`Replies` is the strengthening of `EverybodyTold`: to a client that is not informed
yet the server has sent nothing but the news, so that the first message of its next
`recv` is the news whatever else comes in it. `Truth` follows a `RIGHT` back to the
guess. `NewsReachesAll`, `NoFalseNews`, `TypeCorrect`.

**`TicTacToeProofs`.** The invariant has two halves. *Who sits where:* `Seats`, `Selected`,
`InLine` and `WaitsAlone` tie descriptors, the waiting player and the backlog to
clients; `Tables` says that the two descriptors of a game are open together, for two
clients that know each other, until both are closed. What makes this hold although
`p` is never pruned and `p[-1]` is read is `ZeroIsShortLived`: descriptor 0 becomes a
client's only when a waiting player left, and the game it then gets into is closed
in the same pass. `Whole` says that nothing of this happens before a player has left
a game, and gives `StaysUpWhilePlayersStay`. *What two players share* (`Play`, for
every pair whose connections have not been reset): `OneRight`, `Openings` (a player
that does not know its symbol finds it first in its inbox, with only moves behind it),
`Boards` (the boards differ at most in the move under way, or the last) and
`Standstill`. Both halves are stated, like the properties, as long as no descriptor
sits in two games. The steps of the three programs are first sorted into ten kinds
(`Steps`), with what the code's conditions mean under the invariant: `Relays` and
`Leaves` for `Serve`, `SitsDown` and `PairsUp` for `Accept`, `Stops` for every end of
the server, and five for a client; one lemma per kind shows that it keeps the
invariant. `TypeCorrect`, `MovesReachOnlyThePartner`, `StaysUpWhilePlayersStay`,
`BoardsNeverDrift`, `OneOnMoveCorrect`, `StandstillOnlyAtTheStart`, for every number
of clients and every finite board. `Connected` (select watches every open descriptor;
whose connection is open has one, or is in the backlog) stands on this invariant and
gives `NobodyLeftAlone`: a partner that left makes its descriptor readable, and a
server that is quiet has closed both.

**`SelectServersProofs`.** `Loop == Shape /\ Peers /\ Seats /\ Queued` holds of all ten
programs: the shape of connections and clients whatever they carry, nobody taken for
gone who is there, one descriptor per client, nobody twice in the backlog. Its proof
abstracts the programs' steps to five kinds: the server ends (`Cleared`), accepts
(`Seated`), closes a descriptor (`Freed`), a client connects (`Joined`), anything else
(`Stayed`). What each kind keeps is shown once; a lemma per program sorts its actions
among them. On top stand `Named` (a descriptor in `msg` is open, or somebody has
left) and `InChat` for `DownOnlyWithReason`, which lists what ends a server and has
the texts that are too long among it; `Listed` for `ConnectedAreListed` (together with
`AlwaysListed`, which a server that has overrun its arrays keeps in the model and
the property does not claim), and
`Alone`, `HttpRead` and `MailAnswered` for `AnswersAreWhole`: what the HTTP client has
read and what is on its way is what was sent, and it stops counting only when it knows
the length or the connection has ended; a mail client that still runs has a refusal
ahead of it if a command was refused, and nothing follows the answer to QUIT, so that
a client that has come to the end has read no refusal and needs none. The programs
with a server from outside have one client (`OutsideAssumption`).

*What is on its way.* `Wired == LinesApart /\ InGame /\ AlwaysTold /\ NamesKnown /\
InTurn /\ Early` says, on top of the above, what may be in the connections of each program;
none of the four properties that follow from it is inductive alone. `AlwaysTold` is
`LettersTold` also for a server that wrote behind its arrays, which the model lets go on. The relays:
`LinesApart` says that lines have the numbers in which they were typed, and that a
number is in one place on its way to the server (`Apart`), on its way to a client at
most once (`Once`), and never in both: a line leaves the connection it came by when
it is passed on, and the search in `msg` ends at the first entry for its descriptor
(`OneEntry`); hence `RelayedOnce`. Hangman: `InGame` types the messages and says that
nothing was shown to those who have not come yet; a step finds a letter
(`LetterFound`), and then everybody connected is told or the server has failed, or it
finds none (`NoneFound`), and then what was on its way stays there or is shown
(`Learns`); `FoundLettersAreTold`. The name server: `NamesKnown` follows each value from
the `add` a client typed to the map and into the answers: what the asking client had
added is in the map already, or in a command ahead of its `get` (`Known`), and the
map never loses an address; `NamesAreRight`. The chat in lockstep: `InTurn` counts,
for the two clients the server connects, the lines each has had answered (`Said`), and
those together with the answers under way to it (`Heard`); the lines of the one that the server has not read
carry the numbers that follow what the other has heard (`Ahead`), so that whatever
the server takes next is the next line; a client without partner has sent one line at
most (`Unheard`), and nothing is on its way to a client that has not come, which may yet
find the server gone (`Early`); `LinesInTurn`. The last three stop, like the properties, where one
`recv` has taken two messages.

**What stays with TLC.** Every safety invariant that a run checks is stated by one of
these theorems. Only model-checked are liveness and fairness, which tlapm does not
reason about: `SenderFinishes`, `GameOverReachesAll`, `Quiesces`, `RequestsAnswered`,
`EndReachesAll`, `BothFinish`, and of `ImplementsChannel` the fairness (its safety is
`LinkImplementsChannel`). The three violated runs are facts about small instances by
nature. The provers here have no induction over data: where a proof needs one (along
the links of the list, over the bits of a word, over the ranges of a search, along a
sorted table) it takes the smallest counterexample instead (`Smallest`, from the
well-foundedness of the naturals), and recursive functions are first shown to exist the
same way (`AndExists`, `SearchExists`, `Chain` by its line). The runs check fair
specifications, which are `Spec` with fairness: a theorem about `Spec` holds of them too.

## 5. Plan

Done: the link, its queue, the two protocols over it, the router and its table, the
games, the relays, the client list, the name servers, the lockstep chat, the HTTP and
the mail client; proofs for the emulator and its queue, the two protocols, the router and
its table, both games and the select servers.

1. With a network of several routers around it, the ping and traceroute of `lab5`.
