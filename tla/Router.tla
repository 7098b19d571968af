------------------------------- MODULE Router -------------------------------
(***************************************************************************)
(* The router (tema1/router.c, arp.c, skel.c): one thread that takes one   *)
(* frame at a time from the lowest interface that has one, and forwards,   *)
(* answers or drops it.  Around it, hosts that send frames and neighbours  *)
(* that may send a forwarded datagram back, a routing loop.                *)
(*                                                                         *)
(* A frame is one record.  kind is the ether type and ICMP type together;  *)
(* ok is the IP checksum, or, of an ARP frame, that its ether type has the *)
(* byte order of the network; from and to are hardware addresses: that of  *)
(* a host is written as its address.  hops counts how often the frame was  *)
(* forwarded.  The router's route look-up is RouteTable's subject; here it *)
(* is a given function, whose STRAY is what RouteTable finds: a pointer to  *)
(* an entry past the table, whose interface is whatever lies there.        *)
(***************************************************************************)
EXTENDS Integers, Sequences, FiniteSets

CONSTANTS
  N,             \* ROUTER_NUM_INTERFACES
  Ip,            \* addresses
  MyIp,          \* the router's address on each interface
  Hosts,         \* the addresses of the hosts there
  RouteOf,       \* the interface of get_best_route, NULL or STRAY
  InitialArp,    \* arp_table.txt
  ROOM,          \* entries arp_table has memory for
  Misread,       \* what update_arp_table takes for a sender's address, two bytes
                 \* of which are of the router's hardware address on the interface
  Loops,         \* hosts that may send a datagram back
  MaxTtl,        \* bound: largest ttl of a host's datagram
  MaxFrames,     \* bound: frames the hosts send
  NoFrame        \* no frame in hand

Iface == 0 .. N - 1
NULL == -1
STRAY == -2
ROUTER == -1       \* the router's hardware addresses
BROADCAST == -2

Transit == {"echo", "other"}
Icmp == {"echo_reply", "exceeded", "unreachable"}
Arp == {"arp_request", "arp_reply"}

Frame == [kind : Transit \cup Icmp \cup Arp, src : Ip, dst : Ip, ttl : 0 .. MaxTtl,
          ok : BOOLEAN, from : Ip \cup {ROUTER}, to : Ip \cup {ROUTER, BROADCAST},
          hops : Nat]

ASSUME RouterAssumption ==
  /\ N \in Nat \ {0} /\ MaxTtl \in Nat /\ MaxFrames \in Nat
  /\ IsFiniteSet(Ip)
  /\ MyIp \in [Iface -> Ip] /\ Hosts \in [Iface -> SUBSET Ip]
  /\ RouteOf \in [Ip -> Iface \cup {NULL, STRAY}]
  /\ InitialArp \in Seq([ip : Ip, mac : Ip])
  /\ ROOM \in Nat /\ Len(InitialArp) <= ROOM
  /\ Misread \in [Ip -> [Iface -> Ip]]
  /\ \A j, k \in DOMAIN InitialArp : InitialArp[j].ip = InitialArp[k].ip => j = k
  /\ Loops \subseteq Ip /\ NoFrame \notin Frame

VARIABLES
  inq,         \* received and not yet read, per interface
  m, interface,  \* the frame in hand and where it came from
  arp_table,
  out,         \* sent and not yet taken by the neighbour, per interface
  up,          \* the router has not been ended by a write to foreign memory
  injected     \* frames the hosts have sent

vars == <<inq, m, interface, arp_table, out, up, injected>>

Init ==
  /\ inq = [i \in Iface |-> <<>>] /\ out = [i \in Iface |-> <<>>]
  /\ m = NoFrame /\ interface = 0
  /\ arp_table = InitialArp
  /\ up = TRUE /\ injected = 0

-----------------------------------------------------------------------------
(* The router.                                                             *)

\* get_packet: select, then the first interface that is ready.
get_packet ==
  /\ up /\ m = NoFrame
  /\ \E i \in Iface :
       /\ inq[i] # <<>> /\ \A j \in Iface : j < i => inq[j] = <<>>
       /\ m' = Head(inq[i]) /\ interface' = i
       /\ inq' = [inq EXCEPT ![i] = Tail(@)]
  /\ UNCHANGED <<arp_table, out, up, injected>>

\* The end of a turn of the loop, with a frame sent or without.
SendPacket(i, f) ==
  /\ out' = [out EXCEPT ![i] = Append(@, f)]
  /\ m' = NoFrame
  /\ UNCHANGED <<inq, interface, injected>>

Drop ==
  /\ m' = NoFrame
  /\ UNCHANGED <<inq, interface, out, injected>>

\* Indices of the entries of an address; get_arp_entry returns the first.
Entries(ip) == {k \in DOMAIN arp_table : arp_table[k].ip = ip}
get_arp_entry(ip) ==
  arp_table[CHOOSE k \in Entries(ip) : \A j \in Entries(ip) : k <= j]

\* Mistake: always a new entry.
AlwaysAdds(ip, mac) ==
  arp_table' = Append(arp_table, [ip |-> ip, mac |-> mac]) /\ UNCHANGED up

\* A new entry is written behind the last, also where arp_table ends: it is
\* found there, unless what it overwrites ends the program.
update_arp_table(ip, mac) ==
  \/ /\ Entries(ip) = {}
     /\ arp_table' = Append(arp_table, [ip |-> ip, mac |-> mac])
     /\ up' \in (IF Len(arp_table) < ROOM THEN {TRUE} ELSE BOOLEAN)
  \/ /\ Entries(ip) # {}
     /\ arp_table' =
          [arp_table EXCEPT ![CHOOSE k \in Entries(ip) : \A j \in Entries(ip) : k <= j].mac = mac]
     /\ UNCHANGED up

\* struct arpPkt is padded: target_ip_addr lies behind the end of the frame, in
\* bytes an earlier frame left, so the test for the router's own address may
\* come out either way; sender_ip_addr mixes two fields.
HandleArpReply ==
  /\ m # NoFrame /\ m.kind = "arp_reply"
  /\ \/ update_arp_table(Misread[m.src][interface], m.from)
     \/ UNCHANGED <<arp_table, up>>
  /\ Drop

\* The reply's ether type is not put in network order.
HandleArpRequest ==
  /\ m # NoFrame /\ m.kind = "arp_request"
  /\ \/ SendPacket(interface,
           [kind |-> "arp_reply", src |-> MyIp[interface], dst |-> m.src, ttl |-> 0,
            ok |-> FALSE, from |-> ROUTER, to |-> m.from, hops |-> 0])
     \/ Drop
  /\ UNCHANGED <<arp_table, up>>

IpInHand == m # NoFrame /\ m.kind \in Transit \cup Icmp

\* The ICMP answer: the datagram's addresses swapped, its ttl kept.
IcmpTo(kind) ==
  [kind |-> kind, src |-> m.dst, dst |-> m.src, ttl |-> m.ttl, ok |-> TRUE,
   from |-> m.to, to |-> m.from, hops |-> m.hops]

ForMe == m.kind = "echo" /\ m.dst = MyIp[interface]

\* An echo request to the interface's own address, whatever its checksum.
EchoReply ==
  /\ IpInHand /\ ForMe
  /\ SendPacket(interface, IcmpTo("echo_reply"))
  /\ UNCHANGED <<arp_table, up>>

WrongChecksum ==
  /\ IpInHand /\ ~ForMe /\ ~m.ok
  /\ Drop
  /\ UNCHANGED <<arp_table, up>>

Transitable == IpInHand /\ ~ForMe /\ m.ok

TimeExceeded ==
  /\ Transitable /\ m.ttl <= 1
  /\ SendPacket(interface, IcmpTo("exceeded"))
  /\ UNCHANGED <<arp_table, up>>

DestUnreachable ==
  /\ Transitable /\ m.ttl > 1 /\ RouteOf[m.dst] = NULL
  /\ SendPacket(interface, IcmpTo("unreachable"))
  /\ UNCHANGED <<arp_table, up>>

\* No hardware address: a request goes out, on the interface the datagram came
\* from, and the datagram is dropped.
ArpMiss ==
  /\ Transitable /\ m.ttl > 1 /\ RouteOf[m.dst] # NULL
  /\ Entries(m.dst) = {}
  /\ SendPacket(interface,
       [kind |-> "arp_request", src |-> MyIp[interface], dst |-> m.dst, ttl |-> 0,
        ok |-> FALSE, from |-> ROUTER, to |-> BROADCAST, hops |-> 0])
  /\ UNCHANGED <<arp_table, up>>

Forwardable ==
  /\ Transitable /\ m.ttl > 1 /\ RouteOf[m.dst] # NULL
  /\ Entries(m.dst) # {}

\* best_route->interface; what lies past the table may also be the number of no
\* interface, and then the write or the access to it ends the router.
SendByRoute(f) ==
  \/ /\ \E i \in Iface : RouteOf[m.dst] \in {i, STRAY} /\ SendPacket(i, f)
     /\ UNCHANGED <<arp_table, up>>
  \/ /\ RouteOf[m.dst] = STRAY /\ up' = FALSE
     /\ Drop
     /\ UNCHANGED arp_table

\* Mistake: the ttl is not decremented.
ForwardKeepsTtl ==
  /\ Forwardable
  /\ SendByRoute([m EXCEPT !.to = get_arp_entry(m.dst).mac, !.hops = @ + 1])

\* Mistake: the datagram goes on as it came, ttl and history.
ForwardUnchanged ==
  /\ Forwardable
  /\ SendByRoute([m EXCEPT !.to = get_arp_entry(m.dst).mac])

\* Mistake: the frame goes where the datagram came from.
ForwardBack ==
  /\ Forwardable
  /\ SendPacket(interface,
       [m EXCEPT !.ttl = @ - 1, !.to = get_arp_entry(m.dst).mac, !.hops = @ + 1])
  /\ UNCHANGED <<arp_table, up>>

\* The source hardware address stays the sender's.
Forward ==
  /\ Forwardable
  /\ SendByRoute([m EXCEPT !.ttl = @ - 1, !.to = get_arp_entry(m.dst).mac, !.hops = @ + 1])

Handle == \/ HandleArpReply \/ HandleArpRequest
          \/ EchoReply \/ WrongChecksum \/ TimeExceeded \/ DestUnreachable
          \/ ArpMiss \/ Forward

-----------------------------------------------------------------------------
(* The network around it.                                                  *)

Datagrams(i) ==
  UNION {[kind : Transit, src : {h}, dst : Ip, ttl : 1 .. MaxTtl, ok : BOOLEAN,
          from : {h}, to : {ROUTER}, hops : {0}] : h \in Hosts[i]}

ArpFrames(i) ==
  UNION {[kind : Arp, src : {h}, dst : {MyIp[i]}, ttl : {0}, ok : {TRUE},
          from : {h}, to : {ROUTER}, hops : {0}] : h \in Hosts[i]}

HostSend(i) ==
  /\ injected < MaxFrames /\ injected' = injected + 1
  /\ \E f \in Datagrams(i) \cup ArpFrames(i) : inq' = [inq EXCEPT ![i] = Append(@, f)]
  /\ UNCHANGED <<m, interface, arp_table, out, up>>

\* A frame leaves for good, or a datagram, the router's own answers among them,
\* comes back from the host it was sent to, as it went.
Take(i) ==
  /\ out[i] # <<>>
  /\ out' = [out EXCEPT ![i] = Tail(@)]
  /\ \/ UNCHANGED inq
     \/ /\ Head(out[i]).kind \in Transit \cup Icmp
        /\ Head(out[i]).to \in Loops \cap Hosts[i]
        /\ inq' = [inq EXCEPT ![i] =
                     Append(@, [Head(out[i]) EXCEPT !.from = Head(out[i]).to, !.to = ROUTER])]
  /\ UNCHANGED <<m, interface, arp_table, up, injected>>

Next == get_packet \/ Handle \/ \E i \in Iface : HostSend(i) \/ Take(i)

Spec == Init /\ [][Next]_vars

\* The router runs, and so do its neighbours.
FairSpec == /\ Spec /\ WF_vars(get_packet \/ Handle)
            /\ \A i \in Iface : WF_vars(Take(i))

-----------------------------------------------------------------------------
(* Properties.                                                             *)

\* The frames the router holds or has sent.
Held == UNION {{inq[i][k] : k \in DOMAIN inq[i]} : i \in Iface}
Gone == UNION {{out[i][k] : k \in DOMAIN out[i]} : i \in Iface}
InHand == IF m = NoFrame THEN {} ELSE {m}

TypeOK ==
  /\ inq \in [Iface -> Seq(Frame)] /\ out \in [Iface -> Seq(Frame)]
  /\ m \in Frame \cup {NoFrame} /\ interface \in Iface
  /\ arp_table \in Seq([ip : Ip, mac : Ip])
  /\ up \in BOOLEAN /\ injected \in 0 .. MaxFrames

\* A datagram is forwarded fewer times than the ttl it started with, however
\* often a neighbour sends it back; an answer to it does not start afresh.
LoopsDie == \A f \in Held \cup Gone \cup InHand : f.hops + f.ttl <= MaxTtl

\* What the replies of the hosts, read at the wrong offsets, may enter.
Learnt == UNION {{[ip |-> Misread[h][i], mac |-> h] : h \in Hosts[i]} : i \in Iface}
Misreads == {e.ip : e \in Learnt}

\* The replies of the hosts, read at the wrong offsets, duplicate no address and
\* displace none but those they are misread as: each host adds one entry, at
\* most, to those of the file, however often it answers.
ArpIntact ==
  /\ \A j, k \in DOMAIN arp_table : arp_table[j].ip = arp_table[k].ip => j = k
  /\ \A k \in DOMAIN arp_table :
       \/ arp_table[k] \in Learnt
       \/ k <= Len(InitialArp) /\ arp_table[k] = InitialArp[k]
  /\ Len(InitialArp) <= Len(arp_table)
  /\ Len(arp_table) <= Len(InitialArp) + Cardinality(Misreads)

\* A datagram that is out of the router's hands was not damaged when it came,
\* is on the interface of its destination if that has a route of its own, and
\* under the hardware address of the file if no host's reply is misread as it.
ForwardedRight ==
  \A i \in Iface : \A k \in DOMAIN out[i] :
    LET f == out[i][k]
    IN f.kind \in Transit =>
         /\ f.ok /\ f.ttl > 0
         /\ RouteOf[f.dst] \in {i, STRAY}
         /\ f.dst \notin Misreads =>
              \E e \in DOMAIN InitialArp :
                InitialArp[e].ip = f.dst /\ InitialArp[e].mac = f.to

\* Nothing is left but error messages, about error messages, between the router
\* and hosts that send them back.
AtRest ==
  /\ \A f \in Held \cup Gone \cup InHand : f.kind \in {"exceeded", "unreachable"}
  /\ \A i \in Iface : Hosts[i] \cap Loops = {} => inq[i] = <<>> /\ out[i] = <<>>

\* With the hosts' frames limited, no datagram and no ARP frame stays with the
\* router or goes round for ever, unless the router ends, or error messages on a
\* lower interface keep it from a higher one.
Quiesces ==
  \/ <>[]AtRest
  \/ <>~up
  \/ \E i, j \in Iface : i < j /\ Hosts[i] \cap Loops # {} /\ <>[](inq[j] # <<>>)
=============================================================================
