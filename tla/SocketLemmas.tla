---------------------------- MODULE SocketLemmas ----------------------------
(***************************************************************************)
(* What the proofs about the select servers share: the system calls on a   *)
(* connection, the lowest descriptor, and the removal of an element from   *)
(* a list.                                                                 *)
(***************************************************************************)
EXTENDS StreamSocket, SequencesExt, SequenceTheorems, FiniteSetTheorems,
        WellFoundedInduction, TLAPS

\* Every nonempty set of natural numbers has a least element.
LEMMA LeastExists ==
  ASSUME NEW S \in SUBSET Nat, S # {}
  PROVE  \E f \in S : \A g \in S : f <= g
<1>1. PICK f \in S : \A g \in S : <<g, f>> \notin OpToRel(<, Nat)
  BY NatLessThanWellFounded, WFMin
<1>2. ASSUME NEW g \in S PROVE f <= g
  <2>1. ~(g < f)
    <3> SUFFICES ASSUME g < f PROVE FALSE
      OBVIOUS
    <3>1. <<g, f>> \in OpToRel(<, Nat)
      BY DEF OpToRel
    <3>2. QED
      BY <1>1, <3>1
  <2>2. QED
    BY <2>1
<1>3. QED
  BY <1>2

\* As long as a client has none, a descriptor is free.
LEMMA FreeDescriptor ==
  ASSUME NEW n \in Nat, NEW s \in [4 .. 3 + n -> 1 .. n \cup {0}], NEW c \in 1 .. n,
         \A f, g \in 4 .. 3 + n : s[f] # 0 /\ s[f] = s[g] => f = g,
         \A f \in 4 .. 3 + n : s[f] # c
  PROVE  \E f \in 4 .. 3 + n : s[f] = 0
<1> SUFFICES ASSUME \A f \in 4 .. 3 + n : s[f] # 0 PROVE FALSE
  OBVIOUS
<1> DEFINE fds == 4 .. 3 + n
           clients == 1 .. n
<1>1. s \in [fds -> clients \ {c}]
  OBVIOUS
<1>2. IsFiniteSet(fds) /\ Cardinality(fds) = n
  <2>1. IsFiniteSet(fds) /\ Cardinality(fds) = IF 4 > 3 + n THEN 0 ELSE 3 + n - 4 + 1
    BY FS_Interval
  <2>2. QED
    BY <2>1
<1>3. IsFiniteSet(clients) /\ Cardinality(clients) = n
  <2>1. IsFiniteSet(clients) /\ Cardinality(clients) = IF 1 > n THEN 0 ELSE n - 1 + 1
    BY FS_Interval
  <2>2. QED
    BY <2>1
<1> HIDE DEF fds, clients
<1>4. IsFiniteSet(clients \ {c}) /\ Cardinality(clients \ {c}) = n - 1
  BY <1>3, FS_RemoveElement DEF clients
<1>5. Cardinality(clients \ {c}) < Cardinality(fds)
  BY <1>2, <1>4
<1>6. \E f, g \in fds : f # g /\ s[f] = s[g]
  BY <1>1, <1>2, <1>4, <1>5, FS_PigeonHole
<1>7. QED
  BY <1>6 DEF fds

\* The elements of two lists one after the other.
LEMMA ConcatElements ==
  ASSUME NEW S, NEW s \in Seq(S), NEW r \in Seq(S), NEW t, t = s \o r, NEW n \in DOMAIN t
  PROVE  \/ n \in DOMAIN s /\ t[n] = s[n]
         \/ \E k \in DOMAIN r : t[n] = r[k]
<1>1. /\ t \in Seq(S) /\ Len(t) = Len(s) + Len(r) /\ Len(s) \in Nat /\ Len(r) \in Nat
      /\ \A k \in 1 .. Len(s) + Len(r) : t[k] = IF k <= Len(s) THEN s[k] ELSE r[k - Len(s)]
  BY ConcatProperties
<1>2. n \in 1 .. Len(s) + Len(r) /\ DOMAIN s = 1 .. Len(s) /\ DOMAIN r = 1 .. Len(r)
  BY <1>1
<1>3. CASE n <= Len(s)
  BY <1>1, <1>2, <1>3
<1>4. CASE ~(n <= Len(s))
  <2>1. n - Len(s) \in DOMAIN r /\ t[n] = r[n - Len(s)]
    BY <1>1, <1>2, <1>4
  <2>2. QED
    BY <2>1
<1>5. QED
  BY <1>3, <1>4

\* The elements of a list from which the n-th has been removed.
LEMMA RemoveAtElements ==
  ASSUME NEW S, NEW s \in Seq(S), NEW n \in 1 .. Len(s)
  PROVE  /\ RemoveAt(s, n) \in Seq(S)
         /\ Len(RemoveAt(s, n)) = Len(s) - 1
         /\ \A i \in 1 .. Len(s) - 1 :
              RemoveAt(s, n)[i] = IF i < n THEN s[i] ELSE s[i + 1]
<1> DEFINE a == SubSeq(s, 1, n - 1)
           b == SubSeq(s, n + 1, Len(s))
<1>1. Len(s) \in Nat /\ n \in Int /\ n - 1 \in Int /\ n + 1 \in Int
  BY LenProperties
<1>2. /\ a \in Seq(S) /\ Len(a) = n - 1
      /\ \A i \in 1 .. n - 1 : a[i] = s[i]
  <2>1. \A i \in 1 .. n - 1 : s[i] \in S
    BY <1>1
  <2>2. /\ a \in Seq(S) /\ Len(a) = IF 1 <= n - 1 THEN n - 1 - 1 + 1 ELSE 0
        /\ \A i \in 1 .. n - 1 - 1 + 1 : a[i] = s[1 + i - 1]
    BY <1>1, <2>1, SubSeqProperties
  <2>3. QED
    BY <1>1, <2>2
<1>3. /\ b \in Seq(S) /\ Len(b) = Len(s) - n
      /\ \A i \in 1 .. Len(s) - n : b[i] = s[n + i]
  <2>1. \A i \in n + 1 .. Len(s) : s[i] \in S
    BY <1>1
  <2>2. /\ b \in Seq(S)
        /\ Len(b) = IF n + 1 <= Len(s) THEN Len(s) - (n + 1) + 1 ELSE 0
        /\ \A i \in 1 .. Len(s) - (n + 1) + 1 : b[i] = s[(n + 1) + i - 1]
    BY <1>1, <2>1, SubSeqProperties
  <2>3. QED
    BY <1>1, <2>2
<1>4. RemoveAt(s, n) = a \o b
  BY DEF RemoveAt
<1> HIDE DEF a, b
<1>5. /\ a \o b \in Seq(S) /\ Len(a \o b) = Len(a) + Len(b)
      /\ \A i \in 1 .. Len(a) + Len(b) :
           (a \o b)[i] = IF i <= Len(a) THEN a[i] ELSE b[i - Len(a)]
  BY <1>2, <1>3, ConcatProperties
<1>6. Len(a) + Len(b) = Len(s) - 1
  BY <1>1, <1>2, <1>3
<1>7. ASSUME NEW i \in 1 .. Len(s) - 1
      PROVE  (a \o b)[i] = IF i < n THEN s[i] ELSE s[i + 1]
  <2>1. (a \o b)[i] = IF i <= Len(a) THEN a[i] ELSE b[i - Len(a)]
    BY <1>5, <1>6
  <2>2. CASE i < n
    BY <1>1, <1>2, <2>1, <2>2
  <2>3. CASE ~(i < n)
    <3>1. i - Len(a) \in 1 .. Len(s) - n /\ n + (i - Len(a)) = i + 1
          /\ ~(i <= Len(a))
      BY <1>1, <1>2, <2>3
    <3>2. QED
      BY <1>3, <2>1, <2>3, <3>1
  <2>4. QED
    BY <2>2, <2>3
<1>8. QED
  BY <1>4, <1>5, <1>6, <1>7

-----------------------------------------------------------------------------
\* send() by the server: nothing reaches a client whose end it has noticed, and
\* what it knows of the others does not change.
LEMMA ServerSendsEffect ==
  ASSUME NEW R, NEW P, NEW k \in Connection(R, P), NEW msgs \in Seq(P)
  PROVE  /\ ServerSends(k, msgs) \in Connection(R, P)
         /\ ServerSends(k, msgs).toServer = k.toServer
         /\ ServerSends(k, msgs).end = k.end
         /\ k.peer = "open" =>
              /\ ServerSends(k, msgs).peer = "open"
              /\ ServerSends(k, msgs).toClient = k.toClient \o msgs
         /\ k.peer # "open" =>
              /\ ServerSends(k, msgs).peer # "open"
              /\ ServerSends(k, msgs).toClient = k.toClient
<1>1. k.peer \in Knowledge /\ k.toClient \in Seq(P)
  BY DEF Connection
<1>2. CASE k.peer = "open"
  <2>1. ServerSends(k, msgs) = [k EXCEPT !.toClient = k.toClient \o msgs]
    BY <1>2 DEF ServerSends
  <2>2. k.toClient \o msgs \in Seq(P)
    BY <1>1, ConcatProperties
  <2>3. QED
    BY <1>2, <2>1, <2>2 DEF Connection
<1>3. CASE k.peer # "open"
  <2>1. ServerSends(k, msgs) = k \/ ServerSends(k, msgs) = [k EXCEPT !.peer = "dead"]
    BY <1>1, <1>3 DEF ServerSends, Knowledge
  <2>2. QED
    BY <1>3, <2>1 DEF Connection, Knowledge, Heard
<1>4. QED
  BY <1>2, <1>3

\* close() by the server: nothing that is on its way to the client is lost.
LEMMA ServerClosesEffect ==
  ASSUME NEW R, NEW P, NEW k \in Connection(R, P)
  PROVE  /\ ServerCloses(k) \in Connection(R, P)
         /\ ServerCloses(k).end # "open"
         /\ ServerCloses(k).peer = k.peer
         /\ ServerCloses(k).toClient = k.toClient
         /\ ServerCloses(k).toServer \in {k.toServer, <<>>}
<1>1. CASE k.end # "open"
  BY <1>1 DEF ServerCloses
<1>2. CASE k.end = "open"
  <2>1. PICK e \in {"fin", "reset"} :
          ServerCloses(k) = [k EXCEPT !.end = e, !.toServer = <<>>]
    BY <1>2 DEF ServerCloses
  <2>2. <<>> \in Seq(R)
    OBVIOUS
  <2>3. QED
    BY <2>1, <2>2 DEF Connection, Knowledge, Heard
<1>3. QED
  BY <1>1, <1>2

\* The end of a client's process: what it has sent still arrives.
LEMMA ClientEndsEffect ==
  ASSUME NEW R, NEW P, NEW k \in Connection(R, P), NEW seen \in ClientEnds(k)
  PROVE  /\ seen \in Connection(R, P)
         /\ seen.peer # "open" /\ seen.toClient = <<>>
         /\ seen.toServer = k.toServer /\ seen.end = k.end
<1>1. PICK p \in {"fin", "reset", "dead"} :
        seen = [k EXCEPT !.peer = p, !.toClient = <<>>]
  BY DEF ClientEnds
<1>2. <<>> \in Seq(P)
  OBVIOUS
<1>3. QED
  BY <1>1, <1>2 DEF Connection, Knowledge, Heard

\* send() by the client.
LEMMA ClientSendsEffect ==
  ASSUME NEW R, NEW P, NEW k \in Connection(R, P), NEW msg \in R
  PROVE  /\ ClientSends(k, msg) \in Connection(R, P)
         /\ ClientSends(k, msg).peer = k.peer
         /\ ClientSends(k, msg).toClient = k.toClient
         /\ ClientSends(k, msg).toServer \in {k.toServer, Append(k.toServer, msg)}
<1>1. k.toServer \in Seq(R) /\ Append(k.toServer, msg) \in Seq(R)
  BY DEF Connection
<1>2. CASE k.end = "open"
  <2>1. ClientSends(k, msg) = [k EXCEPT !.toServer = Append(k.toServer, msg)]
    BY <1>2 DEF ClientSends
  <2>2. QED
    BY <1>1, <2>1 DEF Connection
<1>3. CASE k.end # "open"
  <2>1. ClientSends(k, msg) = [k EXCEPT !.end = "dead"]
    BY <1>3 DEF ClientSends
  <2>2. QED
    BY <2>1 DEF Connection, Knowledge, Heard
<1>4. QED
  BY <1>2, <1>3

\* connect() that fails, and a recv() that fails.
LEMMA RefusedEffect ==
  ASSUME NEW R, NEW P, NEW k \in Connection(R, P)
  PROVE  /\ Unconnected(k) \in Connection(R, P) /\ Reported(k) \in Connection(R, P)
         /\ Unconnected(k).peer = k.peer /\ Reported(k).peer = k.peer
         /\ Unconnected(k).toServer = k.toServer /\ Reported(k).toServer = k.toServer
         /\ Unconnected(k).toClient = k.toClient /\ Reported(k).toClient = k.toClient
BY DEF Unconnected, Reported, Connection, Knowledge, Heard

=============================================================================
