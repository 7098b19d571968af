----------------------------- MODULE RouteTable -----------------------------
(***************************************************************************)
(* The routing table of the router (tema1/route.c) and the simpler one of  *)
(* the lab (lab4/router.c): how the table read from rtable.txt is sorted   *)
(* and how the route of a destination is searched.                         *)
(*                                                                         *)
(* Addresses are what inet_addr leaves in an unsigned word on a            *)
(* little-endian machine: the first octet of the address is the low end.   *)
(* The word has two octets of OCTET bits here, four of eight in the code.  *)
(* A route is its prefix and mask; next_hop and interface come along.      *)
(***************************************************************************)
EXTENDS Integers, Sequences, FiniteSetsExt, SequencesExt

CONSTANTS
  OCTET,        \* bound: bits in an octet
  MaxRoutes     \* bound: lines of rtable.txt

ASSUME TableAssumption == OCTET \in Nat \ {0} /\ MaxRoutes \in Nat

Octets == 2 ^ OCTET         \* how many values an octet has
WORD == Octets * Octets     \* how many values an unsigned word has
Address == 0 .. WORD - 1

And[a \in Address] ==
  [b \in Address |-> IF a = 0 THEN 0
                     ELSE 2 * And[a \div 2][b \div 2] + (a % 2) * (b % 2)]

a & b == And[a][b]

\* The mask of a prefix length: whole octets from the low end, the rest from
\* the high end of the next octet.
MaskOf(length) ==
  LET Ones(n) == Octets - 2 ^ (OCTET - n)
  IN IF length <= OCTET THEN Ones(length)
                        ELSE Ones(OCTET) + Octets * Ones(length - OCTET)

Route == {[prefix |-> a & MaskOf(n), mask |-> MaskOf(n)] :
            a \in Address, n \in 0 .. 2 * OCTET}

VARIABLES
  rtable,    \* the table; its length is rtable_size
  sorted,    \* the router has called qsort; the lab's never does
  dest,      \* the destination looked up
  best       \* what get_best_route returned for it

tableVars == <<rtable, sorted, dest, best>>

NoRoute == -1   \* NULL
WILD == -2      \* a pointer past the end of the table
NONE == -3      \* nothing looked up yet

-----------------------------------------------------------------------------
(* Sorting.                                                                *)

\* The difference of two unsigned words put in an int.
SignedDiff(a, b) ==
  LET d == (a - b) % WORD IN IF d >= WORD \div 2 THEN d - WORD ELSE d

\* Mistake: entries of one prefix are left in any order.
ComparePrefixOnly(a, b) == SignedDiff(a.prefix, b.prefix)

compare_func(a, b) ==
  LET diff == SignedDiff(a.prefix, b.prefix)
  IN IF diff # 0 THEN diff
     ELSE IF a.mask < b.mask THEN -1
     ELSE IF a.mask > b.mask THEN 1 ELSE 0

\* qsort may leave any permutation whose neighbours are in order: all it can
\* promise when the comparison is not transitive.
QSort(t) ==
  {s \in SetToSeqs(ToSet(t)) :
     \A k \in 1 .. Len(s) - 1 : compare_func(s[k], s[k + 1]) <= 0}

-----------------------------------------------------------------------------
(* Searching.  Indices count from 0, as in the code.                       *)

\* rtable[k]; past the routes the allocation is as the kernel gave it, zero.
Entry(k) == IF k < Len(rtable) THEN rtable[k + 1] ELSE [prefix |-> 0, mask |-> 0]

Bounds == [left : 0 .. Len(rtable) + 1, right : -1 .. Len(rtable)]

binarySearch(left, right, dest_ip) ==
  LET search[r \in Bounds] ==
        LET mid    == r.left + ((r.right - r.left) \div 2)
            masked == Entry(mid).mask & dest_ip
        IN IF r.right < r.left THEN NoRoute
           ELSE IF Entry(mid).prefix = masked THEN mid
           ELSE IF Entry(mid).prefix > masked
                  THEN search[[r EXCEPT !.right = mid - 1]]
                  ELSE search[[r EXCEPT !.left = mid + 1]]
  IN search[[left |-> left, right |-> right]]

\* Mistake: the first entry of the group instead of the last.
FirstOfPrefix(dest_ip) ==
  LET index == binarySearch(0, Len(rtable) - 1, dest_ip)
  IN IF index < 0 THEN NoRoute
     ELSE Min({k \in 0 .. index : Entry(k).prefix = Entry(index).prefix})

\* The search runs to rtable_size included; the scan stops at the first entry
\* of another prefix.  Among the zero entries past the end it never finds one
\* in the allocation.
get_best_route(dest_ip) ==
  LET index == binarySearch(0, Len(rtable), dest_ip)
      other == {k \in index + 1 .. Len(rtable) : Entry(k).prefix # Entry(index).prefix}
  IN IF index < 0 THEN NoRoute
     ELSE IF other = {} THEN WILD ELSE Min(other) - 1

\* Mistake: the first route that matches.
LabFirstMatch(dest_ip) ==
  LET match == {k \in 0 .. Len(rtable) - 1 : (dest_ip & Entry(k).mask) = Entry(k).prefix}
  IN IF match = {} THEN {WILD} ELSE {Min(match)}

\* lab4: the matching route with the largest mask as a number, the first such.
\* With no match of a mask above 0 max_index is read uninitialized: any index.
\* max is an int: the mask of a single host is -1 there, which is NULL's test.
LabBestRoute(dest_ip) ==
  LET match == {k \in 0 .. Len(rtable) - 1 :
                  /\ (dest_ip & Entry(k).mask) = Entry(k).prefix
                  /\ Entry(k).mask > 0}
      top == Max({Entry(k).mask : k \in match})
  IN IF match = {} THEN {WILD} \cup 0 .. Len(rtable) - 1
     ELSE IF top = WORD - 1 THEN {NoRoute}
     ELSE {Min({k \in match : Entry(k).mask = top})}

-----------------------------------------------------------------------------
(* main: read the table, sort it, look destinations up.  A look-up changes *)
(* nothing, so one per behaviour is enough.                                *)

\* parse_route_table, read_rtable: one entry per line.
TableInit ==
  /\ \E n \in 0 .. MaxRoutes : rtable \in [1 .. n -> Route]
  /\ \A j, k \in DOMAIN rtable : j # k => rtable[j] # rtable[k]
  /\ sorted = FALSE /\ dest = 0 /\ best = NONE

Sort ==
  /\ ~sorted /\ best = NONE
  /\ sorted' = TRUE
  /\ rtable' \in QSort(rtable)
  /\ UNCHANGED <<dest, best>>

LookUp ==
  /\ sorted /\ best = NONE
  /\ dest' \in Address
  /\ best' = get_best_route(dest')
  /\ UNCHANGED <<rtable, sorted>>

\* The lab's router looks destinations up in the table as it was read.
LabLookUp ==
  /\ ~sorted /\ best = NONE
  /\ dest' \in Address
  /\ best' \in LabBestRoute(dest')
  /\ UNCHANGED <<rtable, sorted>>

TableNext == Sort \/ LookUp \/ LabLookUp

TableSpec == TableInit /\ [][TableNext]_tableVars

-----------------------------------------------------------------------------
(* Properties.                                                             *)

Index == 0 .. Len(rtable) - 1

Matches(k) == (dest & Entry(k).mask) = Entry(k).prefix

\* The routes of the longest mask that match the destination: what a router
\* should use.
LongestMatch ==
  {k \in Index : Matches(k) /\ \A j \in Index : Matches(j) => Entry(j).mask <= Entry(k).mask}

\* No two prefixes are half the address space apart.
Close == \A j, k \in Index : Entry(j).prefix - Entry(k).prefix < WORD \div 2

Uniform == \A j, k \in Index : Entry(j).mask = Entry(k).mask

Found == sorted /\ best # NONE      \* the router's look-up has returned
LabFound == ~sorted /\ best # NONE  \* the lab's has

\* A table whose prefixes are close is sorted as the binary search needs it:
\* by prefix, then by mask.
CloseIsSorted ==
  sorted /\ Close =>
    \A j, k \in Index : j < k =>
      \/ Entry(j).prefix < Entry(k).prefix
      \/ Entry(j).prefix = Entry(k).prefix /\ Entry(j).mask < Entry(k).mask

\* With one mask for all routes and close prefixes, the route found is the only
\* one that matches; with none, the search returns NULL, or a pointer past the
\* end when the destination is above all prefixes.
UniformLookUp ==
  LET masked == IF Index = {} THEN 0 ELSE dest & Entry(0).mask
      above == \A k \in Index : Entry(k).prefix < masked
  IN Found /\ Uniform /\ Close /\ (\E k \in Index : Entry(k).prefix > 0) =>
       IF LongestMatch # {} THEN best \in LongestMatch
       ELSE best = IF above THEN WILD ELSE NoRoute

\* Of any table, what is found has the prefix of a route that matches, and with
\* close prefixes it is the longest of that prefix.  It need not match itself.
FoundSharesPrefix ==
  Found /\ best >= 0 =>
    /\ best \in Index
    /\ \E k \in Index : Entry(k).prefix = Entry(best).prefix /\ Matches(k)
    /\ Close => \A k \in Index :
                 Entry(k).prefix = Entry(best).prefix => Entry(k).mask <= Entry(best).mask

\* What the router may rely on when a look-up returns.
LookUpHolds == UniformLookUp /\ FoundSharesPrefix

\* lab4's search finds the longest match when it is not the default route or
\* that of a single host: comparing masks as little-endian words is comparing
\* their lengths.
LabLongestMatch ==
  /\ LabFound
  /\ \E k \in LongestMatch : 0 < Entry(k).mask /\ Entry(k).mask < WORD - 1
  => best \in LongestMatch

\* tema1/route.c:66-67: the route returned is the best match, and NULL when no
\* route matches, here of tables in which no prefix is zero.
BestOrNull ==
  Found /\ Index # {} /\ (\A k \in Index : Entry(k).prefix > 0) =>
    IF LongestMatch # {} THEN best \in LongestMatch ELSE best = NoRoute
=============================================================================
