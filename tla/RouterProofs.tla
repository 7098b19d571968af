---------------------------- MODULE RouterProofs ----------------------------
(***************************************************************************)
(* The routing table, for octets of any width, any rows and any            *)
(* destination: what qsort and the searches make of it.                    *)
(* The router, for any number of interfaces, any routes, any ARP table     *)
(* without a double entry, any hosts, any frames from them and any way to  *)
(* misread their addresses: datagrams that loop die, what is forwarded is  *)
(* right but for misread addresses, and ARP replies add one entry for each *)
(* host at most.  The queues are sequences of frames that satisfy what is  *)
(* to be proved of each, so that appending and taking are all there is to  *)
(* check.                                                                  *)
(***************************************************************************)
EXTENDS Router, RouteTable, FiniteSetTheorems, WellFoundedInduction, TLAPS

-----------------------------------------------------------------------------
(* The routing table.                                                      *)

USE TableAssumption DEF TableAssumption

\* A set of natural numbers that is not empty has a smallest member.
LEMMA Smallest ==
  ASSUME NEW S \in SUBSET Nat, S # {}
  PROVE  \E f \in S : \A g \in S : f <= g
<1>1. PICK f \in S : \A g \in S : <<g, f>> \notin OpToRel(<, Nat)
  BY NatLessThanWellFounded, WFMin
<1>2. ASSUME NEW g \in S, g < f PROVE FALSE
  BY <1>1, <1>2 DEF OpToRel
<1>3. QED
  BY <1>2

\* The powers of two that bound an octet: as many as a set has subsets.
LEMMA Powers ==
  /\ \A n \in Nat : 2 ^ n \in Nat \ {0}
  /\ \A k, n \in Nat : k <= n => 2 ^ k <= 2 ^ n
<1>1. ASSUME NEW n \in Nat
      PROVE  IsFiniteSet(SUBSET (1 .. n)) /\ Cardinality(SUBSET (1 .. n)) = 2 ^ n
  <2>1. IsFiniteSet(1 .. n) /\ Cardinality(1 .. n) = n
    BY FS_Interval
  <2>2. QED
    BY <2>1, FS_SUBSET
<1>2. ASSUME NEW n \in Nat PROVE 2 ^ n \in Nat \ {0}
  <2>1. SUBSET (1 .. n) # {}
    OBVIOUS
  <2>2. Cardinality(SUBSET (1 .. n)) \in Nat /\ Cardinality(SUBSET (1 .. n)) # 0
    BY <1>1, <2>1, FS_CardinalityType, FS_EmptySet
  <2>3. QED
    BY <1>1, <2>2
<1>3. ASSUME NEW k \in Nat, NEW n \in Nat, k <= n PROVE 2 ^ k <= 2 ^ n
  <2>1. SUBSET (1 .. k) \in SUBSET (SUBSET (1 .. n))
    BY <1>3
  <2>2. Cardinality(SUBSET (1 .. k)) <= Cardinality(SUBSET (1 .. n))
    BY <1>1, <2>1, FS_Subset
  <2>3. QED
    BY <1>1, <2>2
<1>4. QED
  BY <1>2, <1>3

\* An octet and a word have at least one value.
LEMMA WordType == Octets \in Nat \ {0} /\ WORD \in Nat \ {0}
<1>1. Octets \in Nat \ {0}
  BY Powers DEF Octets
<1>2. QED
  BY <1>1 DEF WORD

\* A mask is a word.
LEMMA MaskType == \A n \in 0 .. 2 * OCTET : MaskOf(n) \in Address
<1> DEFINE Ones(n) == Octets - 2 ^ (OCTET - n)
<1>1. ASSUME NEW n \in 0 .. OCTET PROVE Ones(n) \in 0 .. Octets - 1
  <2>1. OCTET - n \in Nat /\ OCTET - n <= OCTET
    OBVIOUS
  <2>2. 2 ^ (OCTET - n) \in Nat \ {0} /\ 2 ^ (OCTET - n) <= 2 ^ OCTET
    BY <2>1, Powers
  <2>3. QED
    BY <2>2, WordType DEF Octets
<1> HIDE DEF Ones
<1>2. ASSUME NEW n \in 0 .. 2 * OCTET PROVE MaskOf(n) \in Address
  <2>1. CASE n <= OCTET
    <3>1. MaskOf(n) = Ones(n) /\ Ones(n) \in 0 .. Octets - 1
      BY <1>1, <2>1 DEF MaskOf, Ones
    <3>2. Octets - 1 <= WORD - 1
      BY WordType DEF WORD
    <3>3. QED
      BY <3>1, <3>2, WordType DEF Address
  <2>2. CASE ~(n <= OCTET)
    <3>1. n - OCTET \in 0 .. OCTET
      BY <2>2
    <3>2. MaskOf(n) = Ones(OCTET) + Octets * Ones(n - OCTET)
      BY <2>2 DEF MaskOf, Ones
    <3>3. Ones(OCTET) \in 0 .. Octets - 1 /\ Ones(n - OCTET) \in 0 .. Octets - 1
      BY <1>1, <3>1
    <3>4. \A o \in Nat, x, y \in Nat : x <= o - 1 /\ y <= o - 1 => x + o * y \in 0 .. o * o - 1
      OBVIOUS
    <3>5. QED
      BY <3>2, <3>3, <3>4, WordType DEF Address, WORD
  <2>3. QED
    BY <2>1, <2>2
<1>3. QED
  BY <1>2

-----------------------------------------------------------------------------
(* The bitwise and of two words.                                           *)

\* The digits of a word: what is left of it without the last is smaller.
LEMMA Halves ==
  ASSUME NEW a \in Address
  PROVE  /\ a \div 2 \in Address /\ a \div 2 <= a /\ (a # 0 => a \div 2 < a)
         /\ a % 2 \in 0 .. 1
         /\ 2 * (a \div 2) <= a /\ (a % 2 = 1 => 2 * (a \div 2) + 1 <= a)
<1>1. a \in Nat /\ a <= WORD - 1 /\ WORD \in Nat
  BY WordType DEF Address
<1>2. a \div 2 \in Nat /\ a \div 2 <= a /\ (a # 0 => a \div 2 < a)
  BY <1>1
<1>3. a % 2 \in 0 .. 1
  BY <1>1
<1>4. 2 * (a \div 2) <= a
  BY <1>1
<1>5. a % 2 = 1 => 2 * (a \div 2) + 1 <= a
  BY <1>1
<1>6. QED
  BY <1>1, <1>2, <1>3, <1>4, <1>5 DEF Address

Digit(f, a, b) ==
  IF a = 0 THEN 0 ELSE 2 * f[a \div 2][b \div 2] + (a % 2) * (b % 2)

\* One more digit.
LEMMA DigitType ==
  ASSUME NEW f, NEW a \in Address, NEW b \in Address,
         a # 0 => f[a \div 2][b \div 2] \in 0 .. a \div 2
  PROVE  Digit(f, a, b) \in 0 .. a
<1>1. a \in Nat /\ a \div 2 \in Nat /\ a % 2 \in 0 .. 1 /\ b % 2 \in 0 .. 1
  BY Halves, WordType DEF Address
<1>2. CASE a = 0
  BY <1>1, <1>2 DEF Digit
<1>3. CASE a # 0
  <2>1. f[a \div 2][b \div 2] \in Nat /\ f[a \div 2][b \div 2] <= a \div 2
    BY <1>1, <1>3
  <2>2. CASE a % 2 = 1 /\ b % 2 = 1
    <3>1. Digit(f, a, b) = 2 * f[a \div 2][b \div 2] + 1
      BY <1>3, <2>2 DEF Digit
    <3>2. 2 * (a \div 2) + 1 <= a
      BY <2>2, Halves
    <3>3. QED
      BY <1>1, <2>1, <3>1, <3>2
  <2>3. CASE ~(a % 2 = 1 /\ b % 2 = 1)
    <3>1. (a % 2) * (b % 2) = 0
      <4>1. a % 2 = 0 \/ b % 2 = 0
        BY <1>1, <2>3
      <4>2. QED
        BY <1>1, <4>1
    <3>2. Digit(f, a, b) = 2 * f[a \div 2][b \div 2]
      BY <1>3, <2>1, <3>1 DEF Digit
    <3>3. 2 * (a \div 2) <= a
      BY Halves
    <3>4. QED
      BY <1>1, <2>1, <3>2, <3>3
  <2>4. QED
    BY <2>2, <2>3
<1>4. QED
  BY <1>2, <1>3

\* The recursion of And has a solution: up to any number of words, one word
\* after the other.
LEMMA AndExists ==
  \A n \in Address : \E f : 
    f = [a \in 0 .. n |-> [b \in Address |-> Digit(f, a, b)]]
<1> DEFINE Solves(n, f) == f = [a \in 0 .. n |-> [b \in Address |-> Digit(f, a, b)]]
           Bad == {n \in Address : ~ \E f : Solves(n, f)}
<1> SUFFICES ASSUME Bad # {} PROVE FALSE
  OBVIOUS
<1>1. Bad \in SUBSET Nat
  BY WordType DEF Address
<1>2. PICK n \in Bad : \A k \in Bad : n <= k
  BY <1>1, Smallest
<1>3. n \in Nat /\ n \in Address /\ WORD \in Nat /\ n <= WORD - 1
  BY <1>2, WordType DEF Address
<1>4. \E f : Solves(n, f)
  <2>1. CASE n = 0
    <3> DEFINE z == [a \in 0 .. 0 |-> [b \in Address |-> 0]]
    <3>1. \A f, b : Digit(f, 0, b) = 0
      BY DEF Digit
    <3>2. \A a \in 0 .. 0 : a = 0
      OBVIOUS
    <3>3. z = [a \in 0 .. 0 |-> [b \in Address |-> Digit(z, a, b)]]
      BY <3>1, <3>2, Zenon
    <3>4. QED
      BY <2>1, <3>3
  <2>2. CASE n # 0
    <3>1. n - 1 \in Address /\ ~(n <= n - 1)
      BY <1>3, <2>2 DEF Address
    <3>2. PICK f : Solves(n - 1, f)
      BY <1>2, <3>1
    <3> DEFINE g == [a \in 0 .. n |-> [b \in Address |-> Digit(f, a, b)]]
    <3>3. \A a \in 0 .. n - 1 : g[a] = f[a]
      <4>1. \A a \in 0 .. n - 1 : f[a] = [b \in Address |-> Digit(f, a, b)]
        BY <3>2, Zenon
      <4>2. \A a \in 0 .. n - 1 : a \in 0 .. n
        BY <1>3
      <4>3. \A a \in 0 .. n : g[a] = [b \in Address |-> Digit(f, a, b)]
        BY Zenon
      <4>4. QED
        BY <4>1, <4>2, <4>3, Zenon
    <3>4. ASSUME NEW a \in 0 .. n, NEW b \in Address PROVE Digit(f, a, b) = Digit(g, a, b)
      <4>1. CASE a = 0
        BY <4>1 DEF Digit
      <4>2. CASE a # 0
        <5>1. a \div 2 \in 0 .. n - 1
          BY <1>3, <4>2
        <5>2. g[a \div 2] = f[a \div 2]
          BY <3>3, <5>1
        <5>3. QED
          BY <5>2, Zenon DEF Digit
      <4>3. QED
        BY <4>1, <4>2
    <3>5. g = [a \in 0 .. n |-> [b \in Address |-> Digit(g, a, b)]]
      <4> HIDE DEF g
      <4>1. \A a \in 0 .. n : [b \in Address |-> Digit(f, a, b)] = [b \in Address |-> Digit(g, a, b)]
        BY <3>4, Zenon
      <4>2. g = [a \in 0 .. n |-> [b \in Address |-> Digit(f, a, b)]]
        BY DEF g
      <4>3. QED
        BY <4>1, <4>2, Zenon
    <3>6. QED
      BY <3>5
  <2>3. QED
    BY <2>1, <2>2
<1>5. QED
  BY <1>2, <1>4

\* The recursive equation of the bitwise and.
LEMMA AndRecursion == \A a, b \in Address : And[a][b] = Digit(And, a, b)
<1> DEFINE Rec(f) == [a \in Address |-> [b \in Address |-> Digit(f, a, b)]]
<1>1. WORD - 1 \in Address /\ 0 .. WORD - 1 = Address
  BY WordType DEF Address
<1>2. \E f : f = Rec(f)
  BY <1>1, AndExists
<1>3. And = CHOOSE f : f = Rec(f)
  BY DEF And, Digit
<1>4. And = Rec(And)
  BY <1>2, <1>3
<1>5. ASSUME NEW f, f = Rec(f), NEW a \in Address, NEW b \in Address
      PROVE  f[a][b] = Digit(f, a, b)
  <2>1. f[a] = [c \in Address |-> Digit(f, a, c)]
    BY <1>5, Zenon
  <2>2. QED
    BY <2>1, Zenon
<1> HIDE DEF Rec
<1>6. QED
  BY <1>4, <1>5

\* The bits of a word and of another are no more than the bits of the word.
LEMMA AndType == \A a, b \in Address : a & b \in 0 .. a
<1> DEFINE Bad == {a \in Address : \E b \in Address : And[a][b] \notin 0 .. a}
<1> SUFFICES ASSUME Bad # {} PROVE FALSE
  BY DEF &
<1>1. Bad \in SUBSET Nat
  BY WordType DEF Address
<1>2. PICK a \in Bad : \A k \in Bad : a <= k
  BY <1>1, Smallest
<1>3. PICK b \in Address : And[a][b] \notin 0 .. a
  BY <1>2
<1>4. a \in Address /\ a \in Nat /\ a \div 2 \in Address /\ b \div 2 \in Address
      /\ (a # 0 => a \div 2 < a) /\ a \div 2 \in Nat
  BY <1>2, Halves, WordType DEF Address
<1>5. a # 0 => And[a \div 2][b \div 2] \in 0 .. a \div 2
  BY <1>2, <1>4
<1>6. Digit(And, a, b) \in 0 .. a
  BY <1>4, <1>5, DigitType
<1>7. QED
  BY <1>3, <1>4, <1>6, AndRecursion

\* The and of two words is a word.
LEMMA AndInAddress == \A a, b \in Address : a & b \in Address
<1>1. \A a \in Address : 0 .. a \in SUBSET Address
  BY WordType DEF Address
<1>2. QED
  BY <1>1, AndType

\* The order of the operands does not matter.
LEMMA AndCommutes == \A a, b \in Address : a & b = b & a
<1> DEFINE Bad == {a \in Address : \E b \in Address : And[a][b] # And[b][a]}
           Zero == {b \in Address : And[b][0] # 0}
<1>1. Zero = {}
  <2> SUFFICES ASSUME Zero # {} PROVE FALSE
    OBVIOUS
  <2>1. Zero \in SUBSET Nat
    BY WordType DEF Address
  <2>2. PICK b \in Zero : \A k \in Zero : b <= k
    BY <2>1, Smallest
  <2>3. b \in Nat /\ b \div 2 \in Address /\ (b # 0 => b \div 2 < b) /\ 0 \in Address /\ b % 2 \in 0 .. 1
        /\ 0 \div 2 = 0 /\ 0 % 2 = 0
    BY <2>2, Halves, WordType DEF Address
  <2>4. And[b][0] = Digit(And, b, 0)
    BY <2>2, <2>3, AndRecursion
  <2>5. b # 0
    BY <2>2, <2>4 DEF Digit
  <2>6. And[b \div 2][0] = 0
    BY <2>2, <2>3, <2>5
  <2>7. Digit(And, b, 0) = 2 * 0 + (b % 2) * 0
    BY <2>3, <2>5, <2>6 DEF Digit
  <2>8. QED
    BY <2>2, <2>3, <2>4, <2>7
<1> SUFFICES ASSUME Bad # {} PROVE FALSE
  BY DEF &
<1>2. Bad \in SUBSET Nat
  BY WordType DEF Address
<1>3. PICK a \in Bad : \A k \in Bad : a <= k
  BY <1>2, Smallest
<1>4. PICK b \in Address : And[a][b] # And[b][a]
  BY <1>3
<1>5. /\ a \in Address /\ a \in Nat /\ b \in Nat /\ a \div 2 \in Address /\ b \div 2 \in Address
      /\ (a # 0 => a \div 2 < a) /\ a \div 2 \in Nat /\ a % 2 \in 0 .. 1 /\ b % 2 \in 0 .. 1
      /\ 0 \in Address
  BY <1>3, <1>4, Halves, WordType DEF Address
<1>6. And[a][b] = Digit(And, a, b) /\ And[b][a] = Digit(And, b, a)
  BY <1>4, <1>5, AndRecursion
<1>7. a # 0
  <2> SUFFICES ASSUME a = 0 PROVE FALSE
    OBVIOUS
  <2>1. And[a][b] = 0
    BY <1>6 DEF Digit
  <2>2. And[b][a] = 0
    BY <1>1, <1>4
  <2>3. QED
    BY <1>4, <2>1, <2>2
<1>8. b # 0
  <2> SUFFICES ASSUME b = 0 PROVE FALSE
    OBVIOUS
  <2>1. And[b][a] = 0
    BY <1>6 DEF Digit
  <2>2. And[a][b] = 0
    BY <1>1, <1>5
  <2>3. QED
    BY <1>4, <2>1, <2>2
<1>9. And[a \div 2][b \div 2] = And[b \div 2][a \div 2]
  BY <1>3, <1>5, <1>7
<1>10. (a % 2) * (b % 2) = (b % 2) * (a % 2)
  BY <1>5
<1>11. QED
  BY <1>4, <1>6, <1>7, <1>8, <1>9, <1>10 DEF Digit

-----------------------------------------------------------------------------
(* A table as it lies in memory, its indices from 0.                       *)

Row == [prefix : Address, mask : Address]

At(t, k) == IF k < Len(t) THEN t[k + 1] ELSE [prefix |-> 0, mask |-> 0]

\* A row before another: by prefix, then by mask.
Before(r, s) ==
  \/ r.prefix < s.prefix
  \/ r.prefix = s.prefix /\ r.mask < s.mask

CloseTable(t) ==
  \A j, k \in 0 .. Len(t) - 1 : At(t, j).prefix - At(t, k).prefix < WORD \div 2

Ordered(t) == \A k \in 1 .. Len(t) - 1 : compare_func(t[k], t[k + 1]) <= 0

Ascending(t) == \A j, k \in 0 .. Len(t) - 1 : j < k => Before(At(t, j), At(t, k))

Distinct(t) == \A j, k \in DOMAIN t : t[j] = t[k] => j = k

\* Only the types of a route's fields are needed below.
LEMMA RouteIsRow == Route \in SUBSET Row
BY MaskType, AndInAddress DEF Route, Row

\* An index of the table gives one of its rows.
LEMMA AtIsRow ==
  ASSUME NEW t \in Seq(Row), NEW k \in Nat
  PROVE  At(t, k) \in Row
<1>1. 0 \in Address
  BY WordType DEF Address
<1>2. CASE k < Len(t)
  <2>1. k + 1 \in 1 .. Len(t)
    BY <1>2
  <2>2. QED
    BY <1>2, <2>1 DEF At
<1>3. CASE ~(k < Len(t))
  BY <1>1, <1>3 DEF At, Row
<1>4. QED
  BY <1>2, <1>3

\* Between close prefixes the int of compare_func is their difference.
LEMMA DifferenceIsExact ==
  ASSUME NEW a \in Address, NEW b \in Address, a - b < WORD \div 2, b - a < WORD \div 2
  PROVE  SignedDiff(a, b) = a - b
<1>1. /\ a \in Nat /\ b \in Nat /\ WORD \in Nat \ {0} /\ a - b \in Int
      /\ a <= WORD - 1 /\ b <= WORD - 1
      /\ WORD \div 2 \in Nat /\ 2 * (WORD \div 2) <= WORD
  <2>1. WORD \in Nat \ {0}
    BY WordType
  <2>2. WORD \div 2 \in Nat /\ 2 * (WORD \div 2) <= WORD
    BY <2>1
  <2>3. QED
    BY <2>1, <2>2 DEF Address
<1>2. CASE a - b >= 0
  <2>1. (a - b) % WORD = a - b
    BY <1>1, <1>2
  <2>2. QED
    BY <1>1, <2>1 DEF SignedDiff
<1>3. CASE a - b < 0
  <2>1. (a - b) % WORD = (a - b) + WORD
    BY <1>1, <1>3
  <2>2. (a - b) + WORD >= WORD \div 2
    BY <1>1
  <2>3. QED
    BY <1>1, <2>1, <2>2 DEF SignedDiff
<1>4. QED
  BY <1>1, <1>2, <1>3

\* Two distinct close rows that qsort leaves side by side are in order.
LEMMA NeighboursInOrder ==
  ASSUME NEW r \in Row, NEW s \in Row, r # s, compare_func(r, s) <= 0,
         r.prefix - s.prefix < WORD \div 2, s.prefix - r.prefix < WORD \div 2
  PROVE  Before(r, s)
<1>1. /\ r.prefix \in Address /\ s.prefix \in Address /\ r.mask \in Nat /\ s.mask \in Nat
      /\ r.prefix \in Nat /\ s.prefix \in Nat
  BY WordType DEF Row, Address
<1>2. SignedDiff(r.prefix, s.prefix) = r.prefix - s.prefix
  BY <1>1, DifferenceIsExact
<1>3. CASE r.prefix # s.prefix
  <2>1. r.prefix - s.prefix # 0
    BY <1>1, <1>3
  <2>2. compare_func(r, s) = r.prefix - s.prefix
    BY <1>2, <2>1 DEF compare_func
  <2>3. r.prefix - s.prefix <= 0
    BY <2>2
  <2>4. \A a, b \in Nat : a - b <= 0 /\ a - b # 0 => a < b
    OBVIOUS
  <2>5. r.prefix < s.prefix
    BY <1>1, <2>1, <2>3, <2>4
  <2>6. QED
    BY <2>5 DEF Before
<1>4. CASE r.prefix = s.prefix
  <2>1. r.mask # s.mask
    BY <1>4 DEF Row
  <2>2. ~(r.mask > s.mask)
    <3> SUFFICES ASSUME r.mask > s.mask PROVE FALSE
      OBVIOUS
    <3>1. SignedDiff(r.prefix, s.prefix) = 0 /\ ~(r.mask < s.mask)
      BY <1>1, <1>2, <1>4
    <3>2. compare_func(r, s) = 1
      BY <3>1 DEF compare_func
    <3>3. QED
      BY <3>2
  <2>3. QED
    BY <1>1, <1>4, <2>1, <2>2 DEF Before
<1>5. QED
  BY <1>3, <1>4

\* By prefix, then by mask: a transitive order, unlike the code's.
LEMMA BeforeTransitive ==
  ASSUME NEW r \in Row, NEW s \in Row, NEW u \in Row, Before(r, s), Before(s, u)
  PROVE  Before(r, u)
BY WordType DEF Before, Row, Address

\* A close table whose neighbours are in order is in order.
LEMMA CloseAscends ==
  ASSUME NEW t \in Seq(Row), Distinct(t), Ordered(t), CloseTable(t)
  PROVE  Ascending(t)
<1> SUFFICES ASSUME NEW j \in 0 .. Len(t) - 1, NEW i \in 0 .. Len(t) - 1, j < i,
                    ~Before(At(t, j), At(t, i))
             PROVE  FALSE
  BY DEF Ascending
<1>1. ASSUME NEW k \in Nat, k + 1 < Len(t) PROVE Before(At(t, k), At(t, k + 1))
  <2>1. /\ k \in 0 .. Len(t) - 1 /\ k + 1 \in 0 .. Len(t) - 1 /\ Len(t) \in Nat
        /\ k + 1 \in 1 .. Len(t) - 1 /\ k + 1 \in DOMAIN t /\ (k + 1) + 1 \in DOMAIN t
    BY <1>1
  <2>2. At(t, k) = t[k + 1] /\ At(t, k + 1) = t[(k + 1) + 1]
    BY <1>1, <2>1 DEF At
  <2>3. At(t, k) \in Row /\ At(t, k + 1) \in Row
    BY <1>1, AtIsRow
  <2>4. t[k + 1] # t[(k + 1) + 1]
    BY <2>1 DEF Distinct
  <2>5. compare_func(t[k + 1], t[(k + 1) + 1]) <= 0
    BY <2>1 DEF Ordered
  <2>6. /\ At(t, k).prefix - At(t, k + 1).prefix < WORD \div 2
        /\ At(t, k + 1).prefix - At(t, k).prefix < WORD \div 2
    BY <2>1 DEF CloseTable
  <2>7. QED
    BY <2>2, <2>3, <2>4, <2>5, <2>6, NeighboursInOrder
<1> DEFINE Bad == {k \in 0 .. Len(t) - 1 : j < k /\ ~Before(At(t, j), At(t, k))}
<1>2. Bad \in SUBSET Nat /\ Bad # {}
  OBVIOUS
<1>3. PICK k \in Bad : \A l \in Bad : k <= l
  BY <1>2, Smallest
<1>4. k \in Nat /\ k < Len(t) /\ j \in Nat /\ j < k /\ Len(t) \in Nat
  BY <1>3
<1>5. k - 1 \in Nat /\ k - 1 \in 0 .. Len(t) - 1 /\ (k - 1) + 1 = k /\ ~(k <= k - 1)
  BY <1>4
<1>6. Before(At(t, k - 1), At(t, k))
  BY <1>1, <1>4, <1>5
<1>7. CASE j = k - 1
  BY <1>3, <1>6, <1>7
<1>8. CASE j # k - 1
  <2>1. j < k - 1
    BY <1>4, <1>8
  <2>2. Before(At(t, j), At(t, k - 1))
    BY <1>3, <1>5, <2>1
  <2>3. At(t, j) \in Row /\ At(t, k - 1) \in Row /\ At(t, k) \in Row
    BY <1>4, <1>5, AtIsRow
  <2>4. Before(At(t, j), At(t, k))
    BY <1>6, <2>2, <2>3, BeforeTransitive
  <2>5. QED
    BY <1>3, <2>4
<1>9. QED
  BY <1>7, <1>8

\* What qsort leaves is the same rows, each once, with neighbours in order.
LEMMA QSortOrders ==
  ASSUME NEW t \in Seq(Row), NEW s \in QSort(t)
  PROVE  s \in Seq(Row) /\ Distinct(s) /\ Ordered(s)
<1>1. ToSet(t) \in SUBSET Row /\ IsFiniteSet(ToSet(t))
  <2>1. DOMAIN t = 1 .. Len(t) /\ Len(t) \in Nat
    OBVIOUS
  <2>2. IsFiniteSet(DOMAIN t)
    BY <2>1, FS_Interval
  <2>3. IsFiniteSet({t[i] : i \in DOMAIN t})
    <3> DEFINE g == [i \in DOMAIN t |-> t[i]]
    <3>1. g \in Surjection(DOMAIN t, {t[i] : i \in DOMAIN t})
      BY DEF Surjection
    <3>2. QED
      BY <2>2, <3>1, FS_Surjection
  <2>4. QED
    BY <2>1, <2>3 DEF ToSet
<1> DEFINE c == Cardinality(ToSet(t))
<1>2. c \in Nat
  BY <1>1, FS_CardinalityType
<1>3. /\ s \in [1 .. c -> ToSet(t)] /\ \A i, j \in 1 .. c : i # j => s[i] # s[j]
      /\ \A k \in 1 .. Len(s) - 1 : compare_func(s[k], s[k + 1]) <= 0
  BY DEF QSort, SetToSeqs
<1> HIDE DEF c
<1>4. s \in Seq(Row) /\ DOMAIN s = 1 .. c
  BY <1>1, <1>2, <1>3
<1>5. QED
  BY <1>3, <1>4 DEF Distinct, Ordered

-----------------------------------------------------------------------------
(* The binary search.                                                      *)

\* Entry of the table as it is now.
LEMMA EntryIsAt == \A k : Entry(k) = At(rtable, k)
BY DEF Entry, At

\* One call of binarySearch, which f answers when it calls itself.
Call(f, dest_ip, r) ==
  LET mid    == r.left + ((r.right - r.left) \div 2)
      masked == Entry(mid).mask & dest_ip
  IN IF r.right < r.left THEN NoRoute
     ELSE IF Entry(mid).prefix = masked THEN mid
     ELSE IF Entry(mid).prefix > masked
            THEN f[[r EXCEPT !.right = mid - 1]]
            ELSE f[[r EXCEPT !.left = mid + 1]]

Mid(r) == r.left + ((r.right - r.left) \div 2)

\* The middle lies between the bounds, so a call passes on a smaller range.
LEMMA MidBetween ==
  ASSUME rtable \in Seq(Row), NEW r \in Bounds, ~(r.right < r.left)
  PROVE  /\ Mid(r) \in r.left .. r.right /\ Mid(r) \in Nat /\ Mid(r) <= Len(rtable)
         /\ [r EXCEPT !.right = Mid(r) - 1] \in Bounds
         /\ [r EXCEPT !.left = Mid(r) + 1] \in Bounds
         /\ [r EXCEPT !.right = Mid(r) - 1].left = r.left
         /\ [r EXCEPT !.right = Mid(r) - 1].right = Mid(r) - 1
         /\ [r EXCEPT !.left = Mid(r) + 1].left = Mid(r) + 1
         /\ [r EXCEPT !.left = Mid(r) + 1].right = r.right
         /\ (Mid(r) = r.right => r.left = r.right)
<1>1. Len(rtable) \in Nat
  OBVIOUS
<1>2. /\ r.left \in Int /\ r.right \in Int /\ 0 <= r.left /\ r.left <= r.right
      /\ r.right <= Len(rtable)
  BY <1>1 DEF Bounds
<1>3. Mid(r) \in r.left .. r.right /\ (Mid(r) = r.right => r.left = r.right)
  BY <1>2 DEF Mid
<1>4. Mid(r) \in Nat /\ Mid(r) <= Len(rtable)
  BY <1>1, <1>2, <1>3
<1>5. Mid(r) - 1 \in -1 .. Len(rtable) /\ Mid(r) + 1 \in 0 .. Len(rtable) + 1
  BY <1>1, <1>4
<1> HIDE DEF Mid
<1>6. QED
  BY <1>3, <1>4, <1>5 DEF Bounds

\* The recursion of binarySearch ends: it has a solution for ranges up to any
\* size, one size after the other.
LEMMA SearchExists ==
  ASSUME rtable \in Seq(Row), NEW dest_ip
  PROVE  \E f : f = [r \in Bounds |-> Call(f, dest_ip, r)]
<1> DEFINE Solves(n, f) == /\ f = [r \in Bounds |-> f[r]]
                           /\ \A r \in Bounds : r.right - r.left < n => f[r] = Call(f, dest_ip, r)
           Bad == {n \in Nat : ~ \E f : Solves(n, f)}
<1>1. Bad = {}
  <2> SUFFICES ASSUME Bad # {} PROVE FALSE
    OBVIOUS
  <2>1. PICK n \in Bad : \A k \in Bad : n <= k
    BY Smallest
  <2>2. n \in Nat
    BY <2>1
  <2>3. CASE n = 0
    <3> DEFINE z == [r \in Bounds |-> NoRoute]
    <3>1. ASSUME NEW r \in Bounds, r.right - r.left < 0 PROVE Call(z, dest_ip, r) = NoRoute
      <4>1. r.right < r.left
        BY <3>1 DEF Bounds
      <4>2. QED
        BY <4>1 DEF Call
    <3>2. z = [r \in Bounds |-> z[r]] /\ \A r \in Bounds : z[r] = NoRoute
      OBVIOUS
    <3> HIDE DEF z
    <3>3. Solves(0, z)
      BY <3>1, <3>2
    <3>4. QED
      BY <2>1, <2>3, <3>3
  <2>4. CASE n # 0
    <3>1. n - 1 \in Nat /\ ~(n <= n - 1)
      BY <2>2, <2>4
    <3>2. PICK f : Solves(n - 1, f)
      BY <2>1, <3>1
    <3> DEFINE g == [r \in Bounds |-> IF r.right - r.left < n - 1 THEN f[r] ELSE Call(f, dest_ip, r)]
    <3>3. \A r \in Bounds : r.right - r.left < n - 1 => g[r] = f[r]
      OBVIOUS
    <3>4. \A r \in Bounds : ~(r.right - r.left < n - 1) => g[r] = Call(f, dest_ip, r)
      OBVIOUS
    <3>5. g = [r \in Bounds |-> g[r]]
      OBVIOUS
    <3> HIDE DEF g
    <3>6. ASSUME NEW r \in Bounds, r.right - r.left < n PROVE g[r] = Call(g, dest_ip, r)
      <4>1. g[r] = Call(f, dest_ip, r)
        BY <3>2, <3>3, <3>4
      <4>2. CASE r.right < r.left
        BY <4>1, <4>2 DEF Call
      <4>3. CASE ~(r.right < r.left)
        <5> DEFINE low  == [r EXCEPT !.right = Mid(r) - 1]
                   high == [r EXCEPT !.left = Mid(r) + 1]
        <5>1. low \in Bounds /\ high \in Bounds
              /\ low.left = r.left /\ low.right = Mid(r) - 1
              /\ high.left = Mid(r) + 1 /\ high.right = r.right
              /\ Mid(r) \in r.left .. r.right
          BY <4>3, MidBetween
        <5>2. r.left \in Int /\ r.right \in Int
          BY DEF Bounds
        <5>3. low.right - low.left < n - 1 /\ high.right - high.left < n - 1
          BY <2>2, <3>6, <5>1, <5>2
        <5>4. g[low] = f[low] /\ g[high] = f[high]
          BY <3>3, <5>1, <5>3
        <5>5. \A h : Call(h, dest_ip, r) =
                IF Entry(Mid(r)).prefix = (Entry(Mid(r)).mask & dest_ip) THEN Mid(r)
                ELSE IF Entry(Mid(r)).prefix > (Entry(Mid(r)).mask & dest_ip) THEN h[low] ELSE h[high]
          BY <4>3, Zenon DEF Call, Mid
        <5> HIDE DEF low, high
        <5>6. QED
          BY <4>1, <5>4, <5>5
      <4>4. QED
        BY <4>2, <4>3
    <3>7. Solves(n, g)
      BY <3>5, <3>6
    <3>8. QED
      BY <2>1, <3>7
  <2>5. QED
    BY <2>3, <2>4
<1>2. Len(rtable) + 2 \in Nat
  OBVIOUS
<1>3. PICK f : Solves(Len(rtable) + 2, f)
  BY <1>1, <1>2
<1>4. ASSUME NEW r \in Bounds PROVE f[r] = Call(f, dest_ip, r)
  <2>1. r.left \in Int /\ r.right \in Int /\ r.left >= 0 /\ r.right <= Len(rtable)
    BY <1>2 DEF Bounds
  <2>2. r.right - r.left < Len(rtable) + 2
    BY <1>2, <2>1
  <2>3. QED
    BY <1>3, <2>2
<1>5. [r \in Bounds |-> f[r]] = [r \in Bounds |-> Call(f, dest_ip, r)]
  BY <1>4, Zenon
<1>6. QED
  BY <1>3, <1>5

\* What a call returns, in terms of what its own calls return.
LEMMA SearchRecursion ==
  ASSUME rtable \in Seq(Row), NEW dest_ip
  PROVE  \E f : /\ \A r \in Bounds : f[r] = Call(f, dest_ip, r)
                /\ \A l, r : binarySearch(l, r, dest_ip) = f[[left |-> l, right |-> r]]
<1> DEFINE f == CHOOSE h : h = [r \in Bounds |-> Call(h, dest_ip, r)]
<1>1. f = [r \in Bounds |-> Call(f, dest_ip, r)]
  BY SearchExists
<1>2. \A l, r : binarySearch(l, r, dest_ip) = f[[left |-> l, right |-> r]]
  BY DEF binarySearch, Call
<1> HIDE DEF f
<1>3. ASSUME NEW g, g = [r \in Bounds |-> Call(g, dest_ip, r)], NEW r \in Bounds
      PROVE  g[r] = Call(g, dest_ip, r)
  BY <1>3, Zenon
<1>4. QED
  BY <1>1, <1>2, <1>3

\* One mask for all rows.
UniformTable(t) == \A j, k \in 0 .. Len(t) - 1 : At(t, j).mask = At(t, k).mask

\* The destination under that mask.
Masked(t, d) == At(t, 0).mask & d

\* The last row is past the first of the others in its prefix, if it is not zero.
SomePositive(t) == \E k \in 0 .. Len(t) - 1 : At(t, k).prefix > 0

\* A look-up is settled: the row with the masked destination as its prefix,
\* the zero row past the end above all prefixes, or none.
Settled(t, v, b, wild, none) ==
  IF \E k \in 0 .. Len(t) - 1 : At(t, k).prefix = v
    THEN b \in 0 .. Len(t) - 1 /\ At(t, b).prefix = v
    ELSE IF \A k \in 0 .. Len(t) - 1 : At(t, k).prefix < v THEN b = wild ELSE b = none

\* What holds whenever binarySearch is called: what is left of the range is too
\* small, what is right of it too large.
Narrowed(t, v, r) ==
  /\ r \in Bounds /\ r.left <= Len(t)
  /\ \A k \in 0 .. Len(t) - 1 : k < r.left => At(t, k).prefix < v
  /\ \A k \in 0 .. Len(t) - 1 : k > r.right => At(t, k).prefix > v
  /\ (\A k \in 0 .. Len(t) - 1 : At(t, k).prefix < v) => r.right = Len(t)

\* In a table of one mask the prefixes alone are in order.
LEMMA UniformAscends ==
  ASSUME NEW t \in Seq(Row), UniformTable(t), Ascending(t)
  PROVE  \A j, k \in 0 .. Len(t) - 1 : j < k => At(t, j).prefix < At(t, k).prefix
<1> SUFFICES ASSUME NEW j \in 0 .. Len(t) - 1, NEW k \in 0 .. Len(t) - 1, j < k
             PROVE  At(t, j).prefix < At(t, k).prefix
  OBVIOUS
<1>1. Before(At(t, j), At(t, k)) /\ At(t, j).mask = At(t, k).mask
  BY DEF Ascending, UniformTable
<1>2. j \in Nat /\ k \in Nat
  OBVIOUS
<1>3. At(t, j).mask \in Nat
  <2>1. At(t, j) \in Row
    BY <1>2, AtIsRow
  <2>2. At(t, j).mask \in Address
    BY <2>1 DEF Row
  <2>3. QED
    BY <2>2, WordType DEF Address
<1>4. ~(At(t, j).mask < At(t, k).mask)
  BY <1>1, <1>3
<1>5. QED
  BY <1>1, <1>4 DEF Before

\* Whatever the order in which the range narrows, the search settles the look-up.
LEMMA SearchSettles ==
  ASSUME rtable \in Seq(Row), UniformTable(rtable), Ascending(rtable),
         Len(rtable) > 0, NEW d \in Address, NEW f,
         \A r \in Bounds : f[r] = Call(f, d, r)
  PROVE  \A r : Narrowed(rtable, Masked(rtable, d), r)
           => Settled(rtable, Masked(rtable, d), f[r], Len(rtable), NoRoute)
<1> DEFINE n == Len(rtable)
           v == Masked(rtable, d)
           P(k) == At(rtable, k).prefix
           Fails(r) == Narrowed(rtable, v, r) /\ ~Settled(rtable, v, f[r], n, NoRoute)
           Bad == {s \in Nat : \E r : Fails(r) /\ s = (r.right - r.left) + n + 2}
<1>1. n \in Nat /\ 0 \in 0 .. n - 1
  OBVIOUS
<1>2. v \in Nat
  <2>1. At(rtable, 0) \in Row
    BY AtIsRow
  <2>2. At(rtable, 0).mask \in Address
    BY <2>1 DEF Row
  <2>3. v \in Address
    BY <2>2, AndInAddress DEF Masked
  <2>4. QED
    BY <2>3, WordType DEF Address
<1>3. \A j, k \in 0 .. n - 1 : j < k => P(j) < P(k)
  BY UniformAscends
<1>4. \A k \in 0 .. n - 1 : P(k) \in Nat /\ (Entry(k).mask & d) = v /\ Entry(k).prefix = P(k)
  <2> SUFFICES ASSUME NEW k \in 0 .. n - 1
               PROVE  P(k) \in Nat /\ (Entry(k).mask & d) = v /\ Entry(k).prefix = P(k)
    OBVIOUS
  <2>1. At(rtable, k).mask = At(rtable, 0).mask
    BY <1>1 DEF UniformTable
  <2>2. P(k) \in Nat
    <3>1. At(rtable, k) \in Row
      BY <1>1, AtIsRow
    <3>2. At(rtable, k).prefix \in Address
      BY <3>1 DEF Row
    <3>3. QED
      BY <3>2, WordType DEF Address
  <2>3. QED
    BY <2>1, <2>2, EntryIsAt DEF Masked
<1>5. Entry(n).prefix = 0 /\ (Entry(n).mask & d) = 0
  <2>1. Entry(n) = [prefix |-> 0, mask |-> 0]
    BY <1>1 DEF Entry
  <2>2. 0 \in Address
    BY WordType DEF Address
  <2>3. (0 & d) \in 0 .. 0
    BY <2>2, AndType
  <2>4. QED
    BY <2>1, <2>3
<1> HIDE DEF v, P
<1>6. \A r : Fails(r) => (r.right - r.left) + n + 2 \in Nat
  BY <1>1 DEF Narrowed, Bounds
<1>7. ASSUME NEW r, Fails(r),
             \A r2 : Fails(r2) => (r.right - r.left) + n + 2 <= (r2.right - r2.left) + n + 2
      PROVE  FALSE
  <2> DEFINE mid == Mid(r)
             low == [r EXCEPT !.right = mid - 1]
             high == [r EXCEPT !.left = mid + 1]
  <2>1. /\ r \in Bounds /\ r.left <= n /\ r.left \in Nat /\ r.right \in Int /\ r.right <= n
        /\ \A k \in 0 .. n - 1 : k < r.left => P(k) < v
        /\ \A k \in 0 .. n - 1 : k > r.right => P(k) > v
        /\ (\A k \in 0 .. n - 1 : P(k) < v) => r.right = n
    BY <1>1, <1>7 DEF Narrowed, Bounds, P
  <2>2. ~Settled(rtable, v, f[r], n, NoRoute)
    BY <1>7
  <2>3. f[r] = Call(f, d, r)
    BY <2>1
  <2>4. CASE r.right < r.left
    <3>1. f[r] = NoRoute
      BY <2>3, <2>4 DEF Call
    <3>2. ASSUME NEW k \in 0 .. n - 1 PROVE P(k) # v
      <4>1. k < r.left \/ k > r.right
        BY <2>1, <2>4
      <4>2. P(k) < v \/ P(k) > v
        BY <2>1, <4>1
      <4>3. QED
        BY <1>2, <1>4, <4>2
    <3>3. ~ \A k \in 0 .. n - 1 : P(k) < v
      BY <2>1, <2>4
    <3>4. QED
      BY <2>2, <3>1, <3>2, <3>3 DEF Settled, P
  <2>5. CASE ~(r.right < r.left)
    <3>1. /\ mid \in r.left .. r.right /\ mid \in Nat /\ mid <= n
          /\ low \in Bounds /\ high \in Bounds
          /\ low.left = r.left /\ low.right = mid - 1
          /\ high.left = mid + 1 /\ high.right = r.right
          /\ (mid = r.right => r.left = r.right)
      BY <2>1, <2>5, MidBetween
    <3>2. f[r] = IF Entry(mid).prefix = (Entry(mid).mask & d) THEN mid
                 ELSE IF Entry(mid).prefix > (Entry(mid).mask & d) THEN f[low] ELSE f[high]
      BY <2>3, <2>5, Zenon DEF Call, Mid
    <3> HIDE DEF low, high, mid
    <3>3. CASE mid = n
      <4>1. f[r] = n
        BY <1>5, <3>2, <3>3
      <4>2. r.left = n
        BY <2>1, <3>1, <3>3
      <4>3. \A k \in 0 .. n - 1 : P(k) < v /\ P(k) # v
        BY <1>1, <1>2, <1>4, <2>1, <4>2
      <4>4. QED
        BY <2>2, <4>1, <4>3 DEF Settled, P
    <3>4. CASE mid # n
      <4>1. mid \in 0 .. n - 1
        BY <1>1, <3>1, <3>4
      <4>2. f[r] = IF P(mid) = v THEN mid ELSE IF P(mid) > v THEN f[low] ELSE f[high]
        BY <1>4, <3>2, <4>1
      <4>3. CASE P(mid) = v
        BY <2>2, <4>1, <4>2, <4>3 DEF Settled, P
      <4>4. CASE P(mid) # v /\ P(mid) > v
        <5>1. f[r] = f[low]
          BY <4>2, <4>4
        <5>2. \A k \in 0 .. n - 1 : k > mid - 1 => P(k) > v
          <6>1. \A k \in 0 .. n - 1 : k > mid - 1 => k = mid \/ mid < k
            BY <3>1
          <6>2. QED
            BY <1>2, <1>3, <1>4, <4>1, <4>4, <6>1
        <5>3. ~ \A k \in 0 .. n - 1 : P(k) < v
          BY <1>2, <1>4, <4>1, <4>4
        <5>4. Narrowed(rtable, v, low)
          BY <2>1, <3>1, <5>2, <5>3 DEF Narrowed, P
        <5>5. Fails(low)
          BY <2>2, <5>1, <5>4
        <5>6. (low.right - low.left) + n + 2 < (r.right - r.left) + n + 2
          BY <1>1, <2>1, <3>1
        <5>7. QED
          BY <1>1, <1>7, <2>1, <3>1, <5>5, <5>6
      <4>5. CASE P(mid) # v /\ ~(P(mid) > v)
        <5>1. f[r] = f[high]
          BY <4>2, <4>5
        <5>2. \A k \in 0 .. n - 1 : k < mid + 1 => P(k) < v
          <6>1. \A k \in 0 .. n - 1 : k < mid + 1 => k = mid \/ k < mid
            BY <3>1
          <6>2. P(mid) < v
            BY <1>2, <1>4, <4>1, <4>5
          <6>3. QED
            BY <1>2, <1>3, <1>4, <4>1, <6>1, <6>2
        <5>3. high.left <= n
          BY <1>1, <3>1, <4>1
        <5>4. Narrowed(rtable, v, high)
          BY <2>1, <3>1, <5>2, <5>3 DEF Narrowed, P
        <5>5. Fails(high)
          BY <2>2, <5>1, <5>4
        <5>6. (high.right - high.left) + n + 2 < (r.right - r.left) + n + 2
          BY <1>1, <2>1, <3>1
        <5>7. QED
          BY <1>1, <1>7, <2>1, <3>1, <5>5, <5>6
      <4>6. QED
        BY <4>3, <4>4, <4>5
    <3>5. QED
      BY <3>3, <3>4
  <2>6. QED
    BY <2>4, <2>5
<1>8. Bad = {}
  <2> SUFFICES ASSUME Bad # {} PROVE FALSE
    OBVIOUS
  <2>1. PICK s \in Bad : \A k \in Bad : s <= k
    BY Smallest
  <2>2. PICK r : Fails(r) /\ s = (r.right - r.left) + n + 2
    BY <2>1
  <2>3. \A r2 : Fails(r2) => s <= (r2.right - r2.left) + n + 2
    BY <1>6, <2>1
  <2> HIDE DEF Fails
  <2>4. QED
    BY <1>7, <2>2, <2>3
<1>9. \A r : ~Fails(r)
  BY <1>6, <1>8
<1>10. QED
  BY <1>9 DEF v

-----------------------------------------------------------------------------
(* The look-ups.                                                           *)

\* What Min of the community modules returns.
LEMMA MinIsLeast ==
  ASSUME NEW S \in SUBSET Nat, S # {}
  PROVE  Min(S) \in S /\ \A y \in S : Min(S) <= y
BY Smallest DEF Min

\* The two ways in which a router looks a destination up.
LookedUp(t, d, b) ==
  UniformTable(t) /\ CloseTable(t) /\ SomePositive(t)
    => Settled(t, Masked(t, d), b, WILD, NoRoute)

Hit(t, d, k) == (d & At(t, k).mask) = At(t, k).prefix

GroupFound(t, d, b) ==
  b >= 0 =>
    /\ b \in 0 .. Len(t) - 1
    /\ \E k \in 0 .. Len(t) - 1 : At(t, k).prefix = At(t, b).prefix /\ Hit(t, d, k)
    /\ b + 1 < Len(t) => At(t, b + 1).prefix # At(t, b).prefix

Longest(t, d, k) ==
  /\ k \in 0 .. Len(t) - 1 /\ Hit(t, d, k)
  /\ \A j \in 0 .. Len(t) - 1 : Hit(t, d, j) => At(t, j).mask <= At(t, k).mask

LabLookedUp(t, d, b) ==
  (\E k : Longest(t, d, k) /\ 0 < At(t, k).mask /\ At(t, k).mask < WORD - 1)
    => Longest(t, d, b)

\* The scan after the search stays on the row that was found, or runs off the
\* end from the zero row.
LEMMA RouterLooksUp ==
  ASSUME rtable \in Seq(Row), Distinct(rtable), Ordered(rtable), NEW d \in Address
  PROVE  LookedUp(rtable, d, get_best_route(d))
<1> SUFFICES ASSUME UniformTable(rtable), CloseTable(rtable), SomePositive(rtable)
             PROVE  Settled(rtable, Masked(rtable, d), get_best_route(d), WILD, NoRoute)
  BY DEF LookedUp
<1> DEFINE n == Len(rtable)
           v == Masked(rtable, d)
           P(k) == At(rtable, k).prefix
           index == binarySearch(0, n, d)
           other == {k \in index + 1 .. n : Entry(k).prefix # Entry(index).prefix}
           r0 == [left |-> 0, right |-> n]
<1>1. n \in Nat /\ n > 0
  BY DEF SomePositive
<1>2. Ascending(rtable)
  BY CloseAscends
<1>3. \A j, k \in 0 .. n - 1 : j < k => P(j) < P(k)
  BY <1>2, UniformAscends
<1>4. PICK f : /\ \A r \in Bounds : f[r] = Call(f, d, r)
               /\ \A l, r : binarySearch(l, r, d) = f[[left |-> l, right |-> r]]
  BY SearchRecursion
<1>5. Narrowed(rtable, v, r0)
  BY <1>1 DEF Narrowed, Bounds
<1>6. Settled(rtable, v, f[r0], n, NoRoute)
  BY <1>1, <1>2, <1>4, <1>5, SearchSettles
<1>7. index = f[r0]
  BY <1>4
<1>8. get_best_route(d) = IF index < 0 THEN NoRoute ELSE IF other = {} THEN WILD ELSE Min(other) - 1
  BY DEF get_best_route
<1>9. \A k \in 0 .. n - 1 : P(k) \in Nat
  <2> SUFFICES ASSUME NEW k \in 0 .. n - 1 PROVE P(k) \in Nat
    OBVIOUS
  <2>1. At(rtable, k) \in Row
    BY <1>1, AtIsRow
  <2>2. P(k) \in Address
    BY <2>1 DEF Row
  <2>3. QED
    BY <2>2, WordType DEF Address
<1>10. \A k : Entry(k).prefix = P(k)
  BY EntryIsAt
<1>11. P(n) = 0
  BY <1>1 DEF At
<1> HIDE DEF v, P, index, r0
<1>12. CASE \E k \in 0 .. n - 1 : P(k) = v
  <2>1. index \in 0 .. n - 1 /\ P(index) = v
    BY <1>6, <1>7, <1>12 DEF Settled, P
  <2>2. P(index + 1) # P(index) /\ index + 1 \in index + 1 .. n
    <3>1. CASE index + 1 < n
      <4>1. index + 1 \in 0 .. n - 1 /\ index < index + 1
        BY <1>1, <2>1, <3>1
      <4>2. P(index) < P(index + 1) /\ P(index) \in Nat /\ P(index + 1) \in Nat
        BY <1>3, <1>9, <2>1, <4>1
      <4>3. QED
        BY <1>1, <2>1, <4>1, <4>2
    <3>2. CASE ~(index + 1 < n)
      <4>1. index + 1 = n /\ index \in Nat
        BY <1>1, <2>1, <3>2
      <4>2. PICK k \in 0 .. n - 1 : P(k) > 0
        BY DEF SomePositive, P
      <4>3. k = index \/ k < index
        BY <4>1, <4>2
      <4>4. P(index) > 0
        BY <1>3, <1>9, <2>1, <4>2, <4>3
      <4>5. QED
        BY <1>9, <1>11, <2>1, <4>1, <4>4
    <3>3. QED
      BY <3>1, <3>2
  <2>3. index + 1 \in other /\ other \in SUBSET Nat /\ \A k \in other : index + 1 <= k
    BY <1>1, <1>10, <2>1, <2>2
  <2>4. Min(other) = index + 1
    <3> HIDE DEF other
    <3>1. Min(other) \in other /\ \A k \in other : Min(other) <= k
      BY <2>3, MinIsLeast
    <3>2. Min(other) \in Nat /\ index + 1 \in Nat
      BY <2>3, <3>1
    <3>3. Min(other) <= index + 1 /\ index + 1 <= Min(other)
      BY <2>3, <3>1
    <3>4. QED
      BY <3>2, <3>3
  <2>5. other # {} /\ ~(index < 0)
    BY <2>1, <2>3
  <2>6. get_best_route(d) = index
    BY <1>8, <2>1, <2>4, <2>5
  <2>7. QED
    BY <1>12, <2>1, <2>6 DEF Settled, P, v
<1>13. CASE ~ \E k \in 0 .. n - 1 : P(k) = v
  <2>1. CASE \A k \in 0 .. n - 1 : P(k) < v
    <3>1. index = n
      BY <1>6, <1>7, <1>13, <2>1 DEF Settled, P
    <3>2. other = {}
      BY <1>1, <3>1
    <3>3. get_best_route(d) = WILD
      BY <1>1, <1>8, <3>1, <3>2
    <3>4. QED
      BY <1>13, <2>1, <3>3 DEF Settled, P, v
  <2>2. CASE ~ \A k \in 0 .. n - 1 : P(k) < v
    <3>1. index = NoRoute
      BY <1>6, <1>7, <1>13, <2>2 DEF Settled, P
    <3>2. get_best_route(d) = NoRoute
      BY <1>8, <3>1 DEF NoRoute
    <3>3. QED
      BY <1>13, <2>2, <3>2 DEF Settled, P, v
  <2>3. QED
    BY <2>1, <2>2
<1>14. QED
  BY <1>12, <1>13 DEF v

\* Whatever the table, an index that the search returns is that of a row whose
\* prefix is the masked destination.
LEMMA SearchHits ==
  ASSUME rtable \in Seq(Row), NEW d, NEW f, \A r \in Bounds : f[r] = Call(f, d, r)
  PROVE  \A r \in Bounds :
           \/ f[r] = NoRoute
           \/ f[r] \in 0 .. Len(rtable) /\ Entry(f[r]).prefix = (Entry(f[r]).mask & d)
<1> DEFINE n == Len(rtable)
           Fails(r) == /\ r \in Bounds /\ f[r] # NoRoute
                       /\ ~(f[r] \in 0 .. n /\ Entry(f[r]).prefix = (Entry(f[r]).mask & d))
           Bad == {s \in Nat : \E r : Fails(r) /\ s = (r.right - r.left) + n + 2}
<1>1. n \in Nat
  OBVIOUS
<1>2. \A r : Fails(r) => (r.right - r.left) + n + 2 \in Nat
  BY <1>1 DEF Bounds
<1>3. ASSUME NEW r, Fails(r),
             \A r2 : Fails(r2) => (r.right - r.left) + n + 2 <= (r2.right - r2.left) + n + 2
      PROVE  FALSE
  <2> DEFINE mid == Mid(r)
             low == [r EXCEPT !.right = mid - 1]
             high == [r EXCEPT !.left = mid + 1]
  <2>1. r \in Bounds /\ f[r] = Call(f, d, r) /\ r.left \in Int /\ r.right \in Int
    BY <1>3 DEF Bounds
  <2>2. ~(r.right < r.left)
    <3> SUFFICES ASSUME r.right < r.left PROVE FALSE
      OBVIOUS
    <3>1. f[r] = NoRoute
      BY <2>1 DEF Call
    <3>2. QED
      BY <1>3, <3>1
  <2>3. /\ mid \in r.left .. r.right /\ mid \in Nat /\ mid <= n
        /\ low \in Bounds /\ high \in Bounds
        /\ low.left = r.left /\ low.right = mid - 1
        /\ high.left = mid + 1 /\ high.right = r.right
    BY <2>1, <2>2, MidBetween
  <2>4. f[r] = IF Entry(mid).prefix = (Entry(mid).mask & d) THEN mid
               ELSE IF Entry(mid).prefix > (Entry(mid).mask & d) THEN f[low] ELSE f[high]
    BY <2>1, <2>2, Zenon DEF Call, Mid
  <2> HIDE DEF low, high, mid
  <2>5. ~(Entry(mid).prefix = (Entry(mid).mask & d))
    BY <1>1, <1>3, <2>3, <2>4
  <2>6. CASE f[r] = f[low]
    <3>1. Fails(low)
      BY <1>3, <2>3, <2>6
    <3>2. (low.right - low.left) + n + 2 < (r.right - r.left) + n + 2
      BY <1>1, <2>1, <2>3
    <3>3. QED
      BY <1>1, <1>3, <2>1, <2>3, <3>1, <3>2
  <2>7. CASE f[r] = f[high]
    <3>1. Fails(high)
      BY <1>3, <2>3, <2>7
    <3>2. (high.right - high.left) + n + 2 < (r.right - r.left) + n + 2
      BY <1>1, <2>1, <2>3
    <3>3. QED
      BY <1>1, <1>3, <2>1, <2>3, <3>1, <3>2
  <2>8. QED
    BY <2>4, <2>5, <2>6, <2>7
<1>4. Bad = {}
  <2> SUFFICES ASSUME Bad # {} PROVE FALSE
    OBVIOUS
  <2>1. PICK s \in Bad : \A k \in Bad : s <= k
    BY Smallest
  <2>2. PICK r : Fails(r) /\ s = (r.right - r.left) + n + 2
    BY <2>1
  <2>3. \A r2 : Fails(r2) => s <= (r2.right - r2.left) + n + 2
    BY <1>2, <2>1
  <2> HIDE DEF Fails
  <2>4. QED
    BY <1>3, <2>2, <2>3
<1>5. \A r : ~Fails(r)
  BY <1>2, <1>4
<1>6. QED
  BY <1>5

\* The scan ends on the last row of the prefix.
LEMMA RouterFindsGroup ==
  ASSUME rtable \in Seq(Row), NEW d \in Address
  PROVE  GroupFound(rtable, d, get_best_route(d))
<1> DEFINE n == Len(rtable)
           P(k) == At(rtable, k).prefix
           index == binarySearch(0, n, d)
           other == {k \in index + 1 .. n : Entry(k).prefix # Entry(index).prefix}
           r0 == [left |-> 0, right |-> n]
<1> SUFFICES ASSUME get_best_route(d) >= 0
             PROVE  /\ get_best_route(d) \in 0 .. n - 1
                    /\ \E k \in 0 .. n - 1 : P(k) = P(get_best_route(d)) /\ Hit(rtable, d, k)
                    /\ get_best_route(d) + 1 < n => P(get_best_route(d) + 1) # P(get_best_route(d))
  BY DEF GroupFound
<1>1. n \in Nat /\ r0 \in Bounds
  BY DEF Bounds
<1>2. PICK f : /\ \A r \in Bounds : f[r] = Call(f, d, r)
               /\ \A l, r : binarySearch(l, r, d) = f[[left |-> l, right |-> r]]
  BY SearchRecursion
<1>3. \/ index = NoRoute
      \/ index \in 0 .. n /\ Entry(index).prefix = (Entry(index).mask & d)
  <2>1. \/ f[r0] = NoRoute
        \/ f[r0] \in 0 .. n /\ Entry(f[r0]).prefix = (Entry(f[r0]).mask & d)
    <3> HIDE DEF r0
    <3>1. QED
      BY <1>1, <1>2, SearchHits
  <2>2. index = f[r0]
    BY <1>2
  <2>3. QED
    BY <2>1, <2>2
<1>4. get_best_route(d) = IF index < 0 THEN NoRoute ELSE IF other = {} THEN WILD ELSE Min(other) - 1
  BY DEF get_best_route
<1>5. \A k : Entry(k).prefix = P(k)
  BY EntryIsAt
<1> HIDE DEF P, index, r0
<1>6. index \in 0 .. n /\ other # {} /\ get_best_route(d) = Min(other) - 1
      /\ Entry(index).prefix = (Entry(index).mask & d)
  BY <1>3, <1>4 DEF NoRoute, WILD
<1>7. other \in SUBSET Nat
  BY <1>1, <1>6
<1>8. Min(other) \in other /\ \A k \in other : Min(other) <= k
  <2> HIDE DEF other
  <2>1. QED
    BY <1>6, <1>7, MinIsLeast
<1> DEFINE b == Min(other) - 1
<1>9. Min(other) \in index + 1 .. n /\ P(Min(other)) # P(index)
  BY <1>5, <1>8
<1>10. \A k \in index + 1 .. n : k < Min(other) => P(k) = P(index)
  <2> SUFFICES ASSUME NEW k \in index + 1 .. n, k < Min(other), P(k) # P(index) PROVE FALSE
    OBVIOUS
  <2>1. k \in other /\ k \in Int /\ Min(other) \in Int
    BY <1>5, <1>6, <1>9
  <2> HIDE DEF other
  <2>2. QED
    BY <1>8, <2>1
<1> HIDE DEF other
<1>11. b \in 0 .. n - 1 /\ b + 1 = Min(other) /\ index \in 0 .. n - 1 /\ index <= b
  BY <1>1, <1>6, <1>9
<1>12. P(b) = P(index)
  <2>1. CASE b = index
    BY <2>1
  <2>2. CASE b # index
    <3>1. b \in index + 1 .. n /\ b < Min(other)
      BY <1>1, <1>6, <1>11, <2>2
    <3>2. QED
      BY <1>10, <3>1
  <2>3. QED
    BY <2>1, <2>2
<1>13. Hit(rtable, d, index)
  <2>1. At(rtable, index) \in Row
    BY <1>1, <1>11, AtIsRow
  <2>2. At(rtable, index).mask \in Address
    BY <2>1 DEF Row
  <2>3. QED
    BY <1>6, <2>2, AndCommutes, EntryIsAt DEF Hit
<1> HIDE DEF b
<1>14. get_best_route(d) = b
  BY <1>6 DEF b
<1>15. QED
  BY <1>9, <1>11, <1>12, <1>13, <1>14

\* In an ordered table the last row of a prefix has its longest mask.
LEMMA LastOfPrefix ==
  ASSUME NEW t \in Seq(Row), Ascending(t), NEW b \in 0 .. Len(t) - 1,
         b + 1 < Len(t) => At(t, b + 1).prefix # At(t, b).prefix,
         NEW k \in 0 .. Len(t) - 1, At(t, k).prefix = At(t, b).prefix
  PROVE  At(t, k).mask <= At(t, b).mask
<1>1. \A i \in 0 .. Len(t) - 1 : At(t, i).prefix \in Nat /\ At(t, i).mask \in Nat
  <2> SUFFICES ASSUME NEW i \in 0 .. Len(t) - 1 PROVE At(t, i).prefix \in Nat /\ At(t, i).mask \in Nat
    OBVIOUS
  <2>1. At(t, i) \in Row
    BY AtIsRow
  <2>2. At(t, i).prefix \in Address /\ At(t, i).mask \in Address
    BY <2>1 DEF Row
  <2>3. QED
    BY <2>2, WordType DEF Address
<1>2. CASE k < b
  <2>1. Before(At(t, k), At(t, b))
    BY <1>2 DEF Ascending
  <2>2. QED
    BY <1>1, <2>1 DEF Before
<1>3. CASE k = b
  BY <1>1, <1>3
<1>4. CASE k > b
  <2>1. b + 1 \in 0 .. Len(t) - 1 /\ b < b + 1 /\ b + 1 < Len(t)
    BY <1>4
  <2>2. Before(At(t, b), At(t, b + 1)) /\ At(t, b + 1).prefix # At(t, b).prefix
    BY <2>1 DEF Ascending
  <2>3. At(t, b).prefix < At(t, b + 1).prefix
    BY <2>2 DEF Before
  <2>4. k = b + 1 \/ b + 1 < k
    BY <1>4
  <2>5. At(t, b + 1).prefix <= At(t, k).prefix
    <3>1. CASE k = b + 1
      BY <1>1, <3>1
    <3>2. CASE b + 1 < k
      <4>1. Before(At(t, b + 1), At(t, k))
        BY <2>1, <3>2 DEF Ascending
      <4>2. QED
        BY <1>1, <2>1, <4>1 DEF Before
    <3>3. QED
      BY <2>4, <3>1, <3>2
  <2>6. QED
    BY <1>1, <2>1, <2>3, <2>5
<1>5. QED
  BY <1>2, <1>3, <1>4

\* The largest mask of the matches is that of a longest match, and the row
\* returned is the first that has it.
LEMMA LabLooksUp ==
  ASSUME rtable \in Seq(Row), NEW d \in Address, NEW b \in LabBestRoute(d)
  PROVE  LabLookedUp(rtable, d, b)
<1> SUFFICES ASSUME NEW i, Longest(rtable, d, i),
                    0 < At(rtable, i).mask, At(rtable, i).mask < WORD - 1
             PROVE  Longest(rtable, d, b)
  BY DEF LabLookedUp
<1> DEFINE n == Len(rtable)
           match == {k \in 0 .. n - 1 : /\ (d & Entry(k).mask) = Entry(k).prefix
                                        /\ Entry(k).mask > 0}
           masks == {Entry(k).mask : k \in match}
           top == Max(masks)
           tops == {k \in match : Entry(k).mask = top}
<1>1. n \in Nat /\ i \in 0 .. n - 1 /\ WORD \in Nat
  BY WordType DEF Longest
<1>2. \A k \in 0 .. n - 1 : At(rtable, k).mask \in Nat
  <2> SUFFICES ASSUME NEW k \in 0 .. n - 1 PROVE At(rtable, k).mask \in Nat
    OBVIOUS
  <2>1. At(rtable, k) \in Row
    BY <1>1, AtIsRow
  <2>2. At(rtable, k).mask \in Address
    BY <2>1 DEF Row
  <2>3. QED
    BY <2>2, WordType DEF Address
<1>3. \A k : k \in match <=> k \in 0 .. n - 1 /\ Hit(rtable, d, k) /\ At(rtable, k).mask > 0
  BY EntryIsAt DEF Hit
<1>4. i \in match
  BY <1>1, <1>2, <1>3 DEF Longest
<1>5. \A k \in match : At(rtable, k).mask <= At(rtable, i).mask
  BY <1>3 DEF Longest
<1>6. /\ At(rtable, i).mask \in masks
      /\ \A y \in masks : y <= At(rtable, i).mask /\ y \in Nat
  BY <1>2, <1>3, <1>4, <1>5, EntryIsAt
<1> HIDE DEF match, masks
<1>7. top = At(rtable, i).mask
  <2>1. \E x \in masks : \A y \in masks : x >= y
    BY <1>6
  <2>2. top \in masks /\ \A y \in masks : top >= y
    BY <2>1 DEF Max
  <2>3. QED
    BY <1>6, <2>2
<1>8. b = Min(tops)
  <2>1. match # {} /\ top # WORD - 1
    BY <1>1, <1>2, <1>4, <1>7
  <2>2. b \in {Min(tops)}
    BY <2>1 DEF LabBestRoute, match, masks
  <2>3. QED
    BY <2>2
<1>9. tops \in SUBSET Nat /\ tops # {}
  BY <1>3, <1>4, <1>7, EntryIsAt
<1>10. b \in tops
  BY <1>8, <1>9, MinIsLeast
<1>11. b \in match /\ At(rtable, b).mask = At(rtable, i).mask
  BY <1>7, <1>10, EntryIsAt
<1>12. QED
  BY <1>3, <1>11 DEF Longest

-----------------------------------------------------------------------------
(* The invariant.                                                          *)

\* The rows are routes, each once; the router's are in the order qsort left
\* them; and what was looked up is settled.
TableInv ==
  /\ rtable \in Seq(Row) /\ Distinct(rtable)
  /\ sorted \in BOOLEAN /\ dest \in Address
  /\ sorted => Ordered(rtable)
  /\ Found => LookedUp(rtable, dest, best) /\ GroupFound(rtable, dest, best)
  /\ LabFound => LabLookedUp(rtable, dest, best)

\* The invariant holds of a table just read, and every step keeps it.
LEMMA TableInitOK == TableInit => TableInv
<1> SUFFICES ASSUME TableInit PROVE TableInv
  OBVIOUS
<1>1. rtable \in Seq(Row)
  BY RouteIsRow DEF TableInit
<1>2. Distinct(rtable)
  BY DEF TableInit, Distinct
<1>3. 0 \in Address
  BY WordType DEF Address
<1>4. QED
  BY <1>1, <1>2, <1>3 DEF TableInit, TableInv, Found, LabFound

LEMMA TableStepOK == TableInv /\ [TableNext]_tableVars => TableInv'
<1> SUFFICES ASSUME TableInv, [TableNext]_tableVars PROVE TableInv'
  OBVIOUS
<1>1. ASSUME Sort PROVE TableInv'
  <2>1. rtable' \in QSort(rtable) /\ sorted' = TRUE /\ dest' = dest /\ best' = best /\ best = NONE
    BY <1>1 DEF Sort
  <2>2. rtable \in Seq(Row) /\ dest \in Address
    BY DEF TableInv
  <2>3. rtable' \in Seq(Row) /\ Distinct(rtable') /\ Ordered(rtable')
    BY <2>1, <2>2, QSortOrders
  <2>4. QED
    BY <2>1, <2>2, <2>3 DEF TableInv, Found, LabFound
<1>2. ASSUME LookUp PROVE TableInv'
  <2>1. sorted = TRUE /\ dest' \in Address /\ best' = get_best_route(dest')
        /\ rtable' = rtable /\ sorted' = TRUE
    BY <1>2 DEF LookUp, TableInv
  <2>2. rtable \in Seq(Row) /\ Distinct(rtable) /\ Ordered(rtable)
    BY <2>1 DEF TableInv
  <2>3. LookedUp(rtable, dest', get_best_route(dest')) /\ GroupFound(rtable, dest', get_best_route(dest'))
    BY <2>1, <2>2, RouterLooksUp, RouterFindsGroup
  <2>4. LookedUp(rtable', dest', best') /\ GroupFound(rtable', dest', best')
    BY <2>1, <2>3
  <2>5. rtable' \in Seq(Row) /\ Distinct(rtable') /\ Ordered(rtable')
    BY <2>1, <2>2
  <2>6. QED
    BY <2>1, <2>4, <2>5 DEF TableInv, Found, LabFound
<1>3. ASSUME LabLookUp PROVE TableInv'
  <2>1. sorted = FALSE /\ dest' \in Address /\ best' \in LabBestRoute(dest')
        /\ rtable' = rtable /\ sorted' = FALSE
    BY <1>3 DEF LabLookUp, TableInv
  <2>2. rtable \in Seq(Row) /\ Distinct(rtable)
    BY DEF TableInv
  <2>3. LabLookedUp(rtable, dest', best')
    BY <2>1, <2>2, LabLooksUp
  <2>4. LabLookedUp(rtable', dest', best')
    BY <2>1, <2>3
  <2>5. rtable' \in Seq(Row) /\ Distinct(rtable')
    BY <2>1, <2>2
  <2>6. QED
    BY <2>1, <2>4, <2>5 DEF TableInv, Found, LabFound
<1>4. CASE UNCHANGED tableVars
  <2>1. rtable' = rtable /\ sorted' = sorted /\ dest' = dest /\ best' = best
    BY <1>4 DEF tableVars
  <2>2. QED
    BY <2>1 DEF TableInv, Found, LabFound
<1>5. QED
  BY <1>1, <1>2, <1>3, <1>4 DEF TableNext

\* Of every table read from a file, sorted or not, the invariant holds.
THEOREM TableInvariant == TableSpec => []TableInv
BY TableInitOK, TableStepOK, PTL DEF TableSpec

-----------------------------------------------------------------------------

\* What the properties say of the table is what the lemmas say of any sequence.
LEMMA TableViews ==
  /\ Close <=> CloseTable(rtable)
  /\ Uniform <=> UniformTable(rtable)
  /\ (\E k \in Index : Entry(k).prefix > 0) <=> SomePositive(rtable)
  /\ \A k : Matches(k) <=> Hit(rtable, dest, k)
  /\ \A k : k \in LongestMatch <=> Longest(rtable, dest, k)
<1>1. Close <=> CloseTable(rtable)
  BY EntryIsAt DEF Close, CloseTable, Index
<1>2. Uniform <=> UniformTable(rtable)
  BY EntryIsAt DEF Uniform, UniformTable, Index
<1>3. (\E k \in Index : Entry(k).prefix > 0) <=> SomePositive(rtable)
  BY EntryIsAt DEF SomePositive, Index
<1>4. \A k : Matches(k) <=> Hit(rtable, dest, k)
  BY EntryIsAt DEF Matches, Hit
<1>5. \A k : k \in LongestMatch <=> Longest(rtable, dest, k)
  BY <1>4, EntryIsAt DEF LongestMatch, Longest, Index
<1>6. QED
  BY <1>1, <1>2, <1>3, <1>4, <1>5

\* qsort, given an order that is not transitive, still sorts a table whose
\* prefixes are close, by prefix and then by mask.
THEOREM CloseTableIsSorted == TableSpec => []CloseIsSorted
<1>1. TableInv => CloseIsSorted
  <2> SUFFICES ASSUME TableInv, sorted, Close,
                      NEW j \in Index, NEW k \in Index, j < k
               PROVE  \/ Entry(j).prefix < Entry(k).prefix
                      \/ Entry(j).prefix = Entry(k).prefix /\ Entry(j).mask < Entry(k).mask
    BY DEF CloseIsSorted
  <2>1. Ascending(rtable)
    BY TableViews, CloseAscends DEF TableInv
  <2>2. QED
    BY <2>1, EntryIsAt DEF Ascending, Before, Index
<1>2. QED
  BY <1>1, TableInvariant, PTL

\* With one mask and close prefixes the binary search finds the only route
\* that matches, and tells when there is none, but for destinations above all.
THEOREM UniformLookUpRight == TableSpec => []UniformLookUp
<1>1. TableInv => UniformLookUp
  <2> DEFINE masked == IF Index = {} THEN 0 ELSE dest & Entry(0).mask
             above == \A k \in Index : Entry(k).prefix < masked
  <2> SUFFICES ASSUME TableInv, Found, Uniform, Close, \E k \in Index : Entry(k).prefix > 0
               PROVE  IF LongestMatch # {} THEN best \in LongestMatch
                      ELSE best = IF above THEN WILD ELSE NoRoute
    BY DEF UniformLookUp
  <2>1. rtable \in Seq(Row) /\ dest \in Address /\ Len(rtable) \in Nat
    BY DEF TableInv
  <2>2. Settled(rtable, Masked(rtable, dest), best, WILD, NoRoute)
    BY TableViews DEF TableInv, LookedUp
  <2>3. Index # {} /\ 0 \in Index /\ Index = 0 .. Len(rtable) - 1
    <3>1. PICK k \in Index : Entry(k).prefix > 0
      OBVIOUS
    <3>2. Index = 0 .. Len(rtable) - 1
      BY DEF Index
    <3>3. 0 \in 0 .. Len(rtable) - 1
      BY <2>1, <3>1, <3>2
    <3>4. QED
      BY <3>2, <3>3
  <2>4. \A k \in Index : At(rtable, k).mask \in Address /\ At(rtable, k).mask \in Nat
                         /\ At(rtable, k).mask = At(rtable, 0).mask
    <3> SUFFICES ASSUME NEW k \in Index
                 PROVE  At(rtable, k).mask \in Address /\ At(rtable, k).mask \in Nat
                        /\ At(rtable, k).mask = At(rtable, 0).mask
      OBVIOUS
    <3>1. At(rtable, k) \in Row
      BY <2>1, <2>3, AtIsRow
    <3>2. At(rtable, k).mask \in Address
      BY <3>1 DEF Row
    <3>3. At(rtable, k).mask \in Nat
      BY <3>2, WordType DEF Address
    <3>4. At(rtable, k).mask = At(rtable, 0).mask
      BY <2>3, TableViews DEF UniformTable
    <3>5. QED
      BY <3>2, <3>3, <3>4
  <2>5. masked = Masked(rtable, dest)
    BY <2>1, <2>3, <2>4, AndCommutes, EntryIsAt DEF Masked
  <2>6. \A k \in Index : Hit(rtable, dest, k) <=> At(rtable, k).prefix = masked
    <3> SUFFICES ASSUME NEW k \in Index
                 PROVE  Hit(rtable, dest, k) <=> At(rtable, k).prefix = masked
      OBVIOUS
    <3>1. (dest & At(rtable, k).mask) = (At(rtable, 0).mask & dest)
      BY <2>1, <2>3, <2>4, AndCommutes
    <3>2. QED
      BY <2>5, <3>1 DEF Hit, Masked
  <2>7. \A k : k \in LongestMatch <=> k \in Index /\ At(rtable, k).prefix = masked
    <3>1. \A j, k \in Index : At(rtable, j).mask <= At(rtable, k).mask
      BY <2>3, <2>4
    <3>2. QED
      BY <2>3, <2>6, <3>1, TableViews DEF Longest
  <2>8. above <=> \A k \in Index : At(rtable, k).prefix < masked
    BY EntryIsAt
  <2> HIDE DEF masked, above
  <2>9. CASE LongestMatch # {}
    BY <2>2, <2>3, <2>5, <2>7, <2>9 DEF Settled
  <2>10. CASE LongestMatch = {}
    <3>1. ~ \E k \in 0 .. Len(rtable) - 1 : At(rtable, k).prefix = Masked(rtable, dest)
      BY <2>3, <2>5, <2>7, <2>10
    <3>2. best = IF above THEN WILD ELSE NoRoute
      BY <2>2, <2>3, <2>5, <2>8, <3>1 DEF Settled
    <3>3. QED
      BY <2>10, <3>2
  <2>11. QED
    BY <2>9, <2>10
<1>2. QED
  BY <1>1, TableInvariant, PTL

\* The scan after the binary search (route.c:77-81) leaves, of any table, the
\* last row of a prefix one of whose rows matches.
THEOREM FoundRouteSharesPrefix == TableSpec => []FoundSharesPrefix
<1>1. TableInv => FoundSharesPrefix
  <2> SUFFICES ASSUME TableInv, Found, best >= 0
               PROVE  /\ best \in Index
                      /\ \E k \in Index : Entry(k).prefix = Entry(best).prefix /\ Matches(k)
                      /\ Close => \A k \in Index :
                           Entry(k).prefix = Entry(best).prefix => Entry(k).mask <= Entry(best).mask
    BY DEF FoundSharesPrefix
  <2>1. /\ rtable \in Seq(Row) /\ Distinct(rtable) /\ Ordered(rtable)
        /\ GroupFound(rtable, dest, best) /\ Index = 0 .. Len(rtable) - 1
    BY DEF TableInv, Found, Index
  <2>2. /\ best \in Index
        /\ \E k \in Index : At(rtable, k).prefix = At(rtable, best).prefix /\ Hit(rtable, dest, k)
        /\ best + 1 < Len(rtable) => At(rtable, best + 1).prefix # At(rtable, best).prefix
    BY <2>1 DEF GroupFound
  <2>3. \E k \in Index : Entry(k).prefix = Entry(best).prefix /\ Matches(k)
    BY <2>2, TableViews, EntryIsAt
  <2>4. ASSUME Close, NEW k \in Index, Entry(k).prefix = Entry(best).prefix
        PROVE  Entry(k).mask <= Entry(best).mask
    <3>1. Ascending(rtable)
      BY <2>1, <2>4, TableViews, CloseAscends
    <3>2. At(rtable, k).prefix = At(rtable, best).prefix
      BY <2>4, EntryIsAt
    <3>3. At(rtable, k).mask <= At(rtable, best).mask
      BY <2>1, <2>2, <3>1, <3>2, LastOfPrefix
    <3>4. QED
      BY <3>3, EntryIsAt
  <2>5. QED
    BY <2>2, <2>3, <2>4
<1>2. QED
  BY <1>1, TableInvariant, PTL

\* Both together: all that the router may rely on when its look-up returns.
THEOREM RouterLookUpHolds == TableSpec => []LookUpHolds
BY UniformLookUpRight, FoundRouteSharesPrefix, PTL DEF LookUpHolds

\* The lab's linear search finds a longest match, in whatever order the table
\* is, but for the default route and that of a single host.
THEOREM LabFindsLongestMatch == TableSpec => []LabLongestMatch
<1>1. TableInv => LabLongestMatch
  <2> SUFFICES ASSUME TableInv, LabFound,
                      NEW k \in LongestMatch, 0 < Entry(k).mask, Entry(k).mask < WORD - 1
               PROVE  best \in LongestMatch
    BY DEF LabLongestMatch
  <2>1. Longest(rtable, dest, k) /\ 0 < At(rtable, k).mask /\ At(rtable, k).mask < WORD - 1
    BY TableViews, EntryIsAt
  <2>2. LabLookedUp(rtable, dest, best)
    BY DEF TableInv
  <2>3. Longest(rtable, dest, best)
    BY <2>1, <2>2 DEF LabLookedUp
  <2>4. QED
    BY <2>3, TableViews
<1>2. QED
  BY <1>1, TableInvariant, PTL

-----------------------------------------------------------------------------
(* The router.                                                             *)

\* A frame that has not outlived its ttl.
Mortal == {f \in Frame : f.hops + f.ttl <= MaxTtl}

\* A frame that may be in the queue of an interface's neighbour.
Right(i) ==
  {f \in Mortal :
     f.kind \in Transit =>
       /\ f.ok /\ f.ttl > 0 /\ RouteOf[f.dst] \in {i, STRAY}
       /\ f.dst \notin Misreads =>
            \E e \in DOMAIN InitialArp :
              InitialArp[e].ip = f.dst /\ InitialArp[e].mac = f.to}

QueueInv ==
  /\ inq \in [Iface -> Seq(Mortal)]
  /\ out \in [Iface -> Seq(Mortal)]
  /\ \A i \in Iface : out[i] \in Seq(Right(i))
  /\ m \in Mortal \cup {NoFrame} /\ interface \in Iface
  /\ injected \in 0 .. MaxFrames

\* An entry of the table: as in the file, or what a host's reply is misread as.
Known(k, e) ==
  \/ e \in Learnt
  \/ k <= Len(InitialArp) /\ e = InitialArp[k]

\* The table is that of the file, but for entries of misread addresses, and an
\* entry of the file keeps its address.
ArpInv ==
  /\ arp_table \in Seq([ip : Ip, mac : Ip]) /\ up \in BOOLEAN
  /\ \A j, k \in DOMAIN arp_table : arp_table[j].ip = arp_table[k].ip => j = k
  /\ Len(InitialArp) <= Len(arp_table)
  /\ \A k \in DOMAIN arp_table : Known(k, arp_table[k])

\* A frame of the interface i that the router reads: it came from a host, and an
\* ARP reply from one of that interface.
From(i, f) ==
  /\ f.from \in Ip /\ f.to = ROUTER
  /\ f.kind = "arp_reply" => f.src \in Hosts[i] /\ f.from = f.src

HandInv ==
  /\ m # NoFrame => From(interface, m)
  /\ \A i \in Iface : \A k \in DOMAIN inq[i] : From(i, inq[i][k])

IInv == QueueInv /\ ArpInv /\ HandInv

USE RouterAssumption DEF RouterAssumption

-----------------------------------------------------------------------------
\* What a queue keeps when its head is taken or a frame is added.
LEMMA TailIn == ASSUME NEW S, NEW q \in Seq(S), q # <<>>
                PROVE  /\ Head(q) \in S /\ Tail(q) \in Seq(S)
                       /\ Len(Tail(q)) = Len(q) - 1 /\ Len(q) >= 1
                       /\ Head(q) = q[1]
                       /\ \A k \in 1 .. Len(q) - 1 : Tail(q)[k] = q[k + 1]
OBVIOUS

LEMMA AppendIn == ASSUME NEW S, NEW q \in Seq(S), NEW e \in S
                  PROVE  /\ Append(q, e) \in Seq(S)
                         /\ Len(Append(q, e)) = Len(q) + 1
                         /\ Append(q, e)[Len(q) + 1] = e
                         /\ \A k \in 1 .. Len(q) : Append(q, e)[k] = q[k]
OBVIOUS

\* The names of the kinds are apart.
LEMMA Kinds == /\ \A k \in Icmp \cup Arp : k \notin Transit
               /\ Transit \cup Icmp \cup Arp = {"echo", "other", "echo_reply", "exceeded",
                                        "unreachable", "arp_request", "arp_reply"}
BY DEF Icmp, Arp, Transit

LEMMA InitOK == Init => IInv
<1> SUFFICES ASSUME Init PROVE IInv
  OBVIOUS
<1>1. QueueInv
  BY DEF Init, QueueInv, Iface
<1>2. ArpInv
  <2>1. \A k \in DOMAIN arp_table : Known(k, arp_table[k])
    BY DEF Init, Known
  <2> QED BY <2>1 DEF Init, ArpInv
<1>3. HandInv
  BY DEF Init, HandInv
<1> QED BY <1>1, <1>2, <1>3 DEF IInv

\* A turn that ends with a frame the neighbour of i may see.
LEMMA SendOK ==
  ASSUME IInv, NEW i \in Iface, NEW f \in Right(i), SendPacket(i, f)
  PROVE  QueueInv' /\ HandInv'
<1>1. f \in Mortal /\ out[i] \in Seq(Mortal) /\ out[i] \in Seq(Right(i))
  BY DEF Right, IInv, QueueInv
<1>2. out' = [out EXCEPT ![i] = Append(out[i], f)] /\ m' = NoFrame
      /\ UNCHANGED <<inq, interface, injected>>
  BY DEF SendPacket
<1>3. Append(out[i], f) \in Seq(Mortal) /\ Append(out[i], f) \in Seq(Right(i))
  BY <1>1, AppendIn
<1>4. out' \in [Iface -> Seq(Mortal)] /\ \A k \in Iface : out'[k] \in Seq(Right(k))
  BY <1>2, <1>3 DEF IInv, QueueInv
<1> QED BY <1>2, <1>4 DEF IInv, QueueInv, HandInv

LEMMA DropOK == ASSUME IInv, Drop PROVE QueueInv' /\ HandInv'
BY DEF IInv, Drop, QueueInv, HandInv

LEMMA ArpSame == ASSUME IInv, UNCHANGED arp_table, up' \in BOOLEAN PROVE ArpInv'
BY DEF IInv, ArpInv

LEMMA ArpStays == ASSUME IInv, UNCHANGED <<arp_table, up>> PROVE ArpInv'
BY ArpSame DEF IInv, ArpInv

\* Where the ICMP answers go: back to the interface the datagram came from.
LEMMA IcmpRight ==
  ASSUME IInv, IpInHand, NEW kind \in Icmp
  PROVE  IcmpTo(kind) \in Right(interface)
<1>1. m \in Mortal /\ m \in Frame /\ m.hops + m.ttl <= MaxTtl
  BY DEF IInv, QueueInv, IpInHand, Mortal
<1>2. m.from \in Ip /\ m.to = ROUTER
  BY DEF IInv, HandInv, From, IpInHand
<1>3. IcmpTo(kind) \in Frame
  BY <1>1, <1>2 DEF IcmpTo, Frame
<1>4. IcmpTo(kind).kind = kind /\ IcmpTo(kind).hops = m.hops /\ IcmpTo(kind).ttl = m.ttl
  BY DEF IcmpTo
<1>5. kind \notin Transit
  BY Kinds
<1> QED BY <1>1, <1>3, <1>4, <1>5 DEF Mortal, Right

\* A frame of the router's own, an ARP request or reply.
LEMMA ArpRight ==
  ASSUME NEW kind \in Arp, NEW src \in Ip, NEW dst \in Ip,
         NEW to \in Ip \cup {BROADCAST}, NEW i \in Iface
  PROVE  [kind |-> kind, src |-> src, dst |-> dst, ttl |-> 0, ok |-> FALSE,
          from |-> ROUTER, to |-> to, hops |-> 0] \in Right(i)
<1> DEFINE f == [kind |-> kind, src |-> src, dst |-> dst, ttl |-> 0, ok |-> FALSE,
                 from |-> ROUTER, to |-> to, hops |-> 0]
<1>1. f \in Frame
  BY DEF Frame
<1>2. f.kind \notin Transit /\ f.hops + f.ttl <= MaxTtl
  BY Kinds
<1> QED BY <1>1, <1>2 DEF Right, Mortal

\* The only entry of an address in a table without doubles.
LEMMA TheEntry ==
  ASSUME ArpInv, NEW ip \in Ip, Entries(ip) # {}
  PROVE  LET k == CHOOSE k \in Entries(ip) : \A j \in Entries(ip) : k <= j
         IN k \in DOMAIN arp_table /\ arp_table[k].ip = ip
<1>1. PICK k \in Entries(ip) : TRUE
  OBVIOUS
<1>2. DOMAIN arp_table \subseteq Int
  BY DEF ArpInv
<1>3. \A j \in Entries(ip) : j = k
  BY <1>1 DEF ArpInv, Entries
<1>4. \A j \in Entries(ip) : k <= j
  BY <1>1, <1>2, <1>3 DEF Entries
<1> QED BY <1>1, <1>4 DEF Entries

\* What a host's reply is misread as, and under which address.
LEMMA LearntTypes ==
  ASSUME NEW i \in Iface, NEW h \in Hosts[i]
  PROVE  /\ h \in Ip /\ Misread[h][i] \in Ip
         /\ [ip |-> Misread[h][i], mac |-> h] \in Learnt
         /\ Learnt \subseteq [ip : Ip, mac : Ip]
<1>1. \A j \in Iface : \A g \in Hosts[j] : g \in Ip /\ Misread[g][j] \in Ip
  OBVIOUS
<1>2. Learnt \subseteq [ip : Ip, mac : Ip]
  BY <1>1 DEF Learnt
<1>3. [ip |-> Misread[h][i], mac |-> h] \in Learnt
  BY DEF Learnt
<1> QED BY <1>1, <1>2, <1>3

\* A file's entry is an address and a hardware address.
LEMMA FileEntry == \A k \in DOMAIN InitialArp : InitialArp[k] \in [ip : Ip, mac : Ip]
<1> DEFINE E == [ip : Ip, mac : Ip]
<1>1. InitialArp \in Seq(E)
  OBVIOUS
<1> HIDE DEF E
<1>2. \A k \in DOMAIN InitialArp : InitialArp[k] \in E
  BY <1>1
<1> QED BY <1>2 DEF E

\* An entry of the table is an address and a hardware address.
LEMMA TableEntry ==
  ASSUME ArpInv
  PROVE  \A k \in DOMAIN arp_table : arp_table[k] \in [ip : Ip, mac : Ip]
<1> DEFINE E == [ip : Ip, mac : Ip]
<1>1. arp_table \in Seq(E)
  BY DEF ArpInv
<1> HIDE DEF E
<1>2. \A k \in DOMAIN arp_table : arp_table[k] \in E
  BY <1>1
<1> QED BY <1>2 DEF E

\* What is forwarded is right for every interface its route allows.
LEMMA ForwardRight ==
  ASSUME IInv, Forwardable, NEW i \in Iface, RouteOf[m.dst] \in {i, STRAY}
  PROVE  [m EXCEPT !.ttl = @ - 1, !.to = get_arp_entry(m.dst).mac, !.hops = @ + 1]
           \in Right(i)
<1> DEFINE e == CHOOSE k \in Entries(m.dst) : \A j \in Entries(m.dst) : k <= j
           f == [m EXCEPT !.ttl = @ - 1, !.to = get_arp_entry(m.dst).mac, !.hops = @ + 1]
<1>1. m \in Frame /\ m.hops + m.ttl <= MaxTtl /\ m.ok /\ m.ttl > 1
  BY DEF IInv, QueueInv, Forwardable, Transitable, IpInHand, Mortal
<1>2. m.dst \in Ip /\ m.ttl \in Nat /\ m.hops \in Nat /\ m.ttl <= MaxTtl
  BY <1>1 DEF Frame
<1>3. e \in DOMAIN arp_table /\ arp_table[e].ip = m.dst
  BY <1>2, TheEntry DEF IInv, Forwardable
<1>4. get_arp_entry(m.dst) = arp_table[e] /\ arp_table[e].mac \in Ip
  BY <1>3, TableEntry DEF get_arp_entry, IInv
<1>5. m.dst \notin Misreads => e \in DOMAIN InitialArp /\ arp_table[e] = InitialArp[e]
  <2> SUFFICES ASSUME m.dst \notin Misreads
               PROVE  e \in DOMAIN InitialArp /\ arp_table[e] = InitialArp[e]
    OBVIOUS
  <2>1. arp_table[e] \notin Learnt
    BY <1>3 DEF Misreads
  <2>2. e <= Len(InitialArp) /\ arp_table[e] = InitialArp[e]
    BY <1>3, <2>1 DEF IInv, ArpInv, Known
  <2>3. e \in 1 .. Len(arp_table)
    BY <1>3 DEF IInv, ArpInv
  <2> QED BY <2>2, <2>3
<1>6. f.ttl = m.ttl - 1 /\ f.hops = m.hops + 1 /\ f.to = arp_table[e].mac
      /\ f.ok = m.ok /\ f.dst = m.dst
  BY <1>1, <1>4 DEF Frame
<1>7. m.ttl - 1 \in 0 .. MaxTtl /\ m.hops + 1 \in Nat
  BY <1>1, <1>2
<1>8. f \in Frame
  BY <1>1, <1>4, <1>7 DEF Frame
<1>9. f.hops + f.ttl <= MaxTtl /\ f.ttl > 0
  BY <1>1, <1>2, <1>6
<1> HIDE DEF f, e
<1>10. f \in Right(i)
  <2>1. f \in Mortal
    BY <1>8, <1>9 DEF Mortal
  <2>2. RouteOf[f.dst] \in {i, STRAY} /\ f.ok /\ f.ttl > 0
    BY <1>1, <1>6, <1>9
  <2>3. f.dst \notin Misreads =>
          \E k \in DOMAIN InitialArp : InitialArp[k].ip = f.dst /\ InitialArp[k].mac = f.to
    BY <1>3, <1>5, <1>6
  <2> QED BY <2>1, <2>2, <2>3 DEF Right
<1> QED BY <1>10 DEF f

\* A misread reply adds its entry once, or overwrites what its address has.
LEMMA UpdateOK ==
  ASSUME IInv, NEW i \in Iface, NEW mac \in Hosts[i], update_arp_table(Misread[mac][i], mac)
  PROVE  ArpInv'
<1> DEFINE ip == Misread[mac][i]
           e == CHOOSE k \in Entries(ip) : \A j \in Entries(ip) : k <= j
           new == [ip |-> ip, mac |-> mac]
           n == Len(arp_table)
<1>1. ArpInv
  BY DEF IInv
<1>2. new \in Learnt /\ new \in [ip : Ip, mac : Ip] /\ new.ip = ip /\ ip \in Ip /\ mac \in Ip
  BY LearntTypes
<1>3. CASE Entries(ip) = {}
  <2>1. arp_table' = Append(arp_table, new) /\ up' \in BOOLEAN
    BY <1>3 DEF update_arp_table
  <2>2. /\ arp_table' \in Seq([ip : Ip, mac : Ip]) /\ Len(arp_table') = n + 1
        /\ arp_table'[n + 1] = new
        /\ \A k \in 1 .. n : arp_table'[k] = arp_table[k]
    <3> HIDE DEF new
    <3> QED BY <1>1, <1>2, <2>1, AppendIn DEF ArpInv
  <2>3. \A k \in 1 .. n : arp_table[k].ip # ip
    BY <1>1, <1>3 DEF ArpInv, Entries
  <2>4. DOMAIN arp_table = 1 .. n /\ DOMAIN arp_table' = 1 .. n + 1 /\ n \in Nat
    BY <1>1, <2>2 DEF ArpInv
  <2> HIDE DEF new, ip
  <2>5. \A j, k \in DOMAIN arp_table' : arp_table'[j].ip = arp_table'[k].ip => j = k
    <3>1. \A j, k \in 1 .. n : arp_table[j].ip = arp_table[k].ip => j = k
      BY <1>1, <2>4 DEF ArpInv
    <3> HIDE DEF n
    <3>2. \A k \in 1 .. n + 1 : k \in 1 .. n \/ k = n + 1
      BY <2>4
    <3> QED BY <1>2, <2>2, <2>3, <2>4, <3>1, <3>2
  <2>6. \A k \in DOMAIN arp_table' : Known(k, arp_table'[k])
    <3>1. \A k \in 1 .. n : Known(k, arp_table[k])
      BY <1>1, <2>4 DEF ArpInv
    <3>2. Known(n + 1, new)
      BY <1>2 DEF Known
    <3> HIDE DEF n
    <3> QED BY <2>2, <2>4, <3>1, <3>2
  <2>7. Len(InitialArp) <= Len(arp_table')
    BY <1>1, <2>2, <2>4 DEF ArpInv
  <2> QED BY <2>1, <2>2, <2>5, <2>6, <2>7 DEF ArpInv
<1>4. CASE Entries(ip) # {}
  <2>1. e \in DOMAIN arp_table /\ arp_table[e].ip = ip
    BY <1>1, <1>2, <1>4, TheEntry
  <2>2. arp_table' = [arp_table EXCEPT ![e].mac = mac] /\ up' \in BOOLEAN
    BY <1>1, <1>4 DEF update_arp_table, ArpInv
  <2>3. arp_table[e] \in [ip : Ip, mac : Ip]
    BY <1>1, <2>1, TableEntry
  <2> HIDE DEF e
  <2>4. [arp_table[e] EXCEPT !.mac = mac] = new
    <3> DEFINE r == [arp_table[e] EXCEPT !.mac = mac]
    <3>1. r \in [ip : Ip, mac : Ip] /\ r.ip = arp_table[e].ip /\ r.mac = mac
      BY <1>2, <2>3
    <3> HIDE DEF r
    <3>2. r = [ip |-> r.ip, mac |-> r.mac]
      BY <3>1
    <3> QED BY <2>1, <3>1, <3>2 DEF r
  <2>5. arp_table' = [arp_table EXCEPT ![e] = new]
    BY <2>2, <2>4
  <2> HIDE DEF new, ip
  <2>6. arp_table' \in Seq([ip : Ip, mac : Ip]) /\ Len(arp_table') = n
    <3> DEFINE E == [ip : Ip, mac : Ip]
    <3>1. arp_table \in Seq(E) /\ new \in E
      BY <1>1, <1>2 DEF ArpInv
    <3> HIDE DEF E
    <3>2. arp_table' \in Seq(E) /\ Len(arp_table') = n
      BY <2>1, <2>5, <3>1
    <3> QED BY <3>2 DEF E
  <2>7. DOMAIN arp_table' = DOMAIN arp_table
        /\ \A k \in DOMAIN arp_table : arp_table'[k] = IF k = e THEN new ELSE arp_table[k]
    BY <1>1, <2>1, <2>5 DEF ArpInv
  <2>8. \A k \in DOMAIN arp_table : arp_table'[k].ip = arp_table[k].ip
    BY <1>2, <2>1, <2>7
  <2>9. \A j, k \in DOMAIN arp_table' : arp_table'[j].ip = arp_table'[k].ip => j = k
    BY <1>1, <2>7, <2>8 DEF ArpInv
  <2>10. \A k \in DOMAIN arp_table' : Known(k, arp_table'[k])
    BY <1>1, <1>2, <2>7 DEF ArpInv, Known
  <2> QED BY <1>1, <2>2, <2>6, <2>9, <2>10 DEF ArpInv
<1> QED BY <1>3, <1>4

-----------------------------------------------------------------------------
\* Every way a turn of the loop may go.
LEMMA HandleOK == ASSUME IInv, Handle PROVE IInv'
<1>1. CASE HandleArpReply
  <2>1. m.src \in Hosts[interface] /\ m.from = m.src /\ interface \in Iface
    BY <1>1 DEF IInv, HandInv, From, QueueInv, HandleArpReply
  <2>2. ArpInv'
    <3>1. CASE update_arp_table(Misread[m.src][interface], m.src)
      BY <2>1, <3>1, UpdateOK
    <3>2. CASE UNCHANGED <<arp_table, up>>
      BY <3>2, ArpSame DEF IInv, ArpInv
    <3> QED BY <1>1, <2>1, <3>1, <3>2 DEF HandleArpReply
  <2> QED BY <1>1, <2>2, DropOK DEF HandleArpReply, IInv
<1>2. CASE HandleArpRequest
  <2>1. m.from \in Ip /\ m.src \in Ip /\ interface \in Iface
    BY <1>2 DEF IInv, HandInv, From, HandleArpRequest, QueueInv, Mortal, Frame
  <2>2. [kind |-> "arp_reply", src |-> MyIp[interface], dst |-> m.src, ttl |-> 0,
         ok |-> FALSE, from |-> ROUTER, to |-> m.from, hops |-> 0] \in Right(interface)
    BY <2>1, ArpRight DEF Arp
  <2> QED BY <1>2, <2>1, <2>2, SendOK, DropOK, ArpStays DEF HandleArpRequest, IInv
<1>3. interface \in Iface
  BY DEF IInv, QueueInv
<1>4. CASE EchoReply
  <2>1. IcmpTo("echo_reply") \in Right(interface)
    BY <1>4, IcmpRight DEF EchoReply, Icmp
  <2> QED BY <1>3, <1>4, <2>1, SendOK, ArpStays DEF EchoReply, IInv
<1>5. CASE WrongChecksum
  BY <1>5, DropOK, ArpStays DEF WrongChecksum, IInv
<1>6. CASE TimeExceeded
  <2>1. IcmpTo("exceeded") \in Right(interface)
    BY <1>6, IcmpRight DEF TimeExceeded, Transitable, Icmp
  <2> QED BY <1>3, <1>6, <2>1, SendOK, ArpStays DEF TimeExceeded, IInv
<1>7. CASE DestUnreachable
  <2>1. IcmpTo("unreachable") \in Right(interface)
    BY <1>7, IcmpRight DEF DestUnreachable, Transitable, Icmp
  <2> QED BY <1>3, <1>7, <2>1, SendOK, ArpStays DEF DestUnreachable, IInv
<1>8. CASE ArpMiss
  <2>1. m.dst \in Ip
    BY <1>8 DEF ArpMiss, Transitable, IpInHand, IInv, QueueInv, Mortal, Frame
  <2>2. [kind |-> "arp_request", src |-> MyIp[interface], dst |-> m.dst, ttl |-> 0,
         ok |-> FALSE, from |-> ROUTER, to |-> BROADCAST, hops |-> 0] \in Right(interface)
    BY <1>3, <2>1, ArpRight DEF Arp
  <2> QED BY <1>3, <1>8, <2>2, SendOK, ArpStays DEF ArpMiss, IInv
<1>9. CASE Forward
  <2> DEFINE f == [m EXCEPT !.ttl = @ - 1, !.to = get_arp_entry(m.dst).mac, !.hops = @ + 1]
  <2>1. Forwardable /\ SendByRoute(f)
    BY <1>9 DEF Forward
  <2>2. CASE RouteOf[m.dst] = STRAY /\ up' = FALSE /\ Drop /\ UNCHANGED arp_table
    BY <2>2, DropOK, ArpSame DEF IInv
  <2>3. ASSUME NEW i \in Iface, RouteOf[m.dst] \in {i, STRAY}, SendPacket(i, f),
               UNCHANGED <<arp_table, up>>
        PROVE  IInv'
    <3>1. f \in Right(i)
      BY <2>1, <2>3, ForwardRight
    <3> HIDE DEF f
    <3> QED BY <2>3, <3>1, SendOK, ArpStays DEF IInv
  <2> HIDE DEF f
  <2> QED BY <2>1, <2>2, <2>3 DEF SendByRoute
<1> QED BY <1>1, <1>2, <1>4, <1>5, <1>6, <1>7, <1>8, <1>9 DEF Handle

LEMMA GetPacketOK == ASSUME IInv, get_packet PROVE IInv'
<1>1. PICK i \in Iface : /\ inq[i] # <<>> /\ m' = Head(inq[i]) /\ interface' = i
                         /\ inq' = [inq EXCEPT ![i] = Tail(inq[i])]
  BY DEF get_packet
<1>2. UNCHANGED <<arp_table, out, up, injected>>
  BY DEF get_packet
<1>3. inq[i] \in Seq(Mortal)
  BY DEF IInv, QueueInv
<1>4. /\ Head(inq[i]) \in Mortal /\ Tail(inq[i]) \in Seq(Mortal)
      /\ Len(Tail(inq[i])) = Len(inq[i]) - 1 /\ Len(inq[i]) >= 1
      /\ Head(inq[i]) = inq[i][1]
      /\ \A k \in 1 .. Len(inq[i]) - 1 : Tail(inq[i])[k] = inq[i][k + 1]
  BY <1>1, <1>3, TailIn
<1>5. QueueInv'
  BY <1>1, <1>2, <1>4 DEF IInv, QueueInv
<1>6. \A k \in DOMAIN inq[i] : From(i, inq[i][k])
  BY DEF IInv, HandInv
<1>7. \A k \in DOMAIN Tail(inq[i]) : From(i, Tail(inq[i])[k])
  BY <1>3, <1>4, <1>6
<1>8. From(i, m')
  BY <1>1, <1>3, <1>4, <1>6
<1>9. HandInv'
  <2>1. \A j \in Iface : \A k \in DOMAIN inq'[j] : From(j, inq'[j][k])
    BY <1>1, <1>7 DEF IInv, QueueInv, HandInv
  <2> QED BY <1>1, <1>8, <2>1 DEF HandInv
<1> QED BY <1>2, <1>5, <1>9, ArpStays DEF IInv

\* A frame that arrives from a host or comes back.
LEMMA ArriveOK ==
  ASSUME IInv, NEW i \in Iface, NEW f \in Mortal, From(i, f),
         inq' = [inq EXCEPT ![i] = Append(@, f)], UNCHANGED <<m, interface>>
  PROVE  inq' \in [Iface -> Seq(Mortal)] /\ HandInv'
<1>1. inq[i] \in Seq(Mortal) /\ inq'[i] = Append(inq[i], f)
  BY DEF IInv, QueueInv
<1>2. /\ Append(inq[i], f) \in Seq(Mortal) /\ Len(Append(inq[i], f)) = Len(inq[i]) + 1
      /\ Append(inq[i], f)[Len(inq[i]) + 1] = f
      /\ \A k \in 1 .. Len(inq[i]) : Append(inq[i], f)[k] = inq[i][k]
  BY <1>1, AppendIn
<1>3. inq' \in [Iface -> Seq(Mortal)]
  BY <1>2 DEF IInv, QueueInv
<1>4. \A k \in DOMAIN inq'[i] : From(i, inq'[i][k])
  BY <1>1, <1>2 DEF IInv, HandInv
<1>5. \A j \in Iface : \A k \in DOMAIN inq'[j] : From(j, inq'[j][k])
  BY <1>4 DEF IInv, QueueInv, HandInv
<1> QED BY <1>3, <1>5 DEF IInv, HandInv

LEMMA HostSendOK == ASSUME IInv, NEW i \in Iface, HostSend(i) PROVE IInv'
<1>1. PICK f \in Datagrams(i) \cup ArpFrames(i) : inq' = [inq EXCEPT ![i] = Append(@, f)]
  BY DEF HostSend
<1>2. f \in Mortal /\ From(i, f)
  <2>1. CASE f \in Datagrams(i)
    <3>1. PICK h \in Hosts[i] :
            f \in [kind : Transit, src : {h}, dst : Ip, ttl : 1 .. MaxTtl, ok : BOOLEAN,
                   from : {h}, to : {ROUTER}, hops : {0}]
      BY <2>1 DEF Datagrams
    <3>2. h \in Ip /\ f.hops = 0 /\ f.ttl \in 1 .. MaxTtl /\ f.kind \in Transit
      BY <3>1
    <3>3. f \in Frame
      BY <3>1, <3>2 DEF Frame
    <3>4. f.hops + f.ttl <= MaxTtl
      BY <3>2
    <3>5. f.kind # "arp_reply"
      BY <3>2 DEF Transit
    <3> QED BY <3>1, <3>2, <3>3, <3>4, <3>5 DEF Mortal, From
  <2>2. CASE f \in ArpFrames(i)
    <3>1. PICK h \in Hosts[i] :
            f \in [kind : Arp, src : {h}, dst : {MyIp[i]}, ttl : {0}, ok : {TRUE},
                   from : {h}, to : {ROUTER}, hops : {0}]
      BY <2>2 DEF ArpFrames
    <3>2. h \in Ip /\ MyIp[i] \in Ip /\ f.hops = 0 /\ f.ttl = 0
      BY <3>1
    <3>3. /\ f.kind \in Transit \cup Icmp \cup Arp /\ f.src \in Ip /\ f.dst \in Ip
          /\ f.ttl \in 0 .. MaxTtl /\ f.from \in Ip \cup {ROUTER}
          /\ f.to \in Ip \cup {ROUTER, BROADCAST} /\ f.hops \in Nat
      BY <3>1, <3>2
    <3>4. f.ok \in BOOLEAN
      BY <3>1
    <3>5. f = [kind |-> f.kind, src |-> f.src, dst |-> f.dst, ttl |-> f.ttl, ok |-> f.ok,
               from |-> f.from, to |-> f.to, hops |-> f.hops]
      BY <3>1
    <3>6. f \in Frame
      BY <3>3, <3>4, <3>5 DEF Frame
    <3>7. f.hops + f.ttl <= MaxTtl
      BY <3>2
    <3>8. From(i, f)
      BY <3>1, <3>2 DEF From
    <3> QED BY <3>6, <3>7, <3>8 DEF Mortal
  <2> QED BY <1>1, <2>1, <2>2
<1>3. UNCHANGED <<m, interface, arp_table, out, up>> /\ injected' \in 0 .. MaxFrames
  BY DEF HostSend, IInv, QueueInv
<1>4. inq' \in [Iface -> Seq(Mortal)] /\ HandInv'
  BY <1>1, <1>2, <1>3, ArriveOK
<1> QED BY <1>3, <1>4, ArpStays DEF IInv, QueueInv

LEMMA TakeOK == ASSUME IInv, NEW i \in Iface, Take(i) PROVE IInv'
<1>1. out[i] \in Seq(Mortal) /\ out[i] \in Seq(Right(i)) /\ out[i] # <<>>
  BY DEF IInv, QueueInv, Take
<1>2. /\ Head(out[i]) \in Mortal
      /\ Tail(out[i]) \in Seq(Mortal) /\ Tail(out[i]) \in Seq(Right(i))
  BY <1>1, TailIn
<1>3. out' = [out EXCEPT ![i] = Tail(out[i])] /\ UNCHANGED <<m, interface, arp_table, up, injected>>
  BY DEF Take
<1>4. out' \in [Iface -> Seq(Mortal)] /\ \A k \in Iface : out'[k] \in Seq(Right(k))
  BY <1>2, <1>3 DEF IInv, QueueInv
<1>5. inq' \in [Iface -> Seq(Mortal)] /\ HandInv'
  <2>1. CASE UNCHANGED inq
    BY <1>3, <2>1 DEF IInv, QueueInv, HandInv
  <2>2. CASE /\ Head(out[i]).kind \in Transit \cup Icmp
             /\ Head(out[i]).to \in Loops \cap Hosts[i]
             /\ inq' = [inq EXCEPT ![i] =
                  Append(@, [Head(out[i]) EXCEPT !.from = Head(out[i]).to, !.to = ROUTER])]
    <3> DEFINE f == [Head(out[i]) EXCEPT !.from = Head(out[i]).to, !.to = ROUTER]
    <3>1. f \in Mortal /\ From(i, f)
      <4>1. Head(out[i]) \in Frame /\ Head(out[i]).hops + Head(out[i]).ttl <= MaxTtl
        BY <1>2 DEF Mortal
      <4>2. Head(out[i]).to \in Ip
        BY <2>2
      <4>3. /\ f \in Frame /\ f.from \in Ip /\ f.to = ROUTER
            /\ f.kind = Head(out[i]).kind
        BY <4>1, <4>2 DEF Frame
      <4>4. f.hops = Head(out[i]).hops /\ f.ttl = Head(out[i]).ttl
        BY <4>1 DEF Frame
      <4>5. f.kind # "arp_reply"
        BY <2>2, <4>3 DEF Transit, Icmp
      <4> HIDE DEF f
      <4> QED BY <4>1, <4>3, <4>4, <4>5 DEF Mortal, From
    <3> QED
      <4> HIDE DEF f
      <4> QED BY <1>3, <2>2, <3>1, ArriveOK DEF f
  <2> QED BY <2>1, <2>2 DEF Take
<1> QED BY <1>3, <1>4, <1>5, ArpStays DEF IInv, QueueInv

\* The inductive invariant of the router: every queued frame is mortal and right
\* for its interface, every ARP entry is the file's or that of a misread reply.
THEOREM InvariantCorrect == Spec => []IInv
<1>1. Init => IInv
  BY InitOK
<1>2. ASSUME IInv, [Next]_vars PROVE IInv'
  <2>1. CASE UNCHANGED vars
    <3>1. QueueInv' /\ HandInv'
      BY <1>2, <2>1 DEF vars, IInv, QueueInv, HandInv
    <3>2. UNCHANGED <<arp_table, up>>
      BY <2>1 DEF vars
    <3> QED BY <1>2, <3>1, <3>2, ArpStays DEF IInv
  <2> QED BY <1>2, <2>1, GetPacketOK, HandleOK, HostSendOK, TakeOK DEF Next
<1> QED BY <1>1, <1>2, PTL DEF Spec

-----------------------------------------------------------------------------
\* Every frame is well formed and every variable in its domain.
THEOREM TypeCorrect == Spec => []TypeOK
<1>1. Mortal \subseteq Frame
  BY DEF Mortal
<1>2. \A q : q \in Seq(Mortal) => q \in Seq(Frame)
  BY <1>1
<1>3. IInv => TypeOK
  BY <1>1, <1>2 DEF IInv, QueueInv, ArpInv, TypeOK
<1> QED BY <1>3, InvariantCorrect, PTL

\* router.c 153-176: a datagram in a routing loop is forwarded fewer times
\* than its ttl.
THEOREM LoopsAlwaysDie == Spec => []LoopsDie
<1>1. ASSUME IInv, NEW f \in Held \cup Gone \cup InHand PROVE f \in Mortal
  <2>1. CASE f \in Held
    BY <2>1, <1>1 DEF Held, IInv, QueueInv
  <2>2. CASE f \in Gone
    BY <2>2, <1>1 DEF Gone, IInv, QueueInv
  <2>3. CASE f \in InHand
    BY <2>3, <1>1 DEF InHand, IInv, QueueInv
  <2> QED BY <1>1, <2>1, <2>2, <2>3
<1>2. IInv => LoopsDie
  BY <1>1 DEF LoopsDie, Mortal
<1> QED BY <1>2, InvariantCorrect, PTL

\* arp.c 50-66, with the addresses read at the wrong offsets: no address is
\* entered twice, and what is not of the file is one entry for each address
\* that a host's reply is misread as.
THEOREM ArpStaysIntact == Spec => []ArpIntact
<1>1. ASSUME ArpInv PROVE ArpIntact
  <2> DEFINE S == Len(InitialArp) + 1 .. Len(arp_table)
  <2>1. Len(InitialArp) \in Nat /\ Len(arp_table) \in Nat
        /\ DOMAIN arp_table = 1 .. Len(arp_table) /\ Len(InitialArp) <= Len(arp_table)
    BY <1>1 DEF ArpInv
  <2>2. \A k \in S : k \in DOMAIN arp_table /\ arp_table[k] \in Learnt
    BY <1>1, <2>1 DEF ArpInv, Known
  <2>3. Misreads \subseteq Ip
    <3>1. Learnt \subseteq [ip : Ip, mac : Ip]
      <4>1. \A i \in Iface : \A h \in Hosts[i] : h \in Ip /\ Misread[h][i] \in Ip
        OBVIOUS
      <4> QED BY <4>1 DEF Learnt
    <3> QED BY <3>1 DEF Misreads
  <2>4. IsFiniteSet(Misreads) /\ Cardinality(Misreads) \in Nat
    BY <2>3, FS_Subset, FS_CardinalityType
  <2>5. Cardinality(S) <= Cardinality(Misreads)
    <3> DEFINE g == [k \in S |-> arp_table[k].ip]
    <3>1. \A k \in S : arp_table[k].ip \in Misreads
      BY <2>2 DEF Misreads
    <3>2. \A j, k \in S : arp_table[j].ip = arp_table[k].ip => j = k
      BY <1>1, <2>2 DEF ArpInv
    <3>3. g \in Injection(S, Misreads)
      BY <3>1, <3>2 DEF Injection, IsInjective
    <3> HIDE DEF g, S
    <3> QED BY <2>4, <3>3, FS_Injection
  <2>6. Cardinality(S) = Len(arp_table) - Len(InitialArp)
    <3>1. Len(InitialArp) + 1 \in Int /\ Len(arp_table) \in Int
      BY <2>1
    <3>2. Cardinality(S) = IF Len(InitialArp) + 1 > Len(arp_table) THEN 0
                           ELSE Len(arp_table) - (Len(InitialArp) + 1) + 1
      BY <3>1, FS_Interval
    <3> QED BY <2>1, <3>2
  <2>7. Len(arp_table) <= Len(InitialArp) + Cardinality(Misreads)
    BY <2>1, <2>4, <2>5, <2>6
  <2> QED BY <1>1, <2>1, <2>7 DEF ArpInv, ArpIntact, Known
<1>2. IInv => ArpIntact
  BY <1>1 DEF IInv
<1> QED BY <1>2, InvariantCorrect, PTL

\* router.c 148-237: what is forwarded was intact, alive, and goes where the
\* route and the ARP table of its destination say, but for a look-up that ends
\* past the table and for an address that a host's reply is misread as.
THEOREM AlwaysForwardedRight == Spec => []ForwardedRight
<1>1. IInv => ForwardedRight
  <2> SUFFICES ASSUME IInv, NEW i \in Iface, NEW k \in DOMAIN out[i],
                      out[i][k].kind \in Transit
               PROVE  /\ out[i][k].ok /\ out[i][k].ttl > 0
                      /\ RouteOf[out[i][k].dst] \in {i, STRAY}
                      /\ out[i][k].dst \notin Misreads =>
                           \E e \in DOMAIN InitialArp : InitialArp[e].ip = out[i][k].dst
                                                     /\ InitialArp[e].mac = out[i][k].to
    BY DEF ForwardedRight
  <2>1. out[i] \in Seq(Right(i))
    BY DEF IInv, QueueInv
  <2>2. out[i][k] \in Right(i)
    BY <2>1
  <2> QED BY <2>2 DEF Right
<1> QED BY <1>1, InvariantCorrect, PTL
=============================================================================
