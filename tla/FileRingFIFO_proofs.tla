------------------------- MODULE FileRingFIFO_proofs -------------------------
(***************************************************************************)
(* An undisturbed FileRing implements RollingBuffer, for every ring size   *)
(* and number of records in a file.                                        *)
(***************************************************************************)
EXTENDS FileRingFIFO, FileRing_proofs, SequenceTheorems, WellFoundedInduction

R == num_records_in_file

-----------------------------------------------------------------------------
(* Slots *)

LEMMA Division ==
    ASSUME NEW m \in Nat \ {0}, NEW x \in Int
    PROVE  x % m \in 0..m-1 /\ x \div m \in Int /\ x = m * (x \div m) + (x % m)
OBVIOUS

LEMMA Quotient ==
    ASSUME NEW m \in Nat \ {0}, NEW x \in Nat
    PROVE  x \div m \in Nat
OBVIOUS

LEMMA AtLeastOnce ==
    ASSUME NEW m \in Nat \ {0}, NEW q \in Int, q >= 1
    PROVE  q * m >= m
OBVIOUS

LEMMA UniqueRemainder ==
    ASSUME NEW m \in Nat \ {0}, NEW q \in Int, NEW s \in Int, NEW r \in 0..m-1, NEW t \in 0..m-1,
           m * q + r = m * s + t
    PROVE  r = t
<1>1. m * (q - s) = t - r
  OBVIOUS
<1>2. CASE q - s >= 1
  <2>1. (q - s) * m >= m
    BY <1>2, AtLeastOnce
  <2> QED BY <1>1, <2>1
<1>3. CASE q - s <= -1
  <2>1. (s - q) * m >= m
    BY <1>3, AtLeastOnce
  <2>2. m * (q - s) = -((s - q) * m)
    OBVIOUS
  <2> QED BY <1>1, <2>1, <2>2
<1>4. CASE q = s
  BY <1>4
<1> QED BY <1>2, <1>3, <1>4

\* Two numbers have the same remainder if and only if it divides their difference.
LEMMA SameRemainder ==
    ASSUME NEW m \in Nat \ {0}, NEW x \in Int, NEW y \in Int
    PROVE  x % m = y % m <=> (x - y) % m = 0
<1> DEFINE p == x \div m
           q == y \div m
           z == (x - y) \div m
<1>1. /\ x % m \in 0..m-1 /\ p \in Int /\ x = m * p + (x % m)
      /\ y % m \in 0..m-1 /\ q \in Int /\ y = m * q + (y % m)
      /\ (x - y) % m \in 0..m-1 /\ z \in Int /\ x - y = m * z + ((x - y) % m)
  <2>1. x - y \in Int
    OBVIOUS
  <2> QED BY <2>1, Division
<1> HIDE DEF p, q, z
<1>2. ASSUME x % m = y % m PROVE (x - y) % m = 0
  <2>1. x - y = m * (p - q) + 0
    BY <1>1, <1>2
  <2>2. m * (p - q) + 0 = m * z + ((x - y) % m) /\ p - q \in Int /\ 0 \in 0..m-1
    BY <1>1, <2>1
  <2> QED BY <1>1, <2>2, UniqueRemainder
<1>3. ASSUME (x - y) % m = 0 PROVE x % m = y % m
  <2>1. m * (q + z) = m * q + m * z /\ m * q \in Int /\ m * z \in Int /\ m * p \in Int
    BY <1>1
  <2>2. m * (q + z) + (y % m) = m * p + (x % m) /\ q + z \in Int
    <3> DEFINE a == m * p
               b == m * q
               c == m * z
               r == x % m
               s == y % m
               e == m * (q + z)
    <3>1. /\ a \in Int /\ b \in Int /\ c \in Int /\ r \in Int /\ s \in Int
          /\ x = a + r /\ y = b + s /\ x - y = c + 0 /\ e = b + c
      BY <1>1, <1>3, <2>1
    <3>2. q + z \in Int
      BY <1>1
    <3> HIDE DEF a, b, c, r, s, e
    <3>3. e + s = a + r
      BY <3>1
    <3> QED BY <3>2, <3>3 DEF a, r, s, e
  <2> QED BY <1>1, <2>2, UniqueRemainder
<1> QED BY <1>2, <1>3

LEMMA NextSlot ==
    ASSUME NEW m \in Nat \ {0}, NEW x \in Nat
    PROVE  ((x % m) + 1) % m = (x + 1) % m
<1>1. x % m \in 0..m-1 /\ x \div m \in Int /\ x = m * (x \div m) + (x % m)
  BY Division
<1> DEFINE d == x \div m
           r == x % m
<1>2. (r + 1) - (x + 1) = m * (-d) + 0 /\ (r + 1) - (x + 1) \in Int /\ -d \in Int
  BY <1>1
<1>3. ((r + 1) - (x + 1)) % m = 0
  <2> DEFINE y == (r + 1) - (x + 1)
  <2>1. y \in Int /\ y = m * (-d) + 0
    BY <1>2
  <2> HIDE DEF y, d
  <2>2. y % m \in 0..m-1 /\ y \div m \in Int /\ y = m * (y \div m) + (y % m)
    BY <2>1, Division
  <2>3. m * (-d) + 0 = m * (y \div m) + (y % m) /\ 0 \in 0..m-1
    BY <2>1, <2>2
  <2>4. y % m = 0
    BY <1>2, <2>2, <2>3, UniqueRemainder
  <2> QED BY <2>4 DEF y
<1>4. r + 1 \in Int /\ x + 1 \in Int
  BY <1>1
<1> QED BY <1>3, <1>4, SameRemainder

\* A multiple of m leaves no remainder.
LEMMA Multiple ==
    ASSUME NEW m \in Nat \ {0}, NEW q \in Int, NEW x \in Int, x = m * q
    PROVE  x % m = 0
<1>1. x % m \in 0..m-1 /\ x \div m \in Int /\ x = m * (x \div m) + (x % m)
  BY Division
<1>2. m * (x \div m) + (x % m) = m * q + 0 /\ 0 \in 0..m-1
  BY <1>1
<1> QED BY <1>1, <1>2, UniqueRemainder

-----------------------------------------------------------------------------
(* Files use every Rth slot, round and round *)

\* The number of files after which they are back at the slot of the first.
Periods(n) == {p \in Nat \ {0} : (p * R) % n = 0}

Period(n) == CHOOSE p \in Periods(n) : \A q \in Periods(n) : p <= q

LEMMA PeriodProperties ==
    ASSUME NEW n \in Nat \ {0}
    PROVE  /\ Period(n) \in 1..n /\ (Period(n) * R) % n = 0
           /\ \A d \in 1..Period(n)-1 : (d * R) % n # 0
<1>1. n \in Periods(n)
  <2>1. n * R \in Int /\ R \in Int
    BY RecordsAssumption DEF R
  <2>2. (n * R) % n = 0
    BY <2>1, Multiple
  <2> QED BY <2>2 DEF Periods
<1>2. \E p \in Periods(n) : \A q \in Periods(n) : ~ (<<q, p>> \in OpToRel(<, Nat))
  <2>1. Periods(n) \subseteq Nat /\ Periods(n) # {}
    BY <1>1 DEF Periods
  <2> QED BY <2>1, NatLessThanWellFounded, WFMin
<1>3. \E p \in Periods(n) : \A q \in Periods(n) : p <= q
  <2>1. PICK p \in Periods(n) : \A q \in Periods(n) : ~ (<<q, p>> \in OpToRel(<, Nat))
    BY <1>2
  <2>2. ASSUME NEW q \in Periods(n) PROVE p <= q
    <3>1. p \in Nat /\ q \in Nat
      BY <2>1 DEF Periods
    <3>2. ~(q < p)
      BY <2>1, <3>1, Zenon DEF OpToRel
    <3> QED BY <3>1, <3>2
  <2> QED BY <2>1, <2>2
<1>4. Period(n) \in Periods(n) /\ \A q \in Periods(n) : Period(n) <= q
  BY <1>3 DEF Period
<1>5. \A d \in 1..Period(n)-1 : (d * R) % n # 0
  <2> SUFFICES ASSUME NEW d \in 1..Period(n)-1, (d * R) % n = 0 PROVE FALSE
    OBVIOUS
  <2>1. d \in Periods(n) /\ d < Period(n)
    BY <1>4 DEF Periods
  <2> QED BY <1>4, <2>1 DEF Periods
<1> QED BY <1>1, <1>4, <1>5 DEF Periods

\* Two files that are not farther apart than that use the same slot only if
\* they are just as far apart.
LEMMA SameSlot ==
    ASSUME NEW n \in Nat \ {0}, NEW j \in Nat, NEW k \in Nat, j < k, k - j <= Period(n)
    PROVE  (j * R) % n = (k * R) % n <=> k - j = Period(n)
<1>1. R \in Int /\ j * R \in Int /\ k * R \in Int
  BY RecordsAssumption DEF R
<1>2. (k * R) - (j * R) = (k - j) * R
  BY <1>1
<1>3. (k * R) % n = (j * R) % n <=> ((k - j) * R) % n = 0
  <2>1. (k * R) % n = (j * R) % n <=> ((k * R) - (j * R)) % n = 0
    BY <1>1, SameRemainder
  <2> QED BY <1>2, <2>1
<1>4. k - j = Period(n) \/ k - j \in 1..Period(n)-1
  BY PeriodProperties
<1> QED BY <1>3, <1>4, PeriodProperties

\* The slots used are as many.
LEMMA UsedSlotsPeriod ==
    ASSUME NEW n \in Nat \ {0}
    PROVE  Cardinality(UsedSlots(n)) = Period(n)
<1> DEFINE P == Period(n)
           f == [k \in 0..P-1 |-> (k * R) % n]
<1>1. P \in 1..n /\ (P * R) % n = 0 /\ R \in Int
  BY PeriodProperties, RecordsAssumption DEF R
<1> HIDE DEF P
<1>2. ASSUME NEW k \in 0..n-1
      PROVE  \E i \in 0..P-1 : (i * R) % n = (k * R) % n
  <2> DEFINE i == k % P
             q == k \div P
             c == (P * R) \div n
  <2>1. i \in 0..P-1 /\ q \in Int /\ k = P * q + i
    BY <1>1, Division
  <2>2. P * R \in Int /\ c \in Int /\ P * R = n * c
    <3>1. P * R \in Int
      BY <1>1
    <3>2. c \in Int /\ P * R = n * c + ((P * R) % n)
      BY <3>1, Division
    <3>3. n * c \in Int
      BY <3>2
    <3> QED BY <1>1, <3>1, <3>2, <3>3
  <2> HIDE DEF i, q, c
  <2>3. (k * R) - (i * R) = n * (c * q)
    <3>1. (k * R) - (i * R) = (k - i) * R
      BY <1>1, <2>1
    <3>2. k - i = P * q
      BY <2>1, <1>1
    <3>3. (P * q) * R = (P * R) * q
      BY <1>1, <2>1
    <3>4. (n * c) * q = n * (c * q)
      BY <2>1, <2>2
    <3> QED BY <2>2, <3>1, <3>2, <3>3, <3>4
  <2>4. c * q \in Int /\ k * R \in Int /\ i * R \in Int
    BY <1>1, <2>1, <2>2
  <2>5. ((k * R) - (i * R)) % n = 0
    BY <2>3, <2>4, Multiple
  <2>6. (k * R) % n = (i * R) % n
    BY <2>4, <2>5, SameRemainder
  <2> QED BY <2>1, <2>6
<1>3. UsedSlots(n) = {(k * R) % n : k \in 0..n-1}
  BY DEF UsedSlots, R
<1>4. f \in Surjection(0..P-1, UsedSlots(n))
  <2>1. 0..P-1 \subseteq 0..n-1
    BY <1>1
  <2>2. f \in [0..P-1 -> UsedSlots(n)]
    BY <1>3, <2>1
  <2>3. \A u \in UsedSlots(n) : \E i \in 0..P-1 : f[i] = u
    BY <1>2, <1>3
  <2> QED BY <2>2, <2>3 DEF Surjection
<1>5. f \in Injection(0..P-1, UsedSlots(n))
  <2>1. ASSUME NEW i \in 0..P-1, NEW k \in 0..P-1, f[i] = f[k]
        PROVE  i = k
    <3>1. (i * R) % n = (k * R) % n /\ i \in Nat /\ k \in Nat
      BY <2>1
    <3>2. CASE i < k
      <4>1. k - i <= P /\ k - i # P
        BY <1>1
      <4> QED BY <3>1, <3>2, <4>1, SameSlot DEF P
    <3>3. CASE k < i
      <4>1. i - k <= P /\ i - k # P
        BY <1>1
      <4> QED BY <3>1, <3>3, <4>1, SameSlot DEF P
    <3> QED BY <3>1, <3>2, <3>3
  <2>2. f \in [0..P-1 -> UsedSlots(n)]
    BY <1>4 DEF Surjection
  <2>3. \A i, k \in 0..P-1 : f[i] = f[k] => i = k
    BY <2>1
  <2> HIDE DEF f
  <2> QED BY <2>2, <2>3 DEF Injection, IsInjective
<1>6. f \in Bijection(0..P-1, UsedSlots(n))
  BY <1>4, <1>5 DEF Bijection
<1>7. IsFiniteSet(0..P-1) /\ Cardinality(0..P-1) = P
  BY <1>1, FS_Interval
<1>8. Cardinality(0..P-1) = Cardinality(UsedSlots(n))
  BY <1>6, <1>7, FS_Bijection DEF ExistsBijection
<1> QED BY <1>7, <1>8 DEF P

-----------------------------------------------------------------------------
(* The files and their order *)

\* The name of the file after j others, and those of the files from a up to b.
Name(j) == 1 + j * R

Consecutive(a, b) == {Name(j) : j \in a..b-1}

Queue(a, b) == [i \in 1..b-a |-> Name(a + i - 1)]

LEMMA NameType ==
    ASSUME NEW j \in Nat
    PROVE  Name(j) \in Nat \ {0} /\ Name(j + 1) = Name(j) + R
<1>1. R \in Nat \ {0}
  BY RecordsAssumption DEF R
<1>2. j * R \in Nat /\ (j + 1) * R = j * R + R
  BY <1>1
<1> QED BY <1>1, <1>2 DEF Name

LEMMA NameOrder ==
    ASSUME NEW i \in Nat, NEW j \in Nat
    PROVE  Name(i) < Name(j) <=> i < j
<1>1. R \in Nat \ {0}
  BY RecordsAssumption DEF R
<1>2. ASSUME NEW k \in Nat, NEW l \in Nat, k < l
      PROVE  k * R < l * R
  <2>1. (l - k) * R >= R
    BY <1>1, <1>2, AtLeastOnce
  <2>2. l * R = k * R + (l - k) * R
    BY <1>1
  <2> QED BY <1>1, <2>1, <2>2
<1>3. i * R \in Nat /\ j * R \in Nat
  BY <1>1
<1>4. CASE i < j
  BY <1>2, <1>3, <1>4 DEF Name
<1>5. CASE j < i
  <2>1. j * R < i * R
    BY <1>2, <1>5
  <2> QED BY <1>3, <1>5, <2>1 DEF Name
<1>6. CASE i = j
  BY <1>3, <1>6 DEF Name
<1> QED BY <1>4, <1>5, <1>6

LEMMA ConsecutiveSize ==
    ASSUME NEW a \in Nat, NEW b \in Nat, a <= b
    PROVE  IsFiniteSet(Consecutive(a, b)) /\ Cardinality(Consecutive(a, b)) = b - a
<1> DEFINE f == [j \in a..b-1 |-> Name(j)]
<1>1. f \in Surjection(a..b-1, Consecutive(a, b))
  BY DEF Surjection, Consecutive
<1>2. \A i, j \in a..b-1 : f[i] = f[j] => i = j
  <2> SUFFICES ASSUME NEW i \in a..b-1, NEW j \in a..b-1, Name(i) = Name(j) PROVE i = j
    OBVIOUS
  <2>1. i \in Nat /\ j \in Nat
    OBVIOUS
  <2>2. Name(i) \in Nat
    BY <2>1, NameType
  <2> QED BY <2>1, <2>2, NameOrder
<1>3. f \in [a..b-1 -> Consecutive(a, b)]
  BY DEF Consecutive
<1>4. f \in Injection(a..b-1, Consecutive(a, b))
  <2> HIDE DEF f
  <2> QED BY <1>2, <1>3 DEF Injection, IsInjective
<1>5. f \in Bijection(a..b-1, Consecutive(a, b))
  BY <1>1, <1>4 DEF Bijection
<1>6. IsFiniteSet(a..b-1) /\ Cardinality(a..b-1) = b - a
  <2> DEFINE c == b - 1
  <2>1. a \in Int /\ c \in Int /\ b = c + 1
    OBVIOUS
  <2> HIDE DEF c
  <2>2. IsFiniteSet(a..c) /\ Cardinality(a..c) = IF a > c THEN 0 ELSE c - a + 1
    BY <2>1, FS_Interval
  <2>3. Cardinality(a..c) = b - a
    BY <2>1, <2>2
  <2> QED BY <2>2, <2>3 DEF c
<1> QED BY <1>5, <1>6, FS_Bijection DEF ExistsBijection

\* As many files are older than a file as were published before it.
LEMMA OlderFiles ==
    ASSUME NEW a \in Nat, NEW b \in Nat, NEW j \in a..b-1
    PROVE  Cardinality({g \in Consecutive(a, b) : g < Name(j)}) = j - a
<1>1. {g \in Consecutive(a, b) : g < Name(j)} = Consecutive(a, j)
  <2>1. ASSUME NEW i \in a..b-1
        PROVE  Name(i) < Name(j) <=> i < j
    BY NameOrder
  <2>2. {g \in Consecutive(a, b) : g < Name(j)} = {Name(i) : i \in {k \in a..b-1 : k < j}}
    BY <2>1 DEF Consecutive
  <2>3. {k \in a..b-1 : k < j} = a..j-1
    OBVIOUS
  <2> QED BY <2>2, <2>3 DEF Consecutive
<1>2. j \in Nat /\ a <= j
  OBVIOUS
<1> QED BY <1>1, <1>2, ConsecutiveSize

\* Consecutive files are in the order of their numbers.
LEMMA ConsecutiveInOrder ==
    ASSUME NEW a \in Nat, NEW b \in Nat, a <= b, NEW F, F = Consecutive(a, b)
    PROVE  InOrder(F) = Queue(a, b)
<1> DEFINE older(f) == Cardinality({g \in F : g < f})
<1>1. Cardinality(F) = b - a
  BY ConsecutiveSize
<1>2. ASSUME NEW i \in 1..b-a
      PROVE  (CHOOSE f \in F : older(f) = i - 1) = Name(a + i - 1)
  <2> DEFINE j == a + i - 1
  <2>1. j \in a..b-1 /\ j - a = i - 1
    OBVIOUS
  <2>2. Name(j) \in F /\ older(Name(j)) = i - 1
    BY <2>1, OlderFiles DEF Consecutive
  <2>3. ASSUME NEW f \in F, older(f) = i - 1
        PROVE  f = Name(j)
    <3>1. PICK k \in a..b-1 : f = Name(k)
      BY DEF Consecutive
    <3>2. k - a = i - 1
      BY <2>3, <3>1, OlderFiles
    <3>3. k = j
      BY <3>2
    <3> QED BY <3>1, <3>3
  <2> HIDE DEF older, j
  <2>4. (CHOOSE f \in F : older(f) = i - 1) = Name(j)
    BY <2>2, <2>3
  <2> QED BY <2>4 DEF j
<1>3. [i \in 1..Cardinality(F) |-> CHOOSE f \in F : older(f) = i - 1]
        = [i \in 1..b-a |-> CHOOSE f \in F : older(f) = i - 1]
  BY <1>1
<1> HIDE DEF older
<1>4. [i \in 1..Cardinality(F) |-> CHOOSE f \in F : older(f) = i - 1] = Queue(a, b)
  BY <1>2, <1>3 DEF Queue
<1> QED BY <1>4 DEF older, InOrder

\* The oldest file leaves, the next one joins.
LEMMA ConsecutiveChanges ==
    ASSUME NEW a \in Nat, NEW b \in Nat, a <= b
    PROVE  /\ Consecutive(a, b) \cup {Name(b)} = Consecutive(a, b + 1)
           /\ a < b => Consecutive(a, b) \ {Name(a)} = Consecutive(a + 1, b)
<1>1. Consecutive(a, b) \cup {Name(b)} = Consecutive(a, b + 1)
  <2>1. a..(b+1)-1 = (a..b-1) \cup {b}
    OBVIOUS
  <2> QED BY <2>1 DEF Consecutive
<1>2. ASSUME a < b PROVE Consecutive(a, b) \ {Name(a)} = Consecutive(a + 1, b)
  <2>1. a..b-1 = ((a+1)..b-1) \cup {a}
    BY <1>2
  <2>2. \A j \in (a+1)..b-1 : Name(j) # Name(a)
    <3> SUFFICES ASSUME NEW j \in (a+1)..b-1 PROVE Name(j) # Name(a)
      OBVIOUS
    <3>1. j \in Nat /\ a < j
      OBVIOUS
    <3>2. Name(a) < Name(j) /\ Name(j) \in Nat
      BY <3>1, NameOrder, NameType
    <3> QED BY <3>2, NameType
  <2> QED BY <2>1, <2>2 DEF Consecutive
<1> QED BY <1>1, <1>2

LEMMA QueueType ==
    ASSUME NEW a \in Nat, NEW b \in Nat, a <= b
    PROVE  /\ Queue(a, b) \in Seq(Nat) /\ Len(Queue(a, b)) = b - a
           /\ DOMAIN Queue(a, b) = 1..b-a
           /\ \A i \in 1..b-a : Queue(a, b)[i] = Name(a + i - 1) /\ Queue(a, b)[i] < Name(b)
<1>1. \A i \in 1..b-a : Name(a + i - 1) \in Nat /\ Name(a + i - 1) < Name(b)
  <2> SUFFICES ASSUME NEW i \in 1..b-a
               PROVE  Name(a + i - 1) \in Nat /\ Name(a + i - 1) < Name(b)
    OBVIOUS
  <2>1. a + i - 1 \in Nat /\ a + i - 1 < b
    OBVIOUS
  <2> QED BY <2>1, NameType, NameOrder
<1>2. b - a \in Nat
  OBVIOUS
<1>3. Queue(a, b) \in [1..b-a -> Nat]
  BY <1>1 DEF Queue
<1>4. Queue(a, b) \in Seq(Nat) /\ Len(Queue(a, b)) = b - a /\ DOMAIN Queue(a, b) = 1..b-a
  BY <1>2, <1>3
<1>5. \A i \in 1..b-a : Queue(a, b)[i] = Name(a + i - 1)
  BY DEF Queue
<1> QED BY <1>1, <1>4, <1>5

\* The next file joins the queue at its end.
LEMMA QueueAppend ==
    ASSUME NEW a \in Nat, NEW b \in Nat, a <= b
    PROVE  Append(Queue(a, b), Name(b)) = Queue(a, b + 1)
<1> DEFINE s == Queue(a, b)
           n == Name(b)
           t == Queue(a, b + 1)
           u == Append(s, n)
<1>1. /\ s \in Seq(Nat) /\ Len(s) = b - a /\ n \in Nat
      /\ t \in Seq(Nat) /\ Len(t) = (b + 1) - a
      /\ \A i \in 1..b-a : s[i] = Name(a + i - 1)
      /\ \A i \in 1..(b+1)-a : t[i] = Name(a + i - 1)
  <2>1. b + 1 \in Nat /\ a <= b + 1
    OBVIOUS
  <2>2. s \in Seq(Nat) /\ Len(s) = b - a /\ \A i \in 1..b-a : s[i] = Name(a + i - 1)
    BY QueueType
  <2>3. /\ t \in Seq(Nat) /\ Len(t) = (b + 1) - a
        /\ \A i \in 1..(b+1)-a : t[i] = Name(a + i - 1)
    BY <2>1, QueueType
  <2> QED BY <2>2, <2>3, NameType
<1> HIDE DEF s, t
<1>2. /\ u \in Seq(Nat) /\ Len(u) = Len(s) + 1
      /\ \A i \in 1..Len(s) : u[i] = s[i]
      /\ u[Len(s) + 1] = n
  <2> HIDE DEF n
  <2> QED BY <1>1, AppendProperties
<1> HIDE DEF u
<1>3. Len(u) = Len(t)
  BY <1>1, <1>2
<1>4. ASSUME NEW i \in 1..Len(u) PROVE u[i] = t[i]
  <2>1. CASE i = Len(s) + 1
    <3>1. a + i - 1 = b /\ i \in 1..(b+1)-a
      BY <1>1, <2>1
    <3> QED BY <1>1, <1>2, <2>1, <3>1
  <2>2. CASE i # Len(s) + 1
    <3>1. i \in 1..Len(s) /\ i \in 1..b-a /\ i \in 1..(b+1)-a
      BY <1>1, <1>2, <2>2
    <3>2. u[i] = s[i] /\ s[i] = Name(a + i - 1) /\ t[i] = Name(a + i - 1)
      BY <1>1, <1>2, <3>1
    <3> QED BY <3>2
  <2> QED BY <2>1, <2>2
<1>5. u = t
  BY <1>1, <1>2, <1>3, <1>4, SeqEqual
<1> QED BY <1>5 DEF u, s, t

\* The oldest file leaves it at its head.
LEMMA QueueTail ==
    ASSUME NEW a \in Nat, NEW b \in Nat, a < b
    PROVE  Queue(a, b) # <<>> /\ Tail(Queue(a, b)) = Queue(a + 1, b)
<1> DEFINE s == Queue(a, b)
           t == Queue(a + 1, b)
           u == Tail(s)
<1>1. /\ s \in Seq(Nat) /\ Len(s) = b - a
      /\ t \in Seq(Nat) /\ Len(t) = b - (a + 1)
      /\ \A i \in 1..b-a : s[i] = Name(a + i - 1)
      /\ \A i \in 1..b-(a+1) : t[i] = Name((a + 1) + i - 1)
  <2>1. a <= b /\ a + 1 \in Nat /\ a + 1 <= b
    OBVIOUS
  <2> QED BY <2>1, QueueType
<1> HIDE DEF s, t
<1>2. s # <<>>
  BY <1>1
<1>3. /\ u \in Seq(Nat) /\ Len(u) = Len(s) - 1
      /\ \A i \in 1..Len(u) : u[i] = s[i + 1]
  BY <1>1, <1>2, HeadTailProperties
<1> HIDE DEF u
<1>4. Len(u) = Len(t)
  BY <1>1, <1>3
<1>5. ASSUME NEW i \in 1..Len(u) PROVE u[i] = t[i]
  <2>1. i + 1 \in 1..b-a /\ i \in 1..b-(a+1) /\ a + (i + 1) - 1 = (a + 1) + i - 1
    BY <1>1, <1>3
  <2> QED BY <1>1, <1>3, <2>1
<1>6. u = t
  BY <1>1, <1>3, <1>4, <1>5, SeqEqual
<1> QED BY <1>2, <1>6 DEF u, s, t

-----------------------------------------------------------------------------
(* The ring *)

Slot(n, j) == (j * R) % n

\* The oldest of the files in the ring when b files have been given a slot.
Oldest(n, b) == IF b < Period(n) THEN 0 ELSE b - Period(n)

\* The ring names those files, each in its slot, and nothing else.
RingHolds(n, list, b) ==
    /\ \A j \in Oldest(n, b)..b-1 : list[Slot(n, j)] = Name(j)
    /\ \A i \in 0..n-1 : list[i] # 0 => \E j \in Oldest(n, b)..b-1 : i = Slot(n, j)

LEMMA SlotType ==
    ASSUME NEW n \in Nat \ {0}, NEW j \in Nat
    PROVE  Slot(n, j) \in 0..n-1 /\ Slot(n, j) = (Name(j) - 1) % n
<1>1. j * R \in Nat /\ Name(j) - 1 = j * R
  BY RecordsAssumption DEF R, Name
<1> QED BY <1>1, Division DEF Slot

LEMMA OldestType ==
    ASSUME NEW n \in Nat \ {0}, NEW b \in Nat
    PROVE  /\ Period(n) \in Nat \ {0}
           /\ Oldest(n, b) \in Nat /\ Oldest(n, b) <= b /\ b - Oldest(n, b) <= Period(n)
           /\ b < Period(n) => Oldest(n, b) = 0 /\ Oldest(n, b + 1) = 0
           /\ b >= Period(n) => Oldest(n, b) = b - Period(n) /\ Oldest(n, b + 1) = Oldest(n, b) + 1
           /\ Oldest(n, b + 1) \in Nat /\ Oldest(n, b + 1) <= b
           /\ b - Oldest(n, b + 1) < Period(n)
           /\ Oldest(n, b) <= Oldest(n, b + 1)
<1> DEFINE P == Period(n)
<1>1. P \in Nat \ {0}
  BY PeriodProperties
<1> HIDE DEF P
<1>2. \A s \in Nat : Oldest(n, s) = IF s < P THEN 0 ELSE s - P
  BY DEF Oldest, P
<1>3. b + 1 \in Nat
  OBVIOUS
<1> QED BY <1>1, <1>2, <1>3 DEF P

\* The slot of the next file is free, or is that of the oldest file.
LEMMA SlotOfNext ==
    ASSUME NEW n \in Nat \ {0}, NEW list \in [0..n-1 -> Nat], NEW b \in Nat,
           RingHolds(n, list, b)
    PROVE  /\ b < Period(n) => list[Slot(n, b)] = 0
           /\ b >= Period(n) => list[Slot(n, b)] = Name(Oldest(n, b))
<1> DEFINE P == Period(n)
           a == Oldest(n, b)
<1>1. P \in Nat \ {0} /\ a \in Nat /\ a <= b /\ b - a <= P /\ (b >= P => a = b - P)
  BY OldestType
<1>2. /\ \A j \in a..b-1 : list[Slot(n, j)] = Name(j)
      /\ \A i \in 0..n-1 : list[i] # 0 => \E j \in a..b-1 : i = Slot(n, j)
  BY DEF RingHolds
<1>3. \A j, k \in Nat : j < k /\ k - j <= P => (Slot(n, j) = Slot(n, k) <=> k - j = P)
  BY SameSlot DEF Slot
<1>4. Slot(n, b) \in 0..n-1
  BY SlotType
<1> HIDE DEF P, a
<1>5. ASSUME b < P PROVE list[Slot(n, b)] = 0
  <2> SUFFICES ASSUME list[Slot(n, b)] # 0 PROVE FALSE
    OBVIOUS
  <2>1. PICK j \in a..b-1 : Slot(n, b) = Slot(n, j)
    BY <1>2, <1>4
  <2>2. j \in Nat /\ j < b /\ b - j <= P /\ b - j # P
    BY <1>1, <1>5
  <2> QED BY <1>3, <2>1, <2>2
<1>6. ASSUME b >= P PROVE list[Slot(n, b)] = Name(a)
  <2>1. a < b /\ b - a = P /\ a \in a..b-1
    BY <1>1, <1>6
  <2>2. Slot(n, a) = Slot(n, b)
    BY <1>1, <1>3, <2>1
  <2> QED BY <1>2, <2>1, <2>2
<1> QED BY <1>5, <1>6 DEF P, a

\* Once it is assigned, the ring names the next file and the others but the oldest.
LEMMA SlotAssigned ==
    ASSUME NEW n \in Nat \ {0}, NEW list \in [0..n-1 -> Nat], NEW b \in Nat,
           RingHolds(n, list, b)
    PROVE  RingHolds(n, [list EXCEPT ![Slot(n, b)] = Name(b)], b + 1)
<1> DEFINE P == Period(n)
           a == Oldest(n, b)
           c == Oldest(n, b + 1)
           new == [list EXCEPT ![Slot(n, b)] = Name(b)]
<1>1. /\ P \in Nat \ {0} /\ a \in Nat /\ a <= b /\ b - a <= P
      /\ c \in Nat /\ a <= c /\ c <= b /\ b - c < P
      /\ b < P => c = 0
      /\ b >= P => c = a + 1 /\ a = b - P
  BY OldestType
<1>2. /\ \A j \in a..b-1 : list[Slot(n, j)] = Name(j)
      /\ \A i \in 0..n-1 : list[i] # 0 => \E j \in a..b-1 : i = Slot(n, j)
  BY DEF RingHolds
<1>3. \A j, k \in Nat : j < k /\ k - j <= P => (Slot(n, j) = Slot(n, k) <=> k - j = P)
  BY SameSlot DEF Slot
<1>4. \A j \in Nat : Slot(n, j) \in 0..n-1
  BY SlotType
<1>5. /\ new[Slot(n, b)] = Name(b)
      /\ \A i \in 0..n-1 : i # Slot(n, b) => new[i] = list[i]
  BY <1>4
<1> HIDE DEF P, a, c, new
<1>6. ASSUME NEW j \in c..b PROVE new[Slot(n, j)] = Name(j)
  <2>1. CASE j = b
    BY <1>5, <2>1
  <2>2. CASE j < b
    <3>1. j \in Nat /\ j \in a..b-1 /\ b - j <= P /\ b - j # P
      BY <1>1, <2>2
    <3>2. Slot(n, j) # Slot(n, b)
      BY <1>3, <2>2, <3>1
    <3>3. new[Slot(n, j)] = list[Slot(n, j)]
      BY <1>4, <1>5, <3>1, <3>2
    <3> QED BY <1>2, <3>1, <3>3
  <2>3. j = b \/ j < b
    BY <1>1
  <2> QED BY <2>1, <2>2, <2>3
<1>7. ASSUME NEW i \in 0..n-1, new[i] # 0 PROVE \E j \in c..b : i = Slot(n, j)
  <2>1. CASE i = Slot(n, b)
    <3>1. b \in c..b
      BY <1>1
    <3> QED BY <2>1, <3>1
  <2>2. CASE i # Slot(n, b)
    <3>1. list[i] # 0
      BY <1>5, <1>7, <2>2
    <3>2. PICK j \in a..b-1 : i = Slot(n, j)
      BY <1>2, <3>1
    <3>3. j \in Nat /\ j < b /\ b - j <= P
      BY <1>1
    <3>4. b - j # P
      BY <1>3, <2>2, <3>2, <3>3
    <3>5. j \in c..b
      BY <1>1, <3>3, <3>4
    <3> QED BY <3>2, <3>5
  <2> QED BY <2>1, <2>2
<1>8. RingHolds(n, new, b + 1)
  <2>1. (b + 1) - 1 = b
    OBVIOUS
  <2> QED BY <1>6, <1>7, <2>1 DEF RingHolds, c
<1> QED BY <1>8 DEF new

-----------------------------------------------------------------------------
(* The invariant: b files have been published *)

Undisturbed == Events = {} /\ ClockSteps = FALSE

Before == pc \in {"down"} \cup StartingUp

\* The device has sent its last record.
Silent == pc \in {"connect", "collect"} /\ clock = MaxTime

\* The ring names the next file already.
Named == pc \in {"write", "move"} \/ num_records_written > 0

\* Room has been made for it.
Begun == pc = "assign" \/ Named

Turn(b) ==
    /\ Files = Consecutive(Oldest(ring_size, IF Begun THEN b + 1 ELSE b), b)
    /\ RingHolds(ring_size, filetime_list, IF Named THEN b + 1 ELSE b)
    /\ Named => msfilepath_write = Name(b)
    /\ pc = "connect" => num_records_written = 0
    /\ pc \in {"connect", "collect"} =>
         /\ clock = Name(b) - 1 + num_records_written
         /\ file_index = clock % ring_size
    /\ pc \in {"evict", "assign", "write"} =>
         clock = Name(b) + num_records_written /\ starttime = clock
    /\ pc \in {"move", "advance"} => clock = Name(b) - 1 + num_records_written
    /\ pc \in {"evict", "assign", "write", "move", "advance"} =>
         clock > 0 /\ file_index = (clock - 1) % ring_size

Fifo(b) ==
    /\ seen = {} /\ state_file = NoFile /\ clock <= MaxTime
    /\ Before \/ pc \in Collecting
    /\ Before => b = 0 /\ clock = 0 /\ Files = {} /\ num_records_written = 0 /\ file_index = 0
    /\ pc \in {"load", "loading"} => filetime_list = EmptyList(file_index_modulo)
    /\ pc \in Collecting => Silent \/ Turn(b)

ActionsUndisturbed ==
    \/ StartUp \/ Connect \/ CollectRecord
    \/ EvictOld \/ AssignSlot \/ WriteRecord \/ MoveFile \/ Advance
    \/ Silent /\ ReadError

LEMMA NoDisturbance ==
    ASSUME Undisturbed, IInv, NEW b \in Nat, Fifo(b), Next
    PROVE  ActionsUndisturbed
<1>1. \A event : ~Happens(event)
  BY DEF Undisturbed, Happens
<1>2. pc = "move" => tmpfile # NoFile
  BY RecordsAssumption DEF IInv, CountOK, TmpOK, Unfinished, Fifo
<1>3. pc # "saving" /\ state_file = NoFile
  BY DEF Fifo, Before, StartingUp, Collecting
<1>4. ~(EvictFails \/ WriteFails \/ MoveFails)
  BY <1>1, <1>2 DEF EvictFails, WriteFails, MoveFails
<1>5. ~Stop
  BY <1>1, <1>2, <1>3 DEF Stop, TermSignal, NestedSignal, TermSignalCrash, TermSignalNoFile,
    FlushPart, SaveState, SaveFails, Kill, MoveCrashes, Undisturbed
<1>6. ~Reconfigure
  BY <1>1 DEF Reconfigure
<1>7. ReadError => Silent
  BY <1>1 DEF ReadError, Silent
<1> QED BY <1>4, <1>5, <1>6, <1>7 DEF Next, Collect, ActionsUndisturbed

RollingState == <<Cardinality(UsedSlots(ring_size)), InOrder(Files)>>

LEMMA Stutters == UNCHANGED <<ring_size, mswrite_dir>> => UNCHANGED RollingState
BY DEF RollingState, InOrder, Files

LEMMA Facts ==
    ASSUME IInv, pc \in Collecting
    PROVE  /\ file_index_modulo = ring_size /\ ring_size \in Nat \ {0} /\ ring_size \in Sizes
           /\ filetime_list \in [0..ring_size-1 -> Nat]
           /\ clock \in Nat /\ starttime \in Nat /\ file_index \in Nat /\ num_records_written \in Nat
           /\ pc \in {"collect", "evict", "assign", "write", "advance"} => num_records_written < R
           /\ pc \in {"evict", "assign"} => num_records_written = 0
           /\ pc = "move" => num_records_written = R
           /\ 0 \notin Files
BY SizesAssumption DEF IInv, TypeOK, RingOK, CountOK, Collecting, R

LEMMA StartUpStep ==
    ASSUME IInv, NEW b \in Nat, Fifo(b), StartUp
    PROVE  Fifo(b)' /\ UNCHANGED <<ring_size, mswrite_dir>>
<1> USE DEF disk, history, StartingUp, Collecting, Before
<1>1. pc \in {"down", "start", "sized", "load", "loading"} /\ Before
  BY DEF StartUp, Start, SizeRing, AllocateList, LoadState, FinishLoading
<1>2. /\ seen = {} /\ state_file = NoFile /\ clock <= MaxTime
      /\ b = 0 /\ clock = 0 /\ Files = {} /\ num_records_written = 0 /\ file_index = 0
      /\ pc \in {"load", "loading"} => filetime_list = EmptyList(file_index_modulo)
  BY <1>1 DEF Fifo
<1>3. CASE Start
  BY <1>2, <1>3 DEF Start, Fifo, Files
<1>4. CASE SizeRing
  BY <1>2, <1>4 DEF SizeRing, Fifo, Files
<1>5. CASE AllocateList
  BY <1>2, <1>5 DEF AllocateList, Fifo, Files
<1>6. CASE LoadState
  BY <1>2, <1>6 DEF LoadState, Loadable, Fifo, Files
<1>7. CASE FinishLoading
  <2>1. ~Loadable
    BY <1>2 DEF Loadable
  <2>2. /\ pc' = "connect" /\ filetime_list' = filetime_list
        /\ UNCHANGED <<file_index, num_records_written, ring_size, mswrite_dir, state_file,
                       clock, seen>>
    BY <1>7, <2>1 DEF FinishLoading
  <2>3. /\ filetime_list = EmptyList(ring_size) /\ ring_size \in Nat \ {0}
    BY <1>2, <1>7, SizesAssumption DEF FinishLoading, IInv, RingOK, TypeOK
  <2>4. Oldest(ring_size, 0) = 0 /\ Name(0) = 1 /\ 0 % ring_size = 0
    <3>1. Oldest(ring_size, 0) \in Nat /\ Oldest(ring_size, 0) <= 0
      BY <2>3, OldestType
    <3>2. Name(0) = 1
      BY RecordsAssumption DEF Name, R
    <3>3. 0 = ring_size * 0
      BY <2>3
    <3> QED BY <2>3, <3>1, <3>2, <3>3, Multiple
  <2>5. Consecutive(0, 0) = {}
    BY DEF Consecutive
  <2>6. RingHolds(ring_size, EmptyList(ring_size), 0)
    <3>1. 0..0-1 = {}
      OBVIOUS
    <3>2. \A i \in 0..ring_size-1 : EmptyList(ring_size)[i] = 0
      BY DEF EmptyList
    <3> QED BY <2>4, <3>1, <3>2 DEF RingHolds
  <2>7. Turn(0)'
    BY <1>2, <2>2, <2>3, <2>4, <2>5, <2>6 DEF Turn, Begun, Named, Files
  <2> QED BY <1>2, <2>2, <2>7 DEF Fifo
<1> QED BY <1>3, <1>4, <1>5, <1>6, <1>7 DEF StartUp

\* Once the device is silent, nothing happens to the files.
LEMMA SilentStep ==
    ASSUME IInv, NEW b \in Nat, Fifo(b), Silent, Connect \/ CollectRecord \/ ReadError,
           Undisturbed
    PROVE  Fifo(b)' /\ UNCHANGED <<ring_size, mswrite_dir>>
<1>1. ~CollectRecord
  BY Facts, TimeAssumption DEF CollectRecord, Silent, Undisturbed, Collecting
<1>2. \A event : ~Happens(event)
  BY DEF Undisturbed, Happens
<1>3. Silent' /\ UNCHANGED <<ring_size, mswrite_dir, seen, state_file, clock>>
  BY <1>1, <1>2 DEF Connect, ReadError, Silent, disk, history
<1> QED BY <1>3 DEF Fifo, Silent, Before, StartingUp, Collecting

LEMMA CollectStep ==
    ASSUME IInv, NEW b \in Nat, Fifo(b), ~Silent, Undisturbed,
           Connect \/ CollectRecord \/ AssignSlot \/ WriteRecord \/ Advance
    PROVE  Fifo(b)' /\ UNCHANGED <<ring_size, mswrite_dir>>
<1> USE DEF disk, history, Collecting
<1>1. pc \in Collecting /\ Turn(b) /\ seen = {} /\ state_file = NoFile /\ clock <= MaxTime
  BY DEF Connect, CollectRecord, AssignSlot, WriteRecord, CountRecord, Advance, Fifo, Before
<1>2. Name(b) \in Nat \ {0} /\ MaxTime \in Nat /\ R \in Nat \ {0}
  BY NameType, TimeAssumption, RecordsAssumption DEF R
<1>3. UNCHANGED <<ring_size, mswrite_dir, seen, state_file>>
  BY <1>1 DEF Connect, CollectRecord, AssignSlot, WriteRecord, CountRecord, Advance
<1>4. CASE Connect
  <2>1. Turn(b)'
    BY <1>1, <1>3, <1>4, Facts DEF Connect, Turn, Begun, Named, Files
  <2> QED BY <1>1, <1>3, <1>4, <2>1 DEF Connect, Fifo, Before, StartingUp
<1>5. CASE CollectRecord
  <2>1. /\ clock < MaxTime /\ starttime' = clock + 1 /\ clock' = clock + 1
        /\ pc = "collect"
        /\ pc' = IF num_records_written = 0 THEN "evict" ELSE "write"
        /\ UNCHANGED <<file_index, filetime_list, num_records_written, msfilepath_write>>
    BY <1>5 DEF CollectRecord, Undisturbed
  <2>2. (clock + 1) - 1 = clock /\ clock + 1 > 0 /\ clock + 1 <= MaxTime
    BY <1>1, <1>2, <2>1, Facts
  <2>3. num_records_written \in Nat /\ clock = Name(b) - 1 + num_records_written
    BY <1>1, <2>1, Facts DEF Turn
  <2>4. clock' = Name(b) + num_records_written
    BY <1>2, <2>1, <2>3
  <2>5. (pc' = "write") = (num_records_written > 0)
    BY <2>1, <2>3
  <2>6. Named' = Named /\ Begun' = Begun
    BY <2>1, <2>5 DEF Named, Begun
  <2>7. Turn(b)'
    BY <1>1, <1>3, <2>1, <2>2, <2>4, <2>6 DEF Turn, Files
  <2> QED BY <1>1, <1>3, <2>1, <2>2, <2>7 DEF Fifo, Before, StartingUp
<1>6. CASE AssignSlot
  <2>1. /\ pc = "assign" /\ pc' = "write" /\ num_records_written = 0
        /\ filetime_list' = [filetime_list EXCEPT ![file_index] = starttime]
        /\ msfilepath_write' = starttime
        /\ UNCHANGED <<file_index, starttime, num_records_written, clock>>
    BY <1>1, <1>6, Facts DEF AssignSlot
  <2>2. starttime = Name(b) /\ file_index = Slot(ring_size, b)
    <3>1. clock = Name(b) + 0 /\ starttime = clock /\ file_index = (clock - 1) % ring_size
      BY <1>1, <2>1 DEF Turn
    <3>2. clock = Name(b)
      BY <1>2, <3>1
    <3>3. ring_size \in Nat \ {0}
      BY <1>1, Facts
    <3>4. Slot(ring_size, b) = (Name(b) - 1) % ring_size
      BY <3>3, SlotType
    <3> QED BY <3>1, <3>2, <3>4
  <2>3. RingHolds(ring_size, filetime_list, b)
    BY <1>1, <2>1 DEF Turn, Named
  <2>4. RingHolds(ring_size, filetime_list', b + 1)
    BY <1>1, <2>1, <2>2, <2>3, Facts, SlotAssigned
  <2>5. ~Named /\ Begun /\ Named' /\ Begun'
    BY <2>1 DEF Named, Begun
  <2>6. Turn(b)'
    BY <1>1, <1>3, <2>1, <2>2, <2>4, <2>5 DEF Turn, Files
  <2> QED BY <1>1, <1>3, <2>1, <2>6 DEF Fifo, Before, StartingUp
<1>7. CASE WriteRecord
  <2>1. /\ pc = "write" /\ pc' \in {"move", "advance"}
        /\ num_records_written' = num_records_written + 1
        /\ UNCHANGED <<file_index, filetime_list, starttime, msfilepath_write, clock>>
    BY <1>7 DEF WriteRecord, CountRecord
  <2>2. num_records_written \in Nat
    BY <1>1, Facts
  <2>3. Named /\ Begun /\ Named' /\ Begun'
    BY <2>1, <2>2 DEF Named, Begun
  <2>4. clock = Name(b) - 1 + num_records_written'
    BY <1>1, <1>2, <2>1, <2>2 DEF Turn
  <2>5. Turn(b)'
    BY <1>1, <1>3, <2>1, <2>3, <2>4 DEF Turn, Files
  <2> QED BY <1>1, <1>3, <2>1, <2>5 DEF Fifo, Before, StartingUp
<1>8. CASE Advance
  <2>1. /\ pc = "advance" /\ pc' = "collect"
        /\ file_index' = (file_index + 1) % ring_size
        /\ UNCHANGED <<filetime_list, num_records_written, msfilepath_write, clock>>
    BY <1>1, <1>8, Facts DEF Advance
  <2>2. file_index' = clock % ring_size
    <3>1. clock > 0 /\ file_index = (clock - 1) % ring_size /\ clock - 1 \in Nat
      BY <1>1, <2>1, Facts DEF Turn
    <3>2. (clock - 1) + 1 = clock
      BY <1>1, Facts
    <3>3. (((clock - 1) % ring_size) + 1) % ring_size = ((clock - 1) + 1) % ring_size
      BY <1>1, <3>1, Facts, NextSlot
    <3> QED BY <2>1, <3>1, <3>2, <3>3
  <2>3. Named' = Named /\ Begun' = Begun
    BY <2>1 DEF Named, Begun
  <2>4. Turn(b)'
    BY <1>1, <1>3, <2>1, <2>2, <2>3 DEF Turn, Files
  <2> QED BY <1>1, <1>3, <2>1, <2>4 DEF Fifo, Before, StartingUp
<1> QED BY <1>4, <1>5, <1>6, <1>7, <1>8

LEMMA EvictStep ==
    ASSUME IInv, NEW b \in Nat, Fifo(b), EvictOld
    PROVE  Fifo(b)' /\ [Rolling!Next]_RollingState
<1> DEFINE n == ring_size
           a == Oldest(n, b)
<1>1. /\ pc = "evict" /\ pc' = "assign"
      /\ mswrite_dir' = [f \in Files \ {filetime_list[file_index]} |-> mswrite_dir[f]]
      /\ Files' = Files \ {filetime_list[file_index]}
      /\ UNCHANGED <<memory, ring_size, state_file, clock, seen>>
  BY DEF EvictOld, Files, history
<1>2. pc \in Collecting /\ Turn(b) /\ seen = {} /\ state_file = NoFile /\ clock <= MaxTime
  BY <1>1 DEF Fifo, Silent, Before, StartingUp, Collecting
<1>3. /\ n \in Nat \ {0} /\ num_records_written = 0 /\ filetime_list \in [0..n-1 -> Nat]
      /\ 0 \notin Files
  BY <1>1, <1>2, Facts
<1>4. ~Named /\ ~Begun /\ ~Named' /\ Begun'
  BY <1>1, <1>3 DEF Named, Begun, memory
<1>5. /\ Files = Consecutive(a, b) /\ RingHolds(n, filetime_list, b)
      /\ clock = Name(b) + 0 /\ starttime = clock /\ file_index = (clock - 1) % n /\ clock > 0
  BY <1>1, <1>2, <1>3, <1>4 DEF Turn
<1>6. file_index = Slot(n, b)
  <2>1. Name(b) \in Nat /\ Slot(n, b) = (Name(b) - 1) % n
    BY <1>3, NameType, SlotType
  <2>2. clock = Name(b)
    BY <1>5, <2>1
  <2> QED BY <1>5, <2>1, <2>2
<1>7. /\ b < Period(n) => filetime_list[file_index] = 0
      /\ b >= Period(n) => filetime_list[file_index] = Name(a)
  BY <1>3, <1>5, <1>6, SlotOfNext
<1>8. /\ Period(n) \in Nat \ {0} /\ a \in Nat /\ a <= b
      /\ b < Period(n) => a = 0 /\ Oldest(n, b + 1) = 0
      /\ b >= Period(n) => a = b - Period(n) /\ Oldest(n, b + 1) = a + 1
  BY <1>3, OldestType
<1>9. /\ Files' = Consecutive(Oldest(n, b + 1), b)
      /\ \/ mswrite_dir' = mswrite_dir
         \/ b >= Period(n) /\ Files' = Consecutive(a + 1, b)
  <2>1. CASE b < Period(n)
    <3>1. Files \ {filetime_list[file_index]} = Files
      BY <1>3, <1>7, <2>1
    <3>2. mswrite_dir = [f \in Files |-> mswrite_dir[f]]
      BY DEF IInv, TypeOK, Files
    <3> QED BY <1>1, <1>5, <1>8, <2>1, <3>1, <3>2
  <2>2. CASE b >= Period(n)
    <3>1. a < b
      BY <1>8, <2>2
    <3>2. Consecutive(a, b) \ {Name(a)} = Consecutive(a + 1, b)
      BY <1>8, <3>1, ConsecutiveChanges
    <3> QED BY <1>1, <1>5, <1>7, <1>8, <2>2, <3>2
  <2> QED BY <1>8, <2>1, <2>2
<1>10. Fifo(b)'
  <2>1. Turn(b)'
    BY <1>1, <1>3, <1>4, <1>5, <1>9 DEF Turn, memory
  <2> QED BY <1>1, <1>2, <2>1 DEF Fifo, Before, StartingUp, Collecting
<1>11. [Rolling!Next]_RollingState
  <2>1. CASE mswrite_dir' = mswrite_dir
    BY <1>1, <2>1, Stutters
  <2>2. CASE b >= Period(n) /\ Files' = Consecutive(a + 1, b)
    <3>1. a < b /\ a + 1 \in Nat /\ a + 1 <= b /\ b - a = Period(n)
      BY <1>8, <2>2
    <3>2. InOrder(Files) = Queue(a, b)
      BY <1>5, <1>8, ConsecutiveInOrder
    <3>3. InOrder(Files') = Queue(a + 1, b)
      BY <2>2, <3>1, ConsecutiveInOrder
    <3>4. Len(InOrder(Files)) = Cardinality(UsedSlots(n))
      BY <1>3, <1>8, <3>1, <3>2, QueueType, UsedSlotsPeriod
    <3>5. InOrder(Files) # <<>> /\ InOrder(Files') = Tail(InOrder(Files))
      BY <1>8, <3>1, <3>2, <3>3, QueueTail
    <3>6. Cardinality(UsedSlots(n))' = Cardinality(UsedSlots(n))
      BY <1>1
    <3> QED BY <3>4, <3>5, <3>6 DEF Rolling!Next, Rolling!EvictOldest
  <2> QED BY <1>9, <2>1, <2>2
<1> QED BY <1>10, <1>11

LEMMA MoveStep ==
    ASSUME IInv, NEW b \in Nat, Fifo(b), MoveFile
    PROVE  Fifo(b + 1)' /\ [Rolling!Next]_RollingState
<1> DEFINE n == ring_size
           a == Oldest(n, b + 1)
<1>1. /\ pc = "move" /\ pc' = "advance" /\ num_records_written' = 0
      /\ Files' = Files \cup {msfilepath_write}
      /\ UNCHANGED <<file_index, filetime_list, ring_size, state_file, clock, seen>>
  BY DEF MoveFile, Files, history
<1>2. pc \in Collecting /\ Turn(b) /\ seen = {} /\ state_file = NoFile /\ clock <= MaxTime
  BY <1>1 DEF Fifo, Silent, Before, StartingUp, Collecting
<1>3. n \in Nat \ {0} /\ num_records_written = R /\ clock \in Nat
  BY <1>1, <1>2, Facts
<1>4. Named /\ Begun /\ ~Named' /\ ~Begun'
  BY <1>1 DEF Named, Begun
<1>5. /\ Files = Consecutive(a, b) /\ RingHolds(n, filetime_list, b + 1)
      /\ msfilepath_write = Name(b) /\ clock = Name(b) - 1 + R
      /\ clock > 0 /\ file_index = (clock - 1) % n
  BY <1>1, <1>2, <1>3, <1>4 DEF Turn
<1>6. Name(b) \in Nat \ {0} /\ Name(b + 1) = Name(b) + R /\ R \in Nat \ {0} /\ MaxTime \in Nat
  BY NameType, RecordsAssumption, TimeAssumption DEF R
<1>7. a \in Nat /\ a <= b /\ b - a < Period(n) /\ Period(n) \in Nat
  BY <1>3, OldestType
<1>8. Files' = Consecutive(a, b + 1)
  BY <1>1, <1>5, <1>7, ConsecutiveChanges
<1>9. Fifo(b + 1)'
  <2>1. clock = Name(b + 1) - 1 + 0
    BY <1>5, <1>6
  <2>2. Turn(b + 1)'
    BY <1>1, <1>4, <1>5, <1>8, <2>1 DEF Turn
  <2> QED BY <1>1, <1>2, <2>2 DEF Fifo, Before, StartingUp, Collecting
<1>10. Rolling!Publish
  <2>1. InOrder(Files) = Queue(a, b)
    BY <1>5, <1>7, ConsecutiveInOrder
  <2>2. InOrder(Files') = Queue(a, b + 1)
    <3>1. b + 1 \in Nat /\ a <= b + 1
      BY <1>7
    <3> QED BY <1>7, <1>8, <3>1, ConsecutiveInOrder
  <2>3. /\ Len(InOrder(Files)) = b - a /\ DOMAIN InOrder(Files) = 1..b-a
        /\ \A i \in 1..b-a : InOrder(Files)[i] < Name(b)
    BY <1>7, <2>1, QueueType
  <2>4. Len(InOrder(Files)) < Cardinality(UsedSlots(n))
    BY <1>3, <1>7, <2>3, UsedSlotsPeriod
  <2>5. InOrder(Files') = Append(InOrder(Files), Name(b))
    BY <1>7, <2>1, <2>2, QueueAppend
  <2>6. Name(b) \in Times
    BY <1>2, <1>3, <1>5, <1>6 DEF Times
  <2>7. Rolling!Newer(Name(b))
    BY <2>3 DEF Rolling!Newer
  <2>8. Cardinality(UsedSlots(n))' = Cardinality(UsedSlots(n))
    BY <1>1
  <2> QED BY <2>4, <2>5, <2>6, <2>7, <2>8 DEF Rolling!Publish
<1> QED BY <1>9, <1>10 DEF Rolling!Next

LEMMA FifoInit == Init => Fifo(0) /\ Rolling!Init
<1> SUFFICES ASSUME Init PROVE Fifo(0) /\ Rolling!Init
  OBVIOUS
<1>1. Files = {}
  BY DEF Init, Files
<1>2. Fifo(0)
  BY <1>1, TimeAssumption DEF Init, Fifo, Before, StartingUp, Collecting
<1>3. InOrder(Files) = <<>>
  <2>1. Consecutive(0, 0) = {}
    BY DEF Consecutive
  <2>2. InOrder(Files) = Queue(0, 0)
    BY <1>1, <2>1, ConsecutiveInOrder
  <2> QED BY <2>2, QueueType, EmptySeq
<1>4. Cardinality(UsedSlots(ring_size)) \in {Cardinality(UsedSlots(n)) : n \in Sizes}
  BY DEF Init
<1> QED BY <1>2, <1>3, <1>4 DEF Rolling!Init

LEMMA FifoStep ==
    ASSUME Undisturbed, IInv, [Next]_vars, NEW b \in Nat, Fifo(b)
    PROVE  (\E c \in Nat : Fifo(c)') /\ [Rolling!Next]_RollingState
<1>1. CASE UNCHANGED vars
  <2>1. Fifo(b)'
    BY <1>1 DEF vars, memory, disk, history, Fifo, Before, Silent, Turn, Named, Begun, Files
  <2>2. UNCHANGED RollingState
    BY <1>1, Stutters DEF vars, disk
  <2> QED BY <2>1, <2>2
<1>2. CASE Next
  <2>1. ActionsUndisturbed
    BY <1>2, NoDisturbance
  <2>2. CASE EvictOld
    BY <2>2, EvictStep
  <2>3. CASE MoveFile
    <3>1. b + 1 \in Nat
      OBVIOUS
    <3> QED BY <2>3, <3>1, MoveStep
  <2>4. CASE StartUp
    BY <2>4, StartUpStep, Stutters
  <2>5. CASE Silent /\ (Connect \/ CollectRecord \/ ReadError)
    BY <2>5, SilentStep, Stutters
  <2>6. CASE ~Silent /\ (Connect \/ CollectRecord)
    BY <2>6, CollectStep, Stutters
  <2>7. CASE AssignSlot \/ WriteRecord \/ Advance
    <3>1. ~Silent
      BY <2>7 DEF AssignSlot, WriteRecord, Advance, Silent
    <3> QED BY <2>7, <3>1, CollectStep, Stutters
  <2> QED BY <2>1, <2>2, <2>3, <2>4, <2>5, <2>6, <2>7 DEF ActionsUndisturbed
<1> QED BY <1>1, <1>2

-----------------------------------------------------------------------------
(* The theorem *)

\* With no disturbance, for any number of records in a file and any size of the
\* ring, the data directory is a queue: files are removed in the order in which
\* they were published and only when every slot the files use is taken
\* (collect_and_write 874-926).
THEOREM Refinement ==
    ASSUME Events = {}, ClockSteps = FALSE
    PROVE  Spec => ImplementsRollingBuffer
<1> DEFINE FifoInv == \E b \in Nat : Fifo(b)
<1>1. Undisturbed
  BY DEF Undisturbed
<1>2. Init => FifoInv /\ Rolling!Init
  BY FifoInit
<1>3. IInv /\ FifoInv /\ [Next]_vars =>
        FifoInv' /\ [Rolling!Next]_<<Cardinality(UsedSlots(ring_size)), InOrder(Files)>>
  BY <1>1, FifoStep DEF RollingState
<1> HIDE DEF FifoInv
<1> QED BY <1>2, <1>3, Invariance, PTL DEF Spec, ImplementsRollingBuffer, Rolling!Spec
=============================================================================
