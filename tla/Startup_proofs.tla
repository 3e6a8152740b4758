--------------------------- MODULE Startup_proofs ---------------------------
(***************************************************************************)
(* Theorems about the start of the program: the properties are those of    *)
(* the file, the ring of files has the size they ask for, and what is      *)
(* saved is read back. They hold for every set of sections, keys and       *)
(* values that may occur in a file, for every number of buckets and every  *)
(* hash function, and for files of any length.                             *)
(*                                                                         *)
(* A property passes through the sections and their hash maps, a buffer,   *)
(* the test of its characters, atoi or atof, and its default. The first    *)
(* are the matter of module Settings_proofs. The sections here follow the  *)
(* others: numbers of any length are read for what they are; what is found *)
(* is what the last line says; so the properties are as filed, and the     *)
(* ring is sized by them. What settings_save writes is traced back to the  *)
(* maps line by line.                                                      *)
(***************************************************************************)
EXTENDS Startup, Settings_proofs

-----------------------------------------------------------------------------
(* Digits and texts *)

LEMMA DigitsType ==
    /\ \A d \in DOMAIN Digits : Digits[d] \in 0..9 /\ Figure(Digits[d]) = d
    /\ \A n \in 0..9 : Figure(n) \in DOMAIN Digits
    /\ "0" \in DOMAIN Digits /\ Digits["0"] = 0
<1>1. \A i, j \in 1..10 : Figures[i] = Figures[j] => i = j
  BY DEF Figures
<1>2. DOMAIN Digits = {Figures[i] : i \in 1..10}
  BY DEF Digits
<1>3. \A i \in 1..10 : Digits[Figures[i]] = i - 1
  BY <1>1 DEF Digits
<1>4. \A n \in 0..9 : Figure(n) = Figures[n + 1] /\ n + 1 \in 1..10
  BY DEF Figure
<1>5. "0" = Figures[1]
  BY DEF Figures
<1> HIDE DEF Figures
<1>6. \A d \in DOMAIN Digits : Digits[d] \in 0..9 /\ Figure(Digits[d]) = d
  <2> SUFFICES ASSUME NEW i \in 1..10
               PROVE  Digits[Figures[i]] \in 0..9 /\ Figure(Digits[Figures[i]]) = Figures[i]
    BY <1>2
  <2>1. Digits[Figures[i]] = i - 1 /\ i - 1 \in 0..9 /\ (i - 1) + 1 = i
    BY <1>3
  <2> QED BY <1>4, <2>1
<1> QED BY <1>2, <1>3, <1>4, <1>5, <1>6

\* Induction over the natural numbers, for a set of them.
LEMMA Induct ==
    ASSUME NEW S \in SUBSET Nat, 0 \in S, \A n \in S : n + 1 \in S
    PROVE  \A n \in Nat : n \in S
<1> SUFFICES ASSUME Nat \ S # {}
             PROVE  FALSE
  OBVIOUS
<1>1. PICK n \in Nat \ S : \A m \in Nat \ S : ~(<<m, n>> \in OpToRel(<, Nat))
  BY WFMin, NatLessThanWellFounded, Zenon
<1>2. n # 0
  OBVIOUS
<1>3. n - 1 \in Nat /\ n - 1 < n /\ (n - 1) + 1 = n
  BY <1>2
<1>4. n - 1 \in Nat \ S
  BY <1>3
<1> QED BY <1>1, <1>3, <1>4 DEF OpToRel

LEMMA Tens ==
    ASSUME NEW a \in Nat, NEW d \in 0..9
    PROVE  /\ 10 * a + d \in Nat /\ 10 * a + d <= 10 * a + 9
           /\ (10 * a + d) \div 10 = a /\ (10 * a + d) % 10 = d /\ d % 10 = d
  OBVIOUS

\* There is a function on the places of digits that adds them up.
LEMMA Adding ==
    ASSUME NEW n \in Nat, NEW s
    PROVE  \E f : f = [i \in 0..n |-> IF i = 0 THEN 0 ELSE 10 * f[i - 1] + Digits[s[i]]]
<1> DEFINE Sums(f, m) == f = [i \in 0..m |-> IF i = 0 THEN 0 ELSE 10 * f[i - 1] + Digits[s[i]]]
<1> DEFINE S == {m \in Nat : \E f : Sums(f, m)}
<1>1. 0 \in S
  <2> DEFINE f == [i \in 0..0 |-> 0]
  <2>1. Sums(f, 0)
    OBVIOUS
  <2> QED BY <2>1
<1>2. ASSUME NEW m \in S
      PROVE  m + 1 \in S
  <2>1. PICK f : Sums(f, m)
    OBVIOUS
  <2> DEFINE last == 10 * f[m] + Digits[s[m + 1]]
  <2> HIDE DEF last
  <2> DEFINE g == [i \in 0..m+1 |-> IF i = m + 1 THEN last ELSE f[i]]
  <2>2. m \in Nat /\ \A i \in 0..m : f[i] = IF i = 0 THEN 0 ELSE 10 * f[i - 1] + Digits[s[i]]
    BY <2>1
  <2>3. /\ \A i \in 0..m : g[i] = f[i]
        /\ g[m + 1] = last
    <3>1. m \in Nat /\ m + 1 \in 0..m+1 /\ \A i \in 0..m : i \in 0..m+1 /\ i # m + 1
      BY <2>2
    <3> QED BY <3>1
  <2>4. \A i \in 0..m+1 : g[i] = IF i = 0 THEN 0 ELSE 10 * g[i - 1] + Digits[s[i]]
    <3> HIDE DEF g
    <3> SUFFICES ASSUME NEW i \in 0..m+1
                 PROVE  g[i] = IF i = 0 THEN 0 ELSE 10 * g[i - 1] + Digits[s[i]]
      OBVIOUS
    <3>1. CASE i = m + 1
      <4>1. m + 1 # 0 /\ (m + 1) - 1 = m /\ g[m] = f[m]
        BY <2>2, <2>3
      <4> QED BY <2>3, <3>1, <4>1 DEF last
    <3>2. CASE i \in 0..m
      <4>1. i # 0 => i - 1 \in 0..m /\ g[i - 1] = f[i - 1]
        BY <2>2, <2>3, <3>2
      <4> QED BY <2>2, <2>3, <3>2, <4>1
    <3> QED BY <2>2, <3>1, <3>2
  <2>5. Sums(g, m + 1)
    <3>1. g = [i \in 0..m+1 |-> g[i]]
      OBVIOUS
    <3> HIDE DEF g
    <3> QED BY <2>4, <3>1
  <2>6. m + 1 \in Nat
    BY <2>2
  <2> HIDE DEF Sums
  <2> QED BY <2>5, <2>6
<1> HIDE DEF Sums
<1>3. n \in S
  BY <1>1, <1>2, Induct
<1> QED BY <1>3 DEF Sums

\* The number of some digits, and of all their beginnings: each figure is that of
\* the number as far as it, and the number before it a tenth of that.
LEMMA NumberIs ==
    ASSUME NEW s \in Seq(DOMAIN Digits)
    PROVE  \E f : /\ f[0] = 0 /\ Number(s) = f[Len(s)]
                  /\ \A i \in 0..Len(s) : f[i] \in Nat
                  /\ \A i \in 1..Len(s) :
                       /\ f[i] = 10 * f[i - 1] + Digits[s[i]]
                       /\ f[i] \div 10 = f[i - 1] /\ Figure(f[i]) = s[i]
<1> DEFINE n == Len(s)
<1> DEFINE F(f) == f = [i \in 0..n |-> IF i = 0 THEN 0 ELSE 10 * f[i - 1] + Digits[s[i]]]
<1>1. n \in Nat /\ \A i \in 1..n : s[i] \in DOMAIN Digits
  OBVIOUS
<1>2. Number(s) = (CHOOSE f : F(f))[n]
  BY DEF Number
<1> HIDE DEF n
<1>3. \E f : F(f)
  BY <1>1, Adding, Zenon
<1> HIDE DEF F
<1>4. PICK f : F(f) /\ Number(s) = f[n]
  BY <1>2, <1>3
<1>5. \A i \in 0..n : f[i] = IF i = 0 THEN 0 ELSE 10 * f[i - 1] + Digits[s[i]]
  BY <1>4 DEF F
<1>6. \A i \in 1..n : i \in 0..n /\ i # 0 /\ i - 1 \in 0..n /\ f[i] = 10 * f[i - 1] + Digits[s[i]]
  BY <1>1, <1>5
<1>7. f[0] = 0
  BY <1>1, <1>5
<1>8. \A i \in 0..n : f[i] \in Nat
  <2> DEFINE S == {i \in Nat : i <= n => f[i] \in Nat}
  <2>1. 0 \in S
    BY <1>7
  <2>2. ASSUME NEW i \in S
        PROVE  i + 1 \in S
    <3>1. i \in Nat /\ i + 1 \in Nat /\ (i <= n => f[i] \in Nat)
      OBVIOUS
    <3> HIDE DEF S
    <3>2. ASSUME i + 1 <= n
          PROVE  f[i + 1] \in Nat
      <4>1. i + 1 \in 1..n /\ (i + 1) - 1 = i /\ f[i] \in Nat
        BY <1>1, <3>1, <3>2
      <4>2. PICK a \in Nat, d \in 0..9 : a = f[i] /\ d = Digits[s[i + 1]]
        BY <1>1, <4>1, DigitsType
      <4>3. f[i + 1] = 10 * a + d
        BY <1>6, <4>1, <4>2
      <4> QED BY <4>3, Tens
    <3> QED BY <3>1, <3>2 DEF S
  <2>3. \A i \in Nat : i \in S
    <3> HIDE DEF S
    <3>1. S \in SUBSET Nat
      BY DEF S
    <3> QED BY <2>1, <2>2, <3>1, Induct
  <2> QED BY <1>1, <2>3
<1>9. ASSUME NEW i \in 1..n
      PROVE  f[i] \div 10 = f[i - 1] /\ Figure(f[i]) = s[i]
  <2>1. PICK a \in Nat, d \in 0..9 : a = f[i - 1] /\ d = Digits[s[i]]
    BY <1>1, <1>6, <1>8, DigitsType
  <2>2. f[i] = 10 * a + d
    BY <1>6, <2>1
  <2>3. f[i] \div 10 = a /\ f[i] % 10 = d /\ d % 10 = d
    BY <2>2, Tens
  <2>4. Figure(f[i]) = Figure(d)
    BY <2>3 DEF Figure
  <2> QED BY <1>1, <2>1, <2>3, <2>4, DigitsType
<1> QED BY <1>4, <1>6, <1>7, <1>8, <1>9 DEF n

\* Nine digits make an int: each makes it at most ten times as large and nine more.
LEMMA NineDigits ==
    ASSUME NEW s \in Seq(DOMAIN Digits), Len(s) < 10
    PROVE  Number(s) \in Nat /\ Number(s) <= INT_MAX
<1>1. PICK f : /\ f[0] = 0 /\ Number(s) = f[Len(s)]
               /\ \A i \in 0..Len(s) : f[i] \in Nat
               /\ \A i \in 1..Len(s) : f[i] = 10 * f[i - 1] + Digits[s[i]]
  BY NumberIs
<1>2. PICK l \in Nat : l = Len(s)
  OBVIOUS
<1>3. PICK n \in 0..9 : n = Len(s)
  <2>1. l < 10
    BY <1>2
  <2>2. l \in 0..9
    BY <2>1, SMT
  <2> QED BY <1>2, <2>2, Zenon
<1>4. ASSUME NEW i \in 1..n, NEW most \in Nat, f[i - 1] <= most
      PROVE  f[i] <= 10 * most + 9
  <2>1. s[i] \in DOMAIN Digits /\ i - 1 \in 0..n
    BY <1>3
  <2>2. PICK a \in Nat, d \in 0..9 : a = f[i - 1] /\ d = Digits[s[i]]
    BY <1>1, <1>3, <2>1, DigitsType
  <2>3. a <= most /\ f[i] = 10 * a + d
    BY <1>1, <1>3, <1>4, <2>2
  <2>4. 10 * a + d <= 10 * most + 9
    BY <2>3
  <2> QED BY <2>3, <2>4
<1>5. n >= 1 => f[1] <= 9
  BY <1>1, <1>4, SMT
<1>6. n >= 2 => f[2] <= 99
  BY <1>4, <1>5, SMT
<1>7. n >= 3 => f[3] <= 999
  BY <1>4, <1>6, SMT
<1>8. n >= 4 => f[4] <= 9999
  BY <1>4, <1>7, SMT
<1>9. n >= 5 => f[5] <= 99999
  BY <1>4, <1>8, SMT
<1>10. n >= 6 => f[6] <= 999999
  BY <1>4, <1>9, SMT
<1>11. n >= 7 => f[7] <= 9999999
  BY <1>4, <1>10, SMT
<1>12. n >= 8 => f[8] <= 99999999
  BY <1>4, <1>11, SMT
<1>13. n >= 9 => f[9] <= 999999999
  BY <1>4, <1>12, SMT
<1>14. PICK number \in Nat : number = f[n]
  BY <1>1, <1>3
<1>15. number <= 999999999
  BY <1>1, <1>5, <1>6, <1>7, <1>8, <1>9, <1>10, <1>11, <1>12, <1>13, <1>14, SMT
<1>16. number <= INT_MAX
  BY <1>15, SMT DEF INT_MAX
<1> QED BY <1>1, <1>3, <1>14, <1>16

\* The digits of a text end before the first other character.
LEMMA Leading ==
    ASSUME NEW t \in Seq(STRING)
    PROVE  /\ LeadingDigits(t) \in Seq(DOMAIN Digits)
           /\ Len(LeadingDigits(t)) <= Len(t)
           /\ \A i \in 1..Len(LeadingDigits(t)) : LeadingDigits(t)[i] = t[i]
           /\ Len(LeadingDigits(t)) < Len(t) => t[Len(LeadingDigits(t)) + 1] \notin DOMAIN Digits
<1> DEFINE others == {i \in DOMAIN t : t[i] \notin DOMAIN Digits}
<1>1. DOMAIN t = 1..Len(t) /\ Len(t) \in Nat /\ others \in SUBSET (Nat \ {0})
  OBVIOUS
<1>2. CASE others = {}
  <2>1. First(others) = 0
    BY <1>2 DEF First
  <2>2. LeadingDigits(t) = t
    BY <2>1, Zenon DEF LeadingDigits
  <2>3. t \in Seq(DOMAIN Digits)
    <3>1. \A i \in 1..Len(t) : t[i] \in DOMAIN Digits
      BY <1>1, <1>2
    <3> QED BY <3>1
  <2> QED BY <1>1, <2>2, <2>3
<1>3. CASE others # {}
  <2>1. PICK e \in others : e = First(others) /\ \A i \in others : e <= i
    BY <1>1, <1>3, FirstOf, Zenon
  <2>2. LeadingDigits(t) = SubSeq(t, 1, e - 1)
    <3>1. First(others) # 0
      BY <1>1, <2>1
    <3> QED BY <2>1, <3>1, Zenon DEF LeadingDigits
  <2>3. e \in 1..Len(t) /\ t[e] \notin DOMAIN Digits
    BY <1>1, <2>1
  <2>4. \A i \in 1..e-1 : t[i] \in DOMAIN Digits
    BY <1>1, <2>1, <2>3
  <2> HIDE DEF others
  <2>5. PICK s : s = SubSeq(t, 1, e - 1)
    OBVIOUS
  <2>6. Len(s) = e - 1 /\ \A i \in 1..e-1 : s[i] = t[i]
    BY <1>1, <2>3, <2>5
  <2>7. s \in Seq(DOMAIN Digits)
    <3>1. s \in Seq(STRING)
      BY <1>1, <2>3, <2>5
    <3>2. s = [i \in 1..Len(s) |-> s[i]]
      BY <3>1
    <3>3. \A i \in 1..Len(s) : s[i] \in DOMAIN Digits
      BY <2>4, <2>6
    <3> QED BY <2>3, <2>6, <3>2, <3>3
  <2> QED BY <1>1, <2>2, <2>3, <2>5, <2>6, <2>7
<1> QED BY <1>2, <1>3

\* What follows the sign.
LEMMA AfterSign ==
    ASSUME NEW text \in Seq(STRING)
    PROVE  /\ Start(text) \in {1, 2} /\ Start(text) <= Len(text) + 1
           /\ Unsigned(text) \in Seq(STRING)
           /\ Len(Unsigned(text)) = Len(text) - Start(text) + 1
           /\ \A i \in 1..Len(Unsigned(text)) : Unsigned(text)[i] = text[Start(text) - 1 + i]
           /\ Sign(text) = IF Start(text) = 2 THEN -1 ELSE 1
<1>1. CASE text # <<>> /\ text[1] = "-"
  <2>1. Sign(text) = -1 /\ Start(text) = 2 /\ Unsigned(text) = Tail(text)
    BY <1>1 DEF Sign, Start, Unsigned
  <2>2. /\ Tail(text) \in Seq(STRING) /\ Len(Tail(text)) = Len(text) - 1 /\ Len(text) >= 1
        /\ \A i \in 1..Len(Tail(text)) : Tail(text)[i] = text[i + 1]
    BY <1>1
  <2>3. Len(text) \in Nat
    OBVIOUS
  <2> QED BY <2>1, <2>2, <2>3
<1>2. CASE ~(text # <<>> /\ text[1] = "-")
  <2>1. Sign(text) = 1 /\ Start(text) = 1
    BY <1>2 DEF Sign, Start
  <2>2. Unsigned(text) = text
    BY <2>1 DEF Unsigned
  <2> QED BY <2>1, <2>2
<1> QED BY <1>1, <1>2

-----------------------------------------------------------------------------
(* Numbers are read for what they are *)

\* The number of the digits after the sign stands there.
LEMMA NumberStands ==
    ASSUME NEW text \in Seq(STRING), NEW w, w = LeadingDigits(Unsigned(text))
    PROVE  Stands(Number(w), text, Start(text), Start(text) - 1 + Len(w))
<1>1. PICK u \in Seq(STRING) : u = Unsigned(text)
  BY AfterSign
<1>2. PICK a \in {1, 2} : a = Start(text)
  BY AfterSign
<1>3. /\ Len(u) = Len(text) - a + 1 /\ Len(u) \in Nat /\ Len(text) \in Nat
      /\ \A i \in 1..Len(u) : u[i] = text[a - 1 + i]
  BY <1>1, <1>2, AfterSign
<1>4. /\ w \in Seq(DOMAIN Digits) /\ Len(w) \in Nat /\ Len(w) <= Len(u)
      /\ \A i \in 1..Len(w) : w[i] = u[i]
      /\ Len(w) < Len(u) => u[Len(w) + 1] \notin DOMAIN Digits
  BY <1>1, Leading
<1>5. PICK m \in Nat : m = Len(w)
  BY <1>4
<1>6. PICK b : b = a - 1 + m
  OBVIOUS
<1>7. PICK n : n = Number(w)
  OBVIOUS
<1>8. PICK f : /\ f[0] = 0 /\ n = f[m]
               /\ \A i \in 0..m : f[i] \in Nat
               /\ \A i \in 1..m : f[i] \div 10 = f[i - 1] /\ Figure(f[i]) = w[i]
  <2>1. \E g : /\ g[0] = 0 /\ Number(w) = g[Len(w)]
               /\ \A i \in 0..Len(w) : g[i] \in Nat
               /\ \A i \in 1..Len(w) : g[i] \div 10 = g[i - 1] /\ Figure(g[i]) = w[i]
    BY <1>4, NumberIs
  <2> QED BY <1>5, <1>7, <2>1
<1>9. b \in Int /\ b - a + 1 = m /\ b - a = m - 1
  BY <1>2, <1>5, <1>6
<1> DEFINE L(left) == left = [j \in 0..m |-> IF j = 0 THEN n ELSE left[j - 1] \div 10]
<1>10. \E left : L(left)
  <2> DEFINE g == [j \in 0..m |-> f[m - j]]
  <2>1. \A j \in 0..m : g[j] = f[m - j]
    OBVIOUS
  <2>2. g = [j \in 0..m |-> g[j]]
    OBVIOUS
  <2> HIDE DEF g
  <2>3. ASSUME NEW j \in 0..m
        PROVE  g[j] = IF j = 0 THEN n ELSE g[j - 1] \div 10
    <3>1. CASE j = 0
      BY <1>8, <2>1, <3>1
    <3>2. CASE j # 0
      <4>1. j - 1 \in 0..m /\ m - (j - 1) \in 1..m /\ (m - (j - 1)) - 1 = m - j
        BY <3>2
      <4>2. g[j - 1] = f[m - (j - 1)] /\ f[m - (j - 1)] \div 10 = f[m - j]
        BY <1>8, <2>1, <4>1
      <4> QED BY <2>1, <3>2, <4>2
    <3> QED BY <3>1, <3>2
  <2>4. L(g)
    BY <2>2, <2>3
  <2> HIDE DEF L
  <2> QED BY <2>4
<1> DEFINE left == CHOOSE left : L(left)
<1>11. \A j \in 0..m : left[j] = IF j = 0 THEN n ELSE left[j - 1] \div 10
  <2> HIDE DEF L
  <2>1. L(left)
    BY <1>10
  <2> HIDE DEF left
  <2> QED BY <2>1 DEF L
<1> HIDE DEF left
<1>12. \A j \in 0..m : left[j] = f[m - j]
  <2> DEFINE S == {j \in Nat : j <= m => left[j] = f[m - j]}
  <2>1. 0 \in S
    BY <1>8, <1>11
  <2>2. ASSUME NEW j \in S
        PROVE  j + 1 \in S
    <3>1. j \in Nat /\ j + 1 \in Nat /\ (j <= m => left[j] = f[m - j])
      OBVIOUS
    <3> HIDE DEF S
    <3>2. ASSUME j + 1 <= m
          PROVE  left[j + 1] = f[m - (j + 1)]
      <4>1. /\ j + 1 \in 0..m /\ j + 1 # 0 /\ (j + 1) - 1 = j /\ j <= m
            /\ m - j \in 1..m /\ (m - j) - 1 = m - (j + 1)
        BY <3>1, <3>2
      <4>2. left[j + 1] = left[j] \div 10 /\ left[j] = f[m - j]
        BY <1>11, <3>1, <4>1
      <4> QED BY <1>8, <4>1, <4>2
    <3> QED BY <3>1, <3>2 DEF S
  <2>3. \A j \in Nat : j \in S
    <3> HIDE DEF S
    <3>1. S \in SUBSET Nat
      BY DEF S
    <3> QED BY <2>1, <2>2, <3>1, Induct
  <2> QED BY <2>3
<1>13. left[m] = 0
  <2>1. m \in 0..m /\ m - m = 0
    OBVIOUS
  <2> QED BY <1>8, <1>12, <2>1
<1>14. ASSUME NEW j \in 0..b-a
       PROVE  text[b - j] = Figure(left[j])
  <2>1. j \in 0..m /\ m - j \in 1..m /\ b - j = a - 1 + (m - j)
    BY <1>6, <1>9
  <2>2. Figure(left[j]) = w[m - j]
    BY <1>8, <1>12, <2>1
  <2>3. m - j \in 1..Len(u) /\ w[m - j] = u[m - j]
    <3>1. m \in Nat /\ m <= Len(u) /\ \A i \in 1..m : w[i] = u[i]
      BY <1>4, <1>5
    <3>2. m - j \in 1..m
      BY <2>1
    <3>3. 1..m \subseteq 1..Len(u)
      BY <1>3, <3>1
    <3> QED BY <3>1, <3>2, <3>3
  <2> QED BY <1>3, <2>1, <2>2, <2>3
<1>15. b < Len(text) => text[b + 1] \notin DOMAIN Digits
  <2> SUFFICES ASSUME b < Len(text)
               PROVE  text[b + 1] \notin DOMAIN Digits
    OBVIOUS
  <2>1. m < Len(u) /\ m + 1 \in 1..Len(u) /\ a - 1 + (m + 1) = b + 1
    BY <1>3, <1>6
  <2> QED BY <1>3, <1>4, <1>5, <2>1
<1>16. left = CHOOSE left_ : left_ = [j \in 0..b-a+1 |-> IF j = 0 THEN n ELSE left_[j - 1] \div 10]
  BY <1>9 DEF left
<1>17. Stands(n, text, a, b)
  <2>1. left[b - a + 1] = 0
    BY <1>9, <1>13
  <2> QED BY <1>14, <1>15, <1>16, <2>1, Zenon DEF Stands
<1> QED BY <1>2, <1>5, <1>6, <1>7, <1>17
LEMMA Ints == INT_MAX \in Nat /\ INT_INVALID = -INT_MAX - 1
<1>1. INT_MAX \in Nat
  BY SMT DEF INT_MAX
<1> QED BY <1>1 DEF INT_INVALID

LEMMA WithSign ==
    ASSUME NEW text \in Seq(STRING), NEW n \in Nat, NEW number, number = Sign(text) * n
    PROVE  /\ number \in Int /\ Abs(number) = n /\ SameSign(number, text)
           /\ number <= n /\ number >= -n
<1>1. CASE Start(text) = 2
  <2>1. number = -n
    BY <1>1, AfterSign
  <2> QED BY <1>1, <2>1 DEF Abs, SameSign
<1>2. CASE Start(text) # 2
  <2>1. number = n
    BY <1>2, AfterSign
  <2> QED BY <1>2, <2>1 DEF Abs, SameSign
<1> QED BY <1>1, <1>2

LEMMA IntegerRead ==
    ASSUME NEW text \in Seq(STRING), Len(text) < 10
    PROVE  BeginsWithInteger(text, atoi(text)) /\ atoi(text) # INT_INVALID
<1>1. PICK w : w = LeadingDigits(Unsigned(text))
  OBVIOUS
<1>2. PICK a \in {1, 2}, l \in Nat : a = Start(text) /\ l = Len(text) /\ l < 10 /\ a <= l + 1
  BY AfterSign
<1>3. /\ w \in Seq(DOMAIN Digits)
      /\ \E m \in Nat : m = Len(w) /\ m <= l - a + 1
  BY <1>1, <1>2, AfterSign, Leading
<1>4. PICK m \in Nat : m = Len(w) /\ m <= l - a + 1
  BY <1>3
<1>5. Len(w) < 10
  BY <1>2, <1>4
<1>6. PICK n \in Nat : n = Number(w) /\ n <= INT_MAX
  BY <1>3, <1>5, NineDigits
<1>7. PICK number : number = Sign(text) * n
  OBVIOUS
<1>8. /\ number \in Int /\ Abs(number) = n /\ SameSign(number, text)
      /\ number <= n /\ number >= -n
  BY <1>7, WithSign
<1>9. atoi(text) = number /\ number # INT_INVALID
  <2>1. number \in INT_INVALID..INT_MAX /\ number # INT_INVALID
    BY <1>6, <1>8, Ints
  <2> QED BY <1>1, <1>6, <1>7, <2>1 DEF atoi
<1>10. Stands(Abs(number), text, Start(text), Start(text) - 1 + Len(w))
  BY <1>1, <1>6, <1>8, NumberStands
<1>11. Start(text) - 1 + Len(w) \in Start(text)-1..Len(text)
  BY <1>2, <1>4
<1> QED BY <1>8, <1>9, <1>10, <1>11 DEF BeginsWithInteger

LEMMA TenthsRead ==
    ASSUME NEW text \in Seq(STRING)
    PROVE  BeginsWithTenths(text, atof(text))
<1>1. PICK u \in Seq(STRING) : u = Unsigned(text)
  BY AfterSign
<1>2. PICK w : w = LeadingDigits(u)
  OBVIOUS
<1>3. PICK a \in {1, 2}, l \in Nat : a = Start(text) /\ l = Len(text) /\ a <= l + 1
  BY AfterSign
<1>4. Len(u) = l - a + 1 /\ Len(u) \in Nat /\ \A i \in 1..Len(u) : u[i] = text[a - 1 + i]
  BY <1>1, <1>3, AfterSign
<1>5. w \in Seq(DOMAIN Digits) /\ Len(w) \in Nat /\ Len(w) <= Len(u)
  BY <1>2, Leading
<1>6. PICK m \in Nat : m = Len(w) /\ m <= l - a + 1
  BY <1>4, <1>5
<1>7. PICK n \in Nat : n = Number(w)
  <2>1. PICK f : Number(w) = f[Len(w)] /\ \A i \in 0..Len(w) : f[i] \in Nat
    BY <1>5, NumberIs
  <2>2. Len(w) \in 0..Len(w)
    BY <1>5
  <2> QED BY <2>1, <2>2
<1> DEFINE tenth == IF m + 1 < Len(u) /\ u[m + 1] = "." /\ u[m + 2] \in DOMAIN Digits
                    THEN Digits[u[m + 2]] ELSE 0
<1>8. tenth \in 0..9 /\ Tenth(text, a + m) = Figure(tenth)
  <2>1. m + 1 < Len(u) <=> a + m < l
    BY <1>4
  <2>2. CASE a + m < l
    <3>1. u[m + 1] = text[a + m] /\ u[m + 2] = text[a + m + 1]
      <4>1. m + 1 \in 1..Len(u) /\ m + 2 \in 1..Len(u)
        BY <2>1, <2>2, <1>4
      <4>2. a - 1 + (m + 1) = a + m /\ a - 1 + (m + 2) = a + m + 1
        OBVIOUS
      <4> QED BY <1>4, <4>1, <4>2
    <3>2. Tenth(text, a + m) = IF text[a + m] = "." /\ text[a + m + 1] \in DOMAIN Digits
                               THEN text[a + m + 1] ELSE "0"
      BY <1>3, <2>2 DEF Tenth
    <3>3. CASE text[a + m] = "." /\ text[a + m + 1] \in DOMAIN Digits
      <4>1. tenth = Digits[text[a + m + 1]] /\ Tenth(text, a + m) = text[a + m + 1]
        BY <2>1, <2>2, <3>1, <3>2, <3>3
      <4> HIDE DEF tenth
      <4> QED BY <3>3, <4>1, DigitsType
    <3>4. CASE ~(text[a + m] = "." /\ text[a + m + 1] \in DOMAIN Digits)
      <4>1. tenth = 0 /\ Tenth(text, a + m) = "0"
        BY <3>1, <3>2, <3>4
      <4> HIDE DEF tenth
      <4> QED BY <4>1, DigitsType
    <3> HIDE DEF tenth
    <3> QED BY <3>3, <3>4
  <2>3. CASE ~(a + m < l)
    <3>1. tenth = 0 /\ Tenth(text, a + m) = "0"
      BY <1>3, <2>1, <2>3 DEF Tenth
    <3> HIDE DEF tenth
    <3> QED BY <3>1, DigitsType
  <2> HIDE DEF tenth
  <2> QED BY <2>2, <2>3
<1>9. atof(text) = Sign(text) * (10 * n + tenth)
  <2>1. m + 1 + 1 = m + 2
    OBVIOUS
  <2> QED BY <1>1, <1>2, <1>6, <1>7, <2>1 DEF atof
<1> HIDE DEF tenth
<1>10. PICK d \in 0..9 : d = tenth
  BY <1>8
<1>11. PICK total \in Nat : total = 10 * n + d
  BY Tens
<1>12. Abs(atof(text)) = total /\ SameSign(atof(text), text)
  BY <1>9, <1>10, <1>11, WithSign
<1>13. total \div 10 = n /\ Figure(total) = Figure(d)
  BY <1>11, Tens DEF Figure
<1>14. PICK b \in a-1..l : b = a - 1 + m
  BY <1>3, <1>6
<1>15. Stands(n, text, a, b)
  <2>1. Stands(n, text, a, a - 1 + m)
    BY <1>1, <1>2, <1>3, <1>6, <1>7, NumberStands
  <2> QED BY <1>14, <2>1
<1>16. Tenth(text, b + 1) = Figure(d)
  <2>1. b + 1 = a + m
    BY <1>14
  <2> QED BY <1>8, <1>10, <2>1
<1> QED BY <1>3, <1>12, <1>13, <1>14, <1>15, <1>16 DEF BeginsWithTenths

-----------------------------------------------------------------------------
(* The start of the program *)

\* What the program does until it has its ring is, for the settings, to read
\* them or nothing: what is proved of Settings holds of it (init_properties).
THEOREM ReadsSettings == StartupSpec => Spec
<1>1. StartupInit => Init
  BY DEF StartupInit
<1>2. [StartupNext]_<<vars, startup_vars>> => [Next]_vars
  BY DEF StartupNext, OpenFile, FileMissing, ReadSettings, GivenUp, InitProperties, SizeRing, vars
<1> QED BY <1>1, <1>2, PTL DEF StartupSpec, Spec

\* The properties are those of the settings that were opened, or as they were,
\* and the ring is sized by them.
SizedOK ==
    /\ stage = "open" => pc = "reading"
    /\ properties = IF Configured THEN init_properties ELSE Unset
    /\ stage = "sized" =>
         /\ num_samples_in_record = NumSamples(properties.mswrite_data_encoding_type)
         /\ file_index_modulo \in RingSize(properties, num_samples_in_record)

LEMMA GotUnchanged ==
    ASSUME UNCHANGED sections, NEW s, NEW k, NEW n
    PROVE  Got(s, k, n)' = Got(s, k, n)
<1>1. get_section(s)' = get_section(s)
  BY DEF get_section
<1>2. Found(s, k)' = Found(s, k)
  BY <1>1 DEF Found, settings_get
<1> QED BY <1>2 DEF Got

LEMMA PropertiesUnchanged ==
    ASSUME UNCHANGED sections
    PROVE  init_properties' = init_properties
<1>1. \A s, k, d : settings_get_helper(s, k, d)' = settings_get_helper(s, k, d)
  BY GotUnchanged DEF settings_get_helper
<1>2. \A s, k, d : settings_get_int_helper(s, k, d)' = settings_get_int_helper(s, k, d)
  BY GotUnchanged DEF settings_get_int_helper, settings_get_int, Convertible
<1>3. \A s, k, d : settings_get_double_helper(s, k, d)' = settings_get_double_helper(s, k, d)
  BY GotUnchanged DEF settings_get_double_helper, Convertible
<1>4. \A p : Value(p)' = Value(p)
  BY <1>1, <1>2, <1>3, Zenon DEF Value
<1> QED BY <1>4, Zenon DEF init_properties

LEMMA SizedKept ==
    ASSUME SizedOK, [StartupNext]_<<vars, startup_vars>>
    PROVE  SizedOK'
<1> USE DEF SizedOK, Configured
<1>1. CASE OpenFile
  BY <1>1 DEF OpenFile, vars
<1>2. CASE FileMissing
  BY <1>2 DEF FileMissing, vars
<1>3. CASE ReadSettings
  BY <1>3 DEF ReadSettings, startup_vars
<1>4. CASE GivenUp
  BY <1>4 DEF GivenUp, vars
<1>5. CASE InitProperties
  <2>1. UNCHANGED sections
    BY <1>5 DEF InitProperties, vars
  <2>2. init_properties' = init_properties
    BY <2>1, PropertiesUnchanged
  <2>3. pc' = "opened" /\ stage' = "size" /\ properties' = init_properties
    BY <1>5 DEF InitProperties, vars
  <2> QED BY <2>2, <2>3
<1>6. CASE SizeRing
  <2>1. UNCHANGED <<sections, pc, properties>> /\ stage = "size" /\ stage' = "sized"
    BY <1>6 DEF SizeRing, vars
  <2>2. init_properties' = init_properties
    BY <2>1, PropertiesUnchanged
  <2>3. properties' = IF Configured' THEN init_properties' ELSE Unset
    BY <2>1, <2>2
  <2>4. /\ num_samples_in_record' = NumSamples(properties'.mswrite_data_encoding_type)
        /\ file_index_modulo' \in RingSize(properties', num_samples_in_record')
    BY <1>6, <2>1 DEF SizeRing
  <2> QED BY <2>1, <2>3, <2>4
<1>7. CASE UNCHANGED <<vars, startup_vars>>
  <2>1. UNCHANGED <<sections, pc, stage, properties, num_samples_in_record, file_index_modulo>>
    BY <1>7 DEF vars, startup_vars
  <2>2. init_properties' = init_properties
    BY <2>1, PropertiesUnchanged
  <2> QED BY <2>1, <2>2
<1> QED BY <1>1, <1>2, <1>3, <1>4, <1>5, <1>6, <1>7 DEF StartupNext

-----------------------------------------------------------------------------
(* What is found is what the last line says that sets it *)

LEMMA LastOf ==
    ASSUME NEW S \in SUBSET Nat, NEW m \in S, \A i \in S : i <= m
    PROVE  (CHOOSE i \in S : \A j \in S : j <= i) = m
<1>1. \A i \in S : (\A j \in S : j <= i) => i = m
  OBVIOUS
<1> QED BY <1>1

LEMMA FoundIsLast ==
    ASSUME IInv, pc = "opened", NEW s \in Sections, NEW k
    PROVE  /\ Found(s, k) = LastAssigned(read, s, k)
           /\ Found(s, k) \in Values \cup {None}
<1> DEFINE places == Assignments(read, s, k)
<1>1. /\ TypeOK /\ GetsWhatWasRead /\ DOMAIN read = 1..Len(read) /\ Len(read) \in Nat
      /\ \A i \in DOMAIN read : read[i] \in Lines
  BY DEF IInv, TypeOK
<1>2. \A i : i \in places <=> i \in DOMAIN read /\ Assigns(i, s, k)
  BY DEF Assignments, Assigns, Within
<1>3. \A i \in places : read[i][2] = k /\ read[i][2] \in Keys /\ read[i][3] \in Values
  <2> SUFFICES ASSUME NEW i \in DOMAIN read, read[i][1] = "pair", read[i][2] = k
               PROVE  read[i][2] \in Keys /\ read[i][3] \in Values
    BY <1>2 DEF Assigns
  <2>1. /\ read[i] # BlankLine /\ read[i] # BadLine
        /\ \A t \in Sections \cup {None} : read[i] # SectionLine(t)
    BY LineParts
  <2>2. PICK q \in Keys, v \in Values : read[i] = PairLine(q, v)
    BY <1>1, <2>1 DEF Lines
  <2> QED BY <2>2, LineParts
<1> HIDE DEF places
<1>4. CASE k \notin Keys
  <2>1. places = {}
    BY <1>3, <1>4
  <2> QED BY <1>4, <2>1 DEF Found, LastAssigned, places
<1>5. CASE k \in Keys
  <2>1. Found(s, k) = settings_get(s, k)
    BY <1>5 DEF Found
  <2>2. CASE settings_get(s, k) = None /\ \A i \in DOMAIN read : ~Assigns(i, s, k)
    <3>1. places = {}
      BY <1>2, <2>2
    <3> QED BY <2>1, <2>2, <3>1 DEF LastAssigned, places
  <2>3. ASSUME NEW i \in DOMAIN read, Assigns(i, s, k), settings_get(s, k) = read[i][3],
               \A j \in i+1..Len(read) : ~Assigns(j, s, k)
        PROVE  /\ Found(s, k) = LastAssigned(read, s, k)
               /\ Found(s, k) \in Values \cup {None}
    <3>1. i \in places /\ places \in SUBSET Nat
      BY <1>1, <1>2, <2>3
    <3>2. \A j \in places : j <= i
      BY <1>1, <1>2, <2>3
    <3>3. (CHOOSE l \in places : \A j \in places : j <= l) = i
      BY <3>1, <3>2, LastOf
    <3>4. LastAssigned(read, s, k) = read[i][3]
      BY <3>1, <3>3 DEF LastAssigned, places
    <3> QED BY <1>3, <2>1, <2>3, <3>1, <3>4
  <2> QED BY <1>1, <1>5, <2>2, <2>3 DEF GetsWhatWasRead
<1> QED BY <1>4, <1>5

-----------------------------------------------------------------------------
(* The properties are as filed *)

LEMMA KnownTypes ==
    ASSUME NEW name \in DOMAIN Known
    PROVE  /\ Known[name].type \in {"text", "int", "double"}
           /\ Known[name].section \in Sections
           /\ Known[name].type # "text" => Known[name].default \in Int
<1>1. Known[name].section \in {"Logging", "Station"}
  BY DEF Known, Property
<1>2. Known[name].type \in {"text", "int", "double"}
  BY DEF Known, Property
<1>3. Known[name].type # "text" => Known[name].default \in Int
  BY DEF Known, Property
<1> QED BY <1>1, <1>2, <1>3, SectionsAssumption

\* What is copied to a buffer is what is found, if it fits.
LEMMA GotIs ==
    ASSUME IInv, pc = "opened", NEW s \in Sections, NEW k, NEW n \in Nat, NEW value,
           value = LastAssigned(read, s, k)
    PROVE  /\ Got(s, k, n) = IF FitsIn(value, n) THEN value ELSE None
           /\ value # None => value \in Seq(STRING)
<1>1. Found(s, k) = value /\ value \in Values \cup {None}
  BY FoundIsLast
<1>2. value # None => strlen[value] \in Nat
  BY <1>1, LengthAssumption
<1>3. value # None => (strlen[value] >= n <=> ~(strlen[value] < n))
  BY <1>2
<1> QED BY <1>1, <1>3, TextAssumption DEF Got, FitsIn

LEMMA IntegerAsFiled ==
    ASSUME NEW p, p.type = "int", NEW value, value # None => value \in Seq(STRING),
           Got(p.section, p.key, MAX_VALUECHARS)
             = IF FitsIn(value, MAX_VALUECHARS) THEN value ELSE None
    PROVE  AsFiled(p, value, Value(p))
<1>1. Value(p) = settings_get_int_helper(p.section, p.key, p.default)
  BY DEF Value
<1>2. CASE ConsistsOf(value, DOMAIN Digits \cup {"-"})
  <2>1. value # None /\ value \in Seq(STRING)
    BY <1>2 DEF ConsistsOf, FitsIn
  <2>2. Convertible(p.section, p.key, {}) = value
    BY <1>2, <2>1 DEF Convertible, is_number, ConsistsOf
  <2>3. settings_get_int(p.section, p.key) = atoi(value)
    BY <2>1, <2>2 DEF settings_get_int
  <2>4. Len(value) < 10 => BeginsWithInteger(value, Value(p))
    BY <1>1, <2>1, <2>3, IntegerRead DEF settings_get_int_helper
  <2> QED BY <1>2, <2>4 DEF AsFiled
<1>3. CASE ~ConsistsOf(value, DOMAIN Digits \cup {"-"})
  <2>1. Convertible(p.section, p.key, {}) = None
    BY <1>3 DEF Convertible, is_number, ConsistsOf
  <2>2. Value(p) = p.default
    BY <1>1, <2>1 DEF settings_get_int_helper, settings_get_int
  <2> QED BY <1>3, <2>2 DEF AsFiled
<1> QED BY <1>2, <1>3

LEMMA DoubleAsFiled ==
    ASSUME NEW p, p.type = "double", NEW value, value # None => value \in Seq(STRING),
           Got(p.section, p.key, MAX_VALUECHARS)
             = IF FitsIn(value, MAX_VALUECHARS) THEN value ELSE None
    PROVE  AsFiled(p, value, Value(p))
<1>1. Value(p) = settings_get_double_helper(p.section, p.key, p.default)
  BY DEF Value
<1>2. CASE ConsistsOf(value, DOMAIN Digits \cup {"-", "."})
  <2>1. value # None /\ value \in Seq(STRING)
    BY <1>2 DEF ConsistsOf, FitsIn
  <2>2. Convertible(p.section, p.key, {"."}) = value
    BY <1>2, <2>1 DEF Convertible, is_number, ConsistsOf
  <2>3. Value(p) = atof(value)
    BY <1>1, <2>1, <2>2 DEF settings_get_double_helper
  <2>4. BeginsWithTenths(value, Value(p))
    BY <2>1, <2>3, TenthsRead
  <2> QED BY <1>2, <2>4 DEF AsFiled
<1>3. CASE ~ConsistsOf(value, DOMAIN Digits \cup {"-", "."})
  <2>1. Convertible(p.section, p.key, {"."}) = None
    BY <1>3 DEF Convertible, is_number, ConsistsOf
  <2>2. Value(p) = p.default
    BY <1>1, <2>1 DEF settings_get_double_helper
  <2> QED BY <1>3, <2>2 DEF AsFiled
<1> QED BY <1>2, <1>3

LEMMA TextAsFiled ==
    ASSUME NEW p, p.type = "text", NEW value,
           Got(p.section, p.key, STANDARD_STRLEN)
             = IF FitsIn(value, STANDARD_STRLEN) THEN value ELSE None
    PROVE  AsFiled(p, value, Value(p))
<1>1. Value(p) = settings_get_helper(p.section, p.key, p.default)
  BY DEF Value
<1>2. FitsIn(value, STANDARD_STRLEN) => value # None
  BY DEF FitsIn
<1> QED BY <1>1, <1>2 DEF AsFiled, settings_get_helper

LEMMA FiledOf ==
    IInv /\ SizedOK => PropertiesAsFiled
<1> SUFFICES ASSUME IInv, SizedOK, Configured, NEW name \in DOMAIN Known
             PROVE  AsFiled(Known[name],
                            LastAssigned(read, Known[name].section, Known[name].key),
                            properties[name])
  BY DEF PropertiesAsFiled
<1>1. PICK p : p = Known[name]
  OBVIOUS
<1>2. PICK value : value = LastAssigned(read, p.section, p.key)
  OBVIOUS
<1>3. pc = "opened" /\ properties = init_properties
  BY DEF SizedOK, Configured
<1>4. properties[name] = Value(p)
  BY <1>1, <1>3 DEF init_properties
<1>5. p.section \in Sections /\ p.type \in {"text", "int", "double"}
  BY <1>1, KnownTypes
<1>6. \A n \in Nat : Got(p.section, p.key, n) = IF FitsIn(value, n) THEN value ELSE None
  BY <1>2, <1>3, <1>5, GotIs
<1>7. value # None => value \in Seq(STRING)
  <2>1. 0 \in Nat
    OBVIOUS
  <2> QED BY <1>2, <1>3, <1>5, <2>1, GotIs
<1>8. MAX_VALUECHARS \in Nat /\ STANDARD_STRLEN \in Nat
  BY BufferAssumption
<1>9. AsFiled(p, value, Value(p))
  BY <1>5, <1>6, <1>7, <1>8, TextAsFiled, IntegerAsFiled, DoubleAsFiled
<1> QED BY <1>1, <1>2, <1>4, <1>9

-----------------------------------------------------------------------------
(* The ring *)

LEMMA Quotient ==
    ASSUME NEW a \in Nat, NEW b \in Nat \ {0}
    PROVE  /\ Truncate(a, b) \in Nat /\ Truncate(a, b) = a \div b
           /\ Truncate(a, b) * b <= a /\ a < (Truncate(a, b) + 1) * b
           /\ a >= b => Truncate(a, b) > 0
<1>1. Truncate(a, b) = a \div b
  BY DEF Truncate, Abs
<1>2. /\ a \div b \in Nat
      /\ (a \div b) * b <= a /\ a < (a \div b + 1) * b
      /\ a >= b => a \div b > 0
  OBVIOUS
<1> QED BY <1>1, <1>2

LEMMA NumberTypes ==
    ASSUME NEW text \in Seq(STRING)
    PROVE  atoi(text) \in Int /\ atof(text) \in Int
<1>1. PICK w : w = LeadingDigits(Unsigned(text))
  OBVIOUS
<1>2. w \in Seq(DOMAIN Digits)
  BY <1>1, AfterSign, Leading
<1>3. Number(w) \in Nat
  <2>1. PICK f : Number(w) = f[Len(w)] /\ \A i \in 0..Len(w) : f[i] \in Nat
    BY <1>2, NumberIs
  <2>2. Len(w) \in 0..Len(w)
    BY <1>2
  <2> QED BY <2>1, <2>2
<1>4. atoi(text) \in Int
  <2>1. Sign(text) * Number(w) \in Int
    BY <1>3, WithSign
  <2> QED BY <1>1, <2>1, BufferAssumption DEF atoi
<1>5. atof(text) \in Int
  <2>1. \A d \in 0..9 : Sign(text) * (10 * Number(w) + d) \in Int
    BY <1>3, Tens, WithSign
  <2>2. \E d \in 0..9 : atof(text) = Sign(text) * (10 * Number(w) + d)
    <3>1. \A c \in DOMAIN Digits : Digits[c] \in 0..9
      BY DigitsType
    <3>2. 0 \in 0..9
      OBVIOUS
    <3> QED BY <1>1, <3>1, <3>2, Zenon DEF atof
  <2> QED BY <2>1, <2>2
<1> QED BY <1>4, <1>5

LEMMA Numeric ==
    ASSUME IInv, SizedOK, NEW name \in DOMAIN Known, Known[name].type # "text"
    PROVE  properties[name] \in Int
<1>1. CASE ~Configured
  <2>1. properties[name] \in {<<"/dev/usbdev1.1">>, 0} /\ name # "port_path_hint"
    <3>1. name # "port_path_hint"
      BY DEF Known, Property
    <3> QED BY <1>1, <3>1 DEF SizedOK, Unset
  <2>2. properties[name] = 0
    BY <1>1, <2>1 DEF SizedOK, Unset
  <2> QED BY <2>2
<1>2. CASE Configured
  <2>1. PICK p : p = Known[name]
    OBVIOUS
  <2>2. pc = "opened" /\ properties[name] = Value(p)
    BY <1>2, <2>1 DEF SizedOK, Configured, init_properties
  <2>3. p.section \in Sections /\ p.type \in {"int", "double"} /\ p.default \in Int
    BY <2>1, KnownTypes
  <2>4. \A others : \/ Convertible(p.section, p.key, others) = None
                    \/ Convertible(p.section, p.key, others) \in Seq(STRING)
    BY <2>2, <2>3, GotIs, BufferAssumption DEF Convertible, FitsIn
  <2>5. CASE p.type = "int"
    <3>1. Value(p) = settings_get_int_helper(p.section, p.key, p.default)
      BY <2>5 DEF Value
    <3> QED BY <2>2, <2>3, <2>4, <3>1, NumberTypes, Ints
            DEF settings_get_int_helper, settings_get_int
  <2>6. CASE p.type = "double"
    <3>1. Value(p) = settings_get_double_helper(p.section, p.key, p.default)
      BY <2>6 DEF Value
    <3> QED BY <2>2, <2>3, <2>4, <3>1, NumberTypes DEF settings_get_double_helper
  <2> QED BY <2>3, <2>5, <2>6
<1> QED BY <1>1, <1>2

LEMMA SizedOf ==
    IInv /\ SizedOK => RingSized
<1> DEFINE size == properties.mswrite_buffer_size
<1> DEFINE rate == properties.nominal_sample_rate
<1> DEFINE nrec == properties.num_records_in_file
<1> DEFINE nsamp == num_samples_in_record
<1> DEFINE samples == size * 360 * rate
<1> DEFINE file == nsamp * nrec
<1> SUFFICES ASSUME IInv, SizedOK, stage = "sized", nsamp # -1,
                    nrec > 0, size > 0, rate > 0,
                    file <= INT_MAX, samples \div file <= INT_MAX
             PROVE  /\ file > 0 /\ file_index_modulo * file <= samples
                    /\ (file_index_modulo + 1) * file > samples
                    /\ samples >= file => file_index_modulo > 0
  BY DEF RingSized
<1>1. size \in Int /\ rate \in Int /\ nrec \in Int
  <2>1. /\ {"mswrite_buffer_size", "nominal_sample_rate", "num_records_in_file"} \subseteq DOMAIN Known
        /\ Known["mswrite_buffer_size"].type = "double" /\ Known["nominal_sample_rate"].type = "int"
        /\ Known["num_records_in_file"].type = "int"
    BY DEF Known, Property
  <2>2. /\ properties["mswrite_buffer_size"] \in Int /\ properties["nominal_sample_rate"] \in Int
        /\ properties["num_records_in_file"] \in Int
    BY <2>1, Numeric
  <2> QED BY <2>2
<1>2. nsamp \in {114, 228}
  BY DEF SizedOK, NumSamples
<1>3. file_index_modulo \in RingSize(properties, nsamp)
  BY DEF SizedOK
<1>4. PICK f \in Nat \ {0}, all \in Nat : f = file /\ all = samples
  <2> HIDE DEF size, rate, nrec, nsamp
  <2>1. file \in Nat \ {0}
    BY <1>1, <1>2
  <2>2. samples \in Nat
    BY <1>1
  <2> QED BY <2>1, <2>2
<1>5. file_index_modulo \in FilesIn(all, f)
  BY <1>3, <1>4 DEF RingSize
<1>6. f <= INT_MAX /\ all \div f <= INT_MAX
  BY <1>4
<1> HIDE DEF samples, file, size, rate, nrec, nsamp
<1>7. file_index_modulo = Truncate(all, f)
  <2>1. Truncate(all, f) = all \div f /\ Truncate(all, f) \in Nat
    BY Quotient
  <2>2. f \in INT_INVALID..INT_MAX /\ f # 0 /\ Truncate(all, f) \in INT_INVALID..INT_MAX
    BY <1>6, <2>1, Ints
  <2> QED BY <1>5, <2>2 DEF FilesIn
<1>8. /\ file_index_modulo * f <= all /\ (file_index_modulo + 1) * f > all
      /\ all >= f => file_index_modulo > 0
  <2> DEFINE m == file_index_modulo
  <2>1. /\ m \in Nat /\ m * f <= all /\ all < (m + 1) * f
        /\ all >= f => m > 0
    BY <1>7, Quotient
  <2>2. (m + 1) * f \in Nat
    BY <2>1
  <2> QED BY <2>1, <2>2
<1> QED BY <1>4, <1>8

-----------------------------------------------------------------------------
(* Theorems *)

\* The properties follow from the settings that were opened, and the size of the
\* ring from the properties.
THEOREM StartupInvariance == StartupSpec => [](IInv /\ SizedOK)
<1>1. StartupInit => SizedOK
  BY DEF StartupInit, Init, SizedOK, Configured
<1>2. SizedOK /\ [StartupNext]_<<vars, startup_vars>> => SizedOK'
  BY SizedKept
<1> QED BY <1>1, <1>2, ReadsSettings, Invariance, PTL DEF StartupSpec

\* Each of the 17 properties is what the last line of the file says that sets it,
\* a text as it is and a number as the text begins, or its default if none does or
\* the text does not fit its buffer or has another character: for every file, in
\* whatever order and parts its sections come, however its keys share buckets and
\* whatever the texts are (but for an int of ten digits or more).
THEOREM PropertiesAsFiledHolds == StartupSpec => []PropertiesAsFiled
<1> QED BY StartupInvariance, FiledOf, PTL

\* From positive properties of a known encoding comes a ring that holds as many
\* whole files as fill the hours, unless a number is too large for an int.
THEOREM RingSizedHolds == StartupSpec => []RingSized
<1> QED BY StartupInvariance, SizedOf, PTL
-----------------------------------------------------------------------------
(* Sequences put together *)

\* FlattenSeq puts one part after the other.
LEMMA Joining ==
    ASSUME NEW n \in Nat, NEW parts
    PROVE  \E f : f = [i \in 1..n |-> IF i = 1 THEN parts[i] ELSE f[i - 1] \o parts[i]]
<1> DEFINE Joins(f, m) == f = [i \in 1..m |-> IF i = 1 THEN parts[i] ELSE f[i - 1] \o parts[i]]
<1> DEFINE S == {m \in Nat : \E f : Joins(f, m)}
<1>1. 0 \in S
  <2> DEFINE f == [i \in 1..0 |-> parts]
  <2>1. Joins(f, 0)
    OBVIOUS
  <2> QED BY <2>1
<1>2. ASSUME NEW m \in S
      PROVE  m + 1 \in S
  <2>1. PICK f : Joins(f, m)
    OBVIOUS
  <2> DEFINE last == IF m + 1 = 1 THEN parts[m + 1] ELSE f[m] \o parts[m + 1]
  <2> HIDE DEF last
  <2> DEFINE g == [i \in 1..m+1 |-> IF i = m + 1 THEN last ELSE f[i]]
  <2>2. m \in Nat /\ \A i \in 1..m : f[i] = IF i = 1 THEN parts[i] ELSE f[i - 1] \o parts[i]
    BY <2>1
  <2>3. /\ \A i \in 1..m : g[i] = f[i]
        /\ g[m + 1] = last
    <3>1. m \in Nat /\ m + 1 \in 1..m+1 /\ \A i \in 1..m : i \in 1..m+1 /\ i # m + 1
      BY <2>2
    <3> QED BY <3>1
  <2>4. \A i \in 1..m+1 : g[i] = IF i = 1 THEN parts[i] ELSE g[i - 1] \o parts[i]
    <3> HIDE DEF g
    <3> SUFFICES ASSUME NEW i \in 1..m+1
                 PROVE  g[i] = IF i = 1 THEN parts[i] ELSE g[i - 1] \o parts[i]
      OBVIOUS
    <3>1. CASE i = m + 1
      <4>1. m + 1 # 1 => g[m] = f[m] /\ (m + 1) - 1 = m
        BY <2>2, <2>3
      <4> QED BY <2>3, <3>1, <4>1 DEF last
    <3>2. CASE i \in 1..m
      <4>1. i # 1 => i - 1 \in 1..m /\ g[i - 1] = f[i - 1]
        BY <2>2, <2>3, <3>2
      <4> QED BY <2>2, <2>3, <3>2, <4>1
    <3> QED BY <2>2, <3>1, <3>2
  <2>5. Joins(g, m + 1)
    <3>1. g = [i \in 1..m+1 |-> g[i]]
      OBVIOUS
    <3> HIDE DEF g
    <3> QED BY <2>4, <3>1
  <2>6. m + 1 \in Nat
    BY <2>2
  <2> HIDE DEF Joins
  <2> QED BY <2>5, <2>6
<1> HIDE DEF Joins
<1>3. n \in S
  BY <1>1, <1>2, Induct
<1> QED BY <1>3 DEF Joins

\* The function that FlattenSeq chooses is there to be chosen.
LEMMA Joined ==
    ASSUME NEW T, NEW parts \in Seq(T), Len(parts) # 0
    PROVE  \E f : /\ Ext!FlattenSeq(parts) = f[Len(parts)]
                  /\ \A i \in 1..Len(parts) :
                       f[i] = IF i = 1 THEN parts[i] ELSE f[i - 1] \o parts[i]
<1> DEFINE n == Len(parts)
<1> DEFINE Joins(f) == f = [i \in 1..n |-> IF i = 1 THEN parts[i] ELSE f[i - 1] \o parts[i]]
<1>1. Ext!FlattenSeq(parts) = (CHOOSE f : Joins(f))[n]
  BY Zenon DEF Ext!FlattenSeq
<1>2. \E f : Joins(f)
  <2>1. n \in Nat
    OBVIOUS
  <2> HIDE DEF n
  <2> QED BY <2>1, Joining, Zenon
<1> HIDE DEF Joins
<1>3. Joins(CHOOSE f : Joins(f))
  BY <1>2
<1>4. \E f : Ext!FlattenSeq(parts) = f[n] /\ Joins(f)
  BY <1>1, <1>3
<1>5. PICK f : Ext!FlattenSeq(parts) = f[n] /\ Joins(f)
  BY <1>4
<1>6. \A i \in 1..n : f[i] = IF i = 1 THEN parts[i] ELSE f[i - 1] \o parts[i]
  BY <1>5 DEF Joins
<1> QED BY <1>5, <1>6

\* The same from the empty sequence on.
LEMMA Pieces ==
    ASSUME NEW T, NEW parts \in Seq(Seq(T))
    PROVE  \E f : /\ f[0] = <<>> /\ f[Len(parts)] = Ext!FlattenSeq(parts)
                  /\ \A i \in 1..Len(parts) : f[i] = f[i - 1] \o parts[i]
<1> DEFINE n == Len(parts)
<1>1. n \in Nat /\ \A i \in 1..n : parts[i] \in Seq(T)
  OBVIOUS
<1>2. CASE n = 0
  <2> DEFINE f == [i \in {0} |-> <<>>]
  <2>1. Ext!FlattenSeq(parts) = <<>>
    BY <1>2 DEF Ext!FlattenSeq
  <2>2. f[0] = <<>>
    OBVIOUS
  <2> HIDE DEF f
  <2>3. f[0] = <<>> /\ f[n] = Ext!FlattenSeq(parts) /\ \A i \in 1..n : f[i] = f[i - 1] \o parts[i]
    BY <1>2, <2>1, <2>2
  <2> QED BY <2>3
<1>3. CASE n # 0
  <2>1. PICK g : /\ Ext!FlattenSeq(parts) = g[n]
                 /\ \A i \in 1..n : g[i] = IF i = 1 THEN parts[i] ELSE g[i - 1] \o parts[i]
    BY <1>3, Joined
  <2> DEFINE f == [i \in 0..n |-> IF i = 0 THEN <<>> ELSE g[i]]
  <2>2. f[0] = <<>> /\ \A i \in 1..n : f[i] = g[i]
    BY <1>1
  <2> HIDE DEF f
  <2>3. f[n] = Ext!FlattenSeq(parts)
    BY <1>1, <1>3, <2>1, <2>2
  <2>4. ASSUME NEW i \in 1..n
        PROVE  f[i] = f[i - 1] \o parts[i]
    <3>1. CASE i = 1
      <4>1. f[i] = parts[i] /\ f[i - 1] = <<>>
        BY <2>1, <2>2, <3>1
      <4>2. parts[i] \in Seq(T)
        BY <1>1
      <4> QED BY <4>1, <4>2
    <3>2. CASE i # 1
      <4>1. i - 1 \in 1..n
        BY <1>1, <3>2
      <4> QED BY <2>1, <2>2, <3>2, <4>1
    <3> QED BY <3>1, <3>2
  <2> QED BY <2>2, <2>3, <2>4
<1> QED BY <1>2, <1>3

\* Everything in the parts is in the whole, and nothing else.
LEMMA Gathered ==
    ASSUME NEW T, NEW parts \in Seq(Seq(T))
    PROVE  LET whole == Ext!FlattenSeq(parts)
           IN  /\ whole \in Seq(T)
               /\ \A i \in DOMAIN whole : \E q \in DOMAIN parts :
                    \E j \in DOMAIN parts[q] : whole[i] = parts[q][j]
               /\ \A q \in DOMAIN parts : \A j \in DOMAIN parts[q] :
                    \E i \in DOMAIN whole : whole[i] = parts[q][j]
<1> DEFINE n == Len(parts)
<1>1. n \in Nat /\ DOMAIN parts = 1..n /\ \A i \in 1..n : parts[i] \in Seq(T)
  OBVIOUS
<1>2. PICK f : /\ f[0] = <<>> /\ f[n] = Ext!FlattenSeq(parts)
               /\ \A i \in 1..n : f[i] = f[i - 1] \o parts[i]
  BY Pieces
<1> DEFINE Good(m) == /\ f[m] \in Seq(T)
                      /\ \A i \in DOMAIN f[m] : \E q \in 1..m :
                           \E j \in DOMAIN parts[q] : f[m][i] = parts[q][j]
                      /\ \A q \in 1..m : \A j \in DOMAIN parts[q] :
                           \E i \in DOMAIN f[m] : f[m][i] = parts[q][j]
<1> DEFINE S == {m \in Nat : m <= n => Good(m)}
<1>3. 0 \in S
  <2>1. Good(0)
    <3>1. f[0] \in Seq(T) /\ DOMAIN f[0] = {} /\ 1..0 = {}
      BY <1>2
    <3> QED BY <3>1
  <2> HIDE DEF Good
  <2> QED BY <2>1
<1>4. ASSUME NEW m \in S
      PROVE  m + 1 \in S
  <2> HIDE DEF Good
  <2>1. m \in Nat /\ m + 1 \in Nat
    OBVIOUS
  <2> SUFFICES ASSUME m + 1 <= n
               PROVE  Good(m + 1)
    BY <2>1
  <2>2. m + 1 \in 1..n /\ (m + 1) - 1 = m /\ Good(m)
    BY <1>1, <2>1
  <2> HIDE DEF S
  <2>3. PICK before : before = f[m]
    OBVIOUS
  <2>4. PICK part : part = parts[m + 1]
    OBVIOUS
  <2>5. PICK after : after = f[m + 1]
    OBVIOUS
  <2>6. /\ before \in Seq(T)
        /\ \A i \in DOMAIN before : \E q \in 1..m : \E j \in DOMAIN parts[q] : before[i] = parts[q][j]
        /\ \A q \in 1..m : \A j \in DOMAIN parts[q] : \E i \in DOMAIN before : before[i] = parts[q][j]
    BY <2>2, <2>3, Zenon DEF Good
  <2>7. after = before \o part /\ part \in Seq(T)
    BY <1>1, <1>2, <2>2, <2>3, <2>4, <2>5
  <2>8. /\ Len(before) \in Nat /\ Len(part) \in Nat
        /\ DOMAIN before = 1..Len(before) /\ DOMAIN part = 1..Len(part)
        /\ after \in Seq(T) /\ DOMAIN after = 1..Len(before)+Len(part)
        /\ \A i \in 1..Len(before) : after[i] = before[i]
        /\ \A j \in 1..Len(part) : after[Len(before) + j] = part[j]
    BY <2>6, <2>7
  <2>9. ASSUME NEW i \in DOMAIN after
        PROVE  \E q \in 1..m+1 : \E j \in DOMAIN parts[q] : after[i] = parts[q][j]
    <3>1. CASE i \in 1..Len(before)
      <4>1. PICK q \in 1..m : \E j \in DOMAIN parts[q] : before[i] = parts[q][j]
        BY <2>6, <2>8, <3>1
      <4>2. q \in 1..m+1 /\ after[i] = before[i]
        BY <2>1, <2>8, <3>1
      <4> QED BY <4>1, <4>2
    <3>2. CASE i \notin 1..Len(before)
      <4>1. i - Len(before) \in DOMAIN part /\ after[i] = part[i - Len(before)]
        BY <2>8, <3>2
      <4>2. m + 1 \in 1..m+1
        BY <2>1
      <4> QED BY <2>4, <4>1, <4>2
    <3> QED BY <3>1, <3>2
  <2>10. ASSUME NEW q \in 1..m+1, NEW j \in DOMAIN parts[q]
         PROVE  \E i \in DOMAIN after : after[i] = parts[q][j]
    <3>1. CASE q \in 1..m
      <4>1. PICK i \in DOMAIN before : before[i] = parts[q][j]
        BY <2>6, <3>1, Zenon
      <4>2. i \in DOMAIN after /\ after[i] = before[i]
        BY <2>8
      <4> QED BY <4>1, <4>2
    <3>2. CASE q = m + 1
      <4>1. parts[q] = part /\ j \in 1..Len(part)
        BY <2>4, <2>8, <3>2
      <4>2. Len(before) + j \in DOMAIN after /\ after[Len(before) + j] = part[j]
        BY <2>8, <4>1
      <4> QED BY <4>1, <4>2
    <3> QED BY <2>1, <3>1, <3>2
  <2> QED BY <2>5, <2>8, <2>9, <2>10, Zenon DEF Good
<1> HIDE DEF Good
<1>5. n \in S
  BY <1>1, <1>3, <1>4, Induct
<1>6. Good(n)
  <2> HIDE DEF Good
  <2> QED BY <1>1, <1>5
<1> HIDE DEF n
<1>7. 1..n = DOMAIN parts /\ f[n] = Ext!FlattenSeq(parts)
  BY <1>1, <1>2 DEF n
<1> DEFINE whole == Ext!FlattenSeq(parts)
<1>8. whole \in Seq(T)
  BY <1>6, <1>7, Zenon DEF Good
<1>9. ASSUME NEW i \in DOMAIN whole
      PROVE  \E q \in DOMAIN parts : \E j \in DOMAIN parts[q] : whole[i] = parts[q][j]
  <2>1. i \in DOMAIN f[n]
    BY <1>7
  <2>2. \E q \in 1..n : \E j \in DOMAIN parts[q] : f[n][i] = parts[q][j]
    BY <1>6, <2>1, Zenon DEF Good
  <2> QED BY <1>7, <2>2
<1>10. ASSUME NEW q \in DOMAIN parts, NEW j \in DOMAIN parts[q]
       PROVE  \E i \in DOMAIN whole : whole[i] = parts[q][j]
  <2>1. q \in 1..n
    BY <1>7
  <2>2. \E i \in DOMAIN f[n] : f[n][i] = parts[q][j]
    BY <1>6, <2>1, Zenon DEF Good
  <2> QED BY <1>7, <2>2
<1> QED BY <1>8, <1>9, <1>10

-----------------------------------------------------------------------------
(* What settings_save writes *)

\* What lines that are added to others may set: what these did, or what the lines do.
Adds(before, after, name, lines) ==
    \A s, k : \A i \in Assignments(after, s, k) :
        \/ i \in Assignments(before, s, k) /\ after[i] = before[i]
        \/ name = s /\ \E j \in DOMAIN lines : after[i] = lines[j] /\ lines[j][2] = k

\* And what they must.
Leaves(before, after) ==
    \A s, k : \A i \in Assignments(before, s, k) :
        i \in Assignments(after, s, k) /\ after[i] = before[i]

Puts(after, name, lines) ==
    \A k : \A j \in DOMAIN lines : lines[j][2] = k =>
        \E i \in Assignments(after, name, k) : after[i] = lines[j]

\* The lines of a section after others set what they set, in that section.
LEMMA Block ==
    ASSUME NEW before \in Seq(Lines), NEW n \in Sections, NEW body \in Seq(Lines),
           \A j \in DOMAIN body : body[j][1] = "pair",
           NEW after, after = before \o (<<SectionLine(n)>> \o body \o <<BlankLine>>)
    PROVE  /\ after \in Seq(Lines)
           /\ Adds(before, after, n, body) /\ Leaves(before, after) /\ Puts(after, n, body)
<1> DEFINE part == <<SectionLine(n)>> \o body \o <<BlankLine>>
<1> DEFINE start == Len(before) + 1
<1>0. \A s : SectionLine(s)[1] = "section"
  BY LineParts
<1>1. SectionLine(n) \in Lines /\ BlankLine \in Lines
  BY DEF Lines
<1>2. /\ part \in Seq(Lines) /\ Len(part) = Len(body) + 2 /\ Len(body) \in Nat
      /\ part[1] = SectionLine(n) /\ part[Len(body) + 2] = BlankLine
      /\ \A j \in 1..Len(body) : part[j + 1] = body[j]
  BY <1>1
<1> HIDE DEF part
<1>3. after = before \o part
  BY DEF part
<1>4. /\ after \in Seq(Lines) /\ DOMAIN after = 1..Len(before)+Len(part)
      /\ Len(before) \in Nat /\ DOMAIN before = 1..Len(before)
      /\ \A i \in 1..Len(before) : after[i] = before[i]
      /\ \A j \in 1..Len(part) : after[Len(before) + j] = part[j]
  BY <1>2, <1>3
<1>5. /\ start \in Nat /\ after[start] = SectionLine(n)
      /\ after[start + Len(body) + 1] = BlankLine
      /\ \A j \in 1..Len(body) : after[start + j] = body[j]
      /\ DOMAIN after = 1..start+Len(body)+1 /\ DOMAIN body = 1..Len(body)
  <2>1. /\ 1 \in 1..Len(part) /\ Len(body) + 2 \in 1..Len(part)
        /\ \A j \in 1..Len(body) : j + 1 \in 1..Len(part) /\ Len(before) + (j + 1) = start + j
        /\ Len(before) + (Len(body) + 2) = start + Len(body) + 1
    BY <1>2, <1>4
  <2>2. \A j \in 1..Len(body) : after[start + j] = part[j + 1]
    BY <1>4, <2>1
  <2> QED BY <1>2, <1>4, <2>1, <2>2
<1>6. \A i \in 1..Len(before) : i < start /\ i \in DOMAIN after
  BY <1>4, <1>5
<1> HIDE DEF start
<1>12. \A i \in 1..Len(before) : after[i] = before[i]
  BY <1>4
<1>7. ASSUME NEW s, NEW k, NEW i \in Assignments(after, s, k)
      PROVE  \/ i \in Assignments(before, s, k) /\ after[i] = before[i]
             \/ n = s /\ \E j \in DOMAIN body : after[i] = body[j] /\ body[j][2] = k
  <2>1. /\ i \in DOMAIN after /\ after[i][1] = "pair" /\ after[i][2] = k
    BY DEF Assignments
  <2>2. PICK h \in 1..i-1 : after[h] = SectionLine(s) /\ \A j \in h+1..i-1 : after[j][1] # "section"
    BY DEF Assignments
  <2>3. CASE i \in 1..Len(before)
    <3>1. i \in DOMAIN before /\ before[i][1] = "pair" /\ before[i][2] = k /\ after[i] = before[i]
      BY <1>4, <2>1, <2>3
    <3>2. h \in 1..Len(before) /\ \A j \in h+1..i-1 : j \in 1..Len(before)
      BY <1>4, <2>3
    <3>3. before[h] = SectionLine(s) /\ \A j \in h+1..i-1 : before[j][1] # "section"
      BY <1>4, <2>2, <3>2
    <3> QED BY <3>1, <3>3 DEF Assignments
  <2>4. CASE i \notin 1..Len(before)
    <3>1. i # start /\ i # start + Len(body) + 1
      <4>1. after[start][1] = "section" /\ after[start + Len(body) + 1][1] = "blank"
        BY <1>5, LineParts
      <4> QED BY <2>1, <4>1
    <3>2. PICK j \in 1..Len(body) : i = start + j
      <4>1. start = Len(before) + 1 /\ i \in 1..start+Len(body)+1
        BY <1>5, <2>1 DEF start
      <4>2. Len(body) \in Nat /\ Len(before) \in Nat
        BY <1>2, <1>4
      <4>3. start < i /\ i < start + Len(body) + 1 /\ i \in Nat /\ start \in Nat
        <5>1. start \in Nat /\ start + Len(body) + 1 \in Nat
          BY <4>1, <4>2
        <5>2. i \in Int /\ 1 <= i /\ i <= start + Len(body) + 1
          BY <4>1, <5>1
        <5>3. ~(i <= Len(before))
          BY <2>4, <4>2, <5>2
        <5>4. start <= i
          BY <4>1, <4>2, <5>2, <5>3
        <5>5. PICK top \in Nat : top = start + Len(body) + 1
          BY <5>1
        <5>6. start < i
          BY <3>1, <5>1, <5>2, <5>4
        <5>7. i < top
          BY <3>1, <5>2, <5>5
        <5> QED BY <5>1, <5>2, <5>5, <5>6, <5>7
      <4>4. i - start \in 1..Len(body) /\ i = start + (i - start)
        BY <4>2, <4>3
      <4> QED BY <4>4
    <3>3. after[i] = body[j]
      BY <1>5, <3>2
    <3>4. h = start
      <4>1. start \in Nat /\ h \in Int /\ h < i /\ i \in Nat
        BY <1>5, <2>1
      <4>2. ~(h < start)
        <5>1. h < start => start \in h+1..i-1
          BY <1>5, <3>2, <4>1
        <5>2. after[start][1] = "section"
          BY <1>0, <1>5
        <5> QED BY <2>2, <5>1, <5>2
      <4>3. ~(h > start)
        <5>1. h > start => h - start \in 1..Len(body) /\ start + (h - start) = h
          BY <1>5, <3>2, <4>1
        <5>2. h > start => after[h] = body[h - start] /\ h - start \in DOMAIN body
          BY <1>5, <5>1
        <5>3. after[h][1] = "section"
          BY <1>0, <2>2
        <5> QED BY <5>2, <5>3
      <4> QED BY <4>1, <4>2, <4>3
    <3>5. n = s
      <4>1. after[start] = SectionLine(n)
        BY <1>5
      <4> QED BY <2>2, <3>4, <4>1, LineKinds
    <3> QED BY <1>5, <2>1, <3>3, <3>5
  <2> QED BY <2>3, <2>4
<1>8. ASSUME NEW s, NEW k, NEW i \in Assignments(before, s, k)
      PROVE  i \in Assignments(after, s, k) /\ after[i] = before[i]
  <2>1. i \in DOMAIN before /\ before[i][1] = "pair" /\ before[i][2] = k
    BY DEF Assignments
  <2>2. PICK h \in 1..i-1 : before[h] = SectionLine(s) /\ \A j \in h+1..i-1 : before[j][1] # "section"
    BY DEF Assignments
  <2>3. h \in 1..Len(before) /\ \A j \in h+1..i-1 : j \in 1..Len(before)
    BY <1>4, <2>1
  <2>4. after[h] = SectionLine(s)
    BY <1>12, <2>2, <2>3
  <2>5. \A j \in h+1..i-1 : after[j][1] # "section"
    BY <1>12, <2>2, <2>3
  <2>6. i \in 1..Len(before)
    BY <1>4, <2>1
  <2>7. i \in DOMAIN after /\ after[i] = before[i]
    BY <1>12, <1>6, <2>6
  <2> QED BY <2>1, <2>4, <2>5, <2>7 DEF Assignments
<1>9. ASSUME NEW k, NEW j \in DOMAIN body, body[j][2] = k
      PROVE  \E i \in Assignments(after, n, k) : after[i] = body[j]
  <2>1. j \in 1..Len(body) /\ start + j \in DOMAIN after /\ after[start + j] = body[j]
    <3>1. j \in 1..Len(body) /\ Len(body) \in Nat /\ start \in Nat
      BY <1>2, <1>5
    <3>2. start + j \in 1..start+Len(body)+1
      BY <3>1
    <3> QED BY <1>5, <3>1, <3>2
  <2>2. /\ start \in 1..(start+j)-1
        /\ \A m \in start+1..(start+j)-1 : m - start \in 1..Len(body) /\ start + (m - start) = m
    <3>1. start \in Nat \ {0} /\ Len(body) \in Nat /\ j \in 1..Len(body)
      BY <1>2, <1>4, <2>1 DEF start
    <3> QED BY <3>1
  <2>3. \A m \in start+1..(start+j)-1 : after[m] = body[m - start] /\ m - start \in DOMAIN body
    BY <1>5, <2>2
  <2>4. \A m \in start+1..(start+j)-1 : after[m][1] # "section"
    BY <2>3
  <2>5. start + j \in Assignments(after, n, k)
    BY <1>5, <1>9, <2>1, <2>2, <2>4 DEF Assignments
  <2> QED BY <2>1, <2>5
<1>13. Adds(before, after, n, body)
  BY <1>7 DEF Adds
<1>14. Leaves(before, after)
  BY <1>8 DEF Leaves
<1>15. Puts(after, n, body)
  BY <1>9 DEF Puts
<1> QED BY <1>4, <1>13, <1>14, <1>15

\* What m sections that are written one after the other set is what their lines set.
Traced(lines, m, name, body) ==
    \A s, k : \A i \in Assignments(lines, s, k) : \E q \in 1..m :
        name[q] = s /\ \E j \in DOMAIN body[q] : lines[i] = body[q][j] /\ body[q][j][2] = k

Covered(lines, m, name, body) ==
    \A q \in 1..m : \A k : \A j \in DOMAIN body[q] : body[q][j][2] = k =>
        \E i \in Assignments(lines, name[q], k) : lines[i] = body[q][j]

LEMMA NextBlock ==
    ASSUME NEW m \in Nat, NEW name, NEW body, NEW before, NEW after,
           Traced(before, m, name, body), Covered(before, m, name, body),
           Adds(before, after, name[m + 1], body[m + 1]), Leaves(before, after),
           Puts(after, name[m + 1], body[m + 1])
    PROVE  Traced(after, m + 1, name, body) /\ Covered(after, m + 1, name, body)
<1>1. m + 1 \in 1..m+1 /\ \A q \in 1..m : q \in 1..m+1
  OBVIOUS
<1>2. \A q \in 1..m+1 : q \in 1..m \/ q = m + 1
  OBVIOUS
<1>3. ASSUME NEW s, NEW k, NEW i \in Assignments(after, s, k)
      PROVE  \E q \in 1..m+1 :
               name[q] = s /\ \E j \in DOMAIN body[q] : after[i] = body[q][j] /\ body[q][j][2] = k
  <2>1. CASE i \in Assignments(before, s, k) /\ after[i] = before[i]
    <3>1. PICK q \in 1..m :
            name[q] = s /\ \E j \in DOMAIN body[q] : before[i] = body[q][j] /\ body[q][j][2] = k
      BY <2>1 DEF Traced
    <3>2. q \in 1..m+1
      BY <1>1
    <3> QED BY <2>1, <3>1, <3>2
  <2>2. CASE name[m + 1] = s /\ \E j \in DOMAIN body[m + 1] :
               after[i] = body[m + 1][j] /\ body[m + 1][j][2] = k
    BY <1>1, <2>2
  <2> QED BY <1>3, <2>1, <2>2 DEF Adds
<1>4. ASSUME NEW q \in 1..m+1, NEW k, NEW j \in DOMAIN body[q], body[q][j][2] = k
      PROVE  \E i \in Assignments(after, name[q], k) : after[i] = body[q][j]
  <2>1. CASE q \in 1..m
    <3>1. PICK i \in Assignments(before, name[q], k) : before[i] = body[q][j]
      BY <1>4, <2>1 DEF Covered
    <3>2. i \in Assignments(after, name[q], k) /\ after[i] = before[i]
      BY <3>1 DEF Leaves
    <3> QED BY <3>1, <3>2
  <2>2. CASE q = m + 1
    BY <1>4, <2>2 DEF Puts
  <2> QED BY <1>2, <2>1, <2>2
<1>5. Traced(after, m + 1, name, body)
  BY <1>3 DEF Traced
<1>6. Covered(after, m + 1, name, body)
  BY <1>4 DEF Covered
<1> QED BY <1>5, <1>6

\* By induction on the sections that were written.
LEMMA Blocks ==
    ASSUME NEW parts \in Seq(Seq(Lines)), NEW name, NEW body,
           \A q \in DOMAIN parts :
             /\ name[q] \in Sections /\ body[q] \in Seq(Lines)
             /\ \A j \in DOMAIN body[q] : body[q][j][1] = "pair"
             /\ parts[q] = <<SectionLine(name[q])>> \o body[q] \o <<BlankLine>>
    PROVE  /\ Ext!FlattenSeq(parts) \in Seq(Lines)
           /\ Traced(Ext!FlattenSeq(parts), Len(parts), name, body)
           /\ Covered(Ext!FlattenSeq(parts), Len(parts), name, body)
<1> DEFINE n == Len(parts)
<1>1. n \in Nat /\ DOMAIN parts = 1..n
  OBVIOUS
<1>2. PICK f : /\ f[0] = <<>> /\ f[n] = Ext!FlattenSeq(parts)
               /\ \A i \in 1..n : f[i] = f[i - 1] \o parts[i]
  BY Pieces
<1> HIDE DEF n
<1> DEFINE Good(m) ==
        f[m] \in Seq(Lines) /\ Traced(f[m], m, name, body) /\ Covered(f[m], m, name, body)
<1> DEFINE S == {m \in Nat : m <= n => Good(m)}
<1>3. 0 \in S
  <2>1. f[0] \in Seq(Lines) /\ DOMAIN f[0] = {} /\ 1..0 = {}
    BY <1>2
  <2>2. \A s, k : Assignments(f[0], s, k) = {}
    BY <2>1 DEF Assignments
  <2>3. Traced(f[0], 0, name, body) /\ Covered(f[0], 0, name, body)
    BY <2>1, <2>2 DEF Traced, Covered
  <2> QED BY <2>1, <2>3
<1>4. ASSUME NEW m \in S
      PROVE  m + 1 \in S
  <2> HIDE DEF Good
  <2>1. m \in Nat /\ m + 1 \in Nat
    OBVIOUS
  <2> SUFFICES ASSUME m + 1 <= n
               PROVE  Good(m + 1)
    BY <2>1
  <2>2. m + 1 \in 1..n /\ (m + 1) - 1 = m /\ Good(m)
    BY <1>1, <2>1
  <2> HIDE DEF S
  <2>3. /\ name[m + 1] \in Sections /\ body[m + 1] \in Seq(Lines)
        /\ \A j \in DOMAIN body[m + 1] : body[m + 1][j][1] = "pair"
        /\ f[m + 1] = f[m] \o (<<SectionLine(name[m + 1])>> \o body[m + 1] \o <<BlankLine>>)
    BY <1>1, <1>2, <2>2
  <2>4. f[m] \in Seq(Lines) /\ Traced(f[m], m, name, body) /\ Covered(f[m], m, name, body)
    BY <2>2 DEF Good
  <2>5. /\ f[m + 1] \in Seq(Lines)
        /\ Adds(f[m], f[m + 1], name[m + 1], body[m + 1]) /\ Leaves(f[m], f[m + 1])
        /\ Puts(f[m + 1], name[m + 1], body[m + 1])
    BY <2>3, <2>4, Block
  <2>6. Traced(f[m + 1], m + 1, name, body) /\ Covered(f[m + 1], m + 1, name, body)
    BY <2>1, <2>4, <2>5, NextBlock
  <2> QED BY <2>5, <2>6 DEF Good
<1> HIDE DEF Good
<1>5. n \in S
  BY <1>1, <1>3, <1>4, Induct
<1>6. Good(n)
  BY <1>1, <1>5
<1> QED BY <1>2, <1>6 DEF Good, n

\* A set of places that is not empty has a last one.
LEMMA HasLast ==
    ASSUME NEW n \in Nat, NEW S \in SUBSET (1..n), S # {}
    PROVE  \E m \in S : \A i \in S : i <= m
<1> DEFINE Bounded(b) == (\A i \in S : i <= b) => \E m \in S : \A i \in S : i <= m
<1> DEFINE B == {b \in Nat : Bounded(b)}
<1>1. 0 \in B
  <2>1. PICK i : i \in S
    OBVIOUS
  <2>2. i \in 1..n
    BY <2>1
  <2>3. ~(i <= 0)
    BY <2>2
  <2>4. Bounded(0)
    BY <2>1, <2>3
  <2> HIDE DEF Bounded
  <2> QED BY <2>4
<1>2. ASSUME NEW b \in B
      PROVE  b + 1 \in B
  <2> HIDE DEF Bounded
  <2>1. b \in Nat /\ b + 1 \in Nat /\ Bounded(b)
    OBVIOUS
  <2> HIDE DEF B
  <2>2. ASSUME \A i \in S : i <= b + 1
        PROVE  \E m \in S : \A i \in S : i <= m
    <3>1. CASE b + 1 \in S
      BY <2>2, <3>1
    <3>2. CASE b + 1 \notin S
      <4>1. \A i \in S : i <= b
        BY <2>1, <2>2, <3>2
      <4> QED BY <2>1, <4>1 DEF Bounded
    <3> QED BY <3>1, <3>2
  <2>3. Bounded(b + 1)
    BY <2>2 DEF Bounded
  <2> QED BY <2>1, <2>3 DEF B
<1> HIDE DEF Bounded
<1>3. n \in B
  BY <1>1, <1>2, Induct
<1>4. Bounded(n)
  BY <1>3
<1>5. \A i \in S : i <= n
  OBVIOUS
<1> QED BY <1>4, <1>5 DEF Bounded

\* What is written of a bucket is those of its pairs that can be.
LEMMA Written ==
    ASSUME NEW map \in Maps, NEW b \in Buckets
    PROVE  /\ SavedPairs(map[b]) \in Seq(Lines)
           /\ \A i \in DOMAIN SavedPairs(map[b]) : \E j \in DOMAIN map[b] :
                /\ Saveable(map[b][j].key, map[b][j].value)
                /\ SavedPairs(map[b])[i] = PairLine(map[b][j].key, map[b][j].value)
           /\ \A j \in DOMAIN map[b] : Saveable(map[b][j].key, map[b][j].value) =>
                \E i \in DOMAIN SavedPairs(map[b]) :
                    SavedPairs(map[b])[i] = PairLine(map[b][j].key, map[b][j].value)
<1>1. PICK bucket \in Seq(Pairs) : bucket = map[b]
  BY DEF Maps
<1>2. ASSUME NEW j \in DOMAIN bucket
      PROVE  PairLine(bucket[j].key, bucket[j].value) \in Lines
  <2>1. bucket[j] \in Pairs
    OBVIOUS
  <2>2. bucket[j].key \in Keys /\ bucket[j].value \in Values
    BY <2>1 DEF Pairs
  <2> QED BY <2>2, LineTypes
<1> DEFINE Part(j) == IF Saveable(bucket[j].key, bucket[j].value)
                      THEN <<PairLine(bucket[j].key, bucket[j].value)>> ELSE <<>>
<1> DEFINE parts == [j \in DOMAIN bucket |-> Part(j)]
<1>3. /\ DOMAIN parts = DOMAIN bucket
      /\ \A j \in DOMAIN bucket : parts[j] = Part(j)
  OBVIOUS
<1>4. \A j \in DOMAIN bucket : Part(j) \in Seq(Lines)
  <2> HIDE DEF PairLine, Saveable
  <2>1. ASSUME NEW x \in Lines
        PROVE  <<x>> \in Seq(Lines)
    OBVIOUS
  <2>2. <<>> \in Seq(Lines)
    OBVIOUS
  <2> QED BY <1>2, <2>1, <2>2
<1>5. parts \in Seq(Seq(Lines))
  <2>1. DOMAIN bucket = 1..Len(bucket) /\ Len(bucket) \in Nat
    OBVIOUS
  <2> HIDE DEF Part
  <2> QED BY <1>4, <2>1
<1>6. SavedPairs(bucket) = Ext!FlattenSeq(parts)
  BY DEF SavedPairs
<1> HIDE DEF parts
<1>7. PICK whole : whole = SavedPairs(bucket)
  OBVIOUS
<1>8. /\ whole \in Seq(Lines)
      /\ \A i \in DOMAIN whole : \E q \in DOMAIN parts :
           \E l \in DOMAIN parts[q] : whole[i] = parts[q][l]
      /\ \A q \in DOMAIN parts : \A l \in DOMAIN parts[q] :
           \E i \in DOMAIN whole : whole[i] = parts[q][l]
  BY <1>5, <1>6, <1>7, Gathered
<1>9. ASSUME NEW j \in DOMAIN bucket
      PROVE  /\ Saveable(bucket[j].key, bucket[j].value) =>
                  /\ 1 \in DOMAIN parts[j]
                  /\ parts[j][1] = PairLine(bucket[j].key, bucket[j].value)
             /\ \A l \in DOMAIN parts[j] :
                  /\ Saveable(bucket[j].key, bucket[j].value)
                  /\ parts[j][l] = PairLine(bucket[j].key, bucket[j].value)
  <2>1. PICK line : line = PairLine(bucket[j].key, bucket[j].value)
    OBVIOUS
  <2>2. parts[j] = IF Saveable(bucket[j].key, bucket[j].value) THEN <<line>> ELSE <<>>
    BY <1>3, <2>1
  <2>3. DOMAIN <<line>> = {1} /\ <<line>>[1] = line /\ DOMAIN <<>> = {}
    OBVIOUS
  <2>4. CASE Saveable(bucket[j].key, bucket[j].value)
    BY <2>1, <2>2, <2>3, <2>4
  <2>5. CASE ~Saveable(bucket[j].key, bucket[j].value)
    BY <2>1, <2>2, <2>3, <2>5
  <2> QED BY <2>4, <2>5
<1>10. ASSUME NEW i \in DOMAIN whole
       PROVE  \E j \in DOMAIN bucket :
                /\ Saveable(bucket[j].key, bucket[j].value)
                /\ whole[i] = PairLine(bucket[j].key, bucket[j].value)
  <2>1. PICK q \in DOMAIN parts : \E l \in DOMAIN parts[q] : whole[i] = parts[q][l]
    BY <1>8
  <2> QED BY <1>3, <1>9, <2>1
<1>11. ASSUME NEW j \in DOMAIN bucket, Saveable(bucket[j].key, bucket[j].value)
       PROVE  \E i \in DOMAIN whole : whole[i] = PairLine(bucket[j].key, bucket[j].value)
  <2>1. j \in DOMAIN parts
    BY <1>3
  <2> QED BY <1>8, <1>9, <1>11, <2>1
<1> QED BY <1>1, <1>7, <1>8, <1>10, <1>11

\* What is written of a map is that of its buckets.
LEMMA Enumerated ==
    ASSUME NEW map \in Maps
    PROVE  /\ sm_enum(map) \in Seq(Lines)
           /\ \A i \in DOMAIN sm_enum(map) : \E b \in Buckets : \E j \in DOMAIN map[b] :
                /\ Saveable(map[b][j].key, map[b][j].value)
                /\ sm_enum(map)[i] = PairLine(map[b][j].key, map[b][j].value)
           /\ \A b \in Buckets : \A j \in DOMAIN map[b] :
                Saveable(map[b][j].key, map[b][j].value) =>
                    \E i \in DOMAIN sm_enum(map) :
                        sm_enum(map)[i] = PairLine(map[b][j].key, map[b][j].value)
<1> DEFINE parts == [i \in 1..count |-> SavedPairs(map[i - 1])]
<1>1. count \in Nat
  BY BucketAssumption
<1>2. /\ \A i \in 1..count : i - 1 \in Buckets
      /\ \A b \in Buckets : b + 1 \in 1..count /\ (b + 1) - 1 = b
  BY <1>1 DEF Buckets
<1>3. DOMAIN parts = 1..count /\ \A i \in 1..count : parts[i] = SavedPairs(map[i - 1])
  OBVIOUS
<1>4. parts \in Seq(Seq(Lines))
  <2>1. \A i \in 1..count : SavedPairs(map[i - 1]) \in Seq(Lines)
    BY <1>2, Written
  <2> QED BY <1>1, <2>1
<1>5. sm_enum(map) = Ext!FlattenSeq(parts)
  BY DEF sm_enum
<1> HIDE DEF parts
<1>6. /\ sm_enum(map) \in Seq(Lines)
      /\ \A i \in DOMAIN sm_enum(map) : \E q \in DOMAIN parts :
           \E j \in DOMAIN parts[q] : sm_enum(map)[i] = parts[q][j]
      /\ \A q \in DOMAIN parts : \A j \in DOMAIN parts[q] :
           \E i \in DOMAIN sm_enum(map) : sm_enum(map)[i] = parts[q][j]
  BY <1>4, <1>5, Gathered
<1>7. ASSUME NEW i \in DOMAIN sm_enum(map)
      PROVE  \E b \in Buckets : \E j \in DOMAIN map[b] :
               /\ Saveable(map[b][j].key, map[b][j].value)
               /\ sm_enum(map)[i] = PairLine(map[b][j].key, map[b][j].value)
  <2>1. PICK q \in 1..count : \E l \in DOMAIN parts[q] : sm_enum(map)[i] = parts[q][l]
    BY <1>3, <1>6
  <2>2. PICK b \in Buckets : parts[q] = SavedPairs(map[b])
    BY <1>2, <1>3
  <2>3. PICK l \in DOMAIN SavedPairs(map[b]) : sm_enum(map)[i] = SavedPairs(map[b])[l]
    BY <2>1, <2>2
  <2> QED BY <2>3, Written
<1>8. ASSUME NEW b \in Buckets, NEW j \in DOMAIN map[b], Saveable(map[b][j].key, map[b][j].value)
      PROVE  \E i \in DOMAIN sm_enum(map) :
               sm_enum(map)[i] = PairLine(map[b][j].key, map[b][j].value)
  <2>1. b + 1 \in DOMAIN parts /\ parts[b + 1] = SavedPairs(map[b])
    BY <1>2, <1>3
  <2>2. PICK l \in DOMAIN SavedPairs(map[b]) :
          SavedPairs(map[b])[l] = PairLine(map[b][j].key, map[b][j].value)
    BY <1>8, Written
  <2> QED BY <1>6, <2>1, <2>2
<1> QED BY <1>6, <1>7, <1>8

\* When the settings are opened every section has a name and a map, and both are its own.
LEMMA OwnMap ==
    ASSUME IInv, pc = "opened", NEW q \in DOMAIN sections
    PROVE  /\ sections[q].name \in Sections /\ sections[q].map \in Maps /\ Tidy(sections[q].map)
           /\ \A k : settings_get(sections[q].name, k) = sm_get(sections[q].map, k)
<1>1. TypeOK /\ SectionsOK /\ TidyOK /\ NoUseAfterFree
  BY DEF IInv
<1>2. sections[q].map # None
  BY <1>1 DEF NoUseAfterFree
<1>3. sections[q].name # None
  BY <1>1, <1>2 DEF TidyOK
<1>4. sections[q] \in SectionRecords
  BY <1>1 DEF TypeOK
<1>5. sections[q].name \in Sections
  BY <1>3, <1>4 DEF SectionRecords
<1>6. sections[q].map \in Maps /\ Tidy(sections[q].map)
  BY <1>1, <1>2, <1>3 DEF SectionsOK, TidyOK
<1>7. get_section(sections[q].name) = q
  <2>1. PICK s : s = sections[q].name
    OBVIOUS
  <2>2. q \in Named(s)
    BY <2>1 DEF Named
  <2>3. get_section(s) \in DOMAIN sections /\ sections[get_section(s)].name = s
    BY <1>1, <2>2, SectionPlaces
  <2> QED BY <1>1, <1>3, <2>1, <2>3 DEF TidyOK
<1>8. q # 0
  BY <1>1 DEF TypeOK
<1> QED BY <1>5, <1>6, <1>7, <1>8 DEF settings_get

\* In a tidy map a pair is the one that its key gets.
LEMMA TidyGet ==
    ASSUME NEW map \in Maps, Tidy(map), NEW b \in Buckets, NEW j \in DOMAIN map[b]
    PROVE  /\ map[b][j].key \in Keys /\ map[b][j].value \in Values
           /\ sm_get(map, map[b][j].key) = map[b][j].value
<1>1. map[b] \in Seq(Pairs)
  BY DEF Maps
<1>2. map[b][j] \in Pairs /\ j \in Nat \ {0}
  BY <1>1
<1>3. PICK k \in Keys : k = map[b][j].key
  BY <1>2 DEF Pairs
<1>4. bucket_of[k] = b
  BY <1>3 DEF Tidy
<1>5. j \in Places(map, k)
  BY <1>3, <1>4 DEF Places
<1>6. get_pair(map, k) # 0
  BY <1>5, PairPlaces, FirstOf
<1>7. get_pair(map, k) \in DOMAIN map[b] /\ map[b][get_pair(map, k)].key = k
  BY <1>4, <1>6, GetPair
<1>8. get_pair(map, k) = j
  BY <1>3, <1>7 DEF Tidy
<1> QED BY <1>2, <1>3, <1>4, <1>6, <1>8 DEF sm_get, Pairs

\* A line before others and a line after them.
LEMMA Framed ==
    ASSUME NEW x \in Lines, NEW y \in Lines, NEW lines \in Seq(Lines)
    PROVE  <<x>> \o lines \o <<y>> \in Seq(Lines)
  OBVIOUS

\* What is read of the lines that were saved is what the maps give.
LEMMA SavedOf == IInv => SavedReadsBack
<1> SUFFICES ASSUME IInv, pc = "opened", NEW s \in Sections, NEW k \in Keys
             PROVE  LastAssigned(settings_save, s, k) =
                      IF settings_get(s, k) # None /\ Saveable(k, settings_get(s, k))
                      THEN settings_get(s, k) ELSE None
  BY DEF SavedReadsBack
<1> DEFINE name == [q \in DOMAIN sections |-> sections[q].name]
<1> DEFINE body == [q \in DOMAIN sections |-> sm_enum(sections[q].map)]
<1> DEFINE parts == [q \in DOMAIN sections |->
             <<SectionLine(sections[q].name)>> \o sm_enum(sections[q].map) \o <<BlankLine>>]
<1>1. TypeOK /\ Len(sections) \in Nat /\ DOMAIN sections = 1..Len(sections)
  BY DEF IInv, TypeOK
<1>2. \A q \in DOMAIN sections :
        /\ name[q] = sections[q].name /\ body[q] = sm_enum(sections[q].map)
        /\ parts[q] = <<SectionLine(name[q])>> \o body[q] \o <<BlankLine>>
  OBVIOUS
<1>3. settings_save = Ext!FlattenSeq(parts)
  BY DEF settings_save
<1>4. ASSUME NEW q \in DOMAIN sections
      PROVE  /\ name[q] \in Sections /\ body[q] \in Seq(Lines)
             /\ \A j \in DOMAIN body[q] : body[q][j][1] = "pair"
             /\ parts[q] \in Seq(Lines)
  <2>1. name[q] \in Sections /\ sections[q].map \in Maps
    BY <1>2, OwnMap
  <2>2. body[q] \in Seq(Lines) /\ \A j \in DOMAIN body[q] : body[q][j][1] = "pair"
    BY <1>2, <2>1, Enumerated, LineParts
  <2>3. SectionLine(name[q]) \in Lines /\ BlankLine \in Lines
    BY <2>1, LineTypes
  <2>4. parts[q] = <<SectionLine(name[q])>> \o body[q] \o <<BlankLine>>
    BY <1>2
  <2> HIDE DEF name, body, parts
  <2>5. parts[q] \in Seq(Lines)
    BY <2>2, <2>3, <2>4, Framed
  <2> QED BY <2>1, <2>2, <2>5
<1>5. DOMAIN parts = DOMAIN sections /\ Len(parts) = Len(sections) /\ parts \in Seq(Seq(Lines))
  <2>1. \A q \in DOMAIN sections : parts[q] \in Seq(Lines)
    BY <1>4
  <2>2. parts = [q \in 1..Len(sections) |-> parts[q]]
    BY <1>1
  <2> HIDE DEF parts
  <2> QED BY <1>1, <2>1, <2>2
<1> HIDE DEF name, body, parts
<1>6. PICK saved : saved = settings_save
  OBVIOUS
<1>7. /\ saved \in Seq(Lines)
      /\ Traced(saved, Len(sections), name, body) /\ Covered(saved, Len(sections), name, body)
  <2>1. \A q \in DOMAIN parts :
          /\ name[q] \in Sections /\ body[q] \in Seq(Lines)
          /\ \A j \in DOMAIN body[q] : body[q][j][1] = "pair"
          /\ parts[q] = <<SectionLine(name[q])>> \o body[q] \o <<BlankLine>>
    BY <1>2, <1>4, <1>5
  <2>2. /\ Ext!FlattenSeq(parts) \in Seq(Lines)
        /\ Traced(Ext!FlattenSeq(parts), Len(parts), name, body)
        /\ Covered(Ext!FlattenSeq(parts), Len(parts), name, body)
    BY <1>5, <2>1, Blocks
  <2> QED BY <1>3, <1>5, <1>6, <2>2
<1>8. PICK places : places = Assignments(saved, s, k)
  OBVIOUS
<1>9. ASSUME NEW i \in places
      PROVE  /\ saved[i][3] = settings_get(s, k)
             /\ settings_get(s, k) # None /\ Saveable(k, settings_get(s, k))
  <2>1. PICK q \in DOMAIN sections :
          name[q] = s /\ \E j \in DOMAIN body[q] : saved[i] = body[q][j] /\ body[q][j][2] = k
    BY <1>1, <1>7, <1>8 DEF Traced
  <2>2. PICK j \in DOMAIN body[q] : saved[i] = body[q][j] /\ body[q][j][2] = k
    BY <2>1
  <2>3. PICK map : map = sections[q].map
    OBVIOUS
  <2>4. map \in Maps /\ Tidy(map) /\ body[q] = sm_enum(map) /\ settings_get(s, k) = sm_get(map, k)
    <3>1. sections[q].name = s /\ body[q] = sm_enum(map)
      BY <1>2, <2>1, <2>3
    <3>2. settings_get(sections[q].name, k) = sm_get(map, k) /\ map \in Maps /\ Tidy(map)
      BY <2>3, OwnMap
    <3> QED BY <3>1, <3>2
  <2>5. PICK b \in Buckets : \E l \in DOMAIN map[b] :
          /\ Saveable(map[b][l].key, map[b][l].value)
          /\ body[q][j] = PairLine(map[b][l].key, map[b][l].value)
    BY <2>4, Enumerated
  <2>6. PICK l \in DOMAIN map[b] :
          /\ Saveable(map[b][l].key, map[b][l].value)
          /\ body[q][j] = PairLine(map[b][l].key, map[b][l].value)
    BY <2>5
  <2>7. map[b][l].key = k /\ saved[i][3] = map[b][l].value
    BY <2>2, <2>6, LineParts
  <2>8. sm_get(map, map[b][l].key) = map[b][l].value /\ map[b][l].value # None
    BY <2>4, TidyGet, NoneAssumption
  <2> QED BY <2>4, <2>6, <2>7, <2>8
<1>10. ASSUME settings_get(s, k) # None, Saveable(k, settings_get(s, k))
       PROVE  places # {}
  <2>1. PICK q : q = get_section(s)
    OBVIOUS
  <2>2. q # 0 /\ settings_get(s, k) = sm_get(sections[q].map, k)
    BY <1>10, <2>1 DEF settings_get
  <2>3. q \in DOMAIN sections /\ sections[q].name = s
    BY <1>1, <2>1, <2>2, SectionPlaces
  <2>4. PICK map \in Maps : map = sections[q].map /\ Tidy(map) /\ body[q] = sm_enum(map)
    BY <1>2, <2>3, OwnMap
  <2>5. get_pair(map, k) # 0
    BY <1>10, <2>2, <2>4 DEF sm_get
  <2>6. PICK l \in DOMAIN map[bucket_of[k]] : map[bucket_of[k]][l].key = k
    BY <2>5, GetPair
  <2>7. PICK j \in DOMAIN body[q] : body[q][j] = PairLine(map[bucket_of[k]][l].key, map[bucket_of[k]][l].value)
    <3>1. bucket_of[k] \in Buckets
      BY BucketOf
    <3>2. sm_get(map, k) = map[bucket_of[k]][l].value
      BY <1>4, <2>4, <2>6, <3>1, TidyGet
    <3>3. Saveable(map[bucket_of[k]][l].key, map[bucket_of[k]][l].value)
      BY <1>10, <2>2, <2>4, <2>6, <3>2
    <3> QED BY <2>4, <3>1, <3>3, Enumerated
  <2>8. body[q][j][2] = k /\ name[q] = s
    <3>1. name[q] = s
      BY <1>2, <2>3
    <3>2. \A v : PairLine(map[bucket_of[k]][l].key, v)[2] = map[bucket_of[k]][l].key
      BY LineParts
    <3> QED BY <2>6, <2>7, <3>1, <3>2
  <2> QED BY <1>1, <1>7, <1>8, <2>3, <2>8 DEF Covered
<1>11. LastAssigned(saved, s, k) =
         IF places = {} THEN None
         ELSE saved[CHOOSE i \in places : \A j \in places : j <= i][3]
  BY <1>8 DEF LastAssigned
<1>12. CASE places = {}
  BY <1>6, <1>10, <1>11, <1>12
<1>13. CASE places # {}
  <2>1. places \in SUBSET (1..Len(saved)) /\ Len(saved) \in Nat
    BY <1>7, <1>8 DEF Assignments
  <2>2. PICK m \in places : \A i \in places : i <= m
    BY <1>13, <2>1, HasLast
  <2>3. (CHOOSE i \in places : \A j \in places : j <= i) = m
    BY <2>1, <2>2, LastOf
  <2> QED BY <1>6, <1>9, <1>11, <1>13, <2>3
<1> QED BY <1>12, <1>13

\* What is saved is read back but for keys and values of 256 characters or more,
\* for every number of sections, keys and buckets (settings_save, enum_map).
THEOREM SavedReadsBackHolds == StartupSpec => []SavedReadsBack
<1> QED BY StartupInvariance, SavedOf, PTL
=============================================================================
