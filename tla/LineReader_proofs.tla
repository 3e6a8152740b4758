------------------------- MODULE LineReader_proofs -------------------------
(***************************************************************************)
(* Theorems about LineReader, for any stream whose lines fit in line_data, *)
(* any input queue and any timeouts.                                       *)
(***************************************************************************)
EXTENDS LineReader, SequenceTheorems, TLAPS

-----------------------------------------------------------------------------
(* Places in the stream *)

LEMMA Division ==
    ASSUME NEW l \in Nat \ {0}, NEW x \in Int
    PROVE  x % l \in 0..l-1 /\ x \div l \in Int /\ x = l * (x \div l) + (x % l)
OBVIOUS

LEMMA AtLeastOnce ==
    ASSUME NEW l \in Nat \ {0}, NEW q \in Int, q >= 1
    PROVE  q * l >= l
OBVIOUS

LEMMA UniqueRemainder ==
    ASSUME NEW l \in Nat \ {0}, NEW x \in Int, NEW q \in Int, NEW r \in 0..l-1, x = l * q + r
    PROVE  x % l = r
<1> DEFINE d == x \div l
<1> DEFINE m == x % l
<1>1. d \in Int /\ m \in 0..l-1 /\ x = l * d + m
  BY Division
<1> HIDE DEF d, m
<1>2. l * (q - d) = m - r
  BY <1>1
<1>3. CASE q - d >= 1
  <2>1. (q - d) * l >= l
    BY <1>1, <1>3, AtLeastOnce
  <2> QED BY <1>1, <1>2, <2>1
<1>4. CASE q - d <= -1
  <2>1. (d - q) * l >= l
    BY <1>1, <1>4, AtLeastOnce
  <2>2. l * (q - d) = -((d - q) * l)
    BY <1>1
  <2> QED BY <1>1, <1>2, <2>1, <2>2
<1>5. CASE q = d
  BY <1>1, <1>5 DEF m
<1> QED BY <1>1, <1>3, <1>4, <1>5

LEMMA RemainderOfSum ==
    ASSUME NEW l \in Nat \ {0}, NEW x \in Int, NEW b \in Int
    PROVE  ((x % l) + b) % l = (x + b) % l
<1> DEFINE d == x \div l
<1> DEFINE m == x % l
<1> DEFINE e == (m + b) \div l
<1> DEFINE r == (m + b) % l
<1>1. d \in Int /\ m \in 0..l-1 /\ x = l * d + m
  BY Division
<1>2. e \in Int /\ r \in 0..l-1 /\ m + b = l * e + r
  <2>1. m + b \in Int
    BY <1>1
  <2> HIDE DEF m
  <2> QED BY <2>1, Division
<1> HIDE DEF d, m, e, r
<1>3. x + b = l * (d + e) + r /\ d + e \in Int /\ x + b \in Int
  BY <1>1, <1>2
<1>4. (x + b) % l = r
  BY <1>2, <1>3, UniqueRemainder
<1> QED BY <1>4 DEF r, m

LEMMA StreamProperties ==
    /\ Len(Stream) \in Nat \ {0} /\ Chars = 1..Len(Stream) /\ 0 \notin Chars
    /\ \A p \in Chars : Digit(p) <=> ~Eol(p)
<1>1. Stream \in Seq({"digit", "eol"})
  BY StreamAssumption
<1>2. Len(Stream) \in Nat /\ Chars = 1..Len(Stream)
  BY <1>1 DEF Chars
<1>3. \A p \in Chars : Stream[p] \in {"digit", "eol"}
  BY <1>1, <1>2, ElementOfSeq
<1>4. Len(Stream) # 0
  BY <1>2, StreamAssumption
<1> QED BY <1>2, <1>3, <1>4 DEF Digit, Eol

LEMMA AfterProperties ==
    ASSUME NEW p \in Chars
    PROVE  /\ \A a \in Int : After(p, a) \in Chars
           /\ After(p, 0) = p
           /\ \A a, b \in Int : After(After(p, a), b) = After(p, a + b)
<1> DEFINE l == Len(Stream)
<1>1. l \in Nat \ {0} /\ Chars = 1..l
  BY StreamProperties
<1> HIDE DEF l
<1>2. \A q \in Int, a \in Int : After(q, a) = 1 + ((q - 1 + a) % l)
  BY DEF After, l
<1>3. p \in Int /\ p - 1 \in 0..l-1
  BY <1>1
<1>4. ASSUME NEW a \in Int PROVE After(p, a) \in Chars
  <2>1. p - 1 + a \in Int
    BY <1>3
  <2> DEFINE r == (p - 1 + a) % l
  <2>2. r \in 0..l-1
    BY <1>1, <2>1, Division
  <2>3. After(p, a) = 1 + r
    BY <1>2, <1>3
  <2> HIDE DEF r
  <2>4. 1 + r \in 1..l
    BY <1>1, <2>2
  <2> QED BY <1>1, <2>3, <2>4
<1>5. After(p, 0) = p
  <2>1. (p - 1 + 0) % l = p - 1
    <3>1. p - 1 + 0 = l * 0 + (p - 1) /\ p - 1 + 0 \in Int
      BY <1>1, <1>3
    <3> QED BY <1>1, <1>3, <3>1, UniqueRemainder
  <2> QED BY <1>2, <1>3, <2>1
<1>6. ASSUME NEW a \in Int, NEW b \in Int PROVE After(After(p, a), b) = After(p, a + b)
  <2> DEFINE x == p - 1 + a
  <2>1. x \in Int /\ x % l \in 0..l-1
    <3>1. x \in Int
      BY <1>3
    <3> HIDE DEF x
    <3> QED BY <1>1, <3>1, Division
  <2>2. After(p, a) = 1 + (x % l)
    BY <1>2, <1>3
  <2>3. After(p, a + b) = 1 + ((x + b) % l)
    <3>1. p - 1 + (a + b) = x + b
      BY <1>3
    <3> QED BY <1>2, <1>3, <3>1
  <2> HIDE DEF x
  <2>4. After(After(p, a), b) = 1 + (((x % l) + b) % l)
    <3>1. (1 + (x % l)) - 1 + b = (x % l) + b /\ 1 + (x % l) \in Int
      BY <1>1, <2>1
    <3>2. After(1 + (x % l), b) = 1 + (((1 + (x % l)) - 1 + b) % l)
      BY <1>2, <3>1
    <3> QED BY <2>2, <3>1, <3>2
  <2>5. ((x % l) + b) % l = (x + b) % l
    BY <1>1, <2>1, RemainderOfSum
  <2> QED BY <2>3, <2>4, <2>5
<1> QED BY <1>4, <1>5, <1>6

LEMMA AfterReaches ==
    ASSUME NEW p \in Chars, NEW q \in Chars
    PROVE  \E k \in 1..Len(Stream) : q = After(p, k)
<1> DEFINE l == Len(Stream)
<1> DEFINE k == IF q > p THEN q - p ELSE q - p + l
<1>1. l \in Nat \ {0} /\ p \in 1..l /\ q \in 1..l
  BY StreamProperties
<1>2. After(p, k) = 1 + ((p - 1 + k) % l)
  BY DEF After
<1> HIDE DEF l
<1>3. k \in 1..l /\ p - 1 + k \in Int /\ q - 1 \in 0..l-1
  BY <1>1
<1>4. p - 1 + k = l * 0 + (q - 1) \/ p - 1 + k = l * 1 + (q - 1)
  BY <1>1
<1> HIDE DEF k
<1>5. (p - 1 + k) % l = q - 1
  BY <1>1, <1>3, <1>4, UniqueRemainder
<1> QED BY <1>1, <1>2, <1>3, <1>5 DEF l

\* A run of ends of line comes to an end.
LEMMA DigitSoon ==
    ASSUME NEW p \in Chars, NEW k \in 1..Len(Stream), \A j \in 1..k : Eol(After(p, j))
    PROVE  k + 1 \in 1..Len(Stream)
<1>1. PICK q \in Chars : Digit(q)
  BY StreamAssumption
<1>2. PICK i \in 1..Len(Stream) : q = After(p, i)
  BY AfterReaches
<1>3. i \notin 1..k
  BY <1>1, <1>2, StreamProperties
<1> QED BY <1>2, <1>3, StreamProperties

-----------------------------------------------------------------------------
(* The inductive invariants *)

\* The time asleep stays within the timeout of the call.
SleepOK == total_sleep \in 0..timeout

\* The port is accepted after the last value of the test, and not before.
CountOK ==
    /\ n_dt = 0 <=> last = <<>>
    /\ last = <<>> => before = None
    /\ caller = "find_device" => n_dt < NUM_DATA_TEST
    /\ caller = "collect" => n_dt = NUM_DATA_TEST
    /\ pc = "closed" => n_dt = 0

\* Only an unplugged port yields characters that nobody sent, to the line that
\* is being read when it is unplugged.
HungOK ==
    /\ hung => buffer = <<>> /\ pc # "closed"
    /\ Invented(line_data) => hung
    /\ pc \in {"closed", "idle", "skip"} => line_data = <<>>
    /\ pc \in {"chars", "value"} => line_data # <<>>
    /\ \/ invented = 0
       \/ invented = 1 /\ hung /\ pc \in {"idle", "skip", "error"}

\* The place of the character read last.
Read == After(sent, 0 - Len(buffer))

\* Digits sent one after the other.
Chain(line) ==
    \A i \in 1..Len(line) :
        line[i] \in Chars /\ Digit(line[i]) /\ line[i] = After(line[1], i - 1)

LastOf(line) == line[Len(line)]

\* q is the first digit of the line after the one that p ends.
FollowsLine(p, q) == Follows(p, q) /\ Eol(After(q, -1))

\* From p, which ends a line, to q there are only ends of line.
Gap(p, q) ==
    \E k \in 1..Len(Stream) : q = After(p, k) /\ \A j \in 1..k : Eol(After(p, j))

\* The queue holds what was sent last.
QueueOK ==
    pc # "closed" /\ ~hung =>
        \A i \in 1..Len(buffer) : buffer[i] = After(sent, i - Len(buffer))

\* The line being read is a line of the stream, from its first digit unless it
\* is the first line, up to the character read last.
LineOK ==
    pc \in {"chars", "value"} /\ ~Invented(line_data) =>
        /\ Chain(line_data)
        /\ last # <<>> => FollowsLine(LastOf(last), line_data[1])
        /\ pc = "chars" /\ ~hung => Read = LastOf(line_data)
        /\ pc = "value" => Eol(After(LastOf(line_data), 1))
        /\ pc = "value" /\ ~hung => Read = After(LastOf(line_data), 1)

\* Between two lines nothing else is read.
GapOK ==
    pc \in {"idle", "skip"} /\ ~hung /\ invented = 0 /\ last # <<>> => Gap(LastOf(last), Read)

LastOK ==
    invented = 0 /\ last # <<>> =>
        /\ Chain(last) /\ Eol(After(LastOf(last), 1))
        /\ n_dt >= 2 => before # None
        /\ before # None => FollowsLine(before, last[1])

StreamOK == lost = 0 => QueueOK /\ LineOK /\ GapOK /\ LastOK

IInv == TypeOK /\ SleepOK /\ CountOK /\ HungOK

-----------------------------------------------------------------------------
(* Types, and what an unplugged port invents *)

LEMMA TimeoutProperties ==
    /\ timeout \in Nat \ {0}
    /\ 0..timeout \subseteq 0..TIMEOUT_SMALL \cup 0..TIMEOUT_LARGE
BY TimeoutAssumption DEF timeout

LEMMA BacklogProperties ==
    ASSUME TypeOK, NEW k \in 0..MaxBuffer
    PROVE  /\ Backlog(k) \in Seq(Chars) /\ Len(Backlog(k)) = k
           /\ \A i \in 1..k : Backlog(k)[i] = After(sent, i - k)
<1>1. MaxBuffer \in Nat /\ k \in Nat
  BY BufferAssumption, StreamProperties
<1>2. \A i \in 1..k : After(sent, i - k) \in Chars
  BY <1>1, AfterProperties DEF TypeOK
<1>3. Backlog(k) \in [1..k -> Chars]
  BY <1>2 DEF Backlog
<1>4. Backlog(k) \in Seq(Chars)
  BY <1>1, <1>3, SeqDef
<1>5. Len(Backlog(k)) = k
  BY <1>1, <1>3, <1>4
<1> QED BY <1>4, <1>5 DEF Backlog

\* The front of the queue is taken.
LEMMA QueueTaken ==
    ASSUME TypeOK, buffer # <<>>
    PROVE  /\ Head(buffer) = buffer[1] /\ Head(buffer) \in Chars /\ Len(buffer) >= 1
           /\ Tail(buffer) \in Seq(Chars) /\ Len(Tail(buffer)) = Len(buffer) - 1
           /\ \A i \in 1..Len(buffer)-1 : Tail(buffer)[i] = buffer[i+1]
<1>1. buffer \in Seq(Chars) /\ Len(buffer) \in Nat
  BY DEF TypeOK
<1>2. Len(buffer) \in Nat \ {0}
  BY <1>1, EmptySeq
<1>3. 1 \in 1..Len(buffer)
  BY <1>2
<1> QED BY <1>1, <1>2, <1>3, HeadTailProperties, ElementOfSeq

\* A character is added to the line.
LEMMA LineGrown ==
    ASSUME TypeOK, Len(line_data) < MAX_LINE_DATA, NEW c \in Chars \cup {Copy}
    PROVE  /\ Append(line_data, c) \in Values
           /\ Len(Append(line_data, c)) = Len(line_data) + 1
           /\ Len(Append(line_data, c)) <= MAX_LINE_DATA
           /\ Append(line_data, c) # <<>>
           /\ \A i \in 1..Len(line_data) : Append(line_data, c)[i] = line_data[i]
           /\ Append(line_data, c)[Len(line_data) + 1] = c
           /\ Invented(Append(line_data, c)) <=> Invented(line_data) \/ c = Copy
<1> DEFINE a == Append(line_data, c)
<1>1. line_data \in Seq(Chars \cup {Copy}) /\ Len(line_data) \in Nat /\ MAX_LINE_DATA \in Nat
  BY LineAssumption DEF TypeOK, Values
<1>2. /\ a \in Seq(Chars \cup {Copy}) /\ Len(a) = Len(line_data) + 1 /\ a # <<>>
      /\ \A i \in 1..Len(line_data) : a[i] = line_data[i]
      /\ a[Len(line_data) + 1] = c
  BY <1>1, AppendProperties
<1>3. DOMAIN a = 1..Len(line_data)+1 /\ DOMAIN line_data = 1..Len(line_data)
  BY <1>1, <1>2, LenProperties
<1> HIDE DEF a
<1>4. 1..Len(line_data)+1 = 1..Len(line_data) \cup {Len(line_data)+1}
  BY <1>1
<1>5. Invented(a) <=> Invented(line_data) \/ c = Copy
  BY <1>2, <1>3, <1>4 DEF Invented
<1>6. Len(a) <= MAX_LINE_DATA
  BY <1>1, <1>2
<1> QED BY <1>1, <1>2, <1>5, <1>6 DEF a, Values

LEMMA NothingInvented == ~Invented(<<>>) /\ <<>> \in Values /\ Len(<<>>) = 0 /\ MAX_LINE_DATA >= 0
BY LineAssumption, EmptySeq DEF Invented, Values

LEMMA Initially == Init => IInv /\ StreamOK
<1> SUFFICES ASSUME Init PROVE IInv /\ StreamOK
  OBVIOUS
<1> USE DEF Init
<1>1. <<>> \in Seq(Chars) /\ <<>> \in Values /\ Len(<<>>) = 0 /\ ~Invented(<<>>)
  BY NothingInvented, EmptySeq
<1>2. /\ MaxBuffer \in Nat /\ MAX_LINE_DATA \in Nat /\ MaxLost \in Nat
      /\ NUM_DATA_TEST \in Nat \ {0} /\ TIMEOUT_SMALL \in Nat
  BY BufferAssumption, LineAssumption, LostAssumption, TestAssumption, TimeoutAssumption, StreamProperties
<1>3. TypeOK
  <2>1. 0 \in 0..NUM_DATA_TEST /\ 0 \in 0..TIMEOUT_SMALL /\ 0 \in 0..MaxLost
    BY <1>2
  <2>2. /\ line_data \in Values /\ Len(line_data) <= MAX_LINE_DATA
        /\ buffer \in Seq(Chars) /\ Len(buffer) <= MaxBuffer /\ last \in Values
    BY <1>1, <1>2
  <2> QED BY <2>1, <2>2 DEF TypeOK
<1>4. SleepOK
  BY TimeoutProperties DEF SleepOK
<1>5. CountOK /\ HungOK
  BY <1>1, <1>2 DEF CountOK, HungOK
<1>6. StreamOK
  BY DEF StreamOK, QueueOK, LineOK, GapOK, LastOK
<1> QED BY <1>3, <1>4, <1>5, <1>6 DEF IInv

LEMMA Inductive == IInv /\ [Next]_vars => IInv'
<1> SUFFICES ASSUME IInv, [Next]_vars PROVE IInv'
  OBVIOUS
<1> USE DEF vars, program, port, values
<1>1. /\ TypeOK /\ SleepOK /\ CountOK /\ HungOK
      /\ MaxBuffer \in Nat /\ MAX_LINE_DATA \in Nat /\ MaxLost \in Nat
      /\ NUM_DATA_TEST \in Nat \ {0} /\ timeout \in Nat \ {0}
      /\ 0..timeout \subseteq 0..TIMEOUT_SMALL \cup 0..TIMEOUT_LARGE
  BY BufferAssumption, LineAssumption, LostAssumption, TestAssumption, TimeoutProperties,
     StreamProperties DEF IInv
<1>2. /\ ~Invented(<<>>) /\ <<>> \in Values /\ <<>> \in Seq(Chars) /\ Len(<<>>) = 0
  BY NothingInvented, EmptySeq
<1>3. CASE Open
  <2>1. PICK k \in 0..MaxBuffer : buffer' = Backlog(k)
    BY <1>3 DEF Open
  <2>2. buffer' \in Seq(Chars) /\ Len(buffer') <= MaxBuffer
    BY <1>1, <2>1, BacklogProperties
  <2>3. ~hung
    BY <1>1, <1>3 DEF HungOK, Open, TypeOK
  <2> QED BY <1>1, <1>3, <2>2, <2>3 DEF Open, IInv, TypeOK, SleepOK, timeout, CountOK, HungOK
<1>4. CASE Send
  <2>1. sent' \in Chars
    BY <1>1, <1>4, AfterProperties DEF Send, TypeOK
  <2>2. buffer' \in Seq(Chars) /\ Len(buffer') <= MaxBuffer
    <3>1. CASE buffer' = buffer
      BY <1>1, <3>1 DEF TypeOK
    <3>2. CASE Len(buffer) < MaxBuffer /\ buffer' = Append(buffer, sent')
      <4>1. /\ Append(buffer, sent') \in Seq(Chars) /\ Len(buffer) \in Nat
            /\ Len(Append(buffer, sent')) = Len(buffer) + 1
        BY <1>1, <2>1, AppendProperties DEF TypeOK
      <4> QED BY <1>1, <3>2, <4>1
    <3> QED BY <1>4, <3>1, <3>2 DEF Send
  <2>3. lost' \in 0..MaxLost /\ ~hung
    BY <1>1, <1>4 DEF Send, TypeOK
  <2> QED BY <1>1, <1>4, <2>1, <2>2, <2>3 DEF Send, IInv, TypeOK, SleepOK, timeout, CountOK, HungOK
<1>5. CASE HangUp
  BY <1>1, <1>2, <1>5 DEF HangUp, IInv, TypeOK, SleepOK, timeout, CountOK, HungOK
<1>6. CASE Call
  BY <1>1, <1>2, <1>6 DEF Call, IInv, TypeOK, SleepOK, timeout, CountOK, HungOK
<1>7. CASE SkipEol \/ EndLine
  <2>1. buffer # <<>> /\ buffer' = Tail(buffer)
    BY <1>7 DEF SkipEol, EndLine
  <2>2. buffer' \in Seq(Chars) /\ Len(buffer') <= MaxBuffer
    BY <1>1, <2>1, QueueTaken DEF TypeOK
  <2>3. ~hung
    BY <1>1, <2>1 DEF HungOK
  <2>4. /\ UNCHANGED <<caller, n_dt, line_data, total_sleep, sent, hung, values, lost>>
        /\ pc' = pc \/ (pc = "chars" /\ pc' = "value")
    BY <1>7 DEF SkipEol, EndLine
  <2>5. TypeOK'
    BY <1>1, <2>2, <2>4 DEF TypeOK
  <2>6. SleepOK' /\ CountOK' /\ HungOK'
    BY <1>1, <2>3, <2>4 DEF SleepOK, timeout, CountOK, HungOK
  <2> QED BY <2>5, <2>6 DEF IInv
<1>8. CASE FirstChar \/ NextChar
  <2>1. /\ buffer # <<>> /\ buffer' = Tail(buffer) /\ Len(line_data) < MAX_LINE_DATA
        /\ line_data' = Append(line_data, Head(buffer)) /\ pc' = "chars"
        /\ pc \in {"skip", "chars"}
        /\ UNCHANGED <<caller, n_dt, total_sleep, sent, hung, values, lost>>
    BY <1>8 DEF FirstChar, NextChar, Reading
  <2>2. /\ buffer' \in Seq(Chars) /\ Len(buffer') <= MaxBuffer /\ Head(buffer) \in Chars
    BY <1>1, <2>1, QueueTaken DEF TypeOK
  <2>3. /\ line_data' \in Values /\ Len(line_data') <= MAX_LINE_DATA /\ line_data' # <<>>
        /\ Invented(line_data') <=> Invented(line_data)
    <3>1. Head(buffer) \in Chars \cup {Copy} /\ Head(buffer) # Copy
      BY <2>2, StreamProperties DEF Copy
    <3>2. line_data' = Append(line_data, Head(buffer)) /\ Len(line_data) < MAX_LINE_DATA
      BY <2>1
    <3>3. LET c == Head(buffer)
          IN  /\ Append(line_data, c) \in Values /\ Append(line_data, c) # <<>>
              /\ Len(Append(line_data, c)) <= MAX_LINE_DATA
              /\ Invented(Append(line_data, c)) <=> Invented(line_data) \/ c = Copy
      BY <1>1, <3>1, <3>2, LineGrown
    <3>4. Invented(line_data') <=> Invented(Append(line_data, Head(buffer)))
      BY <3>2
    <3> QED BY <3>1, <3>2, <3>3, <3>4, Zenon
  <2>4. ~hung /\ invented = 0
    BY <1>1, <2>1 DEF HungOK
  <2> QED BY <1>1, <2>1, <2>2, <2>3, <2>4
       DEF IInv, TypeOK, SleepOK, timeout, CountOK, HungOK
<1>9. CASE CopyChar
  <2>1. /\ line_data' \in Values /\ Len(line_data') <= MAX_LINE_DATA /\ line_data' # <<>>
    BY <1>1, <1>9, LineGrown DEF CopyChar, Reading
  <2> QED BY <1>1, <1>9, <2>1
       DEF CopyChar, IInv, TypeOK, SleepOK, timeout, CountOK, HungOK
<1>10. CASE LineFull \/ TimeOut
  <2>1. CASE LineFull
    BY <1>1, <2>1 DEF LineFull, IInv, TypeOK, SleepOK, timeout, CountOK, HungOK
  <2>2. CASE TimeOut
    BY <1>1, <2>2 DEF TimeOut, IInv, TypeOK, SleepOK, timeout, CountOK, HungOK
  <2> QED BY <1>10, <2>1, <2>2
<1>11. CASE Sleep
  <2>1. total_sleep' \in 0..timeout
    BY <1>1, <1>11 DEF Sleep, Reading, SleepOK
  <2> QED BY <1>1, <1>11, <2>1
       DEF Sleep, IInv, TypeOK, SleepOK, timeout, CountOK, HungOK
<1>12. CASE TestValue \/ RecordValue
  <2>1. /\ pc = "value" /\ pc' = "idle" /\ UNCHANGED <<port, lost>>
        /\ last' = line_data /\ line_data' = <<>> /\ total_sleep' = 0
        /\ before' = (IF last = <<>> THEN None ELSE last[Len(last)])
        /\ invented' = (IF Invented(line_data) THEN invented + 1 ELSE invented)
    BY <1>12 DEF TestValue, RecordValue, Accepted
  <2>2. line_data # <<>> /\ line_data \in Values /\ invented = 0
    BY <1>1, <2>1 DEF HungOK, TypeOK
  <2>3. before' \in Chars \cup {None}
    <3>1. CASE last = <<>>
      BY <2>1, <3>1
    <3>2. CASE last # <<>>
      <4>1. last \in Seq(Chars \cup {Copy}) /\ Len(last) \in Nat \ {0}
        BY <1>1, <3>2, EmptySeq DEF TypeOK, Values
      <4>2. last[Len(last)] \in Chars \cup {Copy}
        BY <4>1, ElementOfSeq
      <4> QED BY <2>1, <3>2, <4>2 DEF Copy, None
    <3> QED BY <3>1, <3>2
  <2>4. /\ n_dt' \in 0..NUM_DATA_TEST /\ caller' \in {"find_device", "collect"}
        /\ CountOK'
    <3>1. CASE TestValue
      BY <1>1, <2>1, <2>2, <3>1 DEF TestValue, TypeOK, CountOK
    <3>2. CASE RecordValue
      BY <1>1, <2>1, <2>2, <3>2 DEF RecordValue, TypeOK, CountOK
    <3> QED BY <1>12, <3>1, <3>2
  <2>5. SleepOK'
    BY <2>1, <2>4, TimeoutAssumption DEF SleepOK, timeout
  <2>6. TypeOK'
    BY <1>1, <1>2, <2>1, <2>2, <2>3, <2>4, TimeoutAssumption DEF TypeOK
  <2>7. HungOK'
    BY <1>1, <1>2, <2>1, <2>2 DEF HungOK
  <2> QED BY <2>4, <2>5, <2>6, <2>7 DEF IInv
<1>13. CASE Close
  <2>1. TypeOK'
    <3>1. /\ line_data' \in Values /\ Len(line_data') <= MAX_LINE_DATA
          /\ buffer' \in Seq(Chars) /\ Len(buffer') <= MaxBuffer /\ last' \in Values
      BY <1>1, <1>2, <1>13 DEF Close
    <3>2. /\ pc' = "closed" /\ caller' = "find_device" /\ hung' \in BOOLEAN
          /\ n_dt' \in 0..NUM_DATA_TEST /\ total_sleep' \in 0..TIMEOUT_SMALL
          /\ sent' \in Chars /\ before' = None /\ invented' \in Nat /\ lost' \in 0..MaxLost
      <4>1. 0 \in 0..NUM_DATA_TEST /\ 0 \in 0..TIMEOUT_SMALL /\ 0 \in 0..MaxLost /\ 0 \in Nat
        BY <1>1, TimeoutAssumption
      <4> QED BY <1>1, <1>13, <4>1 DEF Close, TypeOK
    <3> QED BY <3>1, <3>2 DEF TypeOK
  <2>2. SleepOK' /\ CountOK' /\ HungOK'
    BY <1>1, <1>2, <1>13, TimeoutAssumption DEF Close, SleepOK, timeout, CountOK, HungOK
  <2> QED BY <2>1, <2>2 DEF IInv
<1>14. CASE UNCHANGED vars
  BY <1>1, <1>14 DEF IInv, TypeOK, SleepOK, timeout, CountOK, HungOK
<1> QED BY <1>3, <1>4, <1>5, <1>6, <1>7, <1>8, <1>9, <1>10, <1>11, <1>12, <1>13, <1>14
     DEF Next, ReadNextValue, Callers

LEMMA Invariance == Spec => []IInv
BY Initially, Inductive, PTL DEF Spec

\* Type correctness: line_data never holds more than it has room for, and a
\* call sleeps no longer than its timeout (read_next_value).
THEOREM TypeCorrect == Spec => []TypeOK
<1>1. IInv => TypeOK
  BY DEF IInv
<1> QED BY <1>1, Invariance, PTL

\* A port that is unplugged yields one value at most that was not sent, however
\* often the second loop takes the failing read for a character (read_next_value).
THEOREM OneInventedHolds == Spec => []OneInvented
<1>1. IInv => OneInvented
  BY DEF IInv, HungOK, OneInvented
<1> QED BY <1>1, Invariance, PTL

-----------------------------------------------------------------------------
(* What is recorded is what was sent *)

LEMMA ReadProperties ==
    ASSUME TypeOK
    PROVE  Read \in Chars /\ Len(buffer) \in Nat
<1>1. Len(buffer) \in Nat /\ sent \in Chars
  BY DEF TypeOK
<1>2. 0 - Len(buffer) \in Int
  BY <1>1
<1> QED BY <1>1, <1>2, AfterProperties DEF Read

\* What is read next comes after what was read last.
LEMMA NextRead ==
    ASSUME TypeOK, QueueOK, pc # "closed", ~hung, buffer # <<>>,
           buffer' = Tail(buffer), UNCHANGED <<sent, hung>>
    PROVE  /\ Head(buffer) = After(Read, 1) /\ Read' = After(Read, 1)
           /\ QueueOK'
<1> DEFINE n == Len(buffer)
<1>1. /\ n \in Nat /\ n >= 1 /\ sent \in Chars /\ Head(buffer) = buffer[1]
      /\ Len(Tail(buffer)) = n - 1
      /\ \A i \in 1..n-1 : Tail(buffer)[i] = buffer[i+1]
  BY QueueTaken DEF TypeOK
<1>2. \A i \in 1..n : buffer[i] = After(sent, i - n)
  BY DEF QueueOK
<1> HIDE DEF n
<1>3. After(After(sent, 0 - n), 1) = After(sent, (0 - n) + 1)
  BY <1>1, AfterProperties
<1>4. (0 - n) + 1 = 1 - n /\ (0 - n) + 1 = 0 - (n - 1) /\ 1 \in 1..n
  BY <1>1
<1>5. Head(buffer) = After(Read, 1)
  BY <1>1, <1>2, <1>3, <1>4 DEF Read, n
<1>6. Read' = After(Read, 1)
  BY <1>1, <1>3, <1>4 DEF Read, n
<1>7. ASSUME NEW i \in 1..n-1 PROVE Tail(buffer)[i] = After(sent, i - (n - 1))
  <2>1. i + 1 \in 1..n /\ (i + 1) - n = i - (n - 1)
    BY <1>1
  <2> QED BY <1>1, <1>2, <2>1
<1>8. QueueOK'
  BY <1>1, <1>7 DEF QueueOK
<1> QED BY <1>5, <1>6, <1>8

\* A line that has grown by the character after it.
LEMMA ChainGrown ==
    ASSUME NEW line, Len(line) \in Nat, line # <<>>, Chain(line), Len(line) >= 1,
           NEW long, Len(long) = Len(line) + 1,
           \A i \in 1..Len(line) : long[i] = line[i],
           long[Len(line) + 1] = After(LastOf(line), 1), Digit(long[Len(line) + 1])
    PROVE  Chain(long)
<1> DEFINE n == Len(line)
<1>1. n \in Nat /\ n >= 1
  OBVIOUS
<1>2. /\ \A i \in 1..n : line[i] \in Chars /\ Digit(line[i]) /\ line[i] = After(line[1], i - 1)
      /\ Len(long) = n + 1 /\ \A i \in 1..n : long[i] = line[i]
      /\ long[n + 1] = After(line[n], 1) /\ Digit(long[n + 1])
  BY DEF Chain, LastOf
<1> HIDE DEF n
<1>3. 1 \in 1..n /\ n \in 1..n /\ n - 1 \in Int /\ (n - 1) + 1 = (n + 1) - 1
      /\ 1..(n + 1) = 1..n \cup {n + 1}
  BY <1>1
<1>4. long[n + 1] = After(line[1], (n + 1) - 1) /\ long[n + 1] \in Chars
  <2>1. line[1] \in Chars /\ line[n] = After(line[1], n - 1) /\ line[n] \in Chars
    BY <1>2, <1>3
  <2>2. After(After(line[1], n - 1), 1) = After(line[1], (n - 1) + 1)
    <3> DEFINE m == n - 1
    <3> DEFINE p == line[1]
    <3>1. m \in Int /\ p \in Chars /\ 1 \in Int
      BY <1>1, <2>1
    <3> HIDE DEF m, p
    <3>2. After(After(p, m), 1) = After(p, m + 1)
      BY <3>1, AfterProperties
    <3> QED BY <3>2 DEF m, p
  <2>3. After(line[n], 1) \in Chars
    BY <2>1, AfterProperties
  <2> QED BY <1>2, <1>3, <2>1, <2>2, <2>3
<1>5. long[1] = line[1]
  BY <1>2, <1>3
<1> QED BY <1>2, <1>3, <1>4, <1>5 DEF Chain

\* Lines end before line_data is full.
LEMMA ChainIsShort ==
    ASSUME NEW line, Chain(line), Len(line) \in Nat
    PROVE  Len(line) < MAX_LINE_DATA
<1> SUFFICES ASSUME Len(line) >= MAX_LINE_DATA PROVE FALSE
  BY LineAssumption
<1>1. MAX_LINE_DATA \in Nat \ {0}
  BY LineAssumption
<1>2. 1 \in 1..Len(line)
  BY <1>1
<1>3. line[1] \in Chars
  BY <1>2 DEF Chain
<1>4. PICK k \in 0..MAX_LINE_DATA-1 : Eol(After(line[1], k))
  BY <1>3, LengthAssumption
<1>5. k + 1 \in 1..Len(line) /\ (k + 1) - 1 = k
  BY <1>1
<1>6. /\ Digit(line[k + 1]) /\ line[k + 1] \in Chars
      /\ line[k + 1] = After(line[1], k)
  BY <1>5 DEF Chain
<1> QED BY <1>4, <1>6, StreamProperties

\* The line after a gap begins with a line of its own.
LEMMA GapFollowed ==
    ASSUME NEW p \in Chars, NEW q \in Chars, Gap(p, q), Digit(After(q, 1))
    PROVE  FollowsLine(p, After(q, 1))
<1>1. PICK k \in 1..Len(Stream) : q = After(p, k) /\ \A j \in 1..k : Eol(After(p, j))
  BY DEF Gap
<1>2. k \in Nat /\ k + 1 \in 1..Len(Stream) /\ (k + 1) - 1 = k /\ k \in 1..k
  BY <1>1, DigitSoon, StreamProperties
<1>3. After(q, 1) = After(p, k + 1) /\ After(q, 1) \in Chars
  BY <1>1, <1>2, AfterProperties
<1>4. After(After(q, 1), -1) = q
  <2>1. After(After(q, 1), -1) = After(q, 1 + (-1)) /\ 1 + (-1) = 0
    BY AfterProperties
  <2> QED BY <2>1, AfterProperties
<1> QED BY <1>1, <1>2, <1>3, <1>4 DEF FollowsLine, Follows

LEMMA GapGrown ==
    ASSUME NEW p \in Chars, NEW q \in Chars, Gap(p, q), Eol(After(q, 1))
    PROVE  Gap(p, After(q, 1))
<1>1. PICK k \in 1..Len(Stream) : q = After(p, k) /\ \A j \in 1..k : Eol(After(p, j))
  BY DEF Gap
<1>2. k \in Nat /\ k + 1 \in 1..Len(Stream) /\ 1..(k + 1) = 1..k \cup {k + 1}
  BY <1>1, DigitSoon, StreamProperties
<1>3. After(q, 1) = After(p, k + 1)
  BY <1>1, <1>2, AfterProperties
<1> QED BY <1>1, <1>2, <1>3 DEF Gap

LEMMA GapBegun ==
    ASSUME NEW p \in Chars, Eol(After(p, 1))
    PROVE  Gap(p, After(p, 1))
<1>1. 1 \in 1..Len(Stream) /\ 1..1 = {1}
  BY StreamProperties
<1> QED BY <1>1 DEF Gap

\* Steps that take nothing from the queue and leave the line and the values.
LEMMA StreamStays ==
    ASSUME StreamOK,
           UNCHANGED <<line_data, last, before, invented, n_dt, lost>>,
           hung => hung', Read' = Read, QueueOK',
           pc' = pc \/ (pc = "idle" /\ pc' = "skip") \/ pc' = "error"
    PROVE  StreamOK'
<1> SUFFICES ASSUME lost = 0 PROVE LineOK' /\ GapOK' /\ LastOK'
  BY DEF StreamOK
<1>1. QueueOK /\ LineOK /\ GapOK /\ LastOK
  BY DEF StreamOK
<1>2. LineOK'
  BY <1>1 DEF LineOK
<1>3. GapOK'
  BY <1>1 DEF GapOK
<1>4. LastOK'
  BY <1>1 DEF LastOK
<1> QED BY <1>2, <1>3, <1>4

\* The queue grows at its end while what was read last stays in its place.
LEMMA SendStream ==
    ASSUME IInv, StreamOK, Send
    PROVE  StreamOK'
<1> SUFFICES ASSUME lost' = 0 PROVE StreamOK'
  BY DEF StreamOK
<1> DEFINE n == Len(buffer)
<1>1. /\ TypeOK /\ n \in Nat /\ sent \in Chars /\ sent' = After(sent, 1) /\ sent' \in Chars
      /\ UNCHANGED <<pc, caller, line_data, last, before, invented, n_dt, hung>>
  BY AfterProperties DEF IInv, TypeOK, Send, program, values
<1>2. /\ lost = 0 /\ UNCHANGED lost
      /\ pc = "closed" \/ buffer' = Append(buffer, sent')
  BY <1>1, LostAssumption DEF Send, TypeOK
<1>3. CASE pc = "closed"
  BY <1>1, <1>2, <1>3 DEF StreamOK, QueueOK, LineOK, GapOK, LastOK
<1>4. CASE pc # "closed"
  <2>1. /\ Len(buffer') = n + 1 /\ buffer'[n + 1] = sent'
        /\ \A i \in 1..n : buffer'[i] = buffer[i]
    BY <1>1, <1>2, <1>4, AppendProperties DEF TypeOK
  <2> HIDE DEF n
  <2>2. \A k \in Int : After(sent', k) = After(sent, 1 + k)
    BY <1>1, AfterProperties
  <2>3. Read' = Read
    <3>1. 1 + (0 - (n + 1)) = 0 - n /\ 0 - (n + 1) \in Int
      BY <1>1
    <3>2. After(sent', 0 - (n + 1)) = After(sent, 0 - n)
      BY <2>2, <3>1
    <3> QED BY <2>1, <3>2 DEF Read, n
  <2>4. QueueOK'
    <3> SUFFICES ASSUME ~hung', NEW i \in 1..(n + 1)
                 PROVE  buffer'[i] = After(sent', i - (n + 1))
      BY <2>1 DEF QueueOK
    <3>1. CASE i = n + 1
      <4>1. i - (n + 1) = 0
        BY <1>1, <3>1
      <4> QED BY <1>1, <2>1, <3>1, <4>1, AfterProperties
    <3>2. CASE i # n + 1
      <4>1. i \in 1..n /\ i - (n + 1) \in Int /\ 1 + (i - (n + 1)) = i - n
        BY <1>1, <3>2
      <4>2. buffer[i] = After(sent, i - n)
        BY <1>1, <1>2, <1>4, <4>1 DEF StreamOK, QueueOK, n
      <4> QED BY <2>1, <2>2, <4>1, <4>2
    <3> QED BY <3>1, <3>2
  <2> QED BY <1>1, <1>2, <2>3, <2>4, StreamStays
<1> QED BY <1>3, <1>4

\* An end of line is taken between two lines, or at the end of one.
LEMMA EolStream ==
    ASSUME IInv, StreamOK, SkipEol \/ EndLine
    PROVE  StreamOK'
<1> SUFFICES ASSUME lost = 0 PROVE QueueOK' /\ LineOK' /\ GapOK' /\ LastOK'
  BY DEF StreamOK, SkipEol, EndLine, program
<1>1. /\ TypeOK /\ HungOK /\ QueueOK /\ LineOK /\ GapOK /\ LastOK
      /\ buffer # <<>> /\ buffer' = Tail(buffer) /\ pc # "closed" /\ Eol(Head(buffer))
      /\ UNCHANGED <<caller, line_data, sent, hung, last, before, invented, n_dt>>
  BY DEF StreamOK, SkipEol, EndLine, IInv, program, values
<1>2. ~hung
  BY <1>1 DEF HungOK
<1>3. Head(buffer) = After(Read, 1) /\ Read' = After(Read, 1) /\ QueueOK' /\ Read \in Chars
  BY <1>1, <1>2, NextRead, ReadProperties
<1>4. LastOK'
  BY <1>1 DEF LastOK
<1>5. CASE SkipEol
  <2>1. pc = "skip" /\ pc' = "skip"
    BY <1>5 DEF SkipEol, program
  <2>2. GapOK'
    <3> SUFFICES ASSUME invented = 0, last # <<>> PROVE Gap(LastOf(last), After(Read, 1))
      BY <1>1, <1>3 DEF GapOK, LastOf
    <3>1. Gap(LastOf(last), Read)
      BY <1>1, <1>2, <2>1 DEF GapOK
    <3>2. LastOf(last) \in Chars
      <4>1. Len(last) \in Nat \ {0}
        BY <1>1, EmptySeq DEF TypeOK, Values
      <4> QED BY <1>1, <4>1 DEF LastOK, Chain, LastOf
    <3> QED BY <1>1, <1>3, <3>1, <3>2, GapGrown
  <2> QED BY <1>3, <1>4, <2>1, <2>2 DEF LineOK
<1>6. CASE EndLine
  <2>1. pc = "chars" /\ pc' = "value"
    BY <1>6 DEF EndLine
  <2>2. LineOK'
    <3>1. ~Invented(line_data) => Read = LastOf(line_data)
      BY <1>1, <1>2, <2>1 DEF LineOK
    <3> QED BY <1>1, <1>2, <1>3, <2>1, <3>1 DEF LineOK, LastOf
  <2> QED BY <1>3, <1>4, <2>1, <2>2 DEF GapOK
<1> QED BY <1>5, <1>6

LEMMA LastOfGrown ==
    ASSUME NEW line, NEW long, Len(line) \in Nat, Len(long) = Len(line) + 1
    PROVE  LastOf(long) = long[Len(line) + 1]
BY DEF LastOf

\* A digit is taken: the first of a line, or the one after the last.
LEMMA CharStream ==
    ASSUME IInv, StreamOK, FirstChar \/ NextChar
    PROVE  StreamOK'
<1> SUFFICES ASSUME lost = 0 PROVE QueueOK' /\ LineOK' /\ GapOK' /\ LastOK'
  BY DEF StreamOK, FirstChar, NextChar
<1>1. /\ TypeOK /\ HungOK /\ QueueOK /\ LineOK /\ GapOK /\ LastOK
      /\ buffer # <<>> /\ buffer' = Tail(buffer) /\ pc \in {"skip", "chars"} /\ Digit(Head(buffer))
      /\ line_data' = Append(line_data, Head(buffer)) /\ Len(line_data) < MAX_LINE_DATA
      /\ pc' = "chars"
      /\ UNCHANGED <<caller, sent, hung, last, before, invented, n_dt>>
  BY DEF StreamOK, FirstChar, NextChar, Reading, IInv, values
<1>2. ~hung /\ ~Invented(line_data) /\ invented = 0
  BY <1>1 DEF HungOK
<1>3. Head(buffer) = After(Read, 1) /\ Read' = After(Read, 1) /\ QueueOK' /\ Read \in Chars
  BY <1>1, <1>2, NextRead, ReadProperties
<1>4. LastOK' /\ GapOK'
  BY <1>1 DEF LastOK, GapOK
<1> DEFINE n == Len(line_data)
<1>5. /\ Head(buffer) \in Chars /\ Head(buffer) # Copy
      /\ n \in Nat /\ Len(line_data') = n + 1 /\ line_data'[n + 1] = Head(buffer)
      /\ \A i \in 1..n : line_data'[i] = line_data[i]
  <2>1. Head(buffer) \in Chars /\ Head(buffer) # Copy
    BY <1>1, QueueTaken, StreamProperties DEF Copy
  <2> QED BY <1>1, <2>1, LineGrown DEF TypeOK, Values
<1>6. LastOf(line_data') = Read'
  BY <1>3, <1>5, LastOfGrown
<1>7. Chain(line_data') /\ (last # <<>> => FollowsLine(LastOf(last), line_data'[1]))
  <2>1. CASE FirstChar
    <3>1. pc = "skip" /\ n = 0 /\ 1..(n + 1) = {1} /\ n + 1 = 1
      BY <1>1, <2>1, NothingInvented DEF FirstChar, HungOK
    <3>2. Chain(line_data')
      <4>1. line_data'[1] \in Chars /\ Digit(line_data'[1]) /\ line_data'[1] = After(line_data'[1], 1 - 1)
        BY <1>1, <1>5, <3>1, AfterProperties
      <4> QED BY <1>5, <3>1, <4>1 DEF Chain
    <3>3. ASSUME last # <<>> PROVE FollowsLine(LastOf(last), line_data'[1])
      <4>1. Gap(LastOf(last), Read)
        BY <1>1, <1>2, <3>1, <3>3 DEF GapOK
      <4>2. LastOf(last) \in Chars
        <5>1. Len(last) \in Nat \ {0}
          BY <1>1, <3>3, EmptySeq DEF TypeOK, Values
        <5> QED BY <1>1, <1>2, <3>3, <5>1 DEF LastOK, Chain, LastOf
      <4> QED BY <1>1, <1>3, <1>5, <3>1, <4>1, <4>2, GapFollowed
    <3> QED BY <3>2, <3>3
  <2>2. CASE NextChar
    <3>1. pc = "chars" /\ line_data # <<>>
      BY <1>1, <2>2 DEF NextChar, HungOK
    <3>2. Chain(line_data) /\ Read = LastOf(line_data)
          /\ (last # <<>> => FollowsLine(LastOf(last), line_data[1]))
      BY <1>1, <1>2, <3>1 DEF LineOK
    <3>3. n >= 1 /\ line_data'[1] = line_data[1]
      <4>1. n \in Nat \ {0}
        BY <1>1, <3>1, EmptySeq DEF TypeOK, Values
      <4> QED BY <1>5, <4>1
    <3>4. Chain(line_data')
      BY <1>1, <1>3, <1>5, <3>1, <3>2, <3>3, ChainGrown
    <3> QED BY <1>1, <3>2, <3>3, <3>4
  <2> QED BY <2>1, <2>2
<1>8. LineOK'
  BY <1>1, <1>6, <1>7 DEF LineOK
<1> QED BY <1>3, <1>4, <1>8

LEMMA OpenStream ==
    ASSUME IInv, StreamOK, Open
    PROVE  StreamOK'
<1> SUFFICES ASSUME lost = 0 PROVE QueueOK' /\ LineOK' /\ GapOK' /\ LastOK'
  BY DEF StreamOK, Open
<1>1. /\ TypeOK /\ CountOK /\ pc = "closed" /\ pc' = "idle"
      /\ UNCHANGED <<line_data, sent, hung, last, before, invented, n_dt>>
  BY DEF IInv, Open, values
<1>2. PICK k \in 0..MaxBuffer : buffer' = Backlog(k)
  BY DEF Open
<1>3. Len(buffer') = k /\ \A i \in 1..k : buffer'[i] = After(sent, i - k)
  BY <1>1, <1>2, BacklogProperties
<1>4. QueueOK'
  BY <1>1, <1>3 DEF QueueOK
<1>5. last = <<>>
  BY <1>1 DEF CountOK
<1> QED BY <1>1, <1>4, <1>5 DEF LineOK, GapOK, LastOK

\* What an unplugged port adds to a line is told from what was sent.
LEMMA CopyStream ==
    ASSUME IInv, StreamOK, CopyChar
    PROVE  StreamOK'
<1> SUFFICES ASSUME lost = 0 PROVE QueueOK' /\ LineOK' /\ GapOK' /\ LastOK'
  BY DEF StreamOK, CopyChar
<1>1. /\ TypeOK /\ pc = "chars" /\ pc' = "chars" /\ hung /\ Len(line_data) < MAX_LINE_DATA
      /\ line_data' = Append(line_data, Copy)
      /\ UNCHANGED <<buffer, sent, hung, last, before, invented, n_dt>>
  BY DEF IInv, CopyChar, Reading, port, values
<1>2. Invented(line_data')
  BY <1>1, LineGrown
<1>3. LastOK'
  BY <1>1 DEF StreamOK, LastOK
<1> QED BY <1>1, <1>2, <1>3 DEF QueueOK, LineOK, GapOK

\* A full line holds characters that nobody sent.
LEMMA FullStream ==
    ASSUME IInv, StreamOK, LineFull
    PROVE  StreamOK'
<1> SUFFICES ASSUME lost = 0 PROVE QueueOK' /\ LineOK' /\ GapOK' /\ LastOK'
  BY DEF StreamOK, LineFull
<1>1. /\ TypeOK /\ pc = "chars" /\ pc' = "value" /\ Len(line_data) = MAX_LINE_DATA
      /\ UNCHANGED <<line_data, buffer, sent, hung, last, before, invented, n_dt>>
  BY DEF IInv, LineFull, port, values
<1>2. Invented(line_data)
  <2> SUFFICES ASSUME ~Invented(line_data) PROVE FALSE
    OBVIOUS
  <2>1. Chain(line_data)
    BY <1>1 DEF StreamOK, LineOK
  <2>2. MAX_LINE_DATA \in Nat /\ Len(line_data) \in Nat
    BY <1>1, LineAssumption
  <2> QED BY <1>1, <2>1, <2>2, ChainIsShort
<1>3. QueueOK' /\ LastOK'
  BY <1>1 DEF StreamOK, QueueOK, LastOK
<1> QED BY <1>1, <1>2, <1>3 DEF LineOK, GapOK

\* The value read takes the place of the last.
LEMMA AcceptedStream ==
    ASSUME IInv, IInv', StreamOK, TestValue \/ RecordValue
    PROVE  StreamOK'
<1> SUFFICES ASSUME lost = 0 PROVE QueueOK' /\ LineOK' /\ GapOK' /\ LastOK'
  BY DEF StreamOK, TestValue, RecordValue
<1>1. /\ TypeOK /\ HungOK /\ CountOK /\ CountOK' /\ QueueOK /\ LineOK /\ LastOK
      /\ pc = "value" /\ pc' = "idle" /\ UNCHANGED <<buffer, sent, hung>>
      /\ last' = line_data
      /\ before' = (IF last = <<>> THEN None ELSE LastOf(last))
      /\ invented' = (IF Invented(line_data) THEN invented + 1 ELSE invented)
      /\ n_dt' = n_dt \/ n_dt' = n_dt + 1
      /\ caller = "collect" \/ n_dt' = n_dt + 1
  BY DEF StreamOK, IInv, TestValue, RecordValue, Accepted, port, LastOf, TypeOK
<1>2. line_data # <<>> /\ invented = 0 /\ n_dt \in Nat
  BY <1>1 DEF HungOK, TypeOK
<1>3. QueueOK' /\ LineOK'
  BY <1>1 DEF QueueOK, LineOK
<1>4. ASSUME invented' = 0
      PROVE  /\ Chain(line_data) /\ Eol(After(LastOf(line_data), 1))
             /\ last # <<>> => FollowsLine(LastOf(last), line_data[1])
             /\ ~hung => Read = After(LastOf(line_data), 1)
             /\ LastOf(line_data) \in Chars
  <2>1. ~Invented(line_data)
    BY <1>1, <1>2, <1>4
  <2>2. Chain(line_data)
    BY <1>1, <2>1 DEF LineOK
  <2>3. Len(line_data) \in 1..Len(line_data)
    <3>1. Len(line_data) \in Nat \ {0}
      BY <1>1, <1>2, EmptySeq DEF TypeOK, Values
    <3> QED BY <3>1
  <2> QED BY <1>1, <2>1, <2>2, <2>3 DEF LineOK, Chain, LastOf
<1>5. Read' = Read
  BY <1>1 DEF Read
<1>6. GapOK'
  BY <1>1, <1>4, <1>5, GapBegun DEF GapOK, LastOf
<1>7. LastOK'
  <2> SUFFICES ASSUME invented' = 0
               PROVE  /\ Chain(line_data) /\ Eol(After(LastOf(line_data), 1))
                      /\ n_dt' >= 2 => before' # None
                      /\ before' # None => FollowsLine(before', line_data[1])
    BY <1>1 DEF LastOK, LastOf
  <2>1. ASSUME n_dt' >= 2 PROVE before' # None
    <3>1. n_dt # 0
      BY <1>1, <1>2, <2>1, TestAssumption DEF CountOK
    <3>2. last # <<>>
      BY <1>1, <3>1 DEF CountOK
    <3>3. LastOf(last) \in Chars
      <4>1. Len(last) \in Nat \ {0}
        BY <1>1, <3>2, EmptySeq DEF TypeOK, Values
      <4> QED BY <1>1, <1>2, <3>2, <4>1 DEF LastOK, Chain, LastOf
    <3> QED BY <1>1, <3>2, <3>3, StreamProperties DEF None
  <2>2. ASSUME before' # None PROVE FollowsLine(before', line_data[1])
    <3>1. last # <<>> /\ before' = LastOf(last)
      BY <1>1, <2>2
    <3> QED BY <1>4, <3>1
  <2> QED BY <1>4, <2>1, <2>2
<1> QED BY <1>3, <1>6, <1>7

LEMMA StreamInductive == IInv /\ IInv' /\ StreamOK /\ [Next]_vars => StreamOK'
<1> SUFFICES ASSUME IInv, IInv', StreamOK, [Next]_vars PROVE StreamOK'
  OBVIOUS
<1>1. CASE HangUp
  <2>1. /\ hung' = TRUE
        /\ UNCHANGED <<pc, line_data, sent, last, before, invented, n_dt, lost>>
    BY <1>1 DEF HangUp, program, values
  <2> QED BY <2>1 DEF StreamOK, QueueOK, LineOK, GapOK, LastOK
<1>2. CASE Call
  <2>1. /\ pc = "idle" /\ pc' = "skip" /\ line_data = <<>> /\ line_data' = <<>>
        /\ UNCHANGED <<buffer, sent, hung, last, before, invented, n_dt, lost>>
    BY <1>2 DEF Call, IInv, HungOK, port, values
  <2> QED BY <2>1, StreamStays DEF StreamOK, QueueOK, LineOK, GapOK, LastOK, Read
<1>3. CASE Sleep \/ TimeOut \/ UNCHANGED vars
  <2>1. /\ pc' = pc \/ pc' = "error"
        /\ UNCHANGED <<line_data, buffer, sent, hung, last, before, invented, n_dt, lost>>
        /\ pc = "closed" => pc' = pc
    BY <1>3 DEF Sleep, TimeOut, vars, program, port, values
  <2> QED BY <2>1 DEF StreamOK, QueueOK, LineOK, GapOK, LastOK, Read
<1>4. CASE Close
  BY <1>4 DEF Close, StreamOK, QueueOK, LineOK, GapOK, LastOK
<1> QED BY <1>1, <1>2, <1>3, <1>4, OpenStream, SendStream, EolStream, CharStream, CopyStream,
           FullStream, AcceptedStream DEF Next, ReadNextValue, Callers

LEMMA StreamInvariance == Spec => []StreamOK
BY Initially, Invariance, StreamInductive, PTL DEF Spec

\* Nothing is skipped between two values, wherever calls begin, wait and end,
\* as long as the queue does not overflow and the port is not unplugged in a line
\* (read_next_value).
THEOREM NothingSkippedHolds == Spec => []NothingSkipped
<1>1. ASSUME IInv, StreamOK PROVE NothingSkipped
  <2> SUFFICES ASSUME before # None, lost = 0, invented = 0 PROVE Follows(before, last[1])
    BY DEF NothingSkipped, Undisturbed
  <2>1. CASE last = <<>>
    BY <1>1, <2>1 DEF IInv, CountOK
  <2>2. CASE last # <<>>
    BY <1>1, <2>2 DEF StreamOK, LastOK, FollowsLine
  <2> QED BY <2>1, <2>2
<1> QED BY <1>1, Invariance, StreamInvariance, PTL

\* What is recorded are lines as they were sent, whatever the stream, the queue
\* and the timeouts, as long as lines fit in line_data and the test of the port
\* takes two values at least (find_device, read_next_value, collect_and_write).
THEOREM RecordedWholeHolds == Spec => []RecordedWhole
<1>1. ASSUME IInv, StreamOK PROVE RecordedWhole
  <2> SUFFICES ASSUME caller = "collect", last # <<>>, lost = 0, invented = 0 PROVE Whole(last)
    BY DEF RecordedWhole, Undisturbed
  <2> DEFINE n == Len(last)
  <2>1. TypeOK /\ n_dt >= 2
    BY <1>1, TestAssumption DEF IInv, CountOK
  <2>2. /\ last \in Seq(Chars \cup {Copy}) /\ n \in Nat \ {0} /\ DOMAIN last = 1..n
    BY <2>1, EmptySeq, LenProperties DEF TypeOK, Values
  <2>3. Chain(last) /\ Eol(After(last[n], 1)) /\ FollowsLine(before, last[1])
    BY <1>1, <2>1 DEF StreamOK, LastOK, LastOf
  <2>4. \A i \in 1..n : last[i] \in Chars /\ Digit(last[i]) /\ last[i] = After(last[1], i - 1)
    BY <2>3 DEF Chain
  <2> HIDE DEF n
  <2>5. ASSUME NEW i \in 1..n-1 PROVE last[i+1] = After(last[i], 1)
    <3> DEFINE p == last[1]
    <3> DEFINE m == i - 1
    <3>1. i \in 1..n /\ i+1 \in 1..n /\ 1 \in 1..n /\ m \in Int /\ m + 1 = (i+1) - 1 /\ 1 \in Int
      BY <2>2
    <3>2. last[i] = After(p, m) /\ last[i+1] = After(p, m + 1) /\ p \in Chars
      BY <2>4, <3>1
    <3> HIDE DEF p, m
    <3>3. After(After(p, m), 1) = After(p, m + 1)
      BY <3>1, <3>2, AfterProperties
    <3> QED BY <3>2, <3>3
  <2> QED BY <2>2, <2>3, <2>4, <2>5 DEF Whole, FollowsLine, n
<1> QED BY <1>1, Invariance, StreamInvariance, PTL
=============================================================================
