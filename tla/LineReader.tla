----------------------------- MODULE LineReader -----------------------------
(***************************************************************************)
(* How samples are read from the port: read_next_value takes characters    *)
(* from the terminal's input queue one at a time and makes lines of them,  *)
(* giving up after a total of timeout spent asleep; find_device reads      *)
(* values to test the port and collect_and_write reads those it records,   *)
(* until one of them gets an error and the port is closed.                 *)
(*                                                                         *)
(* The device sends the characters of Stream over and over. A character is *)
(* its position in Stream, so that a value (line_data) shows where it came *)
(* from; what atol makes of it is of no interest.                          *)
(***************************************************************************)
EXTENDS Integers, Sequences

CONSTANTS
    Stream,             \* what the device sends: "digit" or "eol"
    MaxBuffer,          \* characters the input queue holds
    MAX_LINE_DATA,      \* characters line_data holds
    NUM_DATA_TEST,      \* values find_device reads to accept a port
    TIMEOUT_SMALL, TIMEOUT_LARGE,   \* in sleeps of 10 ms
    Accidents,          \* subset of {"overflow", "hangup"} that may happen
    MaxLost             \* bound: characters lost for want of room in a connection

Chars == 1..Len(Stream)

\* The character k places after p.
After(p, k) == 1 + ((p - 1 + k) % Len(Stream))

Digit(p) == Stream[p] = "digit"
Eol(p)   == Stream[p] = "eol"

ASSUME StreamAssumption ==
    /\ Stream \in Seq({"digit", "eol"})
    /\ \E p \in Chars : Digit(p)
    /\ \E p \in Chars : Eol(p)
ASSUME BufferAssumption == MaxBuffer \in 1..Len(Stream)
ASSUME LineAssumption == MAX_LINE_DATA \in Nat \ {0}
\* The lines of the device are shorter than line_data.
ASSUME LengthAssumption ==
    \A p \in Chars : \E k \in 0..MAX_LINE_DATA-1 : Eol(After(p, k))
\* find_device reads past the line in the middle of which it opens the port.
ASSUME TestAssumption == NUM_DATA_TEST \in Nat /\ NUM_DATA_TEST >= 2
ASSUME TimeoutAssumption == TIMEOUT_SMALL \in Nat \ {0} /\ TIMEOUT_LARGE \in Nat \ {0}
ASSUME AccidentsAssumption == Accidents \subseteq {"overflow", "hangup"}
ASSUME LostAssumption == MaxLost \in Nat

VARIABLES
    pc,
    caller,         \* who calls read_next_value: "find_device", "collect"
    n_dt,           \* values find_device has read
    line_data, total_sleep,
    \* the port
    buffer,         \* the input queue
    sent,           \* the character sent last
    hung,           \* the port has been unplugged
    \* history of the connection
    last,           \* the value read last
    before,         \* the character that ended the value before it, or None
    invented,       \* values that hold characters nobody sent
    lost            \* characters the queue had no room for

program == <<pc, caller, n_dt, line_data, total_sleep>>
port    == <<buffer, sent, hung>>
values  == <<last, before, invented>>
vars    == <<program, port, values, lost>>

Copy == 0   \* the character read last, taken for one more
None == 0

Values == Seq(Chars \cup {Copy})

TypeOK ==
    /\ pc \in {"closed", "idle", "skip", "chars", "value", "error"}
    /\ caller \in {"find_device", "collect"}
    /\ n_dt \in 0..NUM_DATA_TEST
    /\ line_data \in Values /\ Len(line_data) <= MAX_LINE_DATA
    /\ total_sleep \in 0..TIMEOUT_SMALL \cup 0..TIMEOUT_LARGE
    /\ buffer \in Seq(Chars) /\ Len(buffer) <= MaxBuffer
    /\ sent \in Chars
    /\ hung \in BOOLEAN
    /\ last \in Values /\ before \in Chars \cup {None}
    /\ invented \in Nat
    /\ lost \in 0..MaxLost

Init ==
    /\ pc = "closed" /\ caller = "find_device"
    /\ n_dt = 0 /\ line_data = <<>> /\ total_sleep = 0
    /\ buffer = <<>> /\ sent \in Chars /\ hung = FALSE
    /\ last = <<>> /\ before = None /\ invented = 0 /\ lost = 0

timeout == IF caller = "find_device" THEN TIMEOUT_SMALL ELSE TIMEOUT_LARGE

-----------------------------------------------------------------------------
(* The port and its device *)

\* The last k characters sent, which is what an input queue holds.
Backlog(k) == [i \in 1..k |-> After(sent, i - k)]

\* find_device opens the port, at any point of a line, and with buffered data
\* or without.
Open ==
    /\ pc = "closed" /\ pc' = "idle"
    /\ \E k \in 0..MaxBuffer : buffer' = Backlog(k)
    /\ UNCHANGED <<caller, n_dt, line_data, total_sleep, sent, hung, values, lost>>

\* The device does not wait: what the queue has no room for is lost.
Send ==
    /\ ~hung
    /\ sent' = After(sent, 1)
    /\ \/ pc = "closed" /\ UNCHANGED <<buffer, lost>>
       \/ /\ pc # "closed" /\ Len(buffer) < MaxBuffer
          /\ buffer' = Append(buffer, sent')
          /\ UNCHANGED lost
       \/ /\ pc # "closed" /\ Len(buffer) = MaxBuffer
          /\ "overflow" \in Accidents /\ lost < MaxLost
          /\ lost' = lost + 1 /\ UNCHANGED buffer
    /\ UNCHANGED <<program, hung, values>>

\* The port is unplugged. Its queue is discarded; select reports it readable
\* and read returns 0 or -1.
HangUp ==
    /\ "hangup" \in Accidents
    /\ pc # "closed" /\ ~hung
    /\ hung' = TRUE /\ buffer' = <<>>
    /\ UNCHANGED <<program, sent, values, lost>>

-----------------------------------------------------------------------------
(* read_next_value *)

\* Mutant of Call: the queue is flushed, to read the newest value.
CallFlushing ==
    /\ pc = "idle" /\ pc' = "skip"
    /\ line_data' = <<>> /\ total_sleep' = 0
    /\ buffer' = <<>>
    /\ UNCHANGED <<caller, n_dt, sent, hung, values, lost>>

Call ==
    /\ pc = "idle" /\ pc' = "skip"
    /\ line_data' = <<>> /\ total_sleep' = 0
    /\ UNCHANGED <<caller, n_dt, port, values, lost>>

\* Mutant of Reading: the length of the line is not looked at.
ReadingUnbounded == total_sleep < timeout

\* The condition of both loops.
Reading == total_sleep < timeout /\ Len(line_data) < MAX_LINE_DATA

SkipEol ==
    /\ pc = "skip" /\ Reading
    /\ buffer # <<>> /\ Eol(Head(buffer))
    /\ buffer' = Tail(buffer)
    /\ UNCHANGED <<program, sent, hung, values, lost>>

\* Mutant of FirstChar: end of line characters are not skipped.
FirstCharAny ==
    /\ pc = "skip" /\ Reading
    /\ buffer # <<>>
    /\ line_data' = Append(line_data, Head(buffer))
    /\ buffer' = Tail(buffer)
    /\ pc' = "chars"
    /\ UNCHANGED <<caller, n_dt, total_sleep, sent, hung, values, lost>>

FirstChar ==
    /\ pc = "skip" /\ Reading
    /\ buffer # <<>> /\ Digit(Head(buffer))
    /\ line_data' = Append(line_data, Head(buffer))
    /\ buffer' = Tail(buffer)
    /\ pc' = "chars"
    /\ UNCHANGED <<caller, n_dt, total_sleep, sent, hung, values, lost>>

NextChar ==
    /\ pc = "chars" /\ Reading
    /\ buffer # <<>> /\ Digit(Head(buffer))
    /\ line_data' = Append(line_data, Head(buffer))
    /\ buffer' = Tail(buffer)
    /\ UNCHANGED <<pc, caller, n_dt, total_sleep, sent, hung, values, lost>>

\* Mutant of CopyChar: the first loop does not compare the result of read either.
CopyCharAnywhere ==
    /\ pc \in {"skip", "chars"} /\ pc' = "chars" /\ Reading
    /\ hung
    /\ line_data' = Append(line_data, Copy)
    /\ UNCHANGED <<caller, n_dt, total_sleep, port, values, lost>>

\* read returns -1 on the unplugged port, which this loop takes for one
\* character read: the one still in buf.
CopyChar ==
    /\ pc = "chars" /\ Reading
    /\ hung
    /\ line_data' = Append(line_data, Copy)
    /\ UNCHANGED <<pc, caller, n_dt, total_sleep, port, values, lost>>

EndLine ==
    /\ pc = "chars" /\ Reading
    /\ buffer # <<>> /\ Eol(Head(buffer))
    /\ buffer' = Tail(buffer)
    /\ pc' = "value"
    /\ UNCHANGED <<caller, n_dt, line_data, total_sleep, sent, hung, values, lost>>

LineFull ==
    /\ pc = "chars" /\ Len(line_data) = MAX_LINE_DATA
    /\ pc' = "value"
    /\ UNCHANGED <<caller, n_dt, line_data, total_sleep, port, values, lost>>

\* Mutant of Sleep: the sleep is not counted.
SleepUncounted ==
    /\ pc \in {"skip", "chars"} /\ Reading
    /\ buffer = <<>>
    /\ UNCHANGED vars

\* Nothing to read: the time asleep adds up over the whole call.
Sleep ==
    /\ pc \in {"skip", "chars"} /\ Reading
    /\ buffer = <<>>
    /\ total_sleep' = total_sleep + 1
    /\ UNCHANGED <<pc, caller, n_dt, line_data, port, values, lost>>

\* READ_ERROR. What has been read of a line is lost.
TimeOut ==
    /\ pc \in {"skip", "chars"} /\ total_sleep >= timeout
    /\ pc' = "error"
    /\ UNCHANGED <<caller, n_dt, line_data, total_sleep, port, values, lost>>

-----------------------------------------------------------------------------
(* Its callers *)

Invented(value) == \E i \in DOMAIN value : value[i] = Copy

Accepted ==
    /\ last' = line_data
    /\ before' = IF last = <<>> THEN None ELSE last[Len(last)]
    /\ line_data' = <<>> /\ total_sleep' = 0
    /\ invented' = IF Invented(line_data) THEN invented + 1 ELSE invented

\* find_device counts a value and, after the last one, accepts the port.
TestValue ==
    /\ pc = "value" /\ caller = "find_device"
    /\ Accepted
    /\ n_dt' = n_dt + 1
    /\ caller' = IF n_dt' >= NUM_DATA_TEST THEN "collect" ELSE "find_device"
    /\ pc' = "idle"
    /\ UNCHANGED <<port, lost>>

RecordValue ==
    /\ pc = "value" /\ caller = "collect"
    /\ Accepted
    /\ pc' = "idle"
    /\ UNCHANGED <<caller, n_dt, port, lost>>

\* An error, a value out of range (line_data may hold anything) or a rate that
\* is not one of the expected: find_device closes the port, collect_and_write
\* returns and main disconnects.
Close ==
    /\ pc \in {"error", "value"} /\ pc' = "closed"
    /\ line_data' = <<>> /\ total_sleep' = 0
    /\ buffer' = <<>> /\ hung' = FALSE
    /\ last' = <<>> /\ before' = None /\ invented' = 0 /\ lost' = 0
    /\ caller' = "find_device" /\ n_dt' = 0
    /\ UNCHANGED sent

-----------------------------------------------------------------------------
ReadNextValue ==
    \/ Call \/ SkipEol \/ FirstChar \/ NextChar \/ CopyChar
    \/ EndLine \/ LineFull \/ Sleep \/ TimeOut

Callers == TestValue \/ RecordValue \/ Close

Next == Open \/ Send \/ HangUp \/ ReadNextValue \/ Callers

Spec == Init /\ [][Next]_vars

\* The program runs; the device may fall silent at any time.
FairSpec == Spec /\ WF_vars(ReadNextValue) /\ WF_vars(Callers)

-----------------------------------------------------------------------------
(* Properties *)

Undisturbed == lost = 0 /\ invented = 0

\* The value is a line as it was sent, from its first digit to its last.
Whole(value) ==
    /\ value # <<>>
    /\ \A i \in DOMAIN value : Digit(value[i])
    /\ \A i \in 1..Len(value)-1 : value[i+1] = After(value[i], 1)
    /\ Eol(After(value[1], -1)) /\ Eol(After(value[Len(value)], 1))

\* What is recorded is what was sent, although the port is opened in the middle
\* of a line and calls time out in the middle of one: find_device reads past
\* the first line, and after an error the port is tested anew.
RecordedWhole ==
    caller = "collect" /\ last # <<>> /\ Undisturbed => Whole(last)

\* q is the first digit after p, which ends a line.
Follows(p, q) ==
    /\ p \in Chars /\ q \in Chars /\ Digit(q)
    /\ \E k \in 1..Len(Stream) :
         /\ q = After(p, k)
         /\ \A j \in 1..k-1 : Eol(After(p, j))

\* No line is skipped between two values that are read one after the other.
NothingSkipped ==
    before # None /\ Undisturbed => Follows(before, last[1])

\* A port that is unplugged while a line is read yields one value, at most,
\* that was not sent, and the error follows.
OneInvented == invented <= 1

\* read_next_value returns, if only by its timeout, however the device sends.
Returns == pc \in {"skip", "chars"} ~> pc \in {"value", "error"}
=============================================================================
