--------------------------- MODULE RollingBuffer ---------------------------
(***************************************************************************)
(* What the data directory promises its readers (ringserver, which scans   *)
(* it, and the upload scripts): a queue of files in the order of their     *)
(* start times, where the oldest file, and only when the buffer is full,   *)
(* makes room for the next.                                                *)
(***************************************************************************)
EXTENDS Integers, Sequences

CONSTANTS
    Capacities,  \* numbers of files the buffer may be configured to keep
    Name         \* start times

VARIABLES
    capacity,    \* files kept
    buf          \* the files, oldest first

Init == capacity \in Capacities /\ buf = <<>>

Newer(f) == \A j \in DOMAIN buf : buf[j] < f

Publish ==
    /\ Len(buf) < capacity
    /\ UNCHANGED capacity
    /\ \E f \in Name : Newer(f) /\ buf' = Append(buf, f)

EvictOldest ==
    /\ Len(buf) = capacity
    /\ UNCHANGED capacity
    /\ buf # <<>>
    /\ buf' = Tail(buf)

Next == Publish \/ EvictOldest

Spec == Init /\ [][Next]_<<capacity, buf>>
=============================================================================
