---------------------------- MODULE FileRingFIFO ----------------------------
(***************************************************************************)
(* An undisturbed FileRing implements RollingBuffer. The ring is stepped   *)
(* once per record and a slot is used once per file, so the files use the  *)
(* slots 0, R, 2R, ... modulo the ring size M: M / gcd(M, R) of them.      *)
(***************************************************************************)
EXTENDS FileRing

UsedSlots(n) == {(k * num_records_in_file) % n : k \in 0..n-1}

\* Files in the order of their start times.
InOrder(S) ==
    [i \in 1..Cardinality(S) |-> CHOOSE f \in S : Cardinality({g \in S : g < f}) = i - 1]

Rolling == INSTANCE RollingBuffer WITH
    Capacities <- {Cardinality(UsedSlots(n)) : n \in Sizes},
    capacity   <- Cardinality(UsedSlots(ring_size)),
    Name       <- Times,
    buf        <- InOrder(Files)

\* With no disturbance, files are removed in the order in which they were
\* published, and only when every slot the files use is taken, whatever the
\* number of records in a file and the size of the ring
\* (collect_and_write 874-926).
ImplementsRollingBuffer == Rolling!Spec
=============================================================================
