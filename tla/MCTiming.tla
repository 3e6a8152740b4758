------------------------------ MODULE MCTiming ------------------------------
(***************************************************************************)
(* Instances of Timing for TLC.                                            *)
(***************************************************************************)
EXTENDS Timing

\* Milliseconds, in hptime_t.
ms(n) == n * 1000

\* 20.032, 39.860 and 79.719 samples per second.
SeismometerPeriods == {49920, 25087, 12544}

\* 20.5, 22, 50 and 100 lines per second.
OtherPeriods == {48780, 45454, 20000, 10000}

AllPeriods == SeismometerPeriods \cup OtherPeriods

SleepTime == ms(10)

\* Caught up within half a record, or not.
SomeDelays == {ms(30), ms(120), ms(400)}

\* Less than half a sample in the next record, and more.
SomeSteps == {-ms(40000), ms(3700)}
=============================================================================
