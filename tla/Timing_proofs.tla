--------------------------- MODULE Timing_proofs ---------------------------
(***************************************************************************)
(* The rate test of find_device tells seismometers from other devices, for *)
(* every number of test values, every rate and every backlog in the queue. *)
(*                                                                         *)
(* The start times of records are those of their first samples, but for    *)
(* polling: in a connection of any length, for every number of samples in  *)
(* a record, every time constant of the filter and every polling interval. *)
(*                                                                         *)
(* The filter is an oscillator: the length of a record is corrected by the *)
(* error of the start time, and the start time by the length. Polling may  *)
(* excite it at its own frequency, so that no bound on the error follows   *)
(* from the present error alone, and the induction is over an energy: the  *)
(* squares of the two errors, weighed as the oscillator exchanges them.    *)
(***************************************************************************)
EXTENDS Timing, WellFoundedInduction, TLAPS

Middle == NUM_DATA_TEST \div 2

\* The test goes on as long as values are missing, and the first has no time
\* before it.
TestingOK ==
    /\ phase = "test" => n_dt < NUM_DATA_TEST
    /\ n_dt = 0 => last_hptime = -1

\* As many lines as values have been read since the port was opened; once half
\* of them have, no line has waited.
InTimeOK ==
    phase = "test" /\ ~disturbed =>
        /\ clock = 0 /\ line = n_dt
        /\ n_dt > 0 => last_hptime = Epoch + (n_dt - 1) * period + late
        /\ n_dt > Middle => late < Poll

\* The sum of differences telescopes: it is the time from the middle value,
\* read late by m, to the last one, read late by l.
SumOK ==
    phase \in {"test", "accepted", "rejected"} /\ ~disturbed =>
        IF n_dt <= Middle THEN dt_sum = 0 /\ n_dt_sum = 0
        ELSE /\ n_dt_sum = n_dt - 1 - Middle
             /\ \E m, l \in 0..Poll-1 :
                    /\ phase = "test" => l = late
                    /\ dt_sum = (n_dt - 1 - Middle) * period + l - m

\* The outcome is that of the comparison with the expected rates.
OutcomeOK ==
    /\ phase \in {"accepted", "rejected"} => n_dt = NUM_DATA_TEST
    /\ phase = "accepted" => rate_is_expected(dt_sum, n_dt_sum)
    /\ phase = "rejected" => ~rate_is_expected(dt_sum, n_dt_sum)

IInv == TypeOK /\ TestingOK /\ InTimeOK /\ SumOK /\ OutcomeOK

-----------------------------------------------------------------------------
(* Arithmetic *)

LEMMA MiddleType == Middle \in Nat /\ Middle < NUM_DATA_TEST
  BY CountAssumption DEF Middle, Positive

LEMMA Products ==
  ASSUME NEW a \in Int, NEW b \in Int
  PROVE  a * b \in Int
  OBVIOUS

LEMMA NextProduct ==
  ASSUME NEW a \in Int, NEW b \in Int
  PROVE  (a + 1) * b = a * b + b
  OBVIOUS

LEMMA Backlog ==
  ASSUME NEW a \in Nat, NEW b \in Nat
  PROVE  a * b \in Nat
  OBVIOUS

LEMMA Quotients ==
  ASSUME NEW a \in Int, NEW b \in Positive
  PROVE  a \div b \in Int
  BY DEF Positive

LEMMA Remainders ==
  ASSUME NEW a \in Int, NEW b \in Positive
  PROVE  a % b \in Nat
  BY DEF Positive

-----------------------------------------------------------------------------
(* Types *)

\* A line is read, at a time.
LEMMA Reading ==
  ASSUME TypeOK, ReadLine
  PROVE  /\ line' \in Nat /\ late' \in Nat /\ accidents' \in 0..MaxAccidents
         /\ period' = period /\ clock' = clock /\ line' = line + 1
         /\ line * period \in Int /\ hptime \in Int
         /\ shaken + 2 * (late' - Lateness) \in Nat
<1>1. period \in Positive
  BY PeriodAssumption DEF TypeOK
<1>2. (late - period) % Poll \in Nat
  BY <1>1, Remainders, FilterAssumption DEF TypeOK, Positive
<1>3. Lateness \in Nat
  BY <1>1, <1>2 DEF TypeOK, Lateness, Positive
<1>4. late' \in Nat
  BY <1>3, AccidentAssumption DEF ReadLine, Positive
<1>5. line * period \in Int
  BY <1>1, Products DEF TypeOK, Positive
<1>6. hptime \in Int
  BY <1>4, <1>5, EpochAssumption DEF hptime, TypeOK
<1>7. accidents' \in 0..MaxAccidents
  BY BoundAssumption DEF TypeOK, ReadLine
<1>8. late' - Lateness \in Nat
  BY <1>3, AccidentAssumption DEF ReadLine, Positive
<1>9. shaken + 2 * (late' - Lateness) \in Nat
  <2> DEFINE d == late' - Lateness
  <2> HIDE DEF d
  <2>1. d \in Nat => shaken + 2 * d \in Nat
    BY DEF TypeOK
  <2> QED BY <1>8, <2>1 DEF d
<1> QED
  BY <1>4, <1>5, <1>6, <1>7, <1>9 DEF TypeOK, ReadLine

LEMMA Extrapolations ==
  ASSUME TypeOK, NEW k \in Int
  PROVE  dt_est_times(k) \in Int
<1>1. record_window_est * k \in Int
  BY Products DEF TypeOK
<1>2. 2 * num_samples_in_record \in Positive
  BY CountAssumption DEF Positive
<1>3. 2 * (record_window_est * k) + num_samples_in_record \in Int
  BY <1>1, CountAssumption DEF Positive
<1> QED
  BY <1>2, <1>3, Quotients DEF dt_est_times, Rounded

\* Every step of the program and of the world around it keeps the types.
LEMMA Types ==
  ASSUME TypeOK, TestingOK, [Next]_vars
  PROVE  TypeOK'
<1>1. CASE TestValue
  <2>1. /\ line' \in Nat /\ late' \in Nat /\ accidents' \in 0..MaxAccidents
        /\ period' = period /\ clock' = clock /\ hptime \in Int
    BY <1>1, Reading DEF TestValue
  <2>2. /\ phase' \in {"test", "accepted", "rejected", "collect"}
        /\ n_dt' \in 0..NUM_DATA_TEST /\ n_dt_sum' \in 0..n_dt'
        /\ dt_sum' \in Int /\ last_hptime' \in Int
    BY <1>1, <2>1, CountAssumption DEF TestValue, test, TypeOK, TestingOK, Positive
  <2>3. disturbed' \in BOOLEAN
    BY <1>1, SMT DEF TestValue, TooLate, TypeOK
  <2> QED
    BY <1>1, <2>1, <2>2, <2>3 DEF TestValue, collect, TypeOK
<1>2. CASE CollectAndWrite
  <2>1. Nominal * num_samples_in_record \in Int
    BY NominalAssumption, CountAssumption, Products DEF Positive
  <2>2. disturbed' \in BOOLEAN
    BY <1>2, SMT DEF CollectAndWrite, TooLate
  <2> QED
    BY <1>2, <2>1, <2>2, BoundAssumption DEF CollectAndWrite, device, test, TypeOK
<1>3. CASE Sample
  <2>1. /\ line' \in Nat /\ late' \in Nat /\ accidents' \in 0..MaxAccidents
        /\ period' = period /\ clock' = clock /\ hptime \in Int
    BY <1>3, Reading DEF Sample
  <2>2. dt_est_times(nsamp) \in Int
    BY Extrapolations DEF TypeOK
  <2>3. disturbed' \in BOOLEAN
    BY <1>3, SMT DEF Sample, TooLate, TypeOK
  <2>4. /\ nsamp' \in 0..num_samples_in_record-1 /\ n_start_hptime_est' \in 0..nsamp'
        /\ start_hptime_current' \in Int
    BY <1>3, <2>1, <2>2, CountAssumption DEF Sample, TypeOK, Positive
  <2>5. shaken' \in Nat
    BY <1>3, Reading DEF Sample
  <2> QED
    BY <1>3, <2>1, <2>3, <2>4, <2>5 DEF Sample, test, TypeOK
<1>4. CASE LastSample
  <2>1. /\ line' \in Nat /\ late' \in Nat /\ accidents' \in 0..MaxAccidents
        /\ period' = period /\ clock' = clock /\ hptime \in Int
    BY <1>4, Reading DEF LastSample
  <2>2. dt_est_times(nsamp) \in Int
    BY Extrapolations DEF TypeOK
  <2> DEFINE sum     == start_hptime_current + hptime - dt_est_times(nsamp)
             current == sum \div (n_start_hptime_est + 1)
  <2>3. current \in Int
    <3>1. sum \in Int /\ n_start_hptime_est + 1 \in Positive
      BY <2>1, <2>2 DEF TypeOK, Positive
    <3> QED BY <3>1, Quotients
  <2>4. low_pass(record_window_est, current - prev_start_hptime_est) \in Int
    <3>1. (current - prev_start_hptime_est - record_window_est) \in Int
      BY <2>3 DEF TypeOK
    <3>2. (current - prev_start_hptime_est - record_window_est) \div Decay \in Int
      BY <3>1, Quotients, FilterAssumption
    <3> QED BY <3>2 DEF low_pass, TypeOK
  <2>5. record_window_est' \in Int /\ prev_start_hptime_est' \in Int
    <3> HIDE DEF current
    <3>1. IF prev_start_hptime_est > 0
          THEN /\ record_window_est' =
                    low_pass(record_window_est, current - prev_start_hptime_est)
               /\ prev_start_hptime_est' = prev_start_hptime_est + record_window_est'
          ELSE prev_start_hptime_est' = current /\ UNCHANGED record_window_est
      BY <1>4, Zenon DEF LastSample, current
    <3> QED BY <3>1, <2>3, <2>4 DEF TypeOK
  <2>6. disturbed' \in BOOLEAN
    BY <1>4, SMT DEF LastSample, TooLate, TypeOK
  <2>7. /\ nsamp' = 0 /\ start_hptime_current' = 0 /\ n_start_hptime_est' = 0
        /\ records' = records + 1 /\ records < MaxRecords
        /\ phase' = phase /\ test' = test
    BY <1>4 DEF LastSample
  <2>8. shaken' \in Nat
    BY <1>4, Reading DEF LastSample
  <2> QED
    BY <2>1, <2>5, <2>6, <2>7, <2>8, CountAssumption, BoundAssumption DEF test, TypeOK, Positive
<1>5. CASE LoseLine
  BY <1>5, BoundAssumption, PeriodAssumption
     DEF LoseLine, Accident, Shakes, Positive, test, collect, TypeOK
<1>6. CASE SetClock
  <2>1. PICK s \in Steps : clock' = clock + s /\ Shakes(Abs(s))
    BY <1>6 DEF SetClock
  <2>2. s \in Int /\ Abs(s) \in Nat
    BY AccidentAssumption DEF Abs
  <2>3. shaken' \in Nat
    <3> DEFINE a == Abs(s)
    <3> HIDE DEF a
    <3>1. Shakes(a) /\ a \in Nat => shaken' \in Nat
      BY DEF Shakes, TypeOK
    <3> QED BY <2>1, <2>2, <3>1 DEF a
  <2> QED
    BY <1>6, <2>1, <2>2, <2>3, BoundAssumption DEF SetClock, Accident, test, collect, TypeOK
<1>7. CASE UNCHANGED vars
  BY <1>7 DEF vars, device, test, collect, history, TypeOK
<1> QED
  BY <1>1, <1>2, <1>3, <1>4, <1>5, <1>6, <1>7 DEF Next

-----------------------------------------------------------------------------
(* The rate test *)

\* What a value adds to the test, unless it is skipped.
Added(dt) ==
    /\ IF Accumulated(n_dt)
       THEN dt_sum' = dt_sum + dt /\ n_dt_sum' = n_dt_sum + 1
       ELSE UNCHANGED <<dt_sum, n_dt_sum>>
    /\ n_dt' = n_dt + 1
    /\ last_hptime' = hptime
    /\ phase' = IF n_dt' < NUM_DATA_TEST THEN "test"
                ELSE IF rate_is_expected(dt_sum', n_dt_sum') THEN "accepted"
                ELSE "rejected"

LEMMA Testing ==
  ASSUME TypeOK, TestingOK, OutcomeOK, [Next]_vars
  PROVE  TestingOK' /\ OutcomeOK'
<1>1. CASE TestValue
  <2>1. PICK dt : IF n_dt < 1 /\ 10 * dt < DT_MIN_EXPECTED
                  THEN UNCHANGED <<phase, test>>
                  ELSE Added(dt)
    BY <1>1 DEF TestValue, Added
  <2>2. CASE UNCHANGED <<phase, test>>
    BY <2>2 DEF test, TestingOK, OutcomeOK, rate_is_expected
  <2>3. CASE Added(dt)
    <3>1. n_dt \in Nat /\ n_dt < NUM_DATA_TEST /\ NUM_DATA_TEST \in Nat
      BY <1>1, CountAssumption DEF TestValue, TestingOK, TypeOK, Positive
    <3>2. n_dt' = n_dt + 1 /\ (n_dt' < NUM_DATA_TEST \/ n_dt' = NUM_DATA_TEST)
      BY <2>3, <3>1 DEF Added
    <3>3. phase' = IF n_dt' < NUM_DATA_TEST THEN "test"
                   ELSE IF rate_is_expected(dt_sum', n_dt_sum') THEN "accepted"
                   ELSE "rejected"
      BY <2>3, Zenon DEF Added
    <3>4. TestingOK'
      BY <3>1, <3>2, <3>3 DEF TestingOK
    <3>5. OutcomeOK'
      <4>1. CASE n_dt' < NUM_DATA_TEST
        BY <4>1, <3>3, Zenon DEF OutcomeOK
      <4>2. CASE n_dt' = NUM_DATA_TEST /\ ~(n_dt' < NUM_DATA_TEST)
        BY <4>2, <3>3, Zenon DEF OutcomeOK
      <4> QED BY <4>1, <4>2, <3>2
    <3> QED BY <3>4, <3>5
  <2> QED BY <2>1, <2>2, <2>3
<1>2. CASE CollectAndWrite
  BY <1>2 DEF CollectAndWrite, test, TestingOK, OutcomeOK
<1>3. CASE Sample
  BY <1>3 DEF Sample, test, TestingOK, OutcomeOK
<1>4. CASE LastSample
  BY <1>4 DEF LastSample, test, TestingOK, OutcomeOK
<1>5. CASE LoseLine
  BY <1>5 DEF LoseLine, Accident, test, TestingOK, OutcomeOK
<1>6. CASE SetClock
  BY <1>6 DEF SetClock, Accident, test, TestingOK, OutcomeOK
<1>7. CASE UNCHANGED vars
  BY <1>7 DEF vars, test, TestingOK, OutcomeOK
<1> QED
  BY <1>1, <1>2, <1>3, <1>4, <1>5, <1>6, <1>7 DEF Next

\* The lateness of the middle value and of the last one bear the sum out.
LEMMA SumsUp ==
  ASSUME NEW m \in 0..Poll-1, late' \in 0..Poll-1,
         ~(n_dt' <= Middle), n_dt_sum' = n_dt' - 1 - Middle,
         dt_sum' = (n_dt' - 1 - Middle) * period' + late' - m
  PROVE  SumOK'
<1> DEFINE S(i, l) == /\ phase' = "test" => l = late'
                      /\ dt_sum' = (n_dt' - 1 - Middle) * period' + l - i
<1>1. S(m, late')
  OBVIOUS
<1>2. \E i, l \in 0..Poll-1 : S(i, l)
  <2> HIDE DEF S
  <2> QED BY <1>1
<1> QED
  BY <1>2, Zenon DEF SumOK

\* A value of an undisturbed test: none is skipped, and the sum goes on from
\* the middle one.
LEMMA Summing ==
  ASSUME TypeOK, TypeOK', TestingOK, InTimeOK, SumOK, TestValue
  PROVE  InTimeOK' /\ SumOK'
<1> SUFFICES ASSUME ~disturbed'
             PROVE  InTimeOK' /\ SumOK'
  BY DEF InTimeOK, SumOK
<1> USE MiddleType
<1>1. /\ period \in Positive /\ late' \in Nat /\ line' = line + 1
      /\ period' = period /\ clock' = clock
      /\ line * period \in Int /\ hptime \in Int
  BY Reading, PeriodAssumption DEF TestValue, TypeOK
<1>2. /\ phase = "test" /\ ~disturbed /\ ~TooLate(late', Middle - n_dt)
  BY DEF TestValue, Middle
<1>3. /\ clock = 0 /\ line = n_dt /\ n_dt \in Nat
      /\ hptime = Epoch + n_dt * period + late'
  <2>1. clock = 0 /\ line = n_dt /\ n_dt \in Nat
    BY <1>2 DEF InTimeOK, TypeOK
  <2>2. hptime = Epoch + clock + line * period + late'
    BY DEF hptime
  <2> QED BY <2>1, <2>2, EpochAssumption
<1>4. n_dt >= Middle => late' \in 0..Poll-1
  <2> SUFFICES ASSUME n_dt >= Middle PROVE late' < Poll
    BY <1>1, FilterAssumption DEF Positive
  <2>1. ~(late' >= Poll + period * 0)
    BY <1>2, <1>3 DEF TooLate
  <2> QED BY <2>1, <1>1, FilterAssumption DEF Positive
<1>5. n_dt * period \in Nat
  BY <1>1, <1>3, Backlog DEF Positive
<1> DEFINE dt == hptime - last_hptime
<1>6. Added(dt)
  <2>1. ~(n_dt < 1 /\ 10 * dt < DT_MIN_EXPECTED)
    BY <1>1, <1>3, <1>5, EpochAssumption DEF TestingOK, Positive
  <2> QED BY <2>1 DEF TestValue, Added
<1> HIDE DEF dt
<1>7. n_dt' = n_dt + 1 /\ last_hptime' = Epoch + n_dt * period + late'
  BY <1>3, <1>6 DEF Added
<1>8. InTimeOK'
  <2>1. n_dt' - 1 = n_dt
    BY <1>3, <1>7
  <2>2. (n_dt' - 1) * period' = n_dt * period
    BY <2>1, <1>1
  <2> QED
    BY <2>2, <1>1, <1>3, <1>4, <1>7, FilterAssumption DEF InTimeOK, Positive
<1>9. CASE n_dt < Middle
  <2>1. dt_sum' = dt_sum /\ n_dt_sum' = n_dt_sum /\ dt_sum = 0 /\ n_dt_sum = 0
    BY <1>9, <1>2, <1>3, <1>6 DEF Added, Accumulated, Middle, SumOK
  <2> QED BY <2>1, <1>9, <1>3, <1>7, <1>8 DEF SumOK
<1>10. CASE n_dt = Middle
  <2>1. dt_sum' = dt_sum /\ n_dt_sum' = n_dt_sum /\ dt_sum = 0 /\ n_dt_sum = 0
    BY <1>10, <1>2, <1>3, <1>6 DEF Added, Accumulated, Middle, SumOK
  <2>2. n_dt' - 1 - Middle = 0 /\ ~(n_dt' <= Middle)
    BY <1>10, <1>7
  <2>3. 0 * period' = 0
    BY <1>1 DEF Positive
  <2>4. dt_sum' = (n_dt' - 1 - Middle) * period' + late' - late'
    BY <2>1, <2>2, <2>3, <1>1
  <2>5. late' \in 0..Poll-1 /\ n_dt_sum' = n_dt' - 1 - Middle
    BY <2>1, <2>2, <1>4, <1>10
  <2> QED BY <1>8, <2>2, <2>4, <2>5, SumsUp
<1>11. CASE n_dt > Middle
  <2>1. /\ n_dt_sum = n_dt - 1 - Middle
        /\ \E m \in 0..Poll-1 : dt_sum = (n_dt - 1 - Middle) * period + late - m
    BY <1>11, <1>2, <1>3 DEF SumOK
  <2>2. PICK m \in 0..Poll-1 : dt_sum = (n_dt - 1 - Middle) * period + late - m
    BY <2>1
  <2>3. last_hptime = Epoch + (n_dt - 1) * period + late
    BY <1>11, <1>2, <1>3 DEF InTimeOK
  <2>4. (n_dt - 1) * period \in Nat
    BY <1>11, <1>1, <1>3, Backlog DEF Positive
  <2>5. n_dt * period = (n_dt - 1) * period + period
    BY <1>1, <1>3, NextProduct DEF Positive
  <2>6. dt = period + late' - late
    BY <1>1, <1>3, <2>3, <2>4, <2>5, EpochAssumption DEF dt, TypeOK, Positive
  <2>7. last_hptime > 0
    BY <2>3, <2>4, EpochAssumption DEF TypeOK, Positive
  <2>8. dt_sum' = dt_sum + dt /\ n_dt_sum' = n_dt_sum + 1
    BY <2>7, <1>6, <1>11 DEF Added, Accumulated, Middle
  <2>9. (n_dt' - 1 - Middle) * period' = (n_dt - 1 - Middle) * period + period
    <3>1. n_dt' - 1 - Middle = (n_dt - 1 - Middle) + 1 /\ n_dt - 1 - Middle \in Int
      BY <1>3, <1>7
    <3> HIDE DEF Middle
    <3> QED BY <3>1, <1>1, NextProduct DEF Positive
  <2>10. (n_dt - 1 - Middle) * period \in Int
    BY <1>3, <1>1, Products DEF Positive
  <2>11. dt_sum' = (n_dt' - 1 - Middle) * period' + late' - m
    <3> DEFINE q == (n_dt - 1 - Middle) * period
    <3>1. q \in Int /\ dt_sum = q + late - m /\ (n_dt' - 1 - Middle) * period' = q + period
      BY <2>2, <2>9, <2>10
    <3>2. m \in Int /\ late \in Int /\ late' \in Int /\ period \in Int
      BY <1>1 DEF TypeOK, Positive
    <3> HIDE DEF q
    <3> QED BY <3>1, <3>2, <2>6, <2>8
  <2>12. n_dt_sum' = n_dt' - 1 - Middle /\ ~(n_dt' <= Middle)
    BY <2>1, <2>8, <1>3, <1>7, <1>11
  <2>13. late' \in 0..Poll-1 /\ m \in 0..Poll-1
    BY <1>3, <1>4, <1>11
  <2> QED BY <1>8, <2>11, <2>12, <2>13, SumsUp
<1> QED
  BY <1>3, <1>8, <1>9, <1>10, <1>11

LEMMA Inductive == IInv /\ [Next]_vars => IInv'
<1> SUFFICES ASSUME IInv, [Next]_vars PROVE IInv'
  OBVIOUS
<1> USE DEF IInv
<1>1. TypeOK' /\ TestingOK' /\ OutcomeOK'
  BY Types, Testing
<1>2. InTimeOK' /\ SumOK'
  <2>1. CASE TestValue
    BY <2>1, <1>1, Summing
  <2>2. CASE CollectAndWrite
    BY <2>2 DEF CollectAndWrite, InTimeOK, SumOK
  <2>3. CASE Sample
    BY <2>3 DEF Sample, InTimeOK, SumOK
  <2>4. CASE LastSample
    BY <2>4 DEF LastSample, InTimeOK, SumOK
  <2>5. CASE LoseLine
    BY <2>5 DEF LoseLine, Accident, InTimeOK, SumOK
  <2>6. CASE SetClock
    BY <2>6 DEF SetClock, Accident, InTimeOK, SumOK
  <2>7. CASE UNCHANGED vars
    BY <2>7 DEF vars, device, test, history, InTimeOK, SumOK
  <2> QED
    BY <2>1, <2>2, <2>3, <2>4, <2>5, <2>6, <2>7 DEF Next
<1> QED
  BY <1>1, <1>2

\* The inductive invariant holds for every set of devices, backlogs and delays.
THEOREM Invariance == Spec => []IInv
<1>1. Init => IInv
  <2> SUFFICES ASSUME Init PROVE IInv
    OBVIOUS
  <2>1. late \in Nat
    BY PeriodAssumption, BacklogAssumption, Backlog DEF Init, Positive
  <2>2. TypeOK
    <3>1. 0 \in 0..NUM_DATA_TEST /\ 0 \in 0..num_samples_in_record-1
      BY CountAssumption DEF Positive
    <3>2. 0 \in 0..MaxRecords /\ 0 \in 0..MaxAccidents /\ 0 \in 0..0
      BY BoundAssumption
    <3>3. period \in Periods /\ line \in Nat /\ clock \in Int
      BY DEF Init
    <3>4. n_dt \in 0..NUM_DATA_TEST /\ n_dt_sum \in 0..n_dt /\ dt_sum \in Int
          /\ last_hptime \in Int
      BY <3>1, <3>2 DEF Init
    <3>5. /\ nsamp \in 0..num_samples_in_record-1 /\ n_start_hptime_est \in 0..nsamp
          /\ start_hptime_current \in Int /\ record_window_est \in Int
          /\ prev_start_hptime_est \in Int
      BY <3>1, <3>2 DEF Init
    <3>6. /\ phase = "test" /\ records = 0 /\ accidents = 0 /\ disturbed = FALSE
          /\ shaken = 0
      BY DEF Init
    <3> QED BY <2>1, <3>2, <3>3, <3>4, <3>5, <3>6 DEF TypeOK
  <2>3. TestingOK /\ InTimeOK /\ SumOK /\ OutcomeOK
    BY MiddleType, CountAssumption
       DEF Init, TestingOK, InTimeOK, SumOK, OutcomeOK, Positive
  <2> QED BY <2>2, <2>3 DEF IInv
<1> QED
  BY <1>1, Inductive, PTL DEF Spec

\* Every variable of the rate test and of the estimator keeps its type.
THEOREM TypeCorrect == Spec => []TypeOK
<1>1. IInv => TypeOK
  BY DEF IInv
<1> QED BY <1>1, Invariance, PTL

-----------------------------------------------------------------------------
(* The outcome *)

\* A sum of times within the polling of that by the device is accepted if its
\* rate is an expected one and can be told from others.
LEMMA Accepts ==
  ASSUME NEW M \in Int, NEW n \in Int, NEW sum \in Int, NEW e \in Expected,
         n * e = M, 21 * Poll <= M, sum < M + Poll, sum > M - Poll
  PROVE  rate_is_expected(sum, n)
<1>1. sum > 0 /\ 20 * Abs(M - sum) < sum
  BY FilterAssumption DEF Abs, Positive
<1> QED
  BY <1>1 DEF rate_is_expected

\* And rejected if no expected rate is near.
LEMMA Rejects ==
  ASSUME NEW M \in Int, NEW n \in Int, NEW sum \in Int, sum < M + Poll, sum > M - Poll,
         \A e \in Expected : 20 * (Abs(n * e - M) - Poll) >= M + Poll
  PROVE  ~rate_is_expected(sum, n)
<1> SUFFICES ASSUME NEW e \in Expected, 20 * Abs(n * e - sum) < sum
             PROVE  FALSE
  BY DEF rate_is_expected
<1>1. n * e \in Int
  BY PeriodAssumption, Products DEF Positive
<1>2. 20 * (Abs(n * e - M) - Poll) >= M + Poll
  OBVIOUS
<1> DEFINE p == n * e
<1>3. p \in Int /\ 20 * (Abs(p - M) - Poll) >= M + Poll /\ 20 * Abs(p - sum) < sum
  BY <1>1, <1>2
<1> HIDE DEF p
<1> QED
  BY <1>3, FilterAssumption DEF Abs, Positive

\* The rate test tells a seismometer from another device (RateTold), for every
\* number of values, every rate, every backlog and every delay of its first half.
THEOREM RateToldHolds == Spec => []RateTold
<1>1. ASSUME IInv PROVE RateTold
  <2> SUFFICES ASSUME ~disturbed, phase \in {"accepted", "rejected"}
               PROVE  /\ phase = "rejected" => period \notin Expected \/ ~Tellable
                      /\ phase = "accepted" => ~Foreign
    BY DEF RateTold
  <2> DEFINE n == NUM_DATA_TEST - NUM_DATA_TEST \div 2 - 1
  <2>1. n = NUM_DATA_TEST - 1 - Middle /\ n \in Int
    BY MiddleType, CountAssumption DEF Middle, Positive
  <2>2. n_dt = NUM_DATA_TEST /\ ~(n_dt <= Middle)
    BY <1>1, MiddleType, CountAssumption DEF IInv, OutcomeOK, Positive
  <2>3. /\ n_dt_sum = n
        /\ \E m, l \in 0..Poll-1 : dt_sum = n * period + l - m
    BY <1>1, <2>1, <2>2 DEF IInv, SumOK
  <2>4. /\ Measured \in Int /\ dt_sum \in Int
        /\ dt_sum < Measured + Poll /\ dt_sum > Measured - Poll
    <3>1. n * period \in Int /\ Measured = n * period
      BY <1>1, <2>1, PeriodAssumption, Products DEF Measured, IInv, TypeOK, Positive
    <3> DEFINE q == n * period
    <3>2. /\ q \in Int /\ Measured = q /\ \E m, l \in 0..Poll-1 : dt_sum = q + l - m
      BY <2>3, <3>1
    <3> HIDE DEF q
    <3> QED BY <3>2, FilterAssumption DEF Positive
  <2>5. ASSUME phase = "rejected", period \in Expected, Tellable
        PROVE  FALSE
    <3>1. n * period = Measured
      BY DEF Measured
    <3> HIDE DEF n
    <3>2. rate_is_expected(dt_sum, n_dt_sum)
      BY <2>1, <2>3, <2>4, <2>5, <3>1, Accepts DEF Tellable
    <3> QED BY <1>1, <2>5, <3>2 DEF IInv, OutcomeOK
  <2>6. ASSUME phase = "accepted", Foreign
        PROVE  FALSE
    <3>1. \A e \in Expected : 20 * (Abs(n * e - Measured) - Poll) >= Measured + Poll
      BY <2>6 DEF Foreign
    <3> HIDE DEF n
    <3>2. ~rate_is_expected(dt_sum, n_dt_sum)
      BY <2>1, <2>3, <2>4, <3>1, Rejects
    <3> QED BY <1>1, <2>6, <3>2 DEF IInv, OutcomeOK
  <2> QED BY <2>5, <2>6
<1> QED
  BY <1>1, Invariance, PTL

-----------------------------------------------------------------------------
(* Products and quotients *)

LEMMA Division ==
  ASSUME NEW a \in Int, NEW b \in Positive
  PROVE  /\ a \div b \in Int
         /\ b * (a \div b) <= a /\ a < b * (a \div b) + b
  BY DEF Positive

LEMMA Factors ==
  ASSUME NEW a \in Nat, NEW b \in Nat, NEW c \in Nat, NEW d \in Nat, a <= c, b <= d
  PROVE  a * b <= c * d
<1>1. a * b <= c * b
  OBVIOUS
<1>2. c * b <= c * d
  OBVIOUS
<1> QED BY <1>1, <1>2, Products

LEMMA Distribution ==
  ASSUME NEW a \in Int, NEW b \in Int, NEW c \in Int
  PROVE  (2 * a) * (b + c) = 2 * (a * b) + (2 * a) * c
  OBVIOUS

\* A product is as its factors are.
LEMMA Cancel ==
  ASSUME NEW a \in Int, NEW b \in Int, NEW c \in Positive, c * a < c * b + c
  PROVE  a <= b
<1>1. c * (a - b) < c
  BY Products DEF Positive
<1>2. ASSUME a - b >= 1 PROVE FALSE
  <2>1. c * (a - b) >= c
    BY <1>2 DEF Positive
  <2> QED BY <1>1, <2>1, Products DEF Positive
<1> QED BY <1>2

LEMMA QuotientRange ==
  ASSUME NEW a \in Int, NEW b \in Positive, NEW lo \in Int, NEW hi \in Int,
         b * lo <= a, a < b * hi + b
  PROVE  a \div b \in lo..hi
<1> DEFINE q == a \div b
<1>1. q \in Int /\ b * q <= a /\ a < b * q + b
  BY Division
<1> HIDE DEF q
<1>2. /\ b * q \in Int /\ b * lo \in Int /\ b * hi \in Int /\ b \in Int
      /\ b * lo < b * q + b /\ b * q < b * hi + b
  BY <1>1, Products DEF Positive
<1>3. lo <= q
  BY <1>1, <1>2, Cancel
<1>4. q <= hi
  BY <1>1, <1>2, Cancel
<1> QED BY <1>1, <1>3, <1>4 DEF q

\* The larger of n and 0.
Positives(n) == IF n > 0 THEN n ELSE 0

\* Rounding takes whole multiples out, and stays between 0 and n.
LEMMA RoundedWhole ==
  ASSUME NEW a \in Int, NEW c \in Int, NEW b \in Positive
  PROVE  Rounded(b * c + a, b) = c + Rounded(a, b)
<1>1. 2 * b \in Positive /\ b * c \in Int /\ 2 * a + b \in Int
  BY Products DEF Positive
<1> DEFINE q == (2 * a + b) \div (2 * b)
<1>2. q \in Int /\ (2 * b) * q <= 2 * a + b /\ 2 * a + b < (2 * b) * q + 2 * b
  BY <1>1, Division
<1> HIDE DEF q
<1>3. (2 * b) * (c + q) = 2 * (b * c) + (2 * b) * q
  <2>1. b \in Int
    BY DEF Positive
  <2> QED BY <2>1, <1>2, Distribution
<1> DEFINE p == b * c
           r == 2 * (p + a) + b
<1>4. r \in Int /\ (2 * b) * (c + q) <= r /\ r < (2 * b) * (c + q) + 2 * b
  <2>1. p \in Int /\ (2 * b) * q \in Int /\ (2 * b) * (c + q) = 2 * p + (2 * b) * q
    BY <1>1, <1>2, <1>3, Products DEF Positive
  <2> HIDE DEF p
  <2> QED BY <2>1, <1>2 DEF Positive
<1> HIDE DEF r
<1>5. r \div (2 * b) \in (c + q)..(c + q)
  BY <1>1, <1>2, <1>4, QuotientRange
<1> QED
  BY <1>2, <1>5 DEF Rounded, q, r, p

LEMMA RoundedPart ==
  ASSUME NEW w \in Int, NEW b \in Positive, NEW k \in 0..b-1
  PROVE  Rounded(w * k, b) \in -Positives(-w)..Positives(w)
<1>1. 2 * b \in Positive /\ b \in Nat /\ k \in Nat /\ k <= b
  BY DEF Positive
<1> DEFINE p == w * k
           s == w * b
<1>2. p \in Int /\ s \in Int
  BY <1>1, Products
<1>3. w >= 0 => 0 <= p /\ p <= s
  BY <1>1, Factors, Backlog
<1>4. w < 0 => p <= 0 /\ s <= p
  <2> SUFFICES ASSUME w < 0 PROVE p <= 0 /\ s <= p
    OBVIOUS
  <2>1. (-w) * k <= (-w) * b /\ (-w) * k >= 0
    BY <1>1, Factors, Backlog
  <2>2. (-w) * k = -p /\ (-w) * b = -s
    BY <1>1
  <2> HIDE DEF p, s
  <2> QED BY <2>1, <2>2, <1>2
<1>5. (2 * b) * w = 2 * s /\ (2 * b) * 0 = 0
  BY <1>1
<1> HIDE DEF p, s
<1>6. (2 * p + b) \div (2 * b) \in -Positives(-w)..Positives(w)
  <2>1. CASE w >= 0
    <3>1. (2 * b) * 0 <= 2 * p + b /\ 2 * p + b < (2 * b) * w + 2 * b
      BY <2>1, <1>1, <1>2, <1>3, <1>5 DEF Positive
    <3>2. (2 * p + b) \div (2 * b) \in 0..w
      BY <3>1, <1>1, <1>2, QuotientRange
    <3> QED BY <3>2, <2>1 DEF Positives
  <2>2. CASE w < 0
    <3>1. (2 * b) * w <= 2 * p + b /\ 2 * p + b < (2 * b) * 0 + 2 * b
      BY <2>2, <1>1, <1>2, <1>4, <1>5 DEF Positive
    <3>2. (2 * p + b) \div (2 * b) \in w..0
      BY <3>1, <1>1, <1>2, QuotientRange
    <3> QED BY <3>2, <2>2 DEF Positives
  <2> QED BY <2>1, <2>2
<1> QED BY <1>6 DEF Rounded, p
-----------------------------------------------------------------------------
(* The energy of the filter. w is the error of the length of a record, e    *)
(* that of its start time, h how much the length is corrected by, Q a sample *)
(* is off because of w, and m by polling and rounding.                       *)

Square(n) == n * n

Energy(w, e) == Decay * Square(w) + Square(e)

LEMMA SquareType ==
  ASSUME NEW n \in Int
  PROVE  Square(n) \in Nat
  BY DEF Square

LEMMA EnergyType ==
  ASSUME NEW w \in Int, NEW e \in Int
  PROVE  Energy(w, e) \in Int
<1>1. Decay \in Int /\ Square(w) \in Int /\ Square(e) \in Int
  BY FilterAssumption, SquareType DEF Positive
<1> QED BY <1>1, Products DEF Energy

\* A correction and a length that let the energy grow are small.
LEMMA Growth ==
  ASSUME NEW M \in Positive, NEW a \in Nat, NEW d \in Nat,
         59 * (d * d) + a * a < 2 * (d * a) + 2 * (M * a)
  PROVE  3 * d <= M /\ 3 * a <= 8 * M
<1>1. a < 2 * d + 2 * M
  <2> SUFFICES ASSUME a >= 2 * d + 2 * M PROVE FALSE
    BY DEF Positive
  <2>1. a * (2 * d + 2 * M) <= a * a
    BY Factors DEF Positive
  <2>2. a * (2 * d + 2 * M) = 2 * (d * a) + 2 * (M * a)
    BY DEF Positive
  <2>3. d * d \in Nat /\ a * a \in Int /\ d * a \in Int /\ M * a \in Int
    BY Products, Backlog DEF Positive
  <2> QED BY <2>1, <2>2, <2>3
<1>2. 3 * d <= M
  <2> SUFFICES ASSUME M < 3 * d PROVE FALSE
    BY DEF Positive
  <2>1. 58 * (d * d) < 2 * (M * a)
    <3>1. (a - d) * (a - d) = a * a - 2 * (d * a) + d * d /\ (a - d) * (a - d) >= 0
      OBVIOUS
    <3>2. d * d \in Nat /\ a * a \in Int /\ d * a \in Int /\ M * a \in Int
      BY Products, Backlog DEF Positive
    <3> QED BY <3>1, <3>2
  <2>2. M * a <= M * (2 * d + 2 * M)
    BY <1>1, Factors DEF Positive
  <2>3. M * (2 * d + 2 * M) <= (3 * d) * (8 * d)
    BY Factors DEF Positive
  <2>4. (3 * d) * (8 * d) = 24 * (d * d)
    OBVIOUS
  <2>5. d * d \in Nat /\ M * a \in Int /\ M * (2 * d + 2 * M) \in Int
    BY Products, Backlog DEF Positive
  <2> QED BY <2>1, <2>2, <2>3, <2>4, <2>5
<1> QED BY <1>1, <1>2 DEF Positive
\* As long as they are, the energy has a bound.
LEMMA EnergyGrown ==
  ASSUME NEW M \in Positive, Decay <= M, NEW a \in Nat, NEW d \in Nat, NEW e2 \in Nat,
         3 * d <= M, 3 * a <= 8 * M,
         (Decay - 1) * (d * d) + a * a < 2 * (d * a) + 2 * (M * a),
         e2 <= M + a + Decay * d
  PROVE  Decay * (a * a) + e2 * e2 <= 16 * (Decay * (M * M))
<1> DEFINE D == Decay
           G == 4 * (d * a) + 2 * (M * a) + d * d + 2 * (d * M)
           P == M * M
           B == M + a + D * d
<1>1. /\ D \in Nat /\ D >= 60 /\ M \in Nat
      /\ d * d \in Nat /\ a * a \in Nat /\ d * a \in Nat /\ M * a \in Nat /\ d * M \in Nat
      /\ P \in Nat /\ D * d \in Nat
  BY FilterAssumption, Backlog DEF Positive
<1>2. e2 * e2 <= B * B
  BY <1>1, Factors
<1>3. D * (a * a) <= D * (2 * (d * a) + 2 * (M * a) - (D - 1) * (d * d))
  <2> DEFINE x == 2 * (d * a) + 2 * (M * a) - (D - 1) * (d * d)
  <2>1. (D - 1) * (d * d) \in Int
    BY <1>1, Products
  <2>2. x \in Nat /\ a * a <= x
    BY <1>1, <2>1
  <2> HIDE DEF x
  <2>3. D * (a * a) <= D * x
    BY <1>1, <2>2, Factors
  <2> QED BY <2>3 DEF x
<1>4. D * (2 * (d * a) + 2 * (M * a) - (D - 1) * (d * d)) + B * B
        = D * G + (M + a) * (M + a)
  <2> HIDE DEF D
  <2> QED BY <1>1
<1>5. 9 * G <= 87 * P
  <2>1. M * (3 * a) <= M * (8 * M) /\ (3 * d) * (3 * a) <= M * (8 * M)
        /\ (3 * d) * (3 * d) <= M * M /\ (3 * d) * M <= M * M
    BY <1>1, Factors
  <2>2. /\ M * (3 * a) = 3 * (M * a) /\ M * (8 * M) = 8 * P
        /\ (3 * d) * (3 * a) = 9 * (d * a) /\ (3 * d) * (3 * d) = 9 * (d * d)
        /\ (3 * d) * M = 3 * (d * M)
    BY <1>1
  <2> HIDE DEF P
  <2>3. 3 * (M * a) <= 8 * P /\ 9 * (d * a) <= 8 * P /\ 9 * (d * d) <= P /\ 3 * (d * M) <= P
    BY <2>1, <2>2 DEF P
  <2> QED BY <2>3, <1>1
<1>6. 9 * ((M + a) * (M + a)) <= 121 * P
  <2>1. (3 * (M + a)) * (3 * (M + a)) <= (11 * M) * (11 * M)
    BY <1>1, Factors
  <2>2. (3 * (M + a)) * (3 * (M + a)) = 9 * ((M + a) * (M + a)) /\ (11 * M) * (11 * M) = 121 * P
    BY <1>1
  <2> QED BY <2>1, <2>2
<1>7. 60 * P <= D * P
  BY <1>1, Factors
<1>8. 9 * (D * G) <= 87 * (D * P)
  <2>1. 9 * G \in Nat /\ 87 * P \in Nat /\ G \in Int
    BY <1>1
  <2> HIDE DEF G, P, D
  <2>2. D * (9 * G) <= D * (87 * P)
    BY <1>1, <1>5, <2>1, Factors
  <2>3. D * (9 * G) = 9 * (D * G) /\ D * (87 * P) = 87 * (D * P)
    BY <1>1, <2>1
  <2> QED BY <2>2, <2>3
<1>9. /\ D * G \in Int /\ D * P \in Int /\ (M + a) * (M + a) \in Int /\ G \in Int
      /\ D * (a * a) \in Int /\ e2 * e2 \in Int /\ B * B \in Int
      /\ D * (2 * (d * a) + 2 * (M * a) - (D - 1) * (d * d)) \in Int
  <2>1. G \in Int /\ B \in Int /\ D - 1 \in Int
    BY <1>1
  <2>2. (D - 1) * (d * d) \in Int
    BY <1>1, <2>1, Products
  <2> HIDE DEF G, B, P, D
  <2>3. 2 * (d * a) + 2 * (M * a) - (D - 1) * (d * d) \in Int
    BY <2>2, <1>1
  <2>4. D * (2 * (d * a) + 2 * (M * a) - (D - 1) * (d * d)) \in Int
    BY <2>3, <1>1, Products
  <2>5. D * G \in Int /\ D * P \in Int /\ (M + a) * (M + a) \in Int
        /\ D * (a * a) \in Int /\ e2 * e2 \in Int /\ B * B \in Int
    BY <2>1, <1>1, Products
  <2> QED BY <2>1, <2>4, <2>5
<1> DEFINE ta == D * (a * a)
           te == e2 * e2
           tx == D * (2 * (d * a) + 2 * (M * a) - (D - 1) * (d * d))
           tb == B * B
           tg == D * G
           ts == (M + a) * (M + a)
           tp == D * P
<1>10. /\ ta \in Int /\ te \in Int /\ tx \in Int /\ tb \in Int /\ tg \in Int /\ ts \in Int
       /\ tp \in Int /\ P \in Nat
       /\ te <= tb /\ ta <= tx /\ tx + tb = tg + ts
       /\ 9 * ts <= 121 * P /\ 60 * P <= tp /\ 9 * tg <= 87 * tp
  BY <1>1, <1>2, <1>3, <1>4, <1>6, <1>7, <1>8, <1>9
<1> HIDE DEF ta, te, tx, tb, tg, ts, tp, P
<1>11. ta + te <= 16 * tp
  BY <1>10
<1> QED BY <1>11 DEF ta, te, tp, P

LEMMA AbsType ==
  ASSUME NEW n \in Int
  PROVE  Abs(n) \in Nat /\ Square(n) = Abs(n) * Abs(n) /\ n <= Abs(n) /\ -n <= Abs(n)
  BY DEF Abs, Square

LEMMA AbsProduct ==
  ASSUME NEW m \in Int, NEW n \in Int, NEW b \in Nat, Abs(m) <= b
  PROVE  m * n <= b * Abs(n)
<1>1. Abs(m) * Abs(n) <= b * Abs(n)
  <2>1. Abs(m) \in Nat /\ Abs(n) \in Nat
    BY AbsType
  <2> QED BY <2>1, Factors
<1>2. m * n <= Abs(m) * Abs(n)
  BY DEF Abs
<1> QED BY <1>1, <1>2, AbsType, Products

\* What a sample is off because of the length of the record damps the filter.
LEMMA Damping ==
  ASSUME NEW w \in Int, NEW h \in Int, NEW Q \in -Positives(-w)..Positives(w)
  PROVE  -2 * (Q * (w + h)) <= Square(h)
<1>1. Q * (w - Q) >= 0
  <2>1. CASE w >= 0
    <3>1. Q \in Nat /\ w - Q \in Nat
      BY <2>1 DEF Positives
    <3> QED BY <3>1, Backlog
  <2>2. CASE w < 0
    <3>1. -Q \in Nat /\ Q - w \in Nat /\ Q \in Int
      BY <2>2 DEF Positives
    <3>2. (-Q) * (Q - w) \in Nat
      BY <3>1, Backlog
    <3>3. (-Q) * (Q - w) = Q * (w - Q)
      BY <3>1
    <3> QED BY <3>2, <3>3
  <2> QED BY <2>1, <2>2
<1>2. Q \in Int
  BY DEF Positives
<1>3. /\ Q * (w - Q) = Q * w - Q * Q /\ Q * (w + h) = Q * w + Q * h
      /\ (Q + h) * (Q + h) = Q * Q + 2 * (Q * h) + h * h
  BY <1>2
<1>4. (Q + h) * (Q + h) >= 0 /\ Q * Q >= 0
  BY <1>2
<1>5. Q * w \in Int /\ Q * h \in Int /\ Q * Q \in Int /\ h * h \in Int
  BY <1>2, Products
<1> QED BY <1>1, <1>3, <1>4, <1>5 DEF Square

\* A record does not let the energy grow beyond its bound.
LEMMA EnergyKept ==
  ASSUME NEW M \in Positive, Decay <= M,
         NEW w \in Int, NEW e \in Int, NEW h \in Int, NEW m \in Int,
         NEW Q \in -Positives(-w)..Positives(w),
         Decay * h = m - e - Q - w, Abs(m) <= M,
         Energy(w, e) <= 16 * (Decay * (M * M))
  PROVE  Energy(w + h, e + (w + h)) <= 16 * (Decay * (M * M))
<1> DEFINE v == w + h
           a == Abs(v)
           d == Abs(h)
           e2 == Abs(e + v)
<1>1. Decay \in Nat /\ Decay >= 60 /\ Q \in Int /\ v \in Int /\ M \in Nat
  BY FilterAssumption DEF Positive, Positives
<1>2. /\ a \in Nat /\ d \in Nat /\ e2 \in Nat
      /\ Square(v) = a * a /\ Square(h) = d * d /\ Square(e + v) = e2 * e2
  <2>1. e + v \in Int
    BY <1>1
  <2> HIDE DEF v
  <2> QED BY <1>1, <2>1, AbsType
<1>3. h * v <= d * a /\ m * v <= M * a
  <2>1. d <= d
    BY <1>2
  <2> HIDE DEF v
  <2>2. h * v <= d * a
    BY <1>1, <1>2, <2>1, AbsProduct, Zenon
  <2>3. m * v <= M * a
    BY <1>1, AbsProduct, Zenon
  <2> QED BY <2>2, <2>3
<1>4. -2 * (Q * v) <= Square(h)
  BY Damping
<1>5. Energy(v, e + v) = Energy(w, e) - Decay * Square(h) - Square(v) + 2 * (h * v)
                           + 2 * (m * v) - 2 * (Q * v)
  <2>1. e = m - Q - w - Decay * h /\ w = v - h
    BY <1>1, Products
  <2> HIDE DEF v
  <2> DEFINE f == m - Q - (v - h) - Decay * h
  <2>2. Energy(v, f + v) = Energy(v - h, f) - Decay * Square(h) - Square(v) + 2 * (h * v)
                             + 2 * (m * v) - 2 * (Q * v)
    BY <1>1 DEF Energy, Square
  <2> QED BY <2>1, <2>2
<1>6. (Decay - 1) * (d * d) = Decay * (d * d) - d * d
  BY <1>1, <1>2
<1>7. /\ Energy(w, e) \in Int /\ Energy(v, e + v) \in Int
      /\ h * v \in Int /\ m * v \in Int /\ Q * v \in Int
      /\ d * a \in Int /\ M * a \in Int /\ a * a \in Int /\ d * d \in Nat
      /\ Decay * (d * d) \in Int /\ 16 * (Decay * (M * M)) \in Int
  <2>1. e + v \in Int
    BY <1>1
  <2> HIDE DEF v, a, d
  <2>2. Energy(w, e) \in Int /\ Energy(v, e + v) \in Int
    BY <1>1, <2>1, EnergyType
  <2>3. h * v \in Int /\ m * v \in Int /\ Q * v \in Int
    BY <1>1, Products
  <2>4. d * a \in Int /\ M * a \in Int /\ a * a \in Int /\ d * d \in Nat /\ M * M \in Nat
    BY <1>1, <1>2, Backlog
  <2> QED BY <2>2, <2>3, <2>4, <1>1, Backlog
<1> HIDE DEF v, a, d, e2
<1> DEFINE k == (Decay - 1) * (d * d)
<1>8. k \in Int /\ Energy(v, e + v) <= Energy(w, e) - k - a * a + 2 * (d * a) + 2 * (M * a)
  BY <1>2, <1>3, <1>4, <1>5, <1>6, <1>7
<1>9. CASE k + a * a >= 2 * (d * a) + 2 * (M * a)
  <2> HIDE DEF k
  <2> QED BY <1>7, <1>8, <1>9 DEF v
<1>10. CASE k + a * a < 2 * (d * a) + 2 * (M * a)
  <2>1. 59 * (d * d) <= k
    BY <1>1, <1>2, <1>7, Factors
  <2>2. 59 * (d * d) + a * a < 2 * (d * a) + 2 * (M * a)
    <3> HIDE DEF k
    <3> QED BY <2>1, <1>7, <1>8, <1>10
  <2>3. 3 * d <= M /\ 3 * a <= 8 * M
    BY <2>2, <1>2, Growth
  <2>4. e2 <= M + a + Decay * d
    <3>1. e + v = m - Q - (Decay * h - h)
      <4>1. Decay * h \in Int
        BY <1>1, Products
      <4> QED BY <4>1, <1>1 DEF v
    <3>2. Abs(Q) <= a + d
      BY <1>1 DEF Positives, Abs, v, a, d
    <3>3. Decay * d = Abs(Decay * h) /\ Abs(Decay * h - h) = Decay * d - d
      <4>1. CASE h >= 0
        <5>1. Decay * h - h >= 0 /\ Decay * h >= 0 /\ d = h
          BY <4>1, <1>1, Factors DEF d, Abs
        <5> QED BY <5>1 DEF Abs
      <4>2. CASE h < 0
        <5>1. d = -h /\ Decay * (-h) = -(Decay * h) /\ Decay * (-h) >= -h
          BY <4>2, <1>1 DEF d, Abs
        <5>2. Decay * h \in Int
          BY <1>1, Products
        <5> QED BY <5>1, <5>2, <4>2, <1>1 DEF Abs
      <4> QED BY <4>1, <4>2
    <3> DEFINE p == Decay * h
               r == Decay * d
    <3>4. p \in Int /\ r \in Int /\ e + v = m - Q - (p - h) /\ Abs(p - h) = r - d
      BY <3>1, <3>3, <1>1, <1>2, Products
    <3> HIDE DEF p, r
    <3>5. e2 <= Abs(m) + Abs(Q) + Abs(p - h)
      BY <3>4, <1>1 DEF e2, Abs
    <3>6. Abs(m) \in Int /\ Abs(Q) \in Int
      BY <1>1, AbsType
    <3> QED BY <3>2, <3>4, <3>5, <3>6, <1>1, <1>2 DEF r
  <2>5. Decay * (a * a) + e2 * e2 <= 16 * (Decay * (M * M))
    BY <1>10, <2>3, <2>4, <1>2, EnergyGrown
  <2>6. Energy(v, e + v) = Decay * (a * a) + e2 * e2
    BY <1>2 DEF Energy
  <2> QED BY <2>5, <2>6 DEF v
<1> QED
  <2> HIDE DEF k
  <2> QED BY <1>7, <1>8, <1>9, <1>10
-----------------------------------------------------------------------------
(* A record in the filter *)

Larger == IF Poll < Decay THEN Decay ELSE Poll

EnergyBound == 16 * (Decay * (Larger * Larger))

\* By how much a start time is off if the length of the record is, by w.
Offs(w) == -Positives(w)..Poll-1+Positives(-w)

LEMMA LargerType == Larger \in Positive /\ Decay <= Larger /\ Poll <= Larger
  BY FilterAssumption DEF Larger, Positive

\* However the polling comes about, the energy stays within its bound.
LEMMA FilterStep ==
  ASSUME NEW w \in Int, NEW e \in Int, NEW c \in Offs(w), Energy(w, e) <= EnergyBound,
         NEW h, h = (c - e - w) \div Decay
  PROVE  h \in Int /\ Energy(w + h, e + (w + h)) <= EnergyBound
<1>1. c \in Int /\ Decay \in Positive /\ Poll \in Nat
  BY FilterAssumption DEF Offs, Positives, Positive
<1>2. c - e - w \in Int
  BY <1>1
<1>3. h \in Int /\ Decay * h <= c - e - w /\ c - e - w < Decay * h + Decay
  BY <1>1, <1>2, Division
<1>4. PICK Q \in -Positives(-w)..Positives(w) : c + Q \in 0..Poll-1
  <2> DEFINE q == IF c < 0 THEN -c ELSE IF c <= Poll - 1 THEN 0 ELSE Poll - 1 - c
  <2>1. q \in -Positives(-w)..Positives(w) /\ c + q \in 0..Poll-1
    BY FilterAssumption DEF Offs, Positives, Positive
  <2> QED BY <2>1
<1> DEFINE p == Decay * h
           m == c + Q - ((c - e - w) - p)
<1>5. p \in Int /\ Q \in Int
  BY <1>1, <1>3, Products DEF Positives, Positive
<1>6. m \in Int /\ Abs(m) <= Larger
  <2>1. (c - e - w) - p \in 0..Decay-1
    BY <1>1, <1>3, <1>5 DEF Positive
  <2> HIDE DEF p
  <2> QED BY <2>1, <1>1, <1>4, LargerType DEF Abs, Positive
<1>7. Decay * h = m - e - Q - w
  <2>1. p = m - e - Q - w
    <3> HIDE DEF p
    <3> QED BY <1>1, <1>5
  <2> QED BY <2>1
<1> HIDE DEF m
<1>8. Energy(w + h, e + (w + h)) <= 16 * (Decay * (Larger * Larger))
  BY <1>3, <1>6, <1>7, LargerType, EnergyKept DEF EnergyBound
<1> QED BY <1>3, <1>8 DEF EnergyBound

\* The error of a start time, for a given energy.
LEMMA Amplitude ==
  ASSUME NEW w \in Int, NEW e \in Int, Energy(w, e) <= EnergyBound
  PROVE  Abs(e) <= LateDrift /\ LateDrift \in Nat
<1> DEFINE Fits(r) == r \in 1..Decay /\ r * r >= Decay /\ \A q \in 1..r-1 : q * q < Decay
<1>1. \E r : Fits(r)
  <2> DEFINE T == {r \in 1..Decay : r * r >= Decay}
  <2>1. Decay \in T
    BY FilterAssumption DEF Positive
  <2>2. \E r \in T : \A q \in T : ~(q < r)
    <3>1. T \subseteq Nat /\ T # {}
      BY <2>1
    <3> HIDE DEF T
    <3>2. PICK r \in T : \A q \in T : ~ (<<q, r>> \in OpToRel(<, Nat))
      BY <3>1, NatLessThanWellFounded, WFMin
    <3>3. ASSUME NEW q \in T PROVE ~(q < r)
      BY <3>1, <3>2, Zenon DEF OpToRel
    <3> QED BY <3>2, <3>3
  <2>3. PICK r \in T : \A q \in T : ~(q < r)
    BY <2>2
  <2>4. ASSUME NEW q \in 1..r-1 PROVE q * q < Decay
    <3>1. q \in 1..Decay /\ q < r
      BY FilterAssumption DEF Positive
    <3>2. ~(q \in T)
      BY <2>3, <3>1
    <3> QED BY <3>1, <3>2, Products, FilterAssumption DEF Positive
  <2> QED BY <2>3, <2>4
<1>2. Fits(Root)
  BY <1>1 DEF Root
<1> DEFINE D == Decay
           L == Larger
           b == 4 * Root * L
<1>3. Root \in Nat /\ D \in Nat /\ L \in Nat /\ b \in Nat /\ LateDrift = b /\ Abs(e) \in Nat
  <2>1. Root \in Nat /\ D \in Nat /\ L \in Nat
    BY <1>2, FilterAssumption, LargerType DEF Positive
  <2> QED BY <2>1, Backlog, AbsType DEF LateDrift, Larger
<1>4. Square(e) <= 16 * (D * (L * L))
  <2>1. D * Square(w) \in Nat /\ Square(e) \in Nat
    BY <1>3, SquareType, Backlog
  <2> QED BY <2>1, <1>3, Products DEF Energy, EnergyBound
<1>5. D * (L * L) <= (Root * Root) * (L * L)
  BY <1>2, <1>3, Backlog, Factors
<1>6. b * b = 16 * ((Root * Root) * (L * L))
  BY <1>3
<1>7. Abs(e) * Abs(e) <= b * b
  <2>1. D * (L * L) \in Int /\ (Root * Root) * (L * L) \in Int /\ Square(e) \in Int
    BY <1>3, Products, SquareType
  <2> HIDE DEF b, D, L
  <2>2. Square(e) <= b * b
    BY <2>1, <1>4, <1>5, <1>6
  <2> QED BY <2>2, AbsType
<1> HIDE DEF b
<1>8. ASSUME Abs(e) > b PROVE FALSE
  <2>1. (b + 1) * (b + 1) <= Abs(e) * Abs(e)
    BY <1>3, <1>8, Factors
  <2>2. (b + 1) * (b + 1) = b * b + 2 * b + 1 /\ b * b \in Nat
    BY <1>3, Backlog
  <2> QED BY <2>1, <2>2, <1>3, <1>7
<1> QED BY <1>3, <1>8
Correction == Poll \div Decay + 1

LEMMA CorrectionType == Correction \in Positive /\ Poll < Decay * Correction
<1>1. Poll \in Int /\ Decay \in Positive /\ Poll \in Nat
  BY FilterAssumption DEF Positive
<1> DEFINE q == Poll \div Decay
<1>2. q \in Int /\ Decay * q <= Poll /\ Poll < Decay * q + Decay
  BY <1>1, Division
<1>3. Decay * (q + 1) = Decay * q + Decay
  <2> HIDE DEF q
  <2> QED BY <1>1, <1>2 DEF Positive
<1>4. q >= 0
  <2> HIDE DEF q
  <2>1. ASSUME q <= -1 PROVE FALSE
    <3>1. Decay * (q + 1) <= 0
      BY <2>1, <1>1, <1>2 DEF Positive
    <3>2. Decay * q \in Int
      BY <1>1, <1>2, Products DEF Positive
    <3> QED BY <3>1, <3>2, <1>1, <1>2, <1>3 DEF Positive
  <2> QED BY <2>1, <1>2
<1> QED BY <1>2, <1>3, <1>4 DEF Correction, Positive

\* While the errors are small, so is a correction: d bounds the error of the
\* length, x that of the start time.
LEMMA SmallStep ==
  ASSUME NEW d \in Nat, NEW x \in Nat, x + 2 * d <= Poll,
         NEW w \in Int, NEW e \in Int, NEW c \in Offs(w),
         Abs(w) <= d, e \in -x..Poll-1+x,
         NEW h, h = (c - e - w) \div Decay
  PROVE  Abs(w + h) <= d + 2 * Correction /\ h \in -2*Correction..2*Correction
<1>1. c \in Int /\ Decay \in Positive /\ Poll \in Nat /\ Correction \in Positive
  BY FilterAssumption, CorrectionType DEF Offs, Positives, Positive
<1>2. c - e - w \in -2*Poll..2*Poll-1
  BY <1>1 DEF Offs, Positives, Abs
<1> DEFINE C == 2 * Correction
           D == Decay * Correction
<1>3. /\ Decay * C = 2 * D /\ Decay * (-C) = -(2 * D) /\ C \in Int /\ -C \in Int
      /\ D \in Int /\ Poll < D
  BY <1>1, Products, CorrectionType DEF Positive
<1>4. h \in -C..C
  <2> DEFINE n == c - e - w
  <2>1. n \in Int /\ Decay * (-C) <= n /\ n < Decay * C + Decay
    <3> HIDE DEF n, C, D
    <3>1. Decay \in Int /\ Decay > 0 /\ n \in -2*Poll..2*Poll-1
      BY <1>1, <1>2 DEF n, Positive
    <3> QED BY <3>1, <1>1, <1>3
  <2> HIDE DEF n, C, D
  <2>2. n \div Decay \in -C..C
    BY <2>1, <1>1, <1>3, QuotientRange
  <2> QED BY <2>2 DEF n
<1> QED BY <1>1, <1>4 DEF Abs, Positive

\* The bounds of the next record.
LEMMA DriftStep ==
  ASSUME NEW n \in Positive
  PROVE  /\ Correction * n * (n - 1) \in Nat /\ 2 * Correction * (n - 1) \in Nat
         /\ 2 * Correction * n = 2 * Correction * (n - 1) + 2 * Correction
         /\ Correction * (n + 1) * n
              = Correction * n * (n - 1) + 2 * Correction * (n - 1) + 2 * Correction
         /\ Correction * n * (n - 1) + 2 * (2 * Correction * (n - 1))
              <= 2 * (Correction * (n + 1) * n)
         /\ Correction * n * (n - 1) <= Correction * (n + 1) * n
<1> DEFINE a == Correction
           k == n - 1
<1>1. a \in Nat /\ k \in Nat /\ n = k + 1
  BY CorrectionType DEF Positive
<1> HIDE DEF a, k
<1>2. /\ a * (k + 1) * k = a * (k * k) + a * k
      /\ 2 * a * k = 2 * (a * k) /\ 2 * a * (k + 1) = 2 * (a * k) + 2 * a
      /\ a * (k + 1 + 1) * (k + 1) = a * (k * k) + 3 * (a * k) + 2 * a
  BY <1>1
<1>3. a * (k * k) \in Nat /\ a * k \in Nat
  BY <1>1, Backlog
<1>4. /\ a * (k + 1) * k \in Nat /\ 2 * a * k \in Nat
      /\ 2 * a * (k + 1) = 2 * a * k + 2 * a
      /\ a * (k + 1 + 1) * (k + 1) = a * (k + 1) * k + 2 * a * k + 2 * a
      /\ a * (k + 1) * k + 2 * (2 * a * k) <= 2 * (a * (k + 1 + 1) * (k + 1))
      /\ a * (k + 1) * k <= a * (k + 1 + 1) * (k + 1)
  BY <1>1, <1>2, <1>3
<1>5. n - 1 = k /\ n + 1 = k + 1 + 1
  BY <1>1
<1> QED BY <1>1, <1>4, <1>5, Zenon DEF a
-----------------------------------------------------------------------------
(* The inductive invariant *)

Undisturbed == phase = "collect" /\ ~disturbed /\ period = Nominal

Length == Nominal * num_samples_in_record

\* When the first sample of the record was sent, by the clock.
first_hptime == Epoch + clock + (line - nsamp) * period

\* By how much the length of a record, and the last start time, are off.
Excess == record_window_est - Length
StartError == prev_start_hptime_est - (first_hptime - Length)

\* The start times that single samples give.
Lowest  == first_hptime - Positives(Excess)
Highest == first_hptime + Poll - 1 + Positives(-Excess)

\* The estimator begins when the test is over.
IdleOK ==
    phase # "collect" =>
        /\ nsamp = 0 /\ start_hptime_current = 0 /\ n_start_hptime_est = 0
        /\ records = 0 /\ prev_start_hptime_est = -1

\* A record is made of lines that have been read.
LinesOK == line >= nsamp /\ (records > 0 => line >= num_samples_in_record + nsamp)

\* How far the clock may be set back.
Lag == Epoch - LateDrift - 1

\* Collecting begins with a clock far enough from 1970.
ClockOK ==
    /\ phase # "collect" =>
        MaxAccidents * clock >= -(accidents * Lag) /\ (accidents = 0 => clock = 0)
    /\ phase = "collect" /\ ~disturbed => clock >= -Lag

\* The samples of the second half are added up, each within the polling.
CurrentOK ==
    /\ n_start_hptime_est = Positives(nsamp - Half)
    /\ Undisturbed => /\ n_start_hptime_est * Lowest <= start_hptime_current
                      /\ start_hptime_current <= n_start_hptime_est * Highest

\* The errors, at first and after any number of records.
FilterOK ==
    Undisturbed =>
        IF records = 0 THEN Excess = 0 /\ prev_start_hptime_est = -1
        ELSE /\ Energy(Excess, StartError) <= EnergyBound
             /\ 2 * EarlyDrift <= Poll =>
                    /\ Abs(Excess) <= 2 * Correction * (records - 1)
                    /\ StartError \in -EarlyDrift..Poll-1+EarlyDrift

EInv == IdleOK /\ LinesOK /\ ClockOK /\ CurrentOK /\ FilterOK

LEMMA IdleKept ==
  ASSUME IdleOK, [Next]_vars
  PROVE  IdleOK'
<1>1. CASE TestValue
  BY <1>1 DEF TestValue, collect, IdleOK
<1>2. CASE CollectAndWrite
  BY <1>2 DEF CollectAndWrite, IdleOK
<1>3. CASE Sample
  BY <1>3 DEF Sample, IdleOK
<1>4. CASE LastSample
  BY <1>4 DEF LastSample, IdleOK
<1>5. CASE Accident
  BY <1>5 DEF Accident, collect, IdleOK
<1>6. CASE UNCHANGED vars
  BY <1>6 DEF vars, collect, history, IdleOK
<1> QED
  BY <1>1, <1>2, <1>3, <1>4, <1>5, <1>6 DEF Next, LoseLine, SetClock

LEMMA LinesKept ==
  ASSUME TypeOK, IdleOK, LinesOK, [Next]_vars
  PROVE  LinesOK'
<1> USE CountAssumption DEF Positive, TypeOK, LinesOK
<1>1. CASE TestValue
  BY <1>1 DEF TestValue, ReadLine, collect, IdleOK
<1>2. CASE CollectAndWrite
  BY <1>2 DEF CollectAndWrite, device
<1>3. CASE Sample
  BY <1>3 DEF Sample, ReadLine
<1>4. CASE LastSample
  BY <1>4 DEF LastSample, ReadLine
<1>5. CASE LoseLine
  BY <1>5 DEF LoseLine, Accident, collect
<1>6. CASE SetClock
  BY <1>6 DEF SetClock, Accident, collect
<1>7. CASE UNCHANGED vars
  BY <1>7 DEF vars, device, collect, history
<1> QED
  BY <1>1, <1>2, <1>3, <1>4, <1>5, <1>6, <1>7 DEF Next

LEMMA LagType == Lag \in Nat /\ LateDrift \in Nat /\ Epoch = Lag + LateDrift + 1
<1>1. Energy(0, 0) <= EnergyBound
  <2>1. Decay \in Nat /\ Larger \in Nat
    BY FilterAssumption, LargerType DEF Positive
  <2>2. Decay * (Larger * Larger) \in Nat /\ Decay * (0 * 0) = 0
    BY <2>1, Backlog
  <2> QED BY <2>2 DEF Energy, Square, EnergyBound
<1> QED
  BY <1>1, Amplitude, EpochAssumption DEF Lag

LEMMA ClockKept ==
  ASSUME TypeOK, ClockOK, [Next]_vars
  PROVE  ClockOK'
<1> USE LagType, BoundAssumption
<1>0. /\ MaxAccidents * clock \in Int /\ accidents \in Nat /\ accidents <= MaxAccidents
      /\ accidents * Lag \in Int /\ (accidents + 1) * Lag = accidents * Lag + Lag
  BY Products, NextProduct DEF TypeOK
<1>1. CASE TestValue
  <2>1. clock' = clock /\ (accidents' = accidents \/ accidents' = accidents + 1)
        /\ phase = "test" /\ phase' # "collect"
    BY <1>1 DEF TestValue, ReadLine, test
  <2> QED BY <2>1, <1>0 DEF ClockOK
<1>2. CASE CollectAndWrite
  <2>1. clock' = clock /\ phase' = "collect" /\ phase # "collect"
    BY <1>2 DEF CollectAndWrite, device
  <2>2. clock >= -Lag
    <3>1. CASE accidents = 0
      BY <3>1, <2>1 DEF ClockOK
    <3>2. CASE accidents # 0
      <4> SUFFICES ASSUME clock < -Lag PROVE FALSE
        BY DEF TypeOK
      <4>1. accidents * Lag <= MaxAccidents * Lag
        BY <1>0, Factors
      <4>2. MaxAccidents * (Lag + 1) <= MaxAccidents * (-clock)
        BY <1>0, Factors DEF TypeOK
      <4>3. /\ MaxAccidents * (Lag + 1) = MaxAccidents * Lag + MaxAccidents
            /\ MaxAccidents * (-clock) = -(MaxAccidents * clock)
            /\ MaxAccidents * Lag \in Int
        BY Products DEF TypeOK
      <4>4. MaxAccidents * clock >= -(accidents * Lag)
        BY <2>1 DEF ClockOK
      <4> QED BY <4>1, <4>2, <4>3, <4>4, <1>0, <3>2
    <3> QED BY <3>1, <3>2
  <2> QED BY <2>1, <2>2 DEF ClockOK
<1>3. CASE Sample \/ LastSample
  BY <1>3 DEF Sample, LastSample, ReadLine, ClockOK
<1>4. CASE LoseLine
  BY <1>4, <1>0 DEF LoseLine, Accident, ClockOK
<1>5. CASE SetClock
  <2>1. PICK s \in Steps : clock' = clock + s
    BY <1>5 DEF SetClock
  <2>2. accidents' = accidents + 1 /\ phase' = phase /\ disturbed' = TRUE
    BY <1>5 DEF SetClock, Accident
  <2>3. /\ s \in Int /\ MaxAccidents * s \in Int /\ MaxAccidents * s >= -Lag
        /\ MaxAccidents * (clock + s) = MaxAccidents * clock + MaxAccidents * s
    <3>1. s \in Int /\ LateDrift < Epoch + MaxAccidents * s
      BY AccidentAssumption, EpochAssumption
    <3>2. MaxAccidents * (clock + s) = MaxAccidents * clock + MaxAccidents * s
      BY <3>1 DEF TypeOK
    <3> QED BY <3>1, <3>2, Products
  <2> QED BY <2>1, <2>2, <2>3, <1>0 DEF ClockOK
<1>6. CASE UNCHANGED vars
  BY <1>6 DEF vars, device, history, ClockOK
<1> QED
  BY <1>1, <1>2, <1>3, <1>4, <1>5, <1>6 DEF Next
-----------------------------------------------------------------------------
(* A sample *)

LEMMA FirstType ==
  ASSUME TypeOK
  PROVE  /\ first_hptime \in Int /\ Length \in Nat /\ Excess \in Int /\ StartError \in Int
         /\ Lowest \in Int /\ Highest \in Int /\ period \in Positive
<1>1. period \in Positive
  BY PeriodAssumption DEF TypeOK
<1>2. first_hptime \in Int
  <2>1. line - nsamp \in Int /\ period \in Int
    BY <1>1, CountAssumption DEF TypeOK, Positive
  <2>2. (line - nsamp) * period \in Int
    BY <2>1, Products
  <2> QED BY <2>2, EpochAssumption DEF first_hptime, TypeOK
<1>3. Length \in Nat
  BY NominalAssumption, CountAssumption, Backlog DEF Length, Positive
<1> QED
  BY <1>1, <1>2, <1>3, FilterAssumption
     DEF Excess, StartError, Lowest, Highest, Positives, TypeOK, Positive

LEMMA BoundsType == TypeOK => Lowest \in Int /\ Highest \in Int
  BY FirstType

LEMMA Nothing ==
  ASSUME NEW n \in Int
  PROVE  0 * n = 0
  OBVIOUS

\* A sample of the second half, or the last one, gives a start time within the
\* polling.
LEMMA Counted ==
  ASSUME TypeOK, Undisturbed, ReadLine, nsamp >= Half, ~TooLate(late', Half - nsamp)
  PROVE  hptime - dt_est_times(nsamp) \in Lowest..Highest
<1>1. late' \in 0..Poll-1
  <2>1. late' \in Nat /\ nsamp \in Int /\ Half \in Int
    BY Reading, CountAssumption DEF Half, TypeOK, Positive
  <2>2. ~(Half - nsamp > 0)
    BY <2>1
  <2>3. period * 0 = 0
    BY FirstType DEF Positive
  <2> QED BY <2>1, <2>2, <2>3, FilterAssumption DEF TooLate, Positive
<1> DEFINE b == num_samples_in_record
           t == nsamp * Nominal
<1>2. b \in Positive /\ nsamp \in 0..b-1 /\ Nominal \in Int /\ nsamp \in Int /\ t \in Int
  <2>1. b \in Positive /\ nsamp \in 0..b-1 /\ Nominal \in Int /\ nsamp \in Int
    BY CountAssumption, NominalAssumption DEF TypeOK, Positive
  <2> QED BY <2>1, Products
<1>3. hptime = first_hptime + t + late'
  <2>1. line * period = (line - nsamp) * period + nsamp * period
    BY <1>2, FirstType DEF TypeOK, Positive
  <2>2. period = Nominal
    BY DEF Undisturbed
  <2>3. (line - nsamp) * period \in Int
    BY <1>2, FirstType, Products DEF TypeOK, Positive
  <2> DEFINE u == (line - nsamp) * period
  <2>4. u \in Int /\ line * period = u + t /\ first_hptime = Epoch + clock + u
    BY <2>1, <2>2, <2>3 DEF first_hptime
  <2> HIDE DEF u, t
  <2>5. late' \in Int
    BY <1>1
  <2> QED BY <2>4, <2>5, <1>2, EpochAssumption DEF hptime, TypeOK
<1>4. dt_est_times(nsamp) = t + Rounded(Excess * nsamp, b)
  <2>1. Excess \in Int /\ record_window_est = Nominal * b + Excess
    BY FirstType DEF Excess, Length, TypeOK
  <2> DEFINE x == Excess
  <2>2. x * nsamp \in Int /\ b \in Int
    BY <1>2, <2>1, Products DEF Positive
  <2>3. record_window_est * nsamp = b * t + x * nsamp
    <3> HIDE DEF x
    <3> QED BY <1>2, <2>1, <2>2 DEF x
  <2> HIDE DEF x, t
  <2>4. Rounded(b * t + x * nsamp, b) = t + Rounded(x * nsamp, b)
    BY <2>2, <1>2, RoundedWhole
  <2> QED BY <2>3, <2>4 DEF dt_est_times, x
<1>5. Rounded(Excess * nsamp, b) \in -Positives(-Excess)..Positives(Excess)
  BY <1>2, FirstType, RoundedPart
<1> DEFINE r == Rounded(Excess * nsamp, b)
           x == Excess
<1>6. /\ r \in -Positives(-x)..Positives(x) /\ x \in Int /\ first_hptime \in Int
      /\ hptime - dt_est_times(nsamp) = first_hptime + t + late' - (t + r)
  <2>1. x \in Int /\ first_hptime \in Int
    BY FirstType
  <2>2. hptime - dt_est_times(nsamp) = first_hptime + t + late' - (t + r)
    <3> DEFINE y == hptime
               z == dt_est_times(nsamp)
    <3>1. /\ y = first_hptime + t + late' /\ z = t + r
          /\ first_hptime \in Int /\ t \in Int /\ late' \in Int /\ r \in Int
      BY <1>1, <1>2, <1>3, <1>4, <1>5, <2>1
    <3> HIDE DEF y, z, t, r
    <3>2. y - z = first_hptime + t + late' - (t + r)
      BY <3>1
    <3> QED BY <3>2 DEF y, z
  <2> QED BY <1>5, <2>1, <2>2, Zenon
<1> HIDE DEF r, x, t
<1> QED
  BY <1>1, <1>2, <1>6, FilterAssumption DEF Lowest, Highest, Positives, Positive, x

LEMMA HalfType == Half \in 0..num_samples_in_record-1
  BY CountAssumption DEF Half, Positive

\* One more start time between the lowest and the highest.
LEMMA OneMore ==
  ASSUME NEW n \in Nat, NEW sum \in Int, NEW lo \in Int, NEW hi \in Int, NEW t \in lo..hi,
         n * lo <= sum, sum <= n * hi
  PROVE  (n + 1) * lo <= sum + t /\ sum + t <= (n + 1) * hi
<1>1. /\ (n + 1) * lo = n * lo + lo /\ (n + 1) * hi = n * hi + hi
      /\ n * lo \in Int /\ n * hi \in Int
  BY NextProduct, Products
<1> QED BY <1>1

\* What a step that changes neither the record nor the world leaves alone.
LEMMA SameRecord ==
  ASSUME TypeOK,
         line' - nsamp' = line - nsamp, clock' = clock, period' = period,
         record_window_est' = record_window_est,
         prev_start_hptime_est' = prev_start_hptime_est
  PROVE  /\ first_hptime' = first_hptime /\ Excess' = Excess /\ StartError' = StartError
         /\ Lowest' = Lowest /\ Highest' = Highest
<1>1. first_hptime' = first_hptime
  BY DEF first_hptime
<1> QED
  BY <1>1 DEF Excess, StartError, Lowest, Highest, Length

LEMMA CurrentKept ==
  ASSUME TypeOK, TypeOK', IdleOK, CurrentOK, [Next]_vars
  PROVE  CurrentOK'
<1> USE HalfType, FirstType
<1>1. CASE TestValue
  BY <1>1 DEF TestValue, collect, CurrentOK, Undisturbed
<1>2. CASE CollectAndWrite
  <2>1. /\ n_start_hptime_est' = 0 /\ start_hptime_current' = 0 /\ nsamp' = nsamp
        /\ n_start_hptime_est' = n_start_hptime_est
    BY <1>2 DEF CollectAndWrite, IdleOK
  <2>2. (Lowest \in Int /\ Highest \in Int)'
    <3>1. TypeOK'
      OBVIOUS
    <3> QED BY <3>1, BoundsType, PTL
  <2>3. 0 * Lowest' = 0 /\ 0 * Highest' = 0
    BY <2>2, Nothing
  <2> QED BY <2>1, <2>3 DEF CurrentOK
<1>3. CASE Sample
  <2>1. /\ ReadLine /\ nsamp' = nsamp + 1 /\ line' = line + 1
        /\ period' = period /\ clock' = clock /\ phase = "collect" /\ phase' = phase
        /\ record_window_est' = record_window_est
        /\ prev_start_hptime_est' = prev_start_hptime_est
        /\ nsamp \in Nat /\ line \in Nat
    BY <1>3, CountAssumption DEF Sample, ReadLine, TypeOK, Positive
  <2>2. Lowest' = Lowest /\ Highest' = Highest
    <3>1. line' - nsamp' = line - nsamp
      BY <2>1
    <3> QED BY <2>1, <3>1, SameRecord
  <2>3. CASE nsamp < Half
    <3>1. /\ n_start_hptime_est' = n_start_hptime_est
          /\ start_hptime_current' = start_hptime_current
      BY <1>3, <2>1, <2>3 DEF Sample, Counts
    <3>2. Positives(nsamp' - Half) = Positives(nsamp - Half)
      BY <2>1, <2>3 DEF Positives
    <3>3. Undisturbed' => Undisturbed
      BY <1>3, <2>1 DEF Sample, Undisturbed
    <3> QED BY <3>1, <3>2, <3>3, <2>2 DEF CurrentOK
  <2>4. CASE nsamp >= Half
    <3>1. /\ n_start_hptime_est' = n_start_hptime_est + 1
          /\ start_hptime_current' = start_hptime_current + hptime - dt_est_times(nsamp)
      BY <1>3, <2>4 DEF Sample, Counts
    <3>2. Positives(nsamp' - Half) = Positives(nsamp - Half) + 1
      BY <2>1, <2>4 DEF Positives
    <3>3. ASSUME Undisturbed'
          PROVE  /\ n_start_hptime_est' * Lowest <= start_hptime_current'
                 /\ start_hptime_current' <= n_start_hptime_est' * Highest
      <4>1. Undisturbed /\ ~TooLate(late', Half - nsamp)
        BY <1>3, <2>1, <3>3 DEF Sample, Undisturbed
      <4> DEFINE t == hptime - dt_est_times(nsamp)
      <4>2. t \in Lowest..Highest
        BY <2>1, <2>4, <4>1, Counted
      <4>3. hptime \in Int /\ dt_est_times(nsamp) \in Int
        BY <2>1, Reading, Extrapolations
      <4>4. start_hptime_current' = start_hptime_current + t
        BY <3>1, <4>3 DEF TypeOK
      <4> HIDE DEF t
      <4>5. /\ n_start_hptime_est \in Nat /\ start_hptime_current \in Int
            /\ n_start_hptime_est * Lowest <= start_hptime_current
            /\ start_hptime_current <= n_start_hptime_est * Highest
        BY <2>1, <4>1 DEF CurrentOK, TypeOK
      <4>6. Lowest \in Int /\ Highest \in Int
        OBVIOUS
      <4>7. /\ (n_start_hptime_est + 1) * Lowest <= start_hptime_current + t
            /\ start_hptime_current + t <= (n_start_hptime_est + 1) * Highest
        BY <4>2, <4>5, <4>6, OneMore
      <4> QED BY <3>1, <4>4, <4>7
    <3> QED BY <3>1, <3>2, <3>3, <2>2 DEF CurrentOK
  <2> QED BY <2>1, <2>3, <2>4
<1>4. CASE LastSample
  <2>1. n_start_hptime_est' = 0 /\ start_hptime_current' = 0 /\ nsamp' = 0
    BY <1>4 DEF LastSample
  <2>2. (Lowest \in Int /\ Highest \in Int)'
    <3>1. TypeOK'
      OBVIOUS
    <3> QED BY <3>1, BoundsType, PTL
  <2>3. 0 * Lowest' = 0 /\ 0 * Highest' = 0
    BY <2>2, Nothing
  <2> QED BY <2>1, <2>3 DEF CurrentOK, Positives
<1>5. CASE Accident
  BY <1>5 DEF Accident, collect, CurrentOK, Undisturbed
<1>6. CASE UNCHANGED vars
  <2>1. /\ line' - nsamp' = line - nsamp /\ clock' = clock /\ period' = period
        /\ record_window_est' = record_window_est
        /\ prev_start_hptime_est' = prev_start_hptime_est
        /\ nsamp' = nsamp /\ n_start_hptime_est' = n_start_hptime_est
        /\ start_hptime_current' = start_hptime_current
        /\ phase' = phase /\ disturbed' = disturbed
    BY <1>6 DEF vars, device, collect, history
  <2>2. Lowest' = Lowest /\ Highest' = Highest
    BY <2>1, SameRecord
  <2> QED BY <2>1, <2>2 DEF CurrentOK, Undisturbed
<1> QED
  BY <1>1, <1>2, <1>3, <1>4, <1>5, <1>6 DEF Next, LoseLine, SetClock
-----------------------------------------------------------------------------
(* A record *)

\* The start time of the record that a last sample completes.
Current == (start_hptime_current + hptime - dt_est_times(nsamp)) \div (n_start_hptime_est + 1)

\* It is that of the first sample, but for the polling and the length.
LEMMA CurrentOffs ==
  ASSUME TypeOK, CurrentOK, Undisturbed, LastSample, ~disturbed'
  PROVE  Current - first_hptime \in Offs(Excess)
<1>1. /\ nsamp = num_samples_in_record - 1 /\ ReadLine
      /\ ~TooLate(late', Half - nsamp)
  BY DEF LastSample
<1>2. hptime - dt_est_times(nsamp) \in Lowest..Highest
  BY <1>1, Counted, HalfType
<1> DEFINE t == hptime - dt_est_times(nsamp)
           n == n_start_hptime_est + 1
           sum == start_hptime_current + hptime - dt_est_times(nsamp)
<1>3. hptime \in Int /\ dt_est_times(nsamp) \in Int /\ start_hptime_current \in Int
  BY <1>1, Reading, Extrapolations DEF TypeOK
<1>4. sum = start_hptime_current + t
  BY <1>3
<1>5. /\ Lowest \in Int /\ Highest \in Int /\ n \in Positive /\ n_start_hptime_est \in Nat
      /\ first_hptime \in Int /\ Excess \in Int
  BY FirstType DEF TypeOK, Positive
<1> HIDE DEF t
<1>6. n * Lowest <= start_hptime_current + t /\ start_hptime_current + t <= n * Highest
  BY <1>2, <1>3, <1>5, OneMore DEF CurrentOK, t
<1>7. sum \in Int /\ n * Lowest <= sum /\ sum <= n * Highest
  BY <1>2, <1>3, <1>4, <1>5, <1>6 DEF t
<1> HIDE DEF n, sum
<1>8. sum < n * Highest + n
  <2>1. n * Highest \in Int /\ n \in Int /\ n > 0
    BY <1>5, Products DEF Positive
  <2> QED BY <1>7, <2>1
<1>9. sum \div n \in Lowest..Highest
  BY <1>5, <1>7, <1>8, QuotientRange
<1>10. Current \in Lowest..Highest
  BY <1>9 DEF Current, sum, n
<1> HIDE DEF Current
<1> QED
  BY <1>5, <1>10, FilterAssumption DEF Lowest, Highest, Offs, Positives, Positive

\* What a last sample does to the record and the next one's first sample.
LEMMA NextRecord ==
  ASSUME TypeOK, Undisturbed, LastSample
  PROVE  /\ first_hptime' = first_hptime + Length /\ Length' = Length
         /\ period' = period /\ phase' = phase /\ records' = records + 1
<1>1. /\ line' = line + 1 /\ nsamp' = 0 /\ nsamp = num_samples_in_record - 1
      /\ period' = period /\ clock' = clock /\ phase' = phase /\ records' = records + 1
      /\ line \in Nat /\ num_samples_in_record \in Int /\ period \in Int
      /\ period = Nominal
  BY CountAssumption, FirstType DEF LastSample, ReadLine, TypeOK, Undisturbed, Positive
<1> DEFINE k == line - nsamp
           b == num_samples_in_record
<1>2. line' - nsamp' = k + b /\ k \in Int /\ b \in Int
  BY <1>1
<1>3. (line' - nsamp') * period' = k * period + Length
  <2>1. (k + b) * period = k * period + period * b
    <3> HIDE DEF k, b
    <3> QED BY <1>1, <1>2
  <2> QED BY <1>1, <1>2, <2>1 DEF Length
<1>4. k * period \in Int /\ Length \in Int /\ Epoch + clock \in Int
  BY <1>1, <1>2, Products, FirstType, EpochAssumption DEF TypeOK
<1> DEFINE u == k * period
<1>5. first_hptime' = Epoch + clock + (u + Length) /\ first_hptime = Epoch + clock + u
  BY <1>1, <1>3 DEF first_hptime
<1>6. u \in Int /\ clock \in Int /\ Epoch \in Int
  BY <1>4, EpochAssumption DEF TypeOK
<1> HIDE DEF u
<1>7. first_hptime' = first_hptime + Length
  BY <1>4, <1>5, <1>6
<1> QED BY <1>1, <1>7 DEF Length

\* The previous start time is known, whatever its error, once there is one.
LEMMA PreviousKnown ==
  ASSUME TypeOK, LinesOK, ClockOK, Undisturbed, records > 0,
         Energy(Excess, StartError) <= EnergyBound
  PROVE  prev_start_hptime_est > 0
<1>1. Abs(StartError) <= LateDrift /\ StartError \in Int /\ Excess \in Int
      /\ first_hptime \in Int /\ Length \in Nat
  BY FirstType, Amplitude
<1>2. -StartError <= Abs(StartError) /\ Abs(StartError) \in Int
  BY <1>1, AbsType
<1>3. clock >= -Lag /\ clock \in Int
  BY DEF ClockOK, Undisturbed, TypeOK
<1>4. (line - nsamp) * period >= Length
  <2> DEFINE k == line - nsamp
             b == num_samples_in_record
  <2>1. k \in Nat /\ b \in Nat /\ b <= k /\ Nominal \in Nat
    BY CountAssumption, NominalAssumption DEF LinesOK, TypeOK, Positive
  <2>2. Nominal * b <= Nominal * k /\ Nominal * k = k * Nominal
    BY <2>1, Factors
  <2> QED BY <2>2 DEF Length, Undisturbed
<1> DEFINE u == (line - nsamp) * period
<1>5. first_hptime = Epoch + clock + u /\ u >= Length /\ u \in Int
  <2>1. line - nsamp \in Int /\ period \in Int
    BY CountAssumption, FirstType DEF TypeOK, Positive
  <2> QED BY <1>4, <2>1, Products DEF first_hptime
<1>6. prev_start_hptime_est = StartError + first_hptime - Length
  BY <1>1 DEF StartError, TypeOK
<1> HIDE DEF u
<1> QED
  BY <1>1, <1>2, <1>3, <1>5, <1>6, LagType, EpochAssumption

\* The first record.
LEMMA FirstRecord ==
  ASSUME TypeOK, TypeOK', CurrentOK, FilterOK, Undisturbed, LastSample, ~disturbed',
         records = 0
  PROVE  FilterOK'
<1>1. Excess = 0 /\ prev_start_hptime_est = -1
  BY DEF FilterOK
<1> DEFINE c == Current - first_hptime
<1>2. c \in 0..Poll-1
  <2>1. c \in Offs(0)
    BY <1>1, CurrentOffs
  <2>2. Poll \in Int
    BY FilterAssumption DEF Positive
  <2> HIDE DEF c
  <2> QED BY <2>1, <2>2 DEF Offs, Positives
<1>3. prev_start_hptime_est' = Current /\ record_window_est' = record_window_est
  BY <1>1 DEF LastSample, Current
<1>4. /\ first_hptime' = first_hptime + Length /\ Length' = Length /\ records' = 1
      /\ first_hptime \in Int /\ Length \in Int
  BY NextRecord, FirstType
<1>5. Excess' = 0 /\ StartError' = c
  <2>1. Current \in Int
    BY <1>3 DEF TypeOK
  <2> HIDE DEF Current
  <2> QED BY <1>1, <1>3, <1>4, <2>1 DEF Excess, StartError
<1> HIDE DEF c
<1>6. EarlyDrift' = 0 /\ 2 * Correction * (records' - 1) = 0
  <2>1. Correction \in Int /\ records' - 1 = 0
    BY <1>4, CorrectionType DEF Positive
  <2>2. Correction * 1 * 0 = 0 /\ 2 * Correction * 0 = 0
    BY <2>1
  <2> QED BY <1>4, <2>1, <2>2 DEF EarlyDrift, Correction
<1>7. Energy(0, c) <= EnergyBound
  <2>1. /\ c \in Nat /\ Larger \in Nat /\ c <= Larger /\ Decay \in Nat /\ 1 <= Decay
    BY <1>2, LargerType, FilterAssumption DEF Positive
  <2>2. c * c <= Larger * Larger /\ Larger * Larger \in Nat
    BY <2>1, Factors, Backlog
  <2>3. 1 * (Larger * Larger) <= Decay * (Larger * Larger)
    BY <2>1, <2>2, Factors
  <2>4. Decay * (0 * 0) = 0 /\ Decay * (Larger * Larger) \in Nat /\ c * c \in Nat
    BY <2>1, <2>2, Backlog
  <2> QED BY <2>2, <2>3, <2>4 DEF Energy, Square, EnergyBound
<1>8. Abs(0) = 0
  BY DEF Abs
<1> QED
  BY <1>2, <1>4, <1>5, <1>6, <1>7, <1>8, FilterAssumption DEF FilterOK, Positive
\* The records after it.
LEMMA LaterRecord ==
  ASSUME TypeOK, TypeOK', LinesOK, ClockOK, CurrentOK, FilterOK, Undisturbed, LastSample,
         ~disturbed', records > 0
  PROVE  FilterOK'
<1> DEFINE w == Excess
           e == StartError
           c == Current - first_hptime
           h == (c - e - w) \div Decay
<1>1. /\ Energy(w, e) <= EnergyBound /\ w \in Int /\ e \in Int
      /\ 2 * EarlyDrift <= Poll =>
             /\ Abs(w) <= 2 * Correction * (records - 1)
             /\ e \in -EarlyDrift..Poll-1+EarlyDrift
  BY FirstType DEF FilterOK, TypeOK
<1>2. c \in Offs(w)
  BY CurrentOffs
<1>3. h \in Int /\ Energy(w + h, e + (w + h)) <= EnergyBound
  <2> HIDE DEF w, e, c
  <2>1. h = (c - e - w) \div Decay
    OBVIOUS
  <2> HIDE DEF h
  <2> QED BY <1>1, <1>2, <2>1, FilterStep
<1>4. prev_start_hptime_est > 0
  BY <1>1, PreviousKnown
<1>5. /\ record_window_est' = low_pass(record_window_est, Current - prev_start_hptime_est)
      /\ prev_start_hptime_est' = prev_start_hptime_est + record_window_est'
  BY <1>4 DEF LastSample, Current
<1>6. /\ first_hptime' = first_hptime + Length /\ Length' = Length
      /\ records' = records + 1 /\ first_hptime \in Int /\ Length \in Int
  BY NextRecord, FirstType
<1>7. Current \in Int
  <2>1. /\ hptime \in Int /\ dt_est_times(nsamp) \in Int
    BY Reading, Extrapolations DEF LastSample, TypeOK
  <2>2. n_start_hptime_est + 1 \in Positive
    BY DEF TypeOK, Positive
  <2>3. start_hptime_current + hptime - dt_est_times(nsamp) \in Int
    BY <2>1 DEF TypeOK
  <2> QED BY <2>2, <2>3, Quotients DEF Current
<1> HIDE DEF Current
<1>8. record_window_est' = record_window_est + h
  <2>1. (Current - prev_start_hptime_est) - record_window_est = c - e - w
    BY <1>6, <1>7 DEF Excess, StartError, TypeOK
  <2> HIDE DEF c, e, w
  <2> QED BY <1>5, <2>1 DEF low_pass
<1>9. Excess' = w + h /\ StartError' = e + (w + h)
  <2> HIDE DEF h
  <2> QED BY <1>3, <1>5, <1>6, <1>8 DEF Excess, StartError, TypeOK
<1>10. ASSUME 2 * EarlyDrift' <= Poll
       PROVE  /\ Abs(Excess') <= 2 * Correction * (records' - 1)
              /\ StartError' \in -EarlyDrift'..Poll-1+EarlyDrift'
  <2> DEFINE n == records
             x == Correction * n * (n - 1)
             d == 2 * Correction * (n - 1)
             y == Correction * (n + 1) * n
  <2>1. n \in Positive /\ records' - 1 = n
    BY <1>6 DEF TypeOK, Positive
  <2>2. /\ x \in Nat /\ d \in Nat
        /\ 2 * Correction * n = d + 2 * Correction
        /\ y = x + d + 2 * Correction
        /\ x + 2 * d <= 2 * y /\ x <= y
    BY <2>1, DriftStep
  <2>3. EarlyDrift = x /\ EarlyDrift' = y
    <3>1. (n + 1) - 1 = n
      BY <2>1 DEF Positive
    <3> QED BY <1>6, <3>1 DEF EarlyDrift, Correction
  <2> HIDE DEF w, e, c, x, d, y
  <2>4. Poll \in Nat /\ Correction \in Nat /\ Correction \in Positive
    BY FilterAssumption, CorrectionType DEF Positive
  <2>5. x + 2 * d <= Poll /\ 2 * x <= Poll
    BY <1>10, <2>2, <2>3, <2>4
  <2>6. Abs(w) <= d /\ e \in -x..Poll-1+x
    BY <1>1, <2>3, <2>5 DEF d
  <2>7. h = (c - e - w) \div Decay
    OBVIOUS
  <2> HIDE DEF h
  <2>8. Abs(w + h) <= d + 2 * Correction
    BY <1>1, <1>2, <2>2, <2>5, <2>6, <2>7, SmallStep
  <2>9. Abs(Excess') <= 2 * Correction * (records' - 1)
    BY <1>9, <2>1, <2>2, <2>8
  <2>10. e + (w + h) \in -y..Poll-1+y
    BY <1>1, <1>3, <2>2, <2>4, <2>6, <2>8 DEF Abs
  <2> QED BY <1>9, <2>3, <2>9, <2>10
<1>11. Energy(Excess', StartError') <= EnergyBound /\ records' # 0
  BY <1>3, <1>6, <1>9 DEF TypeOK
<1> HIDE DEF w, e, c, h
<1> QED
  BY <1>10, <1>11 DEF FilterOK

LEMMA FilterKept ==
  ASSUME TypeOK, TypeOK', IdleOK, LinesOK, ClockOK, CurrentOK, FilterOK, [Next]_vars
  PROVE  FilterOK'
<1>1. CASE TestValue
  BY <1>1 DEF TestValue, FilterOK, Undisturbed
<1>2. CASE CollectAndWrite
  <2>1. /\ record_window_est' = Length' /\ prev_start_hptime_est' = -1 /\ records' = 0
    BY <1>2 DEF CollectAndWrite, IdleOK, Length
  <2>2. Length' \in Int
    BY FirstType DEF Length
  <2> QED BY <2>1, <2>2 DEF FilterOK, Excess
<1>3. CASE Sample
  <2>1. /\ line' - nsamp' = line - nsamp /\ clock' = clock /\ period' = period
        /\ record_window_est' = record_window_est
        /\ prev_start_hptime_est' = prev_start_hptime_est /\ records' = records
    <3>1. line' = line + 1 /\ nsamp' = nsamp + 1 /\ nsamp \in Int /\ line \in Int
      BY <1>3, CountAssumption DEF Sample, ReadLine, TypeOK, Positive
    <3> QED BY <3>1, <1>3 DEF Sample, ReadLine
  <2>2. Excess' = Excess /\ StartError' = StartError
    BY <2>1, SameRecord
  <2>3. Undisturbed' => Undisturbed
    BY <1>3, <2>1 DEF Sample, Undisturbed
  <2> QED BY <2>1, <2>2, <2>3 DEF FilterOK, EarlyDrift
<1>4. CASE LastSample
  <2> SUFFICES ASSUME Undisturbed' PROVE FilterOK'
    BY DEF FilterOK
  <2>1. Undisturbed /\ ~disturbed'
    BY <1>4 DEF LastSample, ReadLine, Undisturbed
  <2>2. records = 0 \/ records > 0
    BY DEF TypeOK
  <2> QED BY <1>4, <2>1, <2>2, FirstRecord, LaterRecord
<1>5. CASE Accident
  BY <1>5 DEF Accident, FilterOK, Undisturbed
<1>6. CASE UNCHANGED vars
  <2>1. /\ line' - nsamp' = line - nsamp /\ clock' = clock /\ period' = period
        /\ record_window_est' = record_window_est
        /\ prev_start_hptime_est' = prev_start_hptime_est /\ records' = records
        /\ phase' = phase /\ disturbed' = disturbed
    BY <1>6 DEF vars, device, collect, history
  <2>2. Excess' = Excess /\ StartError' = StartError
    BY <2>1, SameRecord
  <2> QED BY <2>1, <2>2 DEF FilterOK, EarlyDrift, Undisturbed
<1> QED
  BY <1>1, <1>2, <1>3, <1>4, <1>5, <1>6 DEF Next, LoseLine, SetClock

\* The estimator's invariant, for any number of records, any accidents before it
\* collects and any delay of the first half of records.
THEOREM EstimatorInvariance == Spec => []EInv
<1>1. Init => EInv
  <2>1. 0 * Lag = 0 /\ MaxAccidents * 0 = 0
    BY LagType, BoundAssumption
  <2>2. ASSUME Init PROVE line \in Nat /\ nsamp = 0 /\ n_start_hptime_est = 0
    BY <2>2 DEF Init
  <2>3. Positives(0 - Half) = 0
    BY HalfType DEF Positives
  <2> QED
    BY <2>1, <2>2, <2>3
       DEF Init, EInv, IdleOK, LinesOK, ClockOK, CurrentOK, FilterOK, Undisturbed
<1>2. TypeOK /\ TypeOK' /\ EInv /\ [Next]_vars => EInv'
  BY IdleKept, LinesKept, ClockKept, CurrentKept, FilterKept DEF EInv
<1> QED
  BY <1>1, <1>2, TypeCorrect, PTL DEF Spec

\* A start time is that of its record's first sample, but for polling (OnTime):
\* within the polling interval and little more at first, and within a bound that
\* does not grow however long the connection lasts.
THEOREM OnTimeHolds == Spec => []OnTime
<1>1. TypeOK /\ EInv => OnTime
  <2> SUFFICES ASSUME TypeOK, EInv, nsamp = 0, records > 0, period = Nominal, ~disturbed
               PROVE  prev_start_hptime_est
                        - (Epoch + clock + (line - num_samples_in_record) * period)
                          \in -Drift..Poll + Drift
    BY DEF OnTime
  <2>1. Undisturbed
    BY DEF EInv, IdleOK, Undisturbed, TypeOK
  <2>2. /\ Energy(Excess, StartError) <= EnergyBound
        /\ 2 * EarlyDrift <= Poll => StartError \in -EarlyDrift..Poll-1+EarlyDrift
        /\ StartError \in Int /\ Excess \in Int /\ Poll \in Nat
    BY <2>1, FirstType, FilterAssumption DEF EInv, FilterOK, Positive
  <2>3. StartError \in -Drift..Poll + Drift
    <3>1. CASE 2 * EarlyDrift <= Poll
      <4>1. EarlyDrift \in Int
        <5>1. Correction * records * (records - 1) \in Nat
          BY DriftStep DEF TypeOK, Positive
        <5> QED BY <5>1 DEF EarlyDrift, Correction
      <4> QED BY <3>1, <4>1, <2>2 DEF Drift
    <3>2. CASE ~(2 * EarlyDrift <= Poll)
      <4>1. Abs(StartError) <= LateDrift /\ LateDrift \in Nat
        BY <2>2, Amplitude
      <4> QED BY <3>2, <4>1, <2>2 DEF Drift, Abs
    <3> QED BY <3>1, <3>2
  <2>4. (line - num_samples_in_record) * period = (line - nsamp) * period - Length
    <3>1. line \in Int /\ num_samples_in_record \in Int /\ Nominal \in Int
      BY CountAssumption, NominalAssumption DEF TypeOK, Positive
    <3> QED BY <3>1 DEF Length
  <2>5. StartError = prev_start_hptime_est
                       - (Epoch + clock + (line - num_samples_in_record) * period)
    <3> DEFINE u == (line - nsamp) * period
               v == (line - num_samples_in_record) * period
    <3>1. u \in Int /\ v = u - Length /\ first_hptime = Epoch + clock + u
      <4>1. line - nsamp \in Int /\ period \in Int
        BY CountAssumption, FirstType DEF TypeOK, Positive
      <4> QED BY <4>1, <2>4, Products DEF first_hptime
    <3>2. Length \in Int /\ Epoch \in Int /\ clock \in Int /\ prev_start_hptime_est \in Int
      BY FirstType, EpochAssumption DEF TypeOK
    <3> HIDE DEF u, v
    <3>3. StartError = prev_start_hptime_est - (Epoch + clock + v)
      BY <3>1, <3>2 DEF StartError
    <3> QED BY <3>3 DEF v
  <2> QED BY <2>3, <2>5
<1> QED
  BY <1>1, TypeCorrect, EstimatorInvariance, PTL

-----------------------------------------------------------------------------
(* Where records meet *)

\* The length of a record in the header is the one the estimator keeps.
LEMMA WholeLength ==
  ASSUME TypeOK
  PROVE  dt_est_times(num_samples_in_record) = record_window_est
<1> DEFINE b == num_samples_in_record
           r == record_window_est
<1>1. b \in Positive /\ b \in Int /\ r \in Int
  BY CountAssumption DEF TypeOK, Positive
<1>2. Rounded(0, b) = 0
  <2>1. /\ 2 * b \in Positive /\ (2 * b) * 0 <= b /\ b < (2 * b) * 0 + 2 * b
        /\ 2 * 0 + b = b
    BY <1>1 DEF Positive
  <2> HIDE DEF b
  <2>2. b \div (2 * b) \in 0..0
    BY <1>1, <2>1, QuotientRange
  <2> QED BY <2>1, <2>2 DEF Rounded
<1>3. Rounded(b * r + 0, b) = r + Rounded(0, b)
  BY <1>1, RoundedWhole
<1>4. b * r + 0 = r * b
  BY <1>1
<1> QED BY <1>1, <1>2, <1>3, <1>4 DEF dt_est_times

\* The error of the length, for a given energy.
LEMMA LengthError ==
  ASSUME NEW w \in Int, NEW e \in Int, Energy(w, e) <= EnergyBound
  PROVE  Abs(w) <= 4 * Larger
<1> DEFINE a == Abs(w)
           b == 4 * Larger
           D == Decay
<1>1. a \in Nat /\ Square(w) = a * a /\ b \in Nat /\ D \in Nat /\ D > 0
  BY AbsType, LargerType, FilterAssumption DEF Positive
<1>2. D * (b * b) = EnergyBound
  <2>1. D \in Int /\ Larger \in Int
    BY <1>1, LargerType DEF Positive
  <2> HIDE DEF D
  <2>2. D * (b * b) = 16 * (D * (Larger * Larger))
    BY <2>1
  <2> QED BY <2>2 DEF EnergyBound, D
<1>3. D * (a * a) <= D * (b * b)
  <2>1. D * (a * a) \in Int /\ Square(e) \in Nat /\ D * (b * b) \in Int
    BY <1>1, SquareType, Products
  <2> QED BY <2>1, <1>1, <1>2 DEF Energy
<1> HIDE DEF a, b, D
<1>4. ASSUME b < a PROVE FALSE
  <2>1. b * b + 1 <= a * a
    <3>1. (b + 1) * (b + 1) <= a * a
      BY <1>1, <1>4, Factors
    <3>2. (b + 1) * (b + 1) = b * b + 2 * b + 1 /\ b * b \in Nat /\ a * a \in Nat
      BY <1>1, Backlog
    <3> QED BY <3>1, <3>2, <1>1
  <2>2. D * (b * b + 1) <= D * (a * a)
    <3>1. b * b + 1 \in Nat /\ a * a \in Nat
      BY <1>1, Backlog
    <3> QED BY <2>1, <3>1, <1>1, Factors
  <2>3. D * (b * b + 1) = D * (b * b) + D /\ D * (b * b) \in Int /\ D * (a * a) \in Int
    BY <1>1, Products
  <2> QED BY <1>1, <1>3, <2>2, <2>3
<1> QED BY <1>1, <1>4 DEF a, b

\* The filter is slow: its errors at their largest, divided by its time
\* constant, are less than half a sample.
Slow == 2 * (LateDrift + 10 * Larger) <= Decay * Nominal

LEMMA SlowStep ==
  ASSUME Slow, NEW w \in Int, NEW e \in Int, NEW c \in Offs(w),
         Energy(w, e) <= EnergyBound, NEW h, h = (c - e - w) \div Decay
  PROVE  h \in Int /\ 2 * Abs(h) < Nominal
<1>1. /\ Decay \in Positive /\ Decay \in Nat /\ Nominal \in Nat /\ Larger \in Nat
      /\ Decay <= Larger /\ Poll <= Larger /\ Poll \in Nat
  BY FilterAssumption, NominalAssumption, LargerType DEF Positive
<1>2. c \in Int /\ Abs(w) <= 4 * Larger /\ Abs(e) <= LateDrift /\ LateDrift \in Nat
  BY <1>1, LengthError, Amplitude DEF Offs, Positives
<1> DEFINE n == c - e - w
<1>3. n \in Int /\ Abs(n) <= LateDrift + 9 * Larger
  BY <1>1, <1>2 DEF Offs, Positives, Abs
<1>4. h = n \div Decay
  OBVIOUS
<1> HIDE DEF n
<1>5. h \in Int /\ Decay * h <= n /\ n < Decay * h + Decay
  BY <1>1, <1>3, <1>4, Division
<1>6. Decay * Abs(h) < LateDrift + 10 * Larger
  <2> DEFINE p == Decay * h
  <2>1. p \in Int /\ p <= n /\ n < p + Decay
    BY <1>1, <1>5, Products
  <2>2. Decay * Abs(h) = p \/ Decay * Abs(h) = -p
    BY <1>1, <1>5 DEF Abs
  <2> HIDE DEF p
  <2>3. p <= LateDrift + 9 * Larger /\ -p < LateDrift + 10 * Larger
    BY <2>1, <1>1, <1>2, <1>3 DEF Abs
  <2>4. Larger > 0
    BY LargerType DEF Positive
  <2> QED BY <2>1, <2>2, <2>3, <2>4, <1>1, <1>2
<1>7. Abs(h) \in Nat
  BY <1>5, AbsType
<1> DEFINE a == Abs(h)
<1>8. ASSUME Nominal <= 2 * a PROVE FALSE
  <2> HIDE DEF a
  <2>1. Decay * Nominal <= Decay * (2 * a)
    BY <1>1, <1>7, <1>8, Factors DEF a
  <2>2. Decay * (2 * a) = 2 * (Decay * a) /\ Decay * a \in Int /\ Decay * Nominal \in Int
    BY <1>1, <1>7, Products DEF a
  <2> QED BY <2>1, <2>2, <1>1, <1>2, <1>6 DEF Slow, a
<1> QED BY <1>1, <1>5, <1>7, <1>8

\* A record of an undisturbed connection, be it the second or the millionth,
\* starts where the one before it ends by its own header, within half a sample:
\* polling alone makes no gap and no overlap (diff_end in collect_and_write).
THEOREM UndisturbedSeams ==
  ASSUME Slow
  PROVE  Spec => [][Undisturbed /\ ~disturbed' =>
                      (prev_start_hptime_est > 0
                         /\ prev_start_hptime_est' # prev_start_hptime_est =>
                           2 * Abs(prev_start_hptime_est'
                                   - (prev_start_hptime_est
                                        + dt_est_times(num_samples_in_record))) < Nominal)]_vars
<1>1. ASSUME TypeOK, EInv, [Next]_vars, Undisturbed, ~disturbed',
             prev_start_hptime_est > 0, prev_start_hptime_est' # prev_start_hptime_est
      PROVE  2 * Abs(prev_start_hptime_est'
                       - (prev_start_hptime_est + dt_est_times(num_samples_in_record))) < Nominal
  <2>1. LastSample
    BY <1>1 DEF Next, vars, collect, TestValue, CollectAndWrite, Sample, LoseLine, SetClock,
                Accident, Undisturbed
  <2> DEFINE w == Excess
             e == StartError
             c == Current - first_hptime
             h == (c - e - w) \div Decay
  <2>2. Energy(w, e) <= EnergyBound /\ w \in Int /\ e \in Int
    BY <1>1, FirstType DEF EInv, FilterOK
  <2>3. c \in Offs(w)
    BY <1>1, <2>1, CurrentOffs DEF EInv
  <2>4. h \in Int /\ 2 * Abs(h) < Nominal
    <3> HIDE DEF w, e, c
    <3>1. h = (c - e - w) \div Decay
      OBVIOUS
    <3> HIDE DEF h
    <3> QED BY <2>2, <2>3, <3>1, SlowStep
  <2>5. /\ record_window_est' = low_pass(record_window_est, Current - prev_start_hptime_est)
        /\ prev_start_hptime_est' = prev_start_hptime_est + record_window_est'
    BY <1>1, <2>1 DEF LastSample, Current
  <2>6. Current \in Int
    <3>1. hptime \in Int /\ dt_est_times(nsamp) \in Int
      BY <1>1, <2>1, Reading, Extrapolations DEF LastSample, TypeOK
    <3>2. n_start_hptime_est + 1 \in Positive
      BY <1>1 DEF TypeOK, Positive
    <3>3. start_hptime_current + hptime - dt_est_times(nsamp) \in Int
      BY <1>1, <3>1 DEF TypeOK
    <3> QED BY <3>2, <3>3, Quotients DEF Current
  <2> HIDE DEF Current
  <2>7. record_window_est' = record_window_est + h
    <3>1. (Current - prev_start_hptime_est) - record_window_est = c - e - w
      BY <1>1, <2>6, FirstType DEF Excess, StartError, TypeOK
    <3> HIDE DEF c, e, w
    <3> QED BY <2>5, <3>1 DEF low_pass
  <2>8. dt_est_times(num_samples_in_record) = record_window_est
    BY <1>1, WholeLength
  <2> HIDE DEF h
  <2>9. prev_start_hptime_est' - (prev_start_hptime_est + dt_est_times(num_samples_in_record))
          = h
    BY <1>1, <2>4, <2>5, <2>7, <2>8 DEF TypeOK
  <2> QED BY <2>4, <2>9
<1> QED
  BY <1>1, TypeCorrect, EstimatorInvariance, PTL DEF Spec
=============================================================================
