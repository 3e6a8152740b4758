------------------------------- MODULE Timing -------------------------------
(***************************************************************************)
(* The times of samples. A line has no time of its own: read_next_value    *)
(* looks at the clock when it has got the first character. From such times *)
(* find_device tells whether a port is a seismometer's, by its sample      *)
(* rate, and collect_and_write estimates when each record starts.          *)
(*                                                                         *)
(* The device sends line k, whole, at period * k. Times are whole          *)
(* microseconds (hptime_t), and the filtered length of a record, a long    *)
(* double, is kept to the microsecond.                                     *)
(***************************************************************************)
EXTENDS Integers

CONSTANTS
    Periods,                \* of the devices that may be connected
    Expected,               \* 1/SAMP_PER_SEC_20, _40 and _80
    Nominal,                \* the one of them that the properties file names
    NUM_DATA_TEST,
    Poll,                   \* usleep(10000) between two looks at the port
    num_samples_in_record,
    Decay,                  \* 1 / decay_consant
    Epoch,                  \* the clock when the port is opened
    Backlogs,               \* lines that wait then
    Delays, Steps,          \* of the program and of the clock
    MaxAccidents,           \* bound: accidents in the test, and after it
    MaxRecords              \* bound: records of a connection

Positive == Nat \ {0}

ASSUME PeriodAssumption == Periods \subseteq Positive /\ Expected \subseteq Positive
ASSUME NominalAssumption == Nominal \in Positive
ASSUME CountAssumption ==
    NUM_DATA_TEST \in Positive /\ num_samples_in_record \in Positive
\* A minute's samples.
ASSUME FilterAssumption == Poll \in Positive /\ Decay \in Positive /\ Decay >= 60
ASSUME BacklogAssumption == Backlogs \subseteq Nat
ASSUME AccidentAssumption == Delays \subseteq Positive /\ Steps \subseteq Int
ASSUME BoundAssumption == MaxAccidents \in Nat /\ MaxRecords \in Nat

VARIABLES
    \* the device and the clock
    period,
    line,           \* the next line to be read
    late,           \* how long after it was sent the last line was read
    clock,          \* by how much the clock has been set
    \* find_device
    phase,          \* "test", "accepted", "rejected", "collect"
    n_dt, n_dt_sum, dt_sum, last_hptime,
    \* collect_and_write
    nsamp, start_hptime_current, n_start_hptime_est,
    record_window_est, prev_start_hptime_est,
    \* history
    records,
    accidents,
    disturbed,      \* a time that counted was not that of its line
    shaken          \* how far accidents have moved the times of a connection

device  == <<period, line, late, clock>>
test    == <<n_dt, n_dt_sum, dt_sum, last_hptime>>
collect == <<nsamp, start_hptime_current, n_start_hptime_est,
             record_window_est, prev_start_hptime_est>>
history == <<records, accidents, disturbed, shaken>>
vars    == <<device, phase, test, collect, history>>

TypeOK ==
    /\ period \in Periods /\ line \in Nat /\ late \in Nat /\ clock \in Int
    /\ phase \in {"test", "accepted", "rejected", "collect"}
    /\ n_dt \in 0..NUM_DATA_TEST /\ n_dt_sum \in 0..n_dt
    /\ dt_sum \in Int /\ last_hptime \in Int
    /\ nsamp \in 0..num_samples_in_record-1 /\ n_start_hptime_est \in 0..nsamp
    /\ start_hptime_current \in Int
    /\ record_window_est \in Int /\ prev_start_hptime_est \in Int
    /\ records \in 0..MaxRecords /\ accidents \in 0..MaxAccidents
    /\ disturbed \in BOOLEAN /\ shaken \in Nat

\* dt_est * k; the estimated length of a record is dt_est * num_samples_in_record.
\* Conversion to hptime_t of the sum with 0.5 is rounding.
Rounded(a, b) == (2 * a + b) \div (2 * b)

dt_est_times(k) == Rounded(record_window_est * k, num_samples_in_record)

\* find_device has opened the port. The first line waits, and others behind it.
Init ==
    /\ period \in Periods /\ clock = 0
    /\ line = 0 /\ \E b \in Backlogs : late = b * period
    /\ phase = "test"
    /\ n_dt = 0 /\ n_dt_sum = 0 /\ dt_sum = 0 /\ last_hptime = -1
    /\ nsamp = 0 /\ start_hptime_current = 0 /\ n_start_hptime_est = 0
    /\ record_window_est = 0 /\ prev_start_hptime_est = -1
    /\ records = 0 /\ accidents = 0 /\ disturbed = FALSE /\ shaken = 0

-----------------------------------------------------------------------------
(* read_next_value *)

\* Mutant of Lateness: nothing is waited for.
Lateness_unwaited == IF line = 0 THEN late ELSE late - period

\* How late the next line is read: it waits already, or the port is looked at
\* again and again until it has come.
Lateness ==
    IF line = 0 THEN late
    ELSE IF late >= period THEN late - period ELSE (late - period) % Poll

\* The program may be kept from reading: it writes a file, runs a script, or
\* others run.
ReadLine ==
    /\ line' = line + 1
    /\ \/ late' = Lateness /\ UNCHANGED accidents
       \/ /\ accidents < MaxAccidents /\ accidents' = accidents + 1
          /\ \E d \in Delays : late' = Lateness + d
    /\ UNCHANGED <<period, clock>>

\* A line that is read late by l delays a line that counts, k lines on, if any.
TooLate(l, k) == l >= Poll + period * (IF k > 0 THEN k ELSE 0)

\* current_utc_hptime, for the line being read.
hptime == Epoch + clock + line * period + late'

-----------------------------------------------------------------------------
(* find_device *)

DT_MIN_EXPECTED == CHOOSE e \in Expected : \A f \in Expected : e <= f

Abs(n) == IF n < 0 THEN -n ELSE n

\* Mutant of rate_is_expected: twice the tolerance.
rate_is_expected_10(sum, n) == sum > 0 /\ \E e \in Expected : 10 * Abs(n * e - sum) < sum

\* fabs(n / sum - 1/e) * e < SAMP_RATE_TOLERANCE, which is 5%. A quotient by 0
\* is infinite, or not a number.
rate_is_expected(sum, n) == sum > 0 /\ \E e \in Expected : 20 * Abs(n * e - sum) < sum

\* Mutant of Accumulated: all the differences of times are.
Accumulated_all(k) == k > 0

Accumulated(k) == k > NUM_DATA_TEST \div 2 /\ last_hptime > 0

\* The n_dt-th value of the test and, after the last one, its outcome.
TestValue ==
    /\ phase = "test"
    /\ ReadLine
    /\ LET dt == hptime - last_hptime
       IN  IF n_dt < 1 /\ 10 * dt < DT_MIN_EXPECTED
           THEN UNCHANGED <<phase, test>>
           ELSE /\ IF Accumulated(n_dt)
                   THEN dt_sum' = dt_sum + dt /\ n_dt_sum' = n_dt_sum + 1
                   ELSE UNCHANGED <<dt_sum, n_dt_sum>>
                /\ n_dt' = n_dt + 1
                /\ last_hptime' = hptime
                /\ phase' = IF n_dt' < NUM_DATA_TEST THEN "test"
                            ELSE IF rate_is_expected(dt_sum', n_dt_sum') THEN "accepted"
                            ELSE "rejected"
    /\ disturbed' = (disturbed \/ TooLate(late', NUM_DATA_TEST \div 2 - n_dt))
    /\ UNCHANGED <<collect, records, shaken>>

-----------------------------------------------------------------------------
(* collect_and_write *)

Half == num_samples_in_record \div 2

\* It starts with the length that a record has at the nominal rate.
CollectAndWrite ==
    /\ phase = "accepted" /\ phase' = "collect"
    /\ record_window_est' = Nominal * num_samples_in_record
    /\ accidents' = 0 /\ disturbed' = TooLate(late, Half + 1) /\ shaken' = 2 * late
    /\ UNCHANGED <<device, test, nsamp, start_hptime_current, n_start_hptime_est,
                   prev_start_hptime_est, records>>

\* Mutant of Counts: "use all samples, may give better start time estimate".
Counts_all(k) == TRUE

\* Writing the previous record may delay the samples of the first half.
Counts(k) == k >= Half

Sample ==
    /\ phase = "collect" /\ records < MaxRecords
    /\ nsamp < num_samples_in_record - 1
    /\ ReadLine
    /\ nsamp' = nsamp + 1
    /\ IF Counts(nsamp)
       THEN /\ start_hptime_current' = start_hptime_current + hptime - dt_est_times(nsamp)
            /\ n_start_hptime_est' = n_start_hptime_est + 1
       ELSE UNCHANGED <<start_hptime_current, n_start_hptime_est>>
    /\ disturbed' = (disturbed \/ TooLate(late', Half - nsamp))
    /\ shaken' = shaken + 2 * (late' - Lateness)
    /\ UNCHANGED <<phase, test, record_window_est, prev_start_hptime_est, records>>

\* Mutant of low_pass: the present length is not filtered.
low_pass_not(window, current) == current

low_pass(window, current) == window + (current - window) \div Decay

\* The last sample of a record, and the start time that is written with it.
LastSample ==
    /\ phase = "collect" /\ records < MaxRecords
    /\ nsamp = num_samples_in_record - 1
    /\ ReadLine
    /\ LET current == (start_hptime_current + hptime - dt_est_times(nsamp))
                        \div (n_start_hptime_est + 1)
       IN  IF prev_start_hptime_est > 0
           THEN /\ record_window_est' =
                     low_pass(record_window_est, current - prev_start_hptime_est)
                /\ prev_start_hptime_est' = prev_start_hptime_est + record_window_est'
           ELSE prev_start_hptime_est' = current /\ UNCHANGED record_window_est
    /\ nsamp' = 0 /\ start_hptime_current' = 0 /\ n_start_hptime_est' = 0
    /\ records' = records + 1
    /\ disturbed' = (disturbed \/ TooLate(late', Half - nsamp))
    /\ shaken' = shaken + 2 * (late' - Lateness)
    /\ UNCHANGED <<phase, test>>

-----------------------------------------------------------------------------
(* Accidents that are not the program's *)

Accident ==
    /\ phase \in {"test", "collect"} /\ records < MaxRecords
    /\ accidents < MaxAccidents /\ accidents' = accidents + 1
    /\ disturbed' = TRUE
    /\ UNCHANGED <<period, phase, test, collect, records>>

\* An accident that moves the times of the lines to come by t. (A delay moves
\* them twice, there and back.)
Shakes(t) == shaken' = IF phase = "collect" THEN shaken + t ELSE shaken

\* The input queue has no room for a line.
LoseLine ==
    /\ Accident /\ line' = line + 1 /\ Shakes(period)
    /\ UNCHANGED <<late, clock>>

SetClock ==
    /\ Accident /\ \E s \in Steps : clock' = clock + s /\ Shakes(Abs(s))
    /\ UNCHANGED <<line, late>>

Next == TestValue \/ CollectAndWrite \/ Sample \/ LastSample \/ LoseLine \/ SetClock

Spec == Init /\ [][Next]_vars

-----------------------------------------------------------------------------
(* Properties *)

\* The differences that find_device adds up, and their sum by the device.
Measured == (NUM_DATA_TEST - NUM_DATA_TEST \div 2 - 1) * period

\* Polling alone cannot take a seismometer's rate out of the tolerance. This
\* fails at 80 samples per second, where the test may go either way.
Tellable == 21 * Poll <= Measured

\* Nor bring the rate of something else within it.
Foreign ==
    \A e \in Expected :
        20 * (Abs((NUM_DATA_TEST - NUM_DATA_TEST \div 2 - 1) * e - Measured) - Poll)
            >= Measured + Poll

\* A port is told for what it is by the rate of its lines, although the program
\* polls, lines wait when it is opened and some are read late, as long as it
\* has caught up when half of the test is over (find_device 420-491).
RateTold ==
    /\ phase = "rejected" /\ ~disturbed => period \notin Expected \/ ~Tellable
    /\ phase = "accepted" /\ ~disturbed => ~Foreign

\* Whatever polling makes of it, the filter errs little during the first records
\* of a connection, and after any number of them within a bound of its own.
EarlyDrift == (Poll \div Decay + 1) * records * (records - 1)

Root == CHOOSE r \in 1..Decay : r * r >= Decay /\ \A q \in 1..r-1 : q * q < Decay

LateDrift == 4 * Root * (IF Poll < Decay THEN Decay ELSE Poll)

Drift == IF 2 * EarlyDrift <= Poll THEN EarlyDrift ELSE LateDrift

\* 1970 is farther away than two samples from each other, than the estimate
\* from the clock, and than the clock is set back.
ASSUME EpochAssumption ==
    /\ Epoch \in Nat /\ DT_MIN_EXPECTED \in Positive /\ DT_MIN_EXPECTED < Epoch
    /\ LateDrift < Epoch /\ \A s \in Steps : LateDrift < Epoch + MaxAccidents * s

\* The start time of a record is that of its first sample, but for the polling,
\* however late the lines of the first half of records are read, if those of
\* the second half are in time: "use only later samples in record since writing
\* previous record may delay reading of first samples of this record".
OnTime ==
    nsamp = 0 /\ records > 0 /\ period = Nominal /\ ~disturbed =>
        prev_start_hptime_est
            - (Epoch + clock + (line - num_samples_in_record) * period) \in -Drift..Poll + Drift

\* The error of a record's start over the time constant of the filter: what
\* accidents have made of it, the device's own rate, which the filter swings
\* about before it settles, and the polling.
SeamBound(t) ==
    1 + (t + Root * num_samples_in_record * Abs(period - Nominal) + LateDrift) \div Decay

\* A record starts where the one before it ends by its own header, but for 1/1200
\* of all delays, lost lines and steps of the clock of the connection: up to half
\* a minute of them makes no gap or overlap of half a sample (diff_end in
\* collect_and_write). A larger step, as the first of a computer without a clock,
\* is seen in the data; the code has nothing against it.
SeamsTight ==
    [][prev_start_hptime_est > 0 /\ prev_start_hptime_est' # prev_start_hptime_est =>
         Abs(prev_start_hptime_est'
               - (prev_start_hptime_est + dt_est_times(num_samples_in_record)))
           <= SeamBound(shaken')]_vars
=============================================================================
