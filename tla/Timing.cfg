\* The real test of twenty values, and records of six samples.
CONSTANTS
    Periods <- AllPeriods
    Expected <- SeismometerPeriods
    Nominal = 49920
    NUM_DATA_TEST = 20
    Poll <- SleepTime
    Epoch = 100000000
    num_samples_in_record = 6
    Decay = 1200
    Backlogs = {0, 10, 11}
    Delays <- SomeDelays
    Steps <- SomeSteps
    MaxAccidents = 2
    MaxRecords = 3
SPECIFICATION Spec
INVARIANTS
    TypeOK
    RateTold
    OnTime
PROPERTIES
    SeamsTight
CHECK_DEADLOCK FALSE
