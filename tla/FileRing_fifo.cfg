\* No disturbance; rings whose size is and is not a multiple of the number of
\* records in a file, each filled and turned over.
CONSTANTS
    Sizes = {1, 2, 3, 4, 6}
    num_records_in_file = 2
    MaxTime = 18
    ClockSteps = FALSE
    Events = {}
    NoFile = NoFile
SPECIFICATION Spec
PROPERTIES
    ImplementsRollingBuffer
