\* A program that is stopped and, once restarted, stopped again at once.
CONSTANTS
    Sizes = {2}
    num_records_in_file = 1
    MaxTime = 6
    ClockSteps = FALSE
    Events = {"signal", "early"}
    NoFile = NoFile
SPECIFICATION Spec
INVARIANTS
    NeverOverfull
