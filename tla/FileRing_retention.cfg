\* An undisturbed program with two records to a file and a ring of four files.
CONSTANTS
    Sizes = {4}
    num_records_in_file = 2
    MaxTime = 12
    ClockSteps = FALSE
    Events = {}
    NoFile = NoFile
SPECIFICATION Spec
PROPERTIES
    EvictsOnlyWhenFull
