\* The clock may be stepped at any time.
CONSTANTS
    Sizes = {2, 3}
    num_records_in_file = 2
    MaxTime = 3
    ClockSteps = TRUE
    Events = {}
    NoFile = NoFile
SPECIFICATION FairSpec
PROPERTIES
    TurnsOver
    StartedIsPublished
