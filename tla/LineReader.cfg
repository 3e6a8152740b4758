\* Three lines, sent for ever, through a queue of five characters.
CONSTANTS
    Stream <- ThreeLines
    MaxBuffer = 5
    MAX_LINE_DATA = 4
    NUM_DATA_TEST = 2
    TIMEOUT_SMALL = 2
    TIMEOUT_LARGE = 3
    Accidents = {"overflow", "hangup"}
    MaxLost = 2
SPECIFICATION FairSpec
INVARIANTS
    TypeOK
    RecordedWhole
    NothingSkipped
    OneInvented
PROPERTIES
    Returns
