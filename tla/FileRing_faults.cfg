\* Two records to a file, rings of two and three files, every disturbance, and
\* up to two kinds of them in a behaviour.
CONSTANTS
    Sizes = {2, 3}
    num_records_in_file = 2
    MaxTime = 6
    MaxKinds = 2
    ClockSteps = FALSE
    Events <- AllDisturbances
    NoFile = NoFile
SPECIFICATION Spec
CONSTRAINT FewKinds
INVARIANTS
    TypeOK
    IInv
    TrackedFiles
    BoundedBuffer
    IntactFiles
    RestartTransparent
