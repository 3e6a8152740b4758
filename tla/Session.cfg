\* A seismometer behind the second of two ports, silent or verbose, with every
\* combination of the two settings; three descriptors, so that they can run out.
CONSTANTS
    avail_ports <- TwoPorts
    Seismometers = {"ttyACM0"}
    MaxFds = 3
    Verbosities = {0, 1}
    Raw = Raw
    Zero = Zero
    Gone = Gone
SPECIFICATION FairSpec
INVARIANTS
    TypeOK
    IInv
    NoLeak
    AttributesRestored
    CollectsFromSeismometer
PROPERTIES
    ReconnectsWithoutSettings
