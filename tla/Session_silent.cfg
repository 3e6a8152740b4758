\* Without -v.  A seismometer behind the second of two ports, with every
\* combination of the two settings.
CONSTANTS
    avail_ports <- TwoPorts
    Seismometers = {"ttyACM0"}
    MaxFds = 3
    Verbosities = {0}
    Raw = Raw
    Zero = Zero
    Gone = Gone
SPECIFICATION FairSpec
PROPERTIES
    Reconnects
