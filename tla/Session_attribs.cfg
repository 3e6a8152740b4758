\* In verbose mode. A seismometer behind the second of two ports, with every
\* combination of the two settings.
CONSTANTS
    avail_ports <- TwoPorts
    Seismometers = {"ttyACM0"}
    MaxFds = 3
    Verbosities = {1}
    Raw = Raw
    Zero = Zero
    Gone = Gone
SPECIFICATION Spec
INVARIANTS
    AttributesUntouched
