------------------------------ MODULE Session ------------------------------
(***************************************************************************)
(* The connection of mini_logger_writer to the seismometer: find_device    *)
(* tries the serial ports one after the other, main sends the sample rate  *)
(* and gain, reads until an error, disconnects and searches again; a       *)
(* signal disconnects and ends the program. What matters is which file     *)
(* descriptors are open and what becomes of the terminal attributes of the *)
(* ports, which find_device changes, and which outlive the program.        *)
(*                                                                         *)
(* The attributes of a port are its name (its own, as they were before the *)
(* program touched it), Raw (as set_interface_attribs leaves them) or Zero *)
(* (all zero, as the never written termios_orig is).                       *)
(***************************************************************************)
EXTENDS Integers, Sequences, FiniteSets

CONSTANTS
    avail_ports,    \* the ports in the order in which they are tried
    Seismometers,   \* those with a seismometer behind them
    MaxFds,         \* bound: descriptors the process may hold
    Verbosities,    \* values of the -v count
    Raw, Zero,
    Gone            \* where a descriptor of an unplugged port leads

Ports == {avail_ports[i] : i \in 1..Len(avail_ports)}

ASSUME PortsAssumption ==
    /\ avail_ports \in Seq(STRING) /\ Len(avail_ports) > 0
    /\ Seismometers \subseteq Ports
    /\ Raw \notin Ports /\ Zero \notin Ports /\ Raw # Zero /\ Gone \notin Ports
ASSUME FdsAssumption == MaxFds \in Nat \ {0}
ASSUME VerboseAssumption == Verbosities \subseteq Nat

VARIABLES
    pc,
    \* settings: the -v count and two properties
    verbose, do_settings_sep064, allow_set_interface_attribs,
    \* memory of the program
    n,              \* index of the port being tried
    fd_port,        \* a descriptor, or -1
    termios_orig,   \* the attributes saved last
    \* the operating system
    fds,            \* open descriptors: descriptor -> port, or Gone
    attrs,          \* port -> its attributes
    present,        \* ports that can be opened now
    \* history
    lapses          \* what has gone wrong: see Lapses

settings == <<verbose, do_settings_sep064, allow_set_interface_attribs>>
vars == <<pc, settings, n, fd_port, termios_orig, fds, attrs, present, lapses>>

Lapses == {"settings",   \* main gave up a connection without closing it
           "window"}     \* a signal came between open and tcgetattr

Free == (0..MaxFds-1) \ DOMAIN fds

Lowest(S) == CHOOSE x \in S : \A y \in S : x <= y

Opens(port) == [d \in DOMAIN fds \cup {Lowest(Free)} |->
                  IF d \in DOMAIN fds THEN fds[d] ELSE port]

Closes(fd) == [d \in DOMAIN fds \ {fd} |-> fds[d]]

CanOpen(port) == port \in present /\ Free # {}

TypeOK ==
    /\ pc \in {"off", "crashed", "scan", "try", "close", "reopen", "attribs", "probe",
               "settings", "collect", "disconnect"}
    /\ verbose \in Verbosities
    /\ do_settings_sep064 \in BOOLEAN /\ allow_set_interface_attribs \in BOOLEAN
    /\ n \in 1..Len(avail_ports)+1
    /\ fd_port \in -1..MaxFds-1
    /\ termios_orig \in Ports \cup {Raw, Zero}
    /\ DOMAIN fds \subseteq 0..MaxFds-1 /\ fds \in [DOMAIN fds -> Ports \cup {Gone}]
    /\ attrs \in [Ports -> Ports \cup {Raw, Zero}]
    /\ present \subseteq Ports
    /\ lapses \subseteq Lapses

Init ==
    /\ pc = "off"
    /\ verbose \in Verbosities
    /\ do_settings_sep064 \in BOOLEAN
    /\ allow_set_interface_attribs \in BOOLEAN
    /\ n = 1 /\ fd_port = -1 /\ termios_orig = Zero
    /\ fds = [d \in {} |-> Gone]
    /\ attrs = [p \in Ports |-> p]
    /\ present = Ports
    /\ lapses = {}

-----------------------------------------------------------------------------
Start ==
    /\ pc \in {"off", "crashed"} /\ pc' = "scan"
    /\ n' = 1 /\ fd_port' = -1 /\ termios_orig' = Zero
    /\ UNCHANGED <<settings, fds, attrs, present, lapses>>

\* A new call of find_device: the ports are listed, the hinted one first. While
\* it is read the directory takes a descriptor.
Scan ==
    /\ pc = "scan" /\ pc' = "try"
    /\ Free # {}
    /\ n' = 1
    /\ UNCHANGED <<settings, fd_port, termios_orig, fds, attrs, present, lapses>>

\* The result of opendir is not looked at: when no descriptor is left, readdir
\* is called with a null pointer.
ScanCrashes ==
    /\ pc = "scan" /\ pc' = "crashed"
    /\ Free = {}
    /\ fds' = [d \in {} |-> Gone]
    /\ UNCHANGED <<settings, n, fd_port, termios_orig, attrs, present, lapses>>

OpenPort ==
    /\ pc = "try" /\ n <= Len(avail_ports)
    /\ CanOpen(avail_ports[n])
    /\ pc' = "close"
    /\ fd_port' = Lowest(Free) /\ fds' = Opens(avail_ports[n])
    /\ UNCHANGED <<settings, n, termios_orig, attrs, present, lapses>>

\* Mutant of ClosePort: the port is not closed before it is opened again.
CloseForgotten ==
    /\ pc = "close" /\ pc' = "reopen"
    /\ fd_port' = -1
    /\ UNCHANGED <<settings, n, termios_orig, fds, attrs, present, lapses>>

\* "Close and re-open port as this may help re-set port hardware".
ClosePort ==
    /\ pc = "close" /\ pc' = "reopen"
    /\ fds' = Closes(fd_port) /\ fd_port' = -1
    /\ UNCHANGED <<settings, n, termios_orig, attrs, present, lapses>>

ReopenPort ==
    /\ pc = "reopen" /\ CanOpen(avail_ports[n])
    /\ pc' = IF allow_set_interface_attribs THEN "attribs" ELSE "probe"
    /\ fd_port' = Lowest(Free) /\ fds' = Opens(avail_ports[n])
    /\ UNCHANGED <<settings, n, termios_orig, attrs, present, lapses>>

\* Mutant of OpenFails: the failing branch and the loop both move on.
OpenFailsTwice ==
    /\ \/ pc = "try" /\ n <= Len(avail_ports)
       \/ pc = "reopen"
    /\ ~CanOpen(avail_ports[n])
    /\ pc' = "try" /\ n' = n + 2 /\ fd_port' = -1
    /\ UNCHANGED <<settings, termios_orig, fds, attrs, present, lapses>>

OpenFails ==
    /\ \/ pc = "try" /\ n <= Len(avail_ports)
       \/ pc = "reopen"
    /\ ~CanOpen(avail_ports[n])
    /\ pc' = "try" /\ n' = n + 1 /\ fd_port' = -1
    /\ UNCHANGED <<settings, termios_orig, fds, attrs, present, lapses>>

Connected == fd_port \in DOMAIN fds /\ fds[fd_port] # Gone

\* set_interface_attribs; it fails, and leaves everything as it was, on a port
\* that has been unplugged.
SetAttribs ==
    /\ pc = "attribs" /\ pc' = "probe"
    /\ IF Connected
       THEN /\ termios_orig' = attrs[avail_ports[n]]
            /\ attrs' = [attrs EXCEPT ![avail_ports[n]] = Raw]
       ELSE UNCHANGED <<termios_orig, attrs>>
    /\ UNCHANGED <<settings, n, fd_port, fds, present, lapses>>

\* Mutant of Reset: the attributes stay as set_interface_attribs left them.
ResetNothing == attrs

\* The attributes after reset_interface_attribs(fd_port, &termios_orig), which
\* fails without a port.
Reset == IF Connected THEN [attrs EXCEPT ![fds[fd_port]] = termios_orig] ELSE attrs

\* Twenty values have come at one of the expected rates. main goes on to the
\* settings, if they are asked for, and to collect_and_write.
Found == IF do_settings_sep064 THEN "settings" ELSE "collect"

ProbeSucceeds ==
    /\ pc = "probe" /\ pc' = Found
    /\ Connected /\ fds[fd_port] \in Seismometers
    /\ UNCHANGED <<settings, n, fd_port, termios_orig, fds, attrs, present, lapses>>

\* Mutant of ProbeFails: the rejected port is not closed.
ProbeKeepsOpen ==
    /\ pc = "probe" /\ pc' = "try"
    /\ attrs' = IF allow_set_interface_attribs THEN Reset ELSE attrs
    /\ fd_port' = -1
    /\ n' = n + 1
    /\ UNCHANGED <<settings, termios_orig, fds, present, lapses>>

\* A read times out, a value is out of range or the rate is not one of the
\* expected: also of a seismometer, whose lines may come late or in bursts.
ProbeFails ==
    /\ pc = "probe" /\ pc' = "try"
    /\ attrs' = IF allow_set_interface_attribs THEN Reset ELSE attrs
    /\ fds' = Closes(fd_port) /\ fd_port' = -1
    /\ n' = n + 1
    /\ UNCHANGED <<settings, termios_orig, present, lapses>>

\* Mutant of SearchFails: verbose mode does not try again either.
SearchGivesUp ==
    /\ pc = "try" /\ n > Len(avail_ports)
    /\ pc' = Found
    /\ UNCHANGED <<settings, n, fd_port, termios_orig, fds, attrs, present, lapses>>

\* No port is left. find_device_and_connect tries again only if verbose is
\* set: otherwise it returns as though a device had been found.
SearchFails ==
    /\ pc = "try" /\ n > Len(avail_ports)
    /\ pc' = IF verbose > 0 THEN "scan" ELSE Found
    /\ UNCHANGED <<settings, n, fd_port, termios_orig, fds, attrs, present, lapses>>

\* set_seo064_sample_rate_and_gain gets verbose for its timeout: it fails at
\* once when verbose is 0, and otherwise unless both writes succeed at once.
ApplySettings ==
    /\ pc = "settings" /\ pc' = "collect"
    /\ verbose > 0 /\ Connected
    /\ UNCHANGED <<settings, n, fd_port, termios_orig, fds, attrs, present, lapses>>

\* main continues with the next search.
SettingsFail ==
    /\ pc = "settings" /\ pc' = "scan"
    /\ lapses' = lapses \cup {"settings"}
    /\ UNCHANGED <<settings, n, fd_port, termios_orig, fds, attrs, present>>

ReadError ==
    /\ pc = "collect" /\ pc' = "disconnect"
    /\ UNCHANGED <<settings, n, fd_port, termios_orig, fds, attrs, present, lapses>>

\* Mutant of Disconnect: the port is not closed.
DisconnectKeepsOpen ==
    /\ pc = "disconnect" /\ pc' = "scan"
    /\ attrs' = Reset
    /\ UNCHANGED <<settings, n, fd_port, termios_orig, fds, present, lapses>>

\* disconnect resets the attributes whether or not they have been set, and
\* leaves fd_port as it is.
Disconnect ==
    /\ pc = "disconnect" /\ pc' = "scan"
    /\ attrs' = Reset /\ fds' = Closes(fd_port)
    /\ UNCHANGED <<settings, n, fd_port, termios_orig, present, lapses>>

\* term_handler disconnects and exits, which closes what is still open.
TermSignal ==
    /\ pc \notin {"off", "crashed"} /\ pc' = "off"
    /\ attrs' = Reset
    /\ fds' = [d \in {} |-> Gone]
    /\ lapses' = IF pc \in {"close", "attribs"} THEN lapses \cup {"window"} ELSE lapses
    /\ UNCHANGED <<settings, n, fd_port, termios_orig, present>>

\* Ports come and go. The attributes of a port that is unplugged go with it.
Unplug(p) ==
    /\ p \in present /\ present' = present \ {p}
    /\ attrs' = [attrs EXCEPT ![p] = p]
    /\ fds' = [d \in DOMAIN fds |-> IF fds[d] = p THEN Gone ELSE fds[d]]
    /\ UNCHANGED <<pc, settings, n, fd_port, termios_orig, lapses>>

Plug(p) ==
    /\ p \notin present /\ present' = present \cup {p}
    /\ UNCHANGED <<pc, settings, n, fd_port, termios_orig, fds, attrs, lapses>>

-----------------------------------------------------------------------------
FindDevice ==
    \/ Scan \/ ScanCrashes \/ OpenPort \/ ClosePort \/ ReopenPort \/ OpenFails
    \/ SetAttribs \/ ProbeSucceeds \/ ProbeFails \/ SearchFails

Connection == ApplySettings \/ SettingsFail \/ ReadError \/ Disconnect

Cabling == \E p \in Ports : Unplug(p) \/ Plug(p)

Next == Start \/ FindDevice \/ Connection \/ TermSignal \/ Cabling

Spec == Init /\ [][Next]_vars

\* The attributes of a port do not keep a seismometer behind it from being
\* heard. Zeroed ones (speed B0) may.
Audible(p) == attrs[p] # Zero

\* A program that runs is scheduled, and a seismometer that is tested, or sent
\* its settings, again and again passes the test, or takes them, in the end: on
\* a port where it is heard. Nothing is assumed of one left with zeroed
\* attributes, and nobody has to start the program.
Fairness ==
    /\ WF_vars(FindDevice) /\ WF_vars(Connection)
    /\ SF_vars(ProbeSucceeds /\ Audible(avail_ports[n]))
    /\ SF_vars(ApplySettings)

FairSpec == Spec /\ Fairness

-----------------------------------------------------------------------------
(* Properties *)

\* The program holds one descriptor at most, and has not lost it: descriptors
\* do not run out however often ports are tried, unplugged and reconnected
\* (find_device 359-499, disconnect). It is given up when main continues after
\* failed settings (mini_logger_writer.c 459-461).
NoLeak == "settings" \notin lapses => DOMAIN fds \subseteq {fd_port}

\* When the settings allow the attributes to be changed, every port but the one
\* in use has its own again, however the program got there: the one termios_orig
\* serves every port in turn (set_interface_attribs, reset_interface_attribs).
AttributesRestored ==
    allow_set_interface_attribs /\ lapses = {} =>
        \A p \in Ports : \/ attrs[p] = p
                         \/ /\ attrs[p] = Raw /\ termios_orig = p
                            /\ fd_port \in DOMAIN fds /\ fds[fd_port] = p

Collecting == pc = "collect" /\ Connected /\ fds[fd_port] \in Seismometers

\* In verbose mode data is read from a seismometer, or from one that has just
\* been unplugged, and never from another device or from none.
CollectsFromSeismometer ==
    pc = "collect" /\ verbose > 0 =>
        fd_port \in DOMAIN fds /\ fds[fd_port] \in Seismometers \cup {Gone}

\* The device is plugged in and nobody has stopped the program.
Undisturbed == Seismometers \subseteq present /\ pc # "off"

\* The next search can hear the device: it will set the attributes of the port,
\* or finds them as they were before the program zeroed them. A disconnection
\* that is due will zero them.
Usable ==
    \/ allow_set_interface_attribs
    \/ /\ \A p \in Seismometers : Audible(p)
       /\ pc = "disconnect" => Reset = attrs

\* "The program mini_logger_writer will attempt to re-connect to the USB
\* Seismometer Interface device if the connection is lost" (README 99):
\* whenever the device is plugged in, data is collected in the end, unless it is
\* unplugged again or the program stopped. Not promised of a port that the
\* program has zeroed and nobody has unplugged since: "a port reconnect may be
\* needed" (README 91-92, and the message at mini_logger_writer.c 497).
Reconnects == Undisturbed /\ Usable ~> Collecting \/ ~Undisturbed

\* It does so as long as no rate and gain have to be set.
ReconnectsWithoutSettings == ~do_settings_sep064 => Reconnects

\* "Allow low-level setting of port interface attributes ..., 0=NO"
\* (mini_logger_writer.prop 16-22): ports keep their own attributes.
AttributesUntouched ==
    ~allow_set_interface_attribs => \A p \in Ports : attrs[p] = p

-----------------------------------------------------------------------------
(* The invariants above are not inductive. Their strengthening, part by part. *)

\* find_device between its first open of a port and the outcome of the test.
Trying == {"close", "reopen", "attribs", "probe"}

\* The descriptor in use is that of the port being tried, if still plugged in.
PortOK ==
    /\ pc \in Trying => n <= Len(avail_ports)
    /\ pc \in Trying \ {"reopen"} =>
         fd_port \in DOMAIN fds /\ fds[fd_port] \in {avail_ports[n], Gone}

\* Nothing is open between two ports and between two searches.
ClosedOK ==
    pc \in {"off", "crashed", "scan", "try", "reopen"} /\ "settings" \notin lapses => DOMAIN fds = {}

\* Once the attributes have been set, termios_orig holds those of the port.
SavedOK ==
    /\ allow_set_interface_attribs /\ lapses = {} /\ Connected
    /\ pc \in {"probe", "settings", "collect", "disconnect"}
    => termios_orig = fds[fd_port]

\* Before they are set, every port has its own.
OwnOK ==
    /\ allow_set_interface_attribs /\ lapses = {}
    /\ pc \in {"off", "crashed", "scan", "try", "close", "reopen", "attribs"}
    => \A p \in Ports : attrs[p] = p

\* The settings are sent to a seismometer too.
SeismometerOK ==
    pc \in {"settings", "collect"} /\ verbose > 0 =>
        fd_port \in DOMAIN fds /\ fds[fd_port] \in Seismometers \cup {Gone}

IInv ==
    /\ TypeOK /\ PortOK /\ ClosedOK /\ SavedOK /\ OwnOK /\ SeismometerOK
    /\ NoLeak /\ AttributesRestored
=============================================================================
