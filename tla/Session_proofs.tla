-------------------------- MODULE Session_proofs --------------------------
(***************************************************************************)
(* Theorems about Session, for every list of ports, set of seismometers,   *)
(* number of descriptors and verbosity.                                    *)
(***************************************************************************)
EXTENDS Session, WellFoundedInduction, TLAPS

-----------------------------------------------------------------------------
(* Descriptors *)

\* open(2) finds the lowest free descriptor: a set of naturals has a least.
LEMMA LowestOf ==
    ASSUME NEW S \in SUBSET Nat, S # {}
    PROVE  Lowest(S) \in S
<1>1. PICK m \in S : \A k \in S : <<k, m>> \notin OpToRel(<, Nat)
  BY WFMin, NatLessThanWellFounded, Zenon
<1>2. \A k \in S : ~(k < m)
  BY <1>1, Zenon DEF OpToRel
<1>3. \A k \in S : m <= k
  BY <1>2, SMT
<1> QED BY <1>3, Zenon DEF Lowest

\* The descriptor of a port that was opened is new and leads to the port.
LEMMA OpensDescriptor ==
    ASSUME TypeOK, NEW p \in Ports, CanOpen(p)
    PROVE  /\ Lowest(Free) \in (0..MaxFds-1) \ DOMAIN fds
           /\ DOMAIN Opens(p) = DOMAIN fds \cup {Lowest(Free)}
           /\ Opens(p)[Lowest(Free)] = p
           /\ \A d \in DOMAIN fds : Opens(p)[d] = fds[d]
           /\ \A d \in DOMAIN Opens(p) : Opens(p)[d] \in Ports \cup {Gone}
<1>1. Free \in SUBSET Nat /\ Free # {} /\ Free = (0..MaxFds-1) \ DOMAIN fds
  BY FdsAssumption DEF Free, CanOpen
<1>2. Lowest(Free) \in Free
  BY <1>1, LowestOf, Zenon
<1>3. /\ DOMAIN Opens(p) = DOMAIN fds \cup {Lowest(Free)}
      /\ \A d \in DOMAIN fds : Opens(p)[d] = fds[d]
      /\ Lowest(Free) \notin DOMAIN fds => Opens(p)[Lowest(Free)] = p
  BY Zenon DEF Opens
<1>4. \A d \in DOMAIN fds : fds[d] \in Ports \cup {Gone}
  BY DEF TypeOK
<1> QED BY <1>1, <1>2, <1>3, <1>4, Zenon

\* The ports are those that find_device tries.
LEMMA TriedPort == \A i \in 1..Len(avail_ports) : avail_ports[i] \in Ports
  BY Zenon DEF Ports

\* Where the attributes of a port are reset, they were saved from it.
LEMMA ResetAttributes ==
    ASSUME TypeOK
    PROVE  /\ Reset \in [Ports -> Ports \cup {Raw, Zero}]
           /\ Connected => /\ fds[fd_port] \in Ports
                           /\ Reset[fds[fd_port]] = termios_orig
                           /\ \A p \in Ports : p # fds[fd_port] => Reset[p] = attrs[p]
           /\ ~Connected => Reset = attrs
  BY DEF Reset, Connected, TypeOK

-----------------------------------------------------------------------------
(* The inductive invariant *)

LEMMA InitInv == Init => IInv
<1> SUFFICES ASSUME Init PROVE IInv
  OBVIOUS
<1>1. TypeOK
  BY PortsAssumption, FdsAssumption DEF Init, TypeOK, Lapses
<1> QED BY <1>1 DEF Init, IInv, PortOK, ClosedOK, SavedOK, OwnOK, SeismometerOK,
           NoLeak, AttributesRestored, Connected, Trying

\* The steps that leave descriptors and attributes alone.
LEMMA StartStep ==
    ASSUME IInv, Start
    PROVE  IInv'
<1>1. TypeOK'
  BY PortsAssumption, FdsAssumption DEF IInv, Start, TypeOK, settings
<1>2. DOMAIN fds = {} \/ "settings" \in lapses
  BY DEF IInv, ClosedOK, Start
<1> QED BY <1>1, <1>2 DEF IInv, Start, settings, PortOK, ClosedOK, SavedOK, OwnOK, SeismometerOK,
           NoLeak, AttributesRestored, Connected, Trying

LEMMA ScanStep ==
    ASSUME IInv, Scan
    PROVE  IInv'
<1>1. TypeOK'
  BY PortsAssumption DEF IInv, Scan, TypeOK, settings
<1> QED BY <1>1 DEF IInv, Scan, settings, PortOK, ClosedOK, SavedOK, OwnOK, SeismometerOK,
           NoLeak, AttributesRestored, Connected, Trying

\* The program crashes only after it has given up connections: every descriptor
\* is taken where none should be.
LEMMA ScanCrashesStep ==
    ASSUME IInv, ScanCrashes
    PROVE  IInv'
<1>1. TypeOK'
  BY DEF IInv, ScanCrashes, TypeOK, settings
<1>2. 0 \in DOMAIN fds
  BY FdsAssumption DEF ScanCrashes, Free
<1>3. "settings" \in lapses
  BY <1>2 DEF IInv, ClosedOK, ScanCrashes
<1> QED BY <1>1, <1>3 DEF IInv, ScanCrashes, settings, PortOK, ClosedOK, SavedOK, OwnOK,
           SeismometerOK, NoLeak, AttributesRestored, Trying

LEMMA ProbeSucceedsStep ==
    ASSUME IInv, ProbeSucceeds
    PROVE  IInv'
<1>1. TypeOK'
  BY DEF IInv, ProbeSucceeds, Found, TypeOK, settings
<1> QED BY <1>1 DEF IInv, ProbeSucceeds, Found, settings, PortOK, ClosedOK, SavedOK, OwnOK,
           SeismometerOK, NoLeak, AttributesRestored, Connected, Trying

LEMMA SearchFailsStep ==
    ASSUME IInv, SearchFails
    PROVE  IInv'
<1>1. TypeOK'
  BY DEF IInv, SearchFails, Found, TypeOK, settings
<1>2. DOMAIN fds = {} \/ "settings" \in lapses
  BY DEF IInv, ClosedOK, SearchFails
<1> QED BY <1>1, <1>2, VerboseAssumption DEF IInv, SearchFails, Found, settings, PortOK, ClosedOK, SavedOK, OwnOK,
           SeismometerOK, NoLeak, AttributesRestored, Connected, Trying, TypeOK

LEMMA ApplySettingsStep ==
    ASSUME IInv, ApplySettings
    PROVE  IInv'
<1>1. TypeOK'
  BY DEF IInv, ApplySettings, TypeOK, settings
<1> QED BY <1>1 DEF IInv, ApplySettings, settings, PortOK, ClosedOK, SavedOK, OwnOK,
           SeismometerOK, NoLeak, AttributesRestored, Connected, Trying

LEMMA SettingsFailStep ==
    ASSUME IInv, SettingsFail
    PROVE  IInv'
<1>1. TypeOK'
  BY DEF IInv, SettingsFail, TypeOK, Lapses, settings
<1> QED BY <1>1 DEF IInv, SettingsFail, settings, PortOK, ClosedOK, SavedOK, OwnOK,
           SeismometerOK, NoLeak, AttributesRestored, Connected, Trying

LEMMA ReadErrorStep ==
    ASSUME IInv, ReadError
    PROVE  IInv'
<1>1. TypeOK'
  BY DEF IInv, ReadError, TypeOK, settings
<1> QED BY <1>1 DEF IInv, ReadError, settings, PortOK, ClosedOK, SavedOK, OwnOK,
           SeismometerOK, NoLeak, AttributesRestored, Connected, Trying

LEMMA OpenFailsStep ==
    ASSUME IInv, OpenFails
    PROVE  IInv'
<1>1. n' \in 1..Len(avail_ports)+1
  BY PortsAssumption DEF IInv, PortOK, Trying, OpenFails, TypeOK
<1>2. TypeOK'
  BY <1>1, FdsAssumption DEF IInv, OpenFails, TypeOK, settings
<1> QED BY <1>2 DEF IInv, OpenFails, settings, PortOK, ClosedOK, SavedOK, OwnOK,
           SeismometerOK, NoLeak, AttributesRestored, Connected, Trying

-----------------------------------------------------------------------------
(* The steps that open and close descriptors *)

LEMMA OpenPortStep ==
    ASSUME IInv, OpenPort
    PROVE  IInv'
<1> DEFINE p == avail_ports[n]
<1> DEFINE d == Lowest(Free)
<1>1. p \in Ports
  BY TriedPort DEF IInv, TypeOK, OpenPort
<1>2. /\ d \in (0..MaxFds-1) \ DOMAIN fds
      /\ DOMAIN Opens(p) = DOMAIN fds \cup {d}
      /\ Opens(p)[d] = p
      /\ \A e \in DOMAIN Opens(p) : Opens(p)[e] \in Ports \cup {Gone}
  BY <1>1, OpensDescriptor DEF IInv, OpenPort
<1>3. /\ pc = "try" /\ pc' = "close" /\ n <= Len(avail_ports) /\ n' = n
      /\ fd_port' = d /\ fds' = Opens(p)
      /\ UNCHANGED <<settings, termios_orig, attrs, present, lapses>>
  BY DEF OpenPort
<1> HIDE DEF p, d
<1>4. Opens(p) \in [DOMAIN Opens(p) -> Ports \cup {Gone}]
  <2>1. Opens(p) = [e \in DOMAIN Opens(p) |-> Opens(p)[e]]
    BY Zenon DEF Opens
  <2> QED BY <1>2, <2>1, Zenon
<1>5. TypeOK'
  BY <1>2, <1>3, <1>4, FdsAssumption DEF IInv, TypeOK, settings
<1>6. PortOK'
  BY <1>2, <1>3 DEF PortOK, Trying, p
<1>7. NoLeak'
  BY <1>2, <1>3 DEF IInv, ClosedOK, NoLeak
<1>8. OwnOK' /\ AttributesRestored'
  BY <1>3 DEF IInv, OwnOK, AttributesRestored, settings
<1> QED BY <1>3, <1>5, <1>6, <1>7, <1>8 DEF IInv, ClosedOK, SavedOK, SeismometerOK

LEMMA ReopenPortStep ==
    ASSUME IInv, ReopenPort
    PROVE  IInv'
<1> DEFINE p == avail_ports[n]
<1> DEFINE d == Lowest(Free)
<1>1. p \in Ports
  BY TriedPort DEF IInv, TypeOK, PortOK, Trying, ReopenPort
<1>2. /\ d \in (0..MaxFds-1) \ DOMAIN fds
      /\ DOMAIN Opens(p) = DOMAIN fds \cup {d}
      /\ Opens(p)[d] = p
      /\ \A e \in DOMAIN Opens(p) : Opens(p)[e] \in Ports \cup {Gone}
  BY <1>1, OpensDescriptor DEF IInv, ReopenPort
<1>3. /\ pc = "reopen" /\ n' = n
      /\ pc' = IF allow_set_interface_attribs THEN "attribs" ELSE "probe"
      /\ fd_port' = d /\ fds' = Opens(p)
      /\ UNCHANGED <<settings, termios_orig, attrs, present, lapses>>
  BY DEF ReopenPort
<1> HIDE DEF p, d
<1>4. Opens(p) \in [DOMAIN Opens(p) -> Ports \cup {Gone}]
  <2>1. Opens(p) = [e \in DOMAIN Opens(p) |-> Opens(p)[e]]
    BY Zenon DEF Opens
  <2> QED BY <1>2, <2>1, Zenon
<1>5. TypeOK'
  BY <1>2, <1>3, <1>4, FdsAssumption DEF IInv, TypeOK, settings
<1>6. PortOK'
  BY <1>2, <1>3 DEF IInv, PortOK, Trying, p
<1>7. NoLeak'
  BY <1>2, <1>3 DEF IInv, ClosedOK, NoLeak
<1>8. OwnOK' /\ AttributesRestored'
  BY <1>3 DEF IInv, OwnOK, AttributesRestored, settings
<1> QED BY <1>3, <1>5, <1>6, <1>7, <1>8 DEF IInv, ClosedOK, SavedOK, SeismometerOK, settings

\* The open descriptors after the close of the one in use.
LEMMA ClosesDescriptor ==
    ASSUME TypeOK, NEW d
    PROVE  /\ DOMAIN Closes(d) = DOMAIN fds \ {d}
           /\ Closes(d) \in [DOMAIN Closes(d) -> Ports \cup {Gone}]
           /\ DOMAIN fds \subseteq {d} => DOMAIN Closes(d) = {}
  BY DEF TypeOK, Closes

LEMMA ClosePortStep ==
    ASSUME IInv, ClosePort
    PROVE  IInv'
<1>1. /\ DOMAIN fds' = DOMAIN fds \ {fd_port}
      /\ fds' \in [DOMAIN fds' -> Ports \cup {Gone}]
      /\ DOMAIN fds \subseteq {fd_port} => DOMAIN fds' = {}
  BY ClosesDescriptor DEF IInv, ClosePort
<1>2. TypeOK'
  BY <1>1, FdsAssumption DEF IInv, TypeOK, ClosePort, settings
<1>3. PortOK'
  BY DEF IInv, PortOK, Trying, ClosePort
<1>4. ClosedOK' /\ NoLeak'
  BY <1>1 DEF IInv, ClosedOK, NoLeak, ClosePort
<1>5. OwnOK' /\ AttributesRestored'
  BY DEF IInv, OwnOK, AttributesRestored, ClosePort, settings
<1> QED BY <1>2, <1>3, <1>4, <1>5 DEF IInv, SavedOK, SeismometerOK, ClosePort

\* Closing a port, or resetting it, leaves every port with its own attributes,
\* once the attributes have been saved.
LEMMA ResetToOwn ==
    ASSUME IInv, allow_set_interface_attribs, lapses = {},
           pc \in {"probe", "settings", "collect", "disconnect"} \/ DOMAIN fds = {}
    PROVE  \A p \in Ports : Reset[p] = p
<1>1. CASE Connected
  <2>1. termios_orig = fds[fd_port]
    BY <1>1 DEF IInv, SavedOK, Connected
  <2>2. \A p \in Ports : p # fds[fd_port] => attrs[p] = p
    BY DEF IInv, AttributesRestored
  <2> QED BY <1>1, <2>1, <2>2, ResetAttributes, Zenon DEF IInv
<1>2. CASE ~Connected
  <2>1. \A p \in Ports : attrs[p] = p
    BY <1>2, PortsAssumption DEF IInv, AttributesRestored, Connected
  <2> QED BY <1>2, <2>1, ResetAttributes, Zenon DEF IInv
<1> QED BY <1>1, <1>2

LEMMA ProbeFailsStep ==
    ASSUME IInv, ProbeFails
    PROVE  IInv'
<1>1. /\ DOMAIN fds' = DOMAIN fds \ {fd_port}
      /\ fds' \in [DOMAIN fds' -> Ports \cup {Gone}]
      /\ DOMAIN fds \subseteq {fd_port} => DOMAIN fds' = {}
  BY ClosesDescriptor DEF IInv, ProbeFails
<1>2. attrs' \in [Ports -> Ports \cup {Raw, Zero}]
  BY ResetAttributes DEF IInv, TypeOK, ProbeFails
<1>3. n' \in 1..Len(avail_ports)+1
  BY PortsAssumption DEF IInv, TypeOK, PortOK, Trying, ProbeFails
<1>4. TypeOK'
  BY <1>1, <1>2, <1>3, FdsAssumption DEF IInv, TypeOK, ProbeFails, settings
<1>5. ClosedOK' /\ NoLeak'
  BY <1>1 DEF IInv, ClosedOK, NoLeak, ProbeFails
<1>6. allow_set_interface_attribs /\ lapses = {} => \A p \in Ports : attrs'[p] = p
  BY ResetToOwn DEF ProbeFails
<1>7. OwnOK' /\ AttributesRestored'
  BY <1>6 DEF OwnOK, AttributesRestored, ProbeFails, settings
<1> QED BY <1>4, <1>5, <1>7 DEF IInv, PortOK, SavedOK, SeismometerOK, Trying, ProbeFails

LEMMA DisconnectStep ==
    ASSUME IInv, Disconnect
    PROVE  IInv'
<1>1. /\ DOMAIN fds' = DOMAIN fds \ {fd_port}
      /\ fds' \in [DOMAIN fds' -> Ports \cup {Gone}]
      /\ DOMAIN fds \subseteq {fd_port} => DOMAIN fds' = {}
  BY ClosesDescriptor DEF IInv, Disconnect
<1>2. attrs' \in [Ports -> Ports \cup {Raw, Zero}]
  BY ResetAttributes DEF IInv, Disconnect
<1>3. TypeOK'
  BY <1>1, <1>2 DEF IInv, TypeOK, Disconnect, settings
<1>4. ClosedOK' /\ NoLeak'
  BY <1>1 DEF IInv, ClosedOK, NoLeak, Disconnect
<1>5. allow_set_interface_attribs /\ lapses = {} => \A p \in Ports : attrs'[p] = p
  BY ResetToOwn DEF Disconnect
<1>6. OwnOK' /\ AttributesRestored'
  BY <1>5 DEF OwnOK, AttributesRestored, Disconnect, settings
<1> QED BY <1>3, <1>4, <1>6 DEF IInv, PortOK, SavedOK, SeismometerOK, Trying, Disconnect

LEMMA TermSignalStep ==
    ASSUME IInv, TermSignal
    PROVE  IInv'
<1>1. DOMAIN fds' = {} /\ fds' \in [DOMAIN fds' -> Ports \cup {Gone}]
  BY DEF TermSignal
<1>2. attrs' \in [Ports -> Ports \cup {Raw, Zero}]
  BY ResetAttributes DEF IInv, TermSignal
<1>3. TypeOK'
  BY <1>1, <1>2 DEF IInv, TypeOK, Lapses, TermSignal, settings
<1>4. ClosedOK' /\ NoLeak'
  BY <1>1 DEF ClosedOK, NoLeak, TermSignal
<1>5. ASSUME allow_set_interface_attribs', lapses' = {}
      PROVE  \A p \in Ports : attrs'[p] = p
  <2>1. lapses = {} /\ allow_set_interface_attribs /\ pc \notin {"close", "attribs", "off", "crashed"}
    BY <1>5 DEF TermSignal, settings
  <2>2. pc \in {"probe", "settings", "collect", "disconnect"} \/ DOMAIN fds = {}
    BY <2>1 DEF IInv, TypeOK, ClosedOK
  <2> QED BY <2>1, <2>2, ResetToOwn DEF TermSignal
<1>6. OwnOK' /\ AttributesRestored'
  BY <1>5 DEF OwnOK, AttributesRestored
<1> QED BY <1>3, <1>4, <1>6 DEF IInv, PortOK, SavedOK, SeismometerOK, Trying, TermSignal

-----------------------------------------------------------------------------
(* The steps that change attributes, and the ports that come and go *)

LEMMA SetAttribsStep ==
    ASSUME IInv, SetAttribs
    PROVE  IInv'
<1> DEFINE p == avail_ports[n]
<1>1. p \in Ports
  BY TriedPort DEF IInv, TypeOK, PortOK, Trying, SetAttribs
<1>2. /\ pc = "attribs" /\ pc' = "probe"
      /\ Connected => termios_orig' = attrs[p] /\ attrs' = [attrs EXCEPT ![p] = Raw]
      /\ ~Connected => termios_orig' = termios_orig /\ attrs' = attrs
      /\ UNCHANGED <<settings, n, fd_port, fds, present, lapses>>
  BY DEF SetAttribs
<1>3. fd_port \in DOMAIN fds /\ fds[fd_port] \in {p, Gone}
  BY <1>2 DEF IInv, PortOK, Trying
<1> HIDE DEF p
<1>4. TypeOK'
  BY <1>1, <1>2 DEF IInv, TypeOK, settings
<1>5. PortOK'
  BY <1>2 DEF IInv, PortOK, Trying
<1>6. SavedOK' /\ AttributesRestored'
  <2> SUFFICES ASSUME allow_set_interface_attribs, lapses = {}
      PROVE  SavedOK' /\ AttributesRestored'
    BY <1>2 DEF SavedOK, AttributesRestored, settings
  <2>1. \A q \in Ports : attrs[q] = q
    BY <1>2 DEF IInv, OwnOK
  <2>2. CASE Connected
    <3>1. fds[fd_port] = p /\ termios_orig' = p
      BY <1>1, <1>2, <1>3, <2>1, <2>2 DEF Connected
    <3>2. attrs'[p] = Raw /\ \A q \in Ports : q # p => attrs'[q] = q
      BY <1>1, <1>2, <2>1, <2>2 DEF IInv, TypeOK
    <3> QED BY <1>2, <1>3, <3>1, <3>2 DEF SavedOK, AttributesRestored
  <2>3. CASE ~Connected
    BY <1>2, <2>1, <2>3 DEF SavedOK, AttributesRestored, Connected
  <2> QED BY <2>2, <2>3
<1> QED BY <1>2, <1>4, <1>5, <1>6 DEF IInv, ClosedOK, OwnOK, SeismometerOK, NoLeak

\* The descriptor of a port that is unplugged leads nowhere, and its attributes
\* are its own when it is plugged in again.
LEMMA UnplugStep ==
    ASSUME IInv, NEW q \in Ports, Unplug(q)
    PROVE  IInv'
<1>1. /\ DOMAIN fds' = DOMAIN fds
      /\ \A d \in DOMAIN fds : fds'[d] = IF fds[d] = q THEN Gone ELSE fds[d]
      /\ fds' = [d \in DOMAIN fds' |-> fds'[d]]
      /\ attrs' = [attrs EXCEPT ![q] = q]
      /\ present' = present \ {q}
      /\ UNCHANGED <<pc, settings, n, fd_port, termios_orig, lapses>>
  BY DEF Unplug
<1>2. fds' \in [DOMAIN fds' -> Ports \cup {Gone}]
  <2>1. \A d \in DOMAIN fds' : fds'[d] \in Ports \cup {Gone}
    BY <1>1 DEF IInv, TypeOK
  <2> QED BY <1>1, <2>1, Zenon
<1>3. attrs' \in [Ports -> Ports \cup {Raw, Zero}]
      /\ \A p \in Ports : attrs'[p] = IF p = q THEN q ELSE attrs[p]
  BY <1>1 DEF IInv, TypeOK
<1>4. TypeOK'
  BY <1>1, <1>2, <1>3 DEF IInv, TypeOK, settings
<1>5. PortOK' /\ ClosedOK' /\ NoLeak'
  BY <1>1 DEF IInv, PortOK, ClosedOK, NoLeak, Trying
<1>6. SeismometerOK'
  BY <1>1 DEF IInv, SeismometerOK, settings
<1>7. OwnOK'
  BY <1>1, <1>3 DEF IInv, OwnOK, settings
<1>8. SavedOK'
  BY <1>1 DEF IInv, SavedOK, Connected, settings
<1>9. AttributesRestored'
  BY <1>1, <1>3 DEF IInv, AttributesRestored, settings
<1> QED BY <1>4, <1>5, <1>6, <1>7, <1>8, <1>9 DEF IInv

LEMMA PlugStep ==
    ASSUME IInv, NEW q \in Ports, Plug(q)
    PROVE  IInv'
<1>1. TypeOK'
  BY DEF IInv, Plug, TypeOK, settings
<1> QED BY <1>1 DEF IInv, Plug, settings, PortOK, ClosedOK, SavedOK, OwnOK,
           SeismometerOK, NoLeak, AttributesRestored, Connected, Trying

-----------------------------------------------------------------------------
(* The theorems *)

LEMMA Inductive == IInv /\ [Next]_vars => IInv'
<1> SUFFICES ASSUME IInv, [Next]_vars PROVE IInv'
  OBVIOUS
<1>1. CASE Start
  BY <1>1, StartStep
<1>2. CASE FindDevice
  BY <1>2, ScanStep, ScanCrashesStep, OpenPortStep, ClosePortStep, ReopenPortStep, OpenFailsStep,
     SetAttribsStep, ProbeSucceedsStep, ProbeFailsStep, SearchFailsStep DEF FindDevice
<1>3. CASE Connection
  BY <1>3, ApplySettingsStep, SettingsFailStep, ReadErrorStep, DisconnectStep DEF Connection
<1>4. CASE TermSignal
  BY <1>4, TermSignalStep
<1>5. CASE Cabling
  BY <1>5, UnplugStep, PlugStep DEF Cabling
<1>6. CASE UNCHANGED vars
  BY <1>6 DEF vars, settings, IInv, TypeOK, PortOK, ClosedOK, SavedOK, OwnOK,
     SeismometerOK, NoLeak, AttributesRestored, Connected, Trying
<1> QED BY <1>1, <1>2, <1>3, <1>4, <1>5, <1>6 DEF Next

\* The inductive invariant of the connection (find_device, main, disconnect).
THEOREM Invariance == Spec => []IInv
<1> QED BY InitInv, Inductive, PTL DEF Spec

\* Every variable keeps its type, whatever ports come and go.
THEOREM TypeCorrect == Spec => []TypeOK
<1>1. IInv => TypeOK
  BY DEF IInv
<1> QED BY <1>1, Invariance, PTL

\* Descriptors do not leak however often ports are tried, unplugged and found
\* again, until main goes on after failed settings (find_device, disconnect).
THEOREM NoLeakHolds == Spec => []NoLeak
<1>1. IInv => NoLeak
  BY DEF IInv
<1> QED BY <1>1, Invariance, PTL

\* When attributes may be changed, every port but the one in use has its own,
\* although one termios_orig serves all (set_interface_attribs, disconnect).
THEOREM AttributesRestoredHold == Spec => []AttributesRestored
<1>1. IInv => AttributesRestored
  BY DEF IInv
<1> QED BY <1>1, Invariance, PTL

\* In verbose mode data is read from a seismometer only (find_device_and_connect).
THEOREM CollectsHold == Spec => []CollectsFromSeismometer
<1>1. IInv => CollectsFromSeismometer
  BY DEF IInv, SeismometerOK, CollectsFromSeismometer
<1> QED BY <1>1, Invariance, PTL
=============================================================================
