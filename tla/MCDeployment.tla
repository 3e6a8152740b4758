---------------------------- MODULE MCDeployment ----------------------------
(***************************************************************************)
(* Instances of Deployment for TLC.                                        *)
(***************************************************************************)
EXTENDS Deployment

CONSTANTS
    MaxLapses,      \* bound: kinds of lapses in one behaviour, without uploads
    MaxSlowName,    \* bound: files named when a program has been slow to stop
    Others,         \* scripts that may run beside the first, before any lapse,
    MaxOthersName   \* bound: and the files named while they do

\* Two levels of directories: two files to an hour, and minutes that are shared.
DatePaths == [n \in Names |-> <<n \div 4, n \div 2>>]

AllLapses == Lapses

\* A behaviour is followed while properties speak of it.
FewLapses ==
    /\ lapses \cap Unsupervised = {}
    /\ Cardinality(lapses) <= IF mswrite_script THEN 0 ELSE MaxLapses
    /\ "slow" \in lapses => clock <= MaxSlowName
    /\ (\E s \in Others : shell[s] # "idle") => lapses = {} /\ clock <= MaxOthersName
=============================================================================
