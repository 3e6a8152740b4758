------------------------------ MODULE FileRing ------------------------------
(***************************************************************************)
(* The rolling buffer of miniseed files kept by mini_logger_writer.c: the  *)
(* ring filetime_list of the names (start times) of the files on disk, the *)
(* temporary file that collects the records of the next one, the directory *)
(* of published files, and the state file by which a stopped program hands *)
(* the ring to the next one.                                               *)
(*                                                                         *)
(* A file is named by the start time of its first record and a record is   *)
(* its start time; times are 1, 2, ...  0 is an unused slot of the ring.   *)
(* The device is abstracted to "one more record was read" and "the read    *)
(* failed"; module Session models the connection.                          *)
(***************************************************************************)
EXTENDS Integers, Sequences, FiniteSets

CONSTANTS
    Sizes,                \* values of file_index_modulo the settings may give
    num_records_in_file,  \* records in a complete file
    MaxTime,              \* bound: records read (or start times) in a run
    ClockSteps,           \* TRUE: the wall clock may be stepped, so that start
                          \* times come in any order; FALSE: they increase
    Events,               \* the disturbances admitted, see Disturbances
    NoFile                \* a file that does not exist

Disturbances ==
    { "disconnect",   \* reading a sample fails or times out
      "signal",       \* SIGINT, SIGQUIT or SIGTERM while data is collected
      "early",        \* such a signal before the state file has been loaded
      "kill",         \* SIGKILL, a crash or a power cut
      "savefail",     \* the state file cannot be opened or written
      "removefail",   \* remove() of an old file fails
      "writefail",    \* msr_writemseed() fails
      "renamefail",   \* rename() of the temporary file fails
      "shrink",       \* the settings are edited to a smaller buffer
      "grow" }        \* or to a larger one

ASSUME SizesAssumption   == Sizes \subseteq Nat \ {0} /\ Sizes # {}
ASSUME RecordsAssumption == num_records_in_file \in Nat \ {0}
ASSUME TimeAssumption    == MaxTime \in Nat
ASSUME ClockAssumption   == ClockSteps \in BOOLEAN
ASSUME NoFileAssumption  == NoFile \notin Seq(Nat) \cup [index : Nat, times : Seq(Nat)]
ASSUME EventsAssumption  == Events \subseteq Disturbances

VARIABLES
    pc,                   \* where the program is
    \* memory of the program
    file_index_modulo, file_index, filetime_list,
    starttime, num_records_written, msfilepath_write,
    \* what outlives it
    ring_size,            \* the buffer size the settings file gives
    tmpfile,              \* msfile_write.tmp: its records, or NoFile
    mswrite_dir,          \* published files: name -> records
    state_file,           \* mini_logger_writer.state, or NoFile
    \* history
    clock,                \* start time of the newest record
    seen                  \* disturbances that have happened

memory     == <<file_index_modulo, file_index, filetime_list,
                starttime, num_records_written, msfilepath_write>>
disk       == <<ring_size, tmpfile, mswrite_dir, state_file>>
history    == <<clock, seen>>
vars       == <<pc, memory, disk, history>>

-----------------------------------------------------------------------------
(* The ring and the state file *)

Times == 1..MaxTime

Names(list) == {list[i] : i \in DOMAIN list} \ {0}

Files == DOMAIN mswrite_dir

\* Mutant of SavedTimes: the times are printed from slot 0 onwards.
SavedFromZero(n, index, list) == [j \in 1..n |-> list[j - 1]]

\* Mutant of SavedTimes: the loop stops one short.
SavedOneShort(n, index, list) == [j \in 1..n-1 |-> list[(index + j - 1) % n]]

\* What term_handler prints: the n times of the ring from file_index onwards.
SavedTimes(n, index, list) ==
    [j \in 1..n |-> list[(index + j - 1) % n]]

\* The slots the loop of main fills from a state file: the times wrap round,
\* so that the last n of them are the ones that stay.
RestoredList(n, index, times) ==
    [i \in 0..n-1 |->
        LET writers == {j \in 1..Len(times) :
                          j > Len(times) - n /\ (index + j - 1) % n = i}
        IN  IF writers = {} THEN 0 ELSE times[CHOOSE j \in writers : TRUE]]

\* Mutant of EmptyList: the slots are numbered from 1.
ListFromOne(n) == [i \in 1..n |-> 0]

\* calloc and the loop that clears the ring.
EmptyList(n) == [i \in 0..n-1 |-> 0]

\* A state file just opened for writing reads as index 0 and no time:
\* fscanf leaves state_file_index at its initial value.
Truncated == [index |-> 0, times |-> <<>>]

Prefix(times, k) == [j \in 1..k |-> times[j]]

\* The index read is used only if it fits the ring.
Loadable == state_file # NoFile /\ state_file.index < file_index_modulo

-----------------------------------------------------------------------------
StartingUp == {"start", "sized", "load", "loading"}
Collecting == {"connect", "collect", "evict", "assign", "write", "move", "advance"}

Happens(event) == event \in Events /\ seen' = seen \cup {event}

TypeOK ==
    /\ pc \in {"down", "saving"} \cup StartingUp \cup Collecting
    /\ file_index_modulo \in Sizes \cup {0}
    /\ file_index \in Nat
    /\ \E n \in Sizes \cup {0} : filetime_list \in [0..n-1 -> Nat]
    /\ starttime \in Nat
    /\ num_records_written \in Nat
    /\ msfilepath_write \in Nat
    /\ ring_size \in Sizes
    /\ tmpfile \in Seq(Nat) \cup {NoFile}
    /\ Files \subseteq Nat \ {0} /\ mswrite_dir \in [Files -> Seq(Nat)]
    /\ state_file \in [index : Nat, times : Seq(Nat)] \cup {NoFile}
    /\ clock \in Nat
    /\ seen \subseteq Disturbances

Init ==
    /\ pc = "down"
    /\ file_index_modulo = 0 /\ file_index = 0 /\ filetime_list = EmptyList(0)
    /\ starttime = 0 /\ num_records_written = 0 /\ msfilepath_write = 0
    /\ ring_size \in Sizes
    /\ tmpfile = NoFile
    /\ mswrite_dir = [f \in {} |-> <<>>]
    /\ state_file = NoFile
    /\ clock = 0 /\ seen = {}

-----------------------------------------------------------------------------
(* Starting up *)

\* The program is started: memory is as the loader leaves it, and main has
\* installed its signal handlers.
Start ==
    /\ pc = "down" /\ pc' = "start"
    /\ file_index_modulo' = 0 /\ file_index' = 0 /\ filetime_list' = EmptyList(0)
    /\ starttime' = 0 /\ num_records_written' = 0 /\ msfilepath_write' = 0
    /\ UNCHANGED <<disk, history>>

SizeRing ==
    /\ pc = "start" /\ pc' = "sized"
    /\ file_index_modulo' = ring_size
    /\ UNCHANGED <<file_index, filetime_list, starttime, num_records_written,
                   msfilepath_write, disk, history>>

AllocateList ==
    /\ pc = "sized" /\ pc' = "load"
    /\ filetime_list' = EmptyList(file_index_modulo)
    /\ UNCHANGED <<file_index_modulo, file_index, starttime, num_records_written,
                   msfilepath_write, disk, history>>

\* The index of the state file and the first k of its times have been read.
LoadState ==
    /\ pc = "load" /\ pc' = "loading"
    /\ IF Loadable
       THEN /\ file_index' = state_file.index
            /\ \E k \in 0..Len(state_file.times) :
                 filetime_list' = RestoredList(file_index_modulo, state_file.index,
                                               Prefix(state_file.times, k))
       ELSE UNCHANGED <<file_index, filetime_list>>
    /\ UNCHANGED <<file_index_modulo, starttime, num_records_written,
                   msfilepath_write, disk, history>>

FinishLoading ==
    /\ pc = "loading" /\ pc' = "connect"
    /\ filetime_list' = IF Loadable
                        THEN RestoredList(file_index_modulo, state_file.index, state_file.times)
                        ELSE filetime_list
    /\ UNCHANGED <<file_index_modulo, file_index, starttime, num_records_written,
                   msfilepath_write, disk, history>>

-----------------------------------------------------------------------------
(* Collecting records and writing files *)

\* A device was found; collect_and_write starts with no record written.
Connect ==
    /\ pc = "connect" /\ pc' = "collect"
    /\ num_records_written' = 0
    /\ UNCHANGED <<file_index_modulo, file_index, filetime_list, starttime,
                   msfilepath_write, disk, history>>

\* A record's samples were read and its start time estimated.
CollectRecord ==
    /\ pc = "collect"
    /\ pc' = IF num_records_written = 0 THEN "evict" ELSE "write"
    /\ IF ClockSteps
       THEN starttime' \in Times /\ UNCHANGED clock
       ELSE clock < MaxTime /\ starttime' = clock + 1 /\ clock' = clock + 1
    /\ UNCHANGED <<file_index_modulo, file_index, filetime_list,
                   num_records_written, msfilepath_write, disk, seen>>

\* collect_and_write returns -1; main disconnects and searches again. The
\* records of an unfinished file stay behind in the temporary file. After
\* MaxTime records the device is silent and every read times out.
ReadError ==
    /\ pc = "collect" /\ pc' = "connect"
    /\ \/ Happens("disconnect")
       \/ ~ClockSteps /\ clock = MaxTime /\ UNCHANGED seen
    /\ UNCHANGED <<memory, disk, clock>>

\* Mutant of EvictOld: the slot is reassigned before its file is removed.
EvictAssigned ==
    /\ pc = "evict" /\ pc' = "assign"
    /\ mswrite_dir' = [f \in Files \ {starttime} |-> mswrite_dir[f]]
    /\ UNCHANGED <<memory, ring_size, tmpfile, state_file, history>>

\* The first record of a file: the file named in the current slot, if any, is
\* removed to make room.
EvictOld ==
    /\ pc = "evict" /\ pc' = "assign"
    /\ mswrite_dir' = [f \in Files \ {filetime_list[file_index]} |-> mswrite_dir[f]]
    /\ UNCHANGED <<memory, ring_size, tmpfile, state_file, history>>

\* The result of remove() is not looked at.
EvictFails ==
    /\ pc = "evict" /\ pc' = "assign"
    /\ filetime_list[file_index] \in Files
    /\ Happens("removefail")
    /\ UNCHANGED <<memory, disk, clock>>

AssignSlot ==
    /\ pc = "assign" /\ pc' = "write"
    /\ filetime_list' = [filetime_list EXCEPT ![file_index] = starttime]
    /\ msfilepath_write' = starttime
    /\ UNCHANGED <<file_index_modulo, file_index, starttime, num_records_written,
                   disk, history>>

\* Mutant of Opened: the temporary file is always appended to.
OpenedAppend == IF tmpfile = NoFile THEN <<>> ELSE tmpfile

\* msr_writemseed overwrites the temporary file for the first record of a
\* file (is_new_file) and appends to it otherwise.
Opened == IF num_records_written = 0 \/ tmpfile = NoFile THEN <<>> ELSE tmpfile

CountRecord ==
    /\ num_records_written' = num_records_written + 1
    /\ pc' = IF num_records_written' >= num_records_in_file THEN "move" ELSE "advance"
    /\ UNCHANGED <<file_index_modulo, file_index, filetime_list, starttime,
                   msfilepath_write, ring_size, mswrite_dir, state_file, clock>>

WriteRecord ==
    /\ pc = "write"
    /\ tmpfile' = Append(Opened, starttime)
    /\ UNCHANGED seen
    /\ CountRecord

\* A failure is logged and the record is counted all the same. Either the
\* file could not be opened, or it was opened and nothing was written.
WriteFails ==
    /\ pc = "write"
    /\ tmpfile' \in {tmpfile, Opened}
    /\ Happens("writefail")
    /\ CountRecord

\* Mutant of MoveFile: the file is named after its last record.
MoveUnderLastRecord ==
    /\ pc = "move" /\ pc' = "advance"
    /\ tmpfile # NoFile
    /\ mswrite_dir' = [f \in Files \cup {starttime} |->
                         IF f = starttime THEN tmpfile ELSE mswrite_dir[f]]
    /\ tmpfile' = NoFile
    /\ num_records_written' = 0
    /\ UNCHANGED <<file_index_modulo, file_index, filetime_list, starttime,
                   msfilepath_write, ring_size, state_file, history>>

\* rename() publishes the complete file, replacing one of the same name.
MoveFile ==
    /\ pc = "move" /\ pc' = "advance"
    /\ tmpfile # NoFile
    /\ mswrite_dir' = [f \in Files \cup {msfilepath_write} |->
                         IF f = msfilepath_write THEN tmpfile ELSE mswrite_dir[f]]
    /\ tmpfile' = NoFile
    /\ num_records_written' = 0
    /\ UNCHANGED <<file_index_modulo, file_index, filetime_list, starttime,
                   msfilepath_write, ring_size, state_file, history>>

\* Its failure is logged only.
MoveFails ==
    /\ pc = "move" /\ pc' = "advance"
    /\ \/ tmpfile = NoFile /\ UNCHANGED seen
       \/ Happens("renamefail")
    /\ num_records_written' = 0
    /\ UNCHANGED <<file_index_modulo, file_index, filetime_list, starttime,
                   msfilepath_write, disk, clock>>

\* The message of the failure is formatted with one argument too few: reading
\* the missing one may crash the program.
MoveCrashes ==
    /\ pc = "move" /\ pc' = "down"
    /\ tmpfile = NoFile \/ "renamefail" \in Events
    /\ seen' = seen \cup {"renamefail", "kill"}
    /\ UNCHANGED <<memory, disk, clock>>

\* Mutant of Advance: the index stops at the last slot.
AdvanceUnwrapped ==
    /\ pc = "advance" /\ pc' = "collect"
    /\ file_index' = IF file_index + 1 < file_index_modulo THEN file_index + 1 ELSE file_index
    /\ UNCHANGED <<file_index_modulo, filetime_list, starttime, num_records_written,
                   msfilepath_write, disk, history>>

\* The index moves on after every record, not after every file.
Advance ==
    /\ pc = "advance" /\ pc' = "collect"
    /\ file_index' = (file_index + 1) % file_index_modulo
    /\ UNCHANGED <<file_index_modulo, filetime_list, starttime, num_records_written,
                   msfilepath_write, disk, history>>

-----------------------------------------------------------------------------
(* Stopping. The memory of a stopped program is kept in the model until the *)
(* next Start, so that what was saved can be compared with it.              *)

\* term_handler opens the state file, which truncates it.
OpenStateFile == state_file' = Truncated /\ UNCHANGED <<ring_size, tmpfile, mswrite_dir>>

TermSignal ==
    /\ pc \in Collecting \cup (StartingUp \ {"sized"}) /\ pc' = "saving"
    /\ IF pc \in Collecting THEN Happens("signal") ELSE Happens("early")
    /\ OpenStateFile
    /\ UNCHANGED <<memory, clock>>

\* A second, different signal is not masked: its handler starts afresh, and
\* the interrupted one never resumes because the new one exits.
NestedSignal ==
    /\ pc = "saving" /\ pc' = "saving"
    /\ Happens("signal")
    /\ OpenStateFile
    /\ UNCHANGED <<memory, clock>>

\* Between the computation of the size and the allocation of the ring the
\* handler reads through a null pointer, with the state file truncated.
TermSignalCrash ==
    /\ pc = "sized" /\ pc' = "down"
    /\ Happens("early")
    /\ OpenStateFile
    /\ UNCHANGED <<memory, clock>>

TermSignalNoFile ==
    /\ pc \in Collecting \cup StartingUp /\ pc' = "down"
    /\ Happens("savefail")
    /\ UNCHANGED <<memory, disk, clock>>

CurrentTimes == SavedTimes(file_index_modulo, file_index, filetime_list)

\* A full stdio buffer reaches the disk before the rest has been printed (a
\* number cut in two names no file: it is left out of the prefix).
FlushPart ==
    /\ pc = "saving" /\ pc' = "saving"
    /\ \E k \in 0..Len(CurrentTimes) :
         state_file' = [index |-> file_index, times |-> Prefix(CurrentTimes, k)]
    /\ UNCHANGED <<memory, ring_size, tmpfile, mswrite_dir, history>>

SaveState ==
    /\ pc = "saving" /\ pc' = "down"
    /\ state_file' = [index |-> file_index, times |-> CurrentTimes]
    /\ UNCHANGED <<memory, ring_size, tmpfile, mswrite_dir, history>>

\* The disk is full: what has been flushed so far remains.
SaveFails ==
    /\ pc = "saving" /\ pc' = "down"
    /\ Happens("savefail")
    /\ UNCHANGED <<memory, disk, clock>>

Kill ==
    /\ pc # "down" /\ pc' = "down"
    /\ Happens("kill")
    /\ UNCHANGED <<memory, disk, clock>>

\* The buffer size in the settings file is edited between two runs.
Reconfigure ==
    /\ pc = "down"
    /\ ring_size' \in Sizes
    /\ \/ ring_size' < ring_size /\ Happens("shrink")
       \/ ring_size' > ring_size /\ Happens("grow")
    /\ UNCHANGED <<pc, memory, tmpfile, mswrite_dir, state_file, clock>>

-----------------------------------------------------------------------------
StartUp == Start \/ SizeRing \/ AllocateList \/ LoadState \/ FinishLoading

Collect ==
    \/ Connect \/ CollectRecord
    \/ EvictOld \/ EvictFails \/ AssignSlot
    \/ WriteRecord \/ WriteFails
    \/ MoveFile \/ MoveFails \/ Advance

Stop ==
    \/ TermSignal \/ NestedSignal \/ TermSignalCrash \/ TermSignalNoFile
    \/ FlushPart \/ SaveState \/ SaveFails \/ Kill \/ MoveCrashes

Next == StartUp \/ Collect \/ ReadError \/ Stop \/ Reconfigure

Spec == Init /\ [][Next]_vars

\* The program runs and the device sends: nothing is assumed of disturbances.
Fairness == WF_vars(StartUp) /\ WF_vars(Collect) /\ WF_vars(SaveState)

FairSpec == Spec /\ Fairness

-----------------------------------------------------------------------------
(* Properties *)

\* After one of these the ring may have forgotten files that are on disk.
LossEvents == {"early", "kill", "savefail", "removefail", "shrink"}

NothingLost == seen \cap LossEvents = {}

\* The names by which the program, or the next one to be started, knows the
\* files on disk.
KnownNames ==
    IF pc \in StartingUp \cup {"down"}
    THEN IF state_file = NoFile THEN {} ELSE Names(state_file.times)
    ELSE Names(filetime_list)

\* Every published file is named in the ring, or in the state file from which
\* the ring will be rebuilt, so that it will be removed in its turn: a file the
\* ring has forgotten stays on the disk for ever. It holds through lost
\* connections, signals, nested signals, failed writes and moves and a larger
\* buffer (main 426-447, term_handler, collect_and_write 874-926).
TrackedFiles == NothingLost => Files \subseteq KnownNames

\* The number of files on disk never exceeds the size of the ring.
BoundedBuffer == NothingLost => Cardinality(Files) <= ring_size

\* A published file is complete and is named after its first record; and its
\* records are consecutive, so that no file mixes the records of two
\* connections although they share one temporary file (897-917).
IntactFiles ==
    "writefail" \notin seen =>
        \A f \in Files :
            /\ Len(mswrite_dir[f]) = num_records_in_file
            /\ mswrite_dir[f][1] = f
            /\ ~ClockSteps => \A j \in DOMAIN mswrite_dir[f] : mswrite_dir[f][j] = f + j - 1

\* A program stopped by signals hands its ring on exactly: restoring the state
\* file gives the index and the ring it had when it was stopped, wherever in
\* the ring the index was and however its saving was interrupted by another
\* signal (term_handler and main 433-447).
RestartTransparent ==
    pc = "down" /\ state_file # NoFile /\ seen \cap {"early", "kill", "savefail"} = {} =>
        /\ state_file.index = file_index
        /\ RestoredList(file_index_modulo, file_index, state_file.times) = filetime_list

\* "The number previous hours worth of miniseed data records that are kept"
\* (mini_logger_writer.prop 37): a file is removed only when the buffer is full.
EvictsOnlyWhenFull ==
    [][Files \ Files' # {} => Cardinality(Files) = ring_size]_vars

\* The same line of the settings: no more files are kept than the buffer holds.
\* Unlike BoundedBuffer it makes no exception.
NeverOverfull == Cardinality(Files) <= ring_size

\* Data does not stay for ever: no file survives every turn of the ring, in
\* whatever order a stepped clock has named the files (874-926).
TurnsOver == \A f \in Times : []<>(f \notin Files)

\* A file that has been started is published, unless the connection is lost,
\* the program stopped or a write or a move failed meanwhile.
StartedIsPublished ==
    \A f \in Times :
        (pc = "assign" /\ starttime = f) ~> (f \in Files \/ seen # {})

-----------------------------------------------------------------------------
(* The invariants above are not inductive. Their strengthening, part by part. *)

\* While the program runs, its ring is the configured size; a program stopped
\* before it has sized the ring saves an empty one.
RingOK ==
    /\ pc = "start" => file_index_modulo = 0
    /\ pc = "sized" => file_index_modulo = ring_size
    /\ pc \in {"start", "sized"} => file_index = 0
    /\ pc \in {"load", "loading"} \cup Collecting =>
         file_index_modulo = ring_size /\ file_index < file_index_modulo
    /\ pc \in {"start", "load", "loading", "saving"} \cup Collecting =>
         filetime_list \in [0..file_index_modulo-1 -> Nat]
    /\ pc = "saving" => \/ file_index_modulo = ring_size /\ file_index < file_index_modulo
                        \/ file_index_modulo = 0 /\ file_index = 0 /\ "early" \in seen

\* Records of an unfinished file are in the temporary file.
Unfinished == num_records_written > 0 /\ pc \in {"collect", "write", "move", "advance"}

CountOK ==
    /\ pc \in {"collect", "evict", "assign", "write", "advance"} =>
         num_records_written < num_records_in_file
    /\ pc \in {"evict", "assign"} => num_records_written = 0
    /\ pc = "move" => num_records_written = num_records_in_file

\* The file being written is named in the ring.
NameOK ==
    /\ pc \in {"evict", "assign", "write"} => starttime > 0
    /\ pc \in {"write", "move"} \/ Unfinished => msfilepath_write \in Names(filetime_list)

\* The temporary file holds the records of the unfinished file and no other.
TmpOK ==
    /\ pc = "write" /\ num_records_written = 0 => msfilepath_write = starttime
    /\ ~ClockSteps /\ pc \in {"evict", "assign", "write"} => starttime = clock
    /\ "writefail" \notin seen /\ Unfinished =>
         /\ tmpfile # NoFile
         /\ Len(tmpfile) = num_records_written
         /\ tmpfile[1] = msfilepath_write
         /\ ~ClockSteps =>
              /\ \A j \in 1..num_records_written : tmpfile[j] = msfilepath_write + j - 1
              /\ clock = msfilepath_write + num_records_written
                         - (IF pc = "write" THEN 0 ELSE 1)

\* What is saved fits the ring it will be read into.
StateOK ==
    NothingLost /\ state_file # NoFile =>
        Len(state_file.times) <= ring_size /\ state_file.index < ring_size

\* A slot is free before it is given to a new file.
SlotOK == NothingLost /\ pc = "assign" => filetime_list[file_index] \notin Files

\* The state file a stopped program left is the ring it had.
SavedOK ==
    pc = "down" /\ state_file # NoFile /\ seen \cap {"early", "kill", "savefail"} = {} =>
        /\ file_index_modulo # 0 /\ file_index < file_index_modulo
        /\ filetime_list \in [0..file_index_modulo-1 -> Nat]
        /\ state_file = [index |-> file_index, times |-> CurrentTimes]

IInv ==
    /\ TypeOK /\ RingOK /\ CountOK /\ NameOK /\ TmpOK /\ StateOK /\ SlotOK /\ SavedOK
    /\ TrackedFiles /\ IntactFiles
=============================================================================
