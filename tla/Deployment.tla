----------------------------- MODULE Deployment -----------------------------
(***************************************************************************)
(* mini_logger_writer as it is run: started and stopped by scripts that    *)
(* find the program by its pid file and wait for a second, keeping its     *)
(* ring of files in a directory with date directories, a temporary file    *)
(* and a state file, and copying the files to a server in the background.  *)
(* Modules DataDirectory and Uploads are composed with the program and its *)
(* scripts. The scripts have no lock: two of them may run at a time, and   *)
(* two programs when a script has lost the first.                          *)
(*                                                                         *)
(* A program is abstracted from module FileRing: one record to a file, a   *)
(* ring of a fixed size, and calls that do not fail but for the directory. *)
(* Its ring is the sequence of the names from the current slot onwards, as *)
(* term_handler prints it, so that the next slot is the next element.      *)
(***************************************************************************)
EXTENDS Uploads, FiniteSets

CONSTANTS
    Programs,           \* processes: as many as can run at a time
    Shells,             \* scripts: as many as can run at a time
    file_index_modulo,  \* slots of the ring
    Watched,            \* bound: the names whose copies CopiesGone follows
    Events,             \* the lapses admitted, see Lapses
    NoProgram

Lapses ==
    { "slow",        \* a program takes more than a second to stop
      "early",       \* it is stopped before it has loaded its state
      "crash",       \* it is killed, or crashes
      "interrupted", \* a start script ends before it has written the pid
      "overlapped",  \* or starts a program, or writes its pid, beside another script
      "halfpath",    \* a program is stopped while it makes or removes directories
      "unreported",  \* or between removing a file and publishing the next
      "failed",      \* an upload fails
      "late",        \* or begins when its file has left the disk
      "overtaken" }  \* or is not complete when its copy is to be deleted

ASSUME SizeAssumption == file_index_modulo \in Nat \ {0}
ASSUME WatchedAssumption == Watched \subseteq Names
ASSUME EventsAssumption == Events \subseteq Lapses
ASSUME NoProgramAssumption == NoProgram \notin Programs
ASSUME NoFileAssumption == NoFile \notin Names \cup Seq(Names \cup {0})

VARIABLES
    programs,       \* memory of each process, see Process
    tmpfile,        \* msfile_write.tmp
    state_file,     \* mini_logger_writer.state
    pid_file,       \* log/mini_logger_writer.pid
    shell, PID,     \* where each start or stop script is, and what it has started
    clock,          \* history: the newest name
    lapses          \* history: the lapses that have happened

program_vars == <<programs, mswrite_dir, directories, tmpfile, state_file, clock>>
upload_vars  == <<mswrite_script, scripts, server>>
shell_vars   == <<pid_file, shell, PID>>
vars         == <<program_vars, upload_vars, shell_vars, lapses>>

Rings == [1..file_index_modulo -> Names \cup {0}]

Writing == {"collect", "prune", "name", "mkdir", "write", "publish", "advance"}

Process ==
    [pc : {"none", "load", "saving"} \cup Writing,
     signal : BOOLEAN,            \* a SIGTERM has been sent
     ring : Rings,                \* filetime_list from file_index onwards
     write : Names \cup {0},      \* msfilepath_write
     remove : Names \cup {0},     \* msfilepath_remove, 0 is "-"
     path : Paths \cup {<<>>}]    \* pathfrag

\* A script that stops a program, and a start script while it does so, have yet
\* to remove the pid file.
Stages == {"idle", "stop", "restart", "restarting", "started"}

EmptyRing == [i \in 1..file_index_modulo |-> 0]

NotRunning ==
    [pc |-> "none", signal |-> FALSE, ring |-> EmptyRing, write |-> 0, remove |-> 0, path |-> <<>>]

TypeOK ==
    /\ programs \in [Programs -> Process]
    /\ mswrite_dir \in [Names -> Names \cup {NoFile}] /\ directories \subseteq Paths
    /\ tmpfile \in Names \cup {NoFile}
    /\ state_file \in Rings \cup {<<>>, NoFile}
    /\ pid_file \in Programs \cup {NoProgram}
    /\ shell \in [Shells -> Stages] /\ PID \in [Shells -> Programs \cup {NoProgram}]
    /\ mswrite_script \in BOOLEAN /\ scripts \subseteq Scripts /\ server \subseteq Names
    /\ clock \in Names \cup {0} /\ lapses \subseteq Events

Init ==
    /\ programs = [p \in Programs |-> NotRunning]
    /\ DirectoryInit /\ UploadsInit
    /\ tmpfile = NoFile /\ state_file = NoFile /\ pid_file = NoProgram
    /\ shell = [s \in Shells |-> "idle"] /\ PID = [s \in Shells |-> NoProgram]
    /\ clock = 0 /\ lapses = {}

Happen(events) == events \subseteq Events /\ lapses' = lapses \cup events

-----------------------------------------------------------------------------
(* The program: main and collect_and_write *)

At(p, pc) == programs[p].pc = pc /\ ~programs[p].signal

\* Mutant of Loaded: the ring is put back from slot 0 onwards.
Loaded_shifted == IF state_file \in Rings THEN Append(Tail(state_file), 0) ELSE EmptyRing

\* What the loop of main reads into the ring, whose first slot is file_index.
Loaded == IF state_file \in Rings THEN state_file ELSE EmptyRing

LoadState(p) ==
    /\ At(p, "load")
    /\ programs' = [programs EXCEPT ![p].pc = "collect", ![p].ring = Loaded]
    /\ UNCHANGED <<mswrite_dir, directories, tmpfile, state_file, clock>>
    /\ UNCHANGED <<upload_vars, shell_vars, lapses>>

\* A record is complete and the file in the current slot makes place for it.
EvictOld(p) ==
    LET old == programs[p].ring[1]
    IN  /\ At(p, "collect") /\ clock < MaxName
        /\ IF old = 0
           THEN /\ programs' = [programs EXCEPT ![p].pc = "name"]
                /\ UNCHANGED mswrite_dir
           ELSE /\ programs' = [programs EXCEPT ![p].pc = "prune", ![p].remove = old,
                                                ![p].path = hptime2timestr[old]]
                /\ mswrite_dir' = remove(old)
        /\ UNCHANGED <<directories, tmpfile, state_file, clock>>
        /\ UNCHANGED <<upload_vars, shell_vars, lapses>>

Pruned(p) == [programs EXCEPT ![p].pc = "name", ![p].path = <<>>]

\* Mutant of Prune: only the innermost directory is removed.
PruneMinute(p) ==
    LET path == programs[p].path
    IN  /\ At(p, "prune")
        /\ directories' = IF rmdir_succeeds(path) THEN directories \ {path} ELSE directories
        /\ programs' = Pruned(p)
        /\ UNCHANGED <<mswrite_dir, tmpfile, state_file, clock>>
        /\ UNCHANGED <<upload_vars, shell_vars, lapses>>

\* From the minute outwards, until a directory cannot be removed.
Prune(p) ==
    LET path == programs[p].path
    IN  /\ At(p, "prune")
        /\ IF rmdir_succeeds(path)
           THEN /\ directories' = directories \ {path}
                /\ programs' = IF Len(path) = 1
                               THEN Pruned(p) ELSE [programs EXCEPT ![p].path = Front(path)]
           ELSE programs' = Pruned(p) /\ UNCHANGED directories
        /\ UNCHANGED <<mswrite_dir, tmpfile, state_file, clock>>
        /\ UNCHANGED <<upload_vars, shell_vars, lapses>>

\* The new name is put in the slot; if its minute has no directory yet they
\* are made from the year inwards.
NameFile(p) ==
    LET n == clock + 1
        path == hptime2timestr[n]
    IN  /\ At(p, "name") /\ clock < MaxName
        /\ clock' = n
        /\ programs' =
             [programs EXCEPT ![p].ring[1] = n, ![p].write = n,
                              ![p].pc = IF path \in directories THEN "write" ELSE "mkdir",
                              ![p].path = IF path \in directories THEN <<>> ELSE <<path[1]>>]
        /\ UNCHANGED <<mswrite_dir, directories, tmpfile, state_file>>
        /\ UNCHANGED <<upload_vars, shell_vars, lapses>>

\* Mutant of MakeDirectory: the year is made and not the directories in it.
MakeYear(p) ==
    /\ At(p, "mkdir")
    /\ directories' = mkdir(programs[p].path)
    /\ programs' = [programs EXCEPT ![p].pc = "write", ![p].path = <<>>]
    /\ UNCHANGED <<mswrite_dir, tmpfile, state_file, clock>>
    /\ UNCHANGED <<upload_vars, shell_vars, lapses>>

MakeDirectory(p) ==
    LET path == programs[p].path
        last == hptime2timestr[programs[p].write]
    IN  /\ At(p, "mkdir")
        /\ directories' = mkdir(path)
        /\ programs' = IF path = last
                       THEN [programs EXCEPT ![p].pc = "write", ![p].path = <<>>]
                       ELSE [programs EXCEPT ![p].path = SubSeq(last, 1, Len(path) + 1)]
        /\ UNCHANGED <<mswrite_dir, tmpfile, state_file, clock>>
        /\ UNCHANGED <<upload_vars, shell_vars, lapses>>

\* The first record of a file overwrites the temporary file.
WriteRecord(p) ==
    /\ At(p, "write")
    /\ tmpfile' = programs[p].write
    /\ programs' = [programs EXCEPT ![p].pc = "publish"]
    /\ UNCHANGED <<mswrite_dir, directories, state_file, clock>>
    /\ UNCHANGED <<upload_vars, shell_vars, lapses>>

\* The file is moved to its name, and the script run whether or not it was.
MoveFile(p) ==
    LET n == programs[p].write
    IN  /\ At(p, "publish")
        /\ IF rename_succeeds(tmpfile, n)
           THEN mswrite_dir' = [mswrite_dir EXCEPT ![n] = tmpfile] /\ tmpfile' = NoFile
           ELSE UNCHANGED <<mswrite_dir, tmpfile>>
        /\ run_mswrite_script(n, programs[p].remove)
        /\ programs' = [programs EXCEPT ![p].pc = "advance", ![p].write = 0, ![p].remove = 0]
        /\ UNCHANGED <<directories, state_file, clock>>
        /\ UNCHANGED <<mswrite_script, server, shell_vars, lapses>>

\* Mutant of Advance: the slot that was filled is lost.
AdvanceForgetting(p) ==
    /\ At(p, "advance")
    /\ programs' = [programs EXCEPT ![p].pc = "collect", ![p].ring = Tail(@)]
    /\ UNCHANGED <<mswrite_dir, directories, tmpfile, state_file, clock>>
    /\ UNCHANGED <<upload_vars, shell_vars, lapses>>

Advance(p) ==
    /\ At(p, "advance")
    /\ programs' = [programs EXCEPT ![p].pc = "collect", ![p].ring = Append(Tail(@), Head(@))]
    /\ UNCHANGED <<mswrite_dir, directories, tmpfile, state_file, clock>>
    /\ UNCHANGED <<upload_vars, shell_vars, lapses>>

-----------------------------------------------------------------------------
(* The end of a program *)

\* A directory of a path has been made or removed and another has not.
HalfPath(p) ==
    \/ programs[p].pc = "mkdir" /\ Len(programs[p].path) > 1
    \/ programs[p].pc = "prune" /\ programs[p].path # hptime2timestr[programs[p].remove]

Unreported(p) == mswrite_script /\ programs[p].remove # 0

LeftBehind(p) ==
    (IF HalfPath(p) THEN {"halfpath"} ELSE {}) \cup (IF Unreported(p) THEN {"unreported"} ELSE {})

\* term_handler opens the state file for writing, which empties it.
OpenStateFile(p) ==
    /\ programs[p].signal /\ programs[p].pc \notin {"none", "saving"}
    /\ state_file' = <<>>
    /\ programs' = [programs EXCEPT ![p] =
                      [NotRunning EXCEPT !.pc = "saving", !.signal = TRUE, !.ring = programs[p].ring]]
    /\ Happen(LeftBehind(p) \cup (IF programs[p].pc = "load" THEN {"early"} ELSE {}))
    /\ UNCHANGED <<mswrite_dir, directories, tmpfile, clock, upload_vars, shell_vars>>

\* The ring reaches the file when it is closed, and the program exits.
SaveState(p) ==
    /\ programs[p].pc = "saving"
    /\ state_file' = programs[p].ring
    /\ programs' = [programs EXCEPT ![p] = NotRunning]
    /\ UNCHANGED <<mswrite_dir, directories, tmpfile, clock, upload_vars, shell_vars, lapses>>

Crash(p) ==
    /\ programs[p].pc # "none"
    /\ programs' = [programs EXCEPT ![p] = NotRunning]
    /\ Happen({"crash"} \cup LeftBehind(p))
    /\ UNCHANGED <<mswrite_dir, directories, tmpfile, state_file, clock, upload_vars, shell_vars>>

-----------------------------------------------------------------------------
(* start_logger_writer.sh and stop_logger_writer.sh *)

Running == {p \in Programs : programs[p].pc # "none"}

\* Mutant of Kill: nobody is signalled.
KillNobody == UNCHANGED programs

\* kill sends SIGTERM to the process that the pid file names, if there is one.
Kill ==
    programs' = IF pid_file \in Running
                THEN [programs EXCEPT ![pid_file].signal = TRUE] ELSE programs

Removed(stage) == IF stage = "stop" THEN "idle" ELSE "restarting"

\* stop_logger_writer.sh, alone or at the beginning of start_logger_writer.sh.
StopProgram(s, stage) ==
    /\ shell[s] = "idle"
    /\ IF pid_file = NoProgram
       THEN shell' = [shell EXCEPT ![s] = Removed(stage)] /\ UNCHANGED programs
       ELSE shell' = [shell EXCEPT ![s] = stage] /\ Kill
    /\ UNCHANGED <<mswrite_dir, directories, tmpfile, state_file, clock, upload_vars>>
    /\ UNCHANGED <<pid_file, PID, lapses>>

\* rm -f, whatever the file names now.
RemovePid(s) ==
    /\ shell[s] \in {"stop", "restart"}
    /\ shell' = [shell EXCEPT ![s] = Removed(shell[s])]
    /\ pid_file' = NoProgram
    /\ UNCHANGED <<program_vars, upload_vars, PID, lapses>>

BesideAnother(s) ==
    IF \E u \in Shells \ {s} : shell[u] # "idle" THEN {"overlapped"} ELSE {}

\* The next program is started after the sleep, whatever became of the last.
Launch(s) ==
    /\ shell[s] = "restarting"
    /\ \E p \in Programs \ Running :
         /\ programs' = [programs EXCEPT ![p].pc = "load"]
         /\ PID' = [PID EXCEPT ![s] = p]
    /\ shell' = [shell EXCEPT ![s] = "started"]
    /\ Happen(BesideAnother(s)
                \cup IF \E p \in Running : programs[p].signal THEN {"slow"} ELSE {})
    /\ UNCHANGED <<mswrite_dir, directories, tmpfile, state_file, clock, upload_vars, pid_file>>

WritePid(s) ==
    /\ shell[s] = "started"
    /\ pid_file' = PID[s]
    /\ shell' = [shell EXCEPT ![s] = "idle"] /\ PID' = [PID EXCEPT ![s] = NoProgram]
    /\ Happen(BesideAnother(s))
    /\ UNCHANGED <<program_vars, upload_vars>>

Interrupted(s) ==
    /\ shell[s] # "idle"
    /\ shell' = [shell EXCEPT ![s] = "idle"] /\ PID' = [PID EXCEPT ![s] = NoProgram]
    /\ Happen(IF shell[s] = "started" THEN {"interrupted"} ELSE {})
    /\ UNCHANGED <<program_vars, upload_vars, pid_file>>

-----------------------------------------------------------------------------
Step(p) ==
    \/ LoadState(p) \/ EvictOld(p) \/ Prune(p) \/ NameFile(p) \/ MakeDirectory(p)
    \/ WriteRecord(p) \/ MoveFile(p) \/ Advance(p)
    \/ OpenStateFile(p) \/ SaveState(p)

Shell(s) ==
    \/ StopProgram(s, "stop") \/ StopProgram(s, "restart")
    \/ RemovePid(s) \/ Launch(s) \/ WritePid(s) \/ Interrupted(s)

\* A step of a background script, and the lapse it is if it is one.
UploadStep(t) ==
    /\ \/ OpenLocal(t) /\ UNCHANGED lapses
       \/ LocalFileGone(t) /\ Happen({"late"})
       \/ Store(t) /\ UNCHANGED lapses
       \/ Delete(t) /\ Happen(IF Overtakes(t) THEN {"overtaken"} ELSE {})
    /\ UNCHANGED <<program_vars, shell_vars, mswrite_script>>

UploadFails(t) ==
    /\ ConnectionFails(t) /\ Happen({"failed"})
    /\ UNCHANGED <<program_vars, shell_vars, mswrite_script>>

Next ==
    \/ \E p \in Programs : Step(p) \/ Crash(p)
    \/ \E s \in Shells : Shell(s)
    \/ \E t \in scripts : UploadStep(t) \/ UploadFails(t)

Spec == Init /\ [][Next]_vars

\* Programs and background scripts are scheduled.
FairSpec ==
    /\ Spec
    /\ \A p \in Programs : WF_vars(Step(p))
    /\ WF_vars(\E t \in scripts : UploadStep(t))

-----------------------------------------------------------------------------
(* Properties *)

\* After these a program may run that the scripts know nothing of: they have no
\* lock, and each removes the pid file and writes its own.
Unsupervised == {"interrupted", "overlapped"}

Writers == {p \in Programs : programs[p].pc \in Writing /\ ~programs[p].signal}

\* At most one program writes, however programs are started and stopped, as long
\* as no start script loses its program: it is not interrupted between the start
\* and the pid file, and no other script is at work when it starts a program or
\* writes the pid file. Others may begin and end beside it at other times, and
\* a stopped program may still save its state (start_logger_writer.sh,
\* stop_logger_writer.sh).
OneWriter == lapses \cap Unsupervised = {} => Cardinality(Writers) <= 1

NamesIn(list) == {list[i] : i \in DOMAIN list} \ {0}

\* The names that will be evicted in the end: those of the ring in memory, or
\* of the state file while no program has one.
KnownNames ==
    LET holders == {p \in Programs : programs[p].pc \notin {"none", "load"}}
    IN  IF holders # {} THEN UNION {NamesIn(programs[p].ring) : p \in holders}
        ELSE IF state_file = NoFile THEN {} ELSE NamesIn(state_file)

Disowning == Unsupervised \cup {"slow", "early", "crash"}

\* However often the program is stopped and started again, at any point of its
\* work, every file on disk is known to the program that runs or will run next
\* (main, term_handler and the scripts).
FilesTracked == lapses \cap Disowning = {} => Published \subseteq KnownNames

\* And so is every date directory: no empty ones pile up, although directories
\* are removed by name and only while they are empty (make_mseed_filepath).
DirectoriesTracked ==
    lapses \cap (Disowning \cup {"halfpath"}) = {} =>
        directories \subseteq UNION {PathsTo(hptime2timestr[n]) : n \in KnownNames}

\* What is moved to a name is the file written for it, and the directory it is
\* moved to is there, although the eviction before it removes directories
\* (make_mseed_filepath, collect_and_write).
PublishesItsOwn ==
    lapses \cap Unsupervised = {} =>
        /\ \A p \in Writers : programs[p].pc = "publish" =>
              tmpfile = programs[p].write /\ rename_succeeds(tmpfile, programs[p].write)
        /\ \A n \in Published : mswrite_dir[n] = n

Unreliable == {"failed", "late", "overtaken", "unreported"}

\* A copy whose file has left the disk is deleted by a script that runs or will
\* be started (run_mswrite_script, miniseed_written.bash).
CopiesTracked ==
    lapses \cap Unreliable = {} =>
        \A n \in server \ Published :
            \/ \E t \in scripts : t.remove = n
            \/ \E p \in Programs : programs[p].remove = n

\* So the server holds the files of the buffer and, in the end, no others.
CopiesGone ==
    \A n \in Watched :
        n \in server /\ n \notin Published ~> n \notin server \/ lapses \cap Unreliable # {}
=============================================================================
