------------------------------ MODULE Uploads ------------------------------
(***************************************************************************)
(* The copies of the published files on an FTP server: for each file moved *)
(* to its name run_mswrite_script starts miniseed_written.bash in the      *)
(* background, which uploads the file and then deletes the copy of the     *)
(* file that was removed to make place for it. Scripts run at any speed,   *)
(* beside each other and beside the program.                               *)
(***************************************************************************)
EXTENDS DataDirectory

VARIABLES
    mswrite_script, \* whether the settings name a script, or "NONE"
    scripts,    \* the background scripts: [write, remove, stage]; remove = 0 is "-"
    server      \* the files that have a copy

Scripts == [write : Names, remove : Names \cup {0}, stage : {"start", "sending", "deleting"}]

UploadsInit == mswrite_script \in BOOLEAN /\ scripts = {} /\ server = {}

\* Mutant of run_mswrite_script: the argument of the removed file is lost.
run_without_remove(write, remove_) ==
    scripts' = IF mswrite_script
               THEN scripts \cup {[write |-> write, remove |-> 0, stage |-> "start"]}
               ELSE scripts

run_mswrite_script(write, remove_) ==
    scripts' = IF mswrite_script
               THEN scripts \cup {[write |-> write, remove |-> remove_, stage |-> "start"]}
               ELSE scripts

Ends(t) == scripts' = scripts \ {t}

Continues(t, stage) == scripts' = (scripts \ {t}) \cup {[t EXCEPT !.stage = stage]}

\* curl opens the file before it connects.
OpenLocal(t) ==
    /\ t.stage = "start" /\ mswrite_dir[t.write] # NoFile
    /\ Continues(t, "sending")
    /\ UNCHANGED server

\* The file has left the disk already: curl ends, and deletes nothing.
LocalFileGone(t) ==
    /\ t.stage = "start" /\ mswrite_dir[t.write] = NoFile
    /\ Ends(t)
    /\ UNCHANGED server

\* Mutant of Store: curl sends no command after the transfer.
StoreOnly(t) ==
    /\ t.stage = "sending"
    /\ server' = server \cup {t.write}
    /\ Ends(t)

\* The transfer is complete.
Store(t) ==
    /\ t.stage = "sending"
    /\ server' = server \cup {t.write}
    /\ Continues(t, "deleting")

\* -Q "-DELE file": the command that curl sends after a transfer.
Delete(t) ==
    /\ t.stage = "deleting"
    /\ server' = server \ {t.remove}
    /\ Ends(t)

\* A connection that fails ends curl.
ConnectionFails(t) ==
    /\ Ends(t)
    /\ UNCHANGED server

\* The copy to be deleted is still on its way.
Overtakes(t) ==
    t.stage = "deleting" /\ \E u \in scripts : u.write = t.remove /\ u.stage = "sending"
=============================================================================
