---------------------------- MODULE DataDirectory ----------------------------
(***************************************************************************)
(* The directory of published miniseed files: a file lies in a date        *)
(* directory of its own minute, which is created when the file is named    *)
(* and removed, with those around it, when the last file in it is.         *)
(*                                                                         *)
(* A file is named by its start time, 1, 2, ...; a directory is the        *)
(* sequence of the names on the way to it, and mswrite_dir itself is <<>>. *)
(***************************************************************************)
EXTENDS Integers, Sequences, SequencesExt

CONSTANTS
    MaxName,        \* bound: files named in a behaviour
    hptime2timestr, \* the date path of a file, year to minute
    NoFile          \* what a name that does not exist holds

Names == 1..MaxName

ASSUME NameAssumption == MaxName \in Nat
ASSUME PathAssumption ==
    \A n \in Names : hptime2timestr[n] \in Seq(Nat) /\ hptime2timestr[n] # <<>>

VARIABLES
    mswrite_dir,    \* name -> what the file holds, or NoFile
    directories     \* the date directories that exist

PathsTo(path) == {SubSeq(path, 1, k) : k \in 1..Len(path)}

Paths == UNION {PathsTo(hptime2timestr[n]) : n \in Names}

Published == {n \in Names : mswrite_dir[n] # NoFile}

DirectoryInit ==
    /\ mswrite_dir = [n \in Names |-> NoFile]
    /\ directories = {}

\* rmdir removes a directory that exists and holds neither file nor directory.
rmdir_succeeds(path) ==
    /\ path \in directories
    /\ \A n \in Published : hptime2timestr[n] # path
    /\ \A d \in directories : d = path \/ ~IsPrefix(path, d)

\* mkdir makes a directory if the one around it exists.
mkdir(path) ==
    IF Front(path) \in directories \cup {<<>>} THEN directories \cup {path} ELSE directories

\* remove(): the file need not exist.
remove(n) == [mswrite_dir EXCEPT ![n] = NoFile]

\* rename() onto the name of a file: its directory must exist.
rename_succeeds(tmpfile, n) == tmpfile # NoFile /\ hptime2timestr[n] \in directories
=============================================================================
