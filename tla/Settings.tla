------------------------------ MODULE Settings ------------------------------
(***************************************************************************)
(* Reading the application properties file: settings_open takes its lines  *)
(* one by one, parse_str recognises them and settings_set stores what they *)
(* say in an array of sections, each with a hash map (strmap.c) of chained *)
(* pairs. Any allocation may fail, after which the settings are given up.  *)
(*                                                                         *)
(* A value is told apart from others and has a length; a key has a bucket. *)
(***************************************************************************)
EXTENDS Integers, Sequences

CONSTANTS
    Sections, Keys, Values,
    count,          \* map->count
    bucket_of,      \* hash(key) % map->count
    strlen,         \* lengths of values
    MaxLines,       \* bound: lines of a file
    None

Buckets == 0..count-1
Pairs   == [key : Keys, value : Values, space : Nat]
Maps    == [Buckets -> Seq(Pairs)]

ASSUME BucketAssumption == count \in Nat /\ bucket_of \in [Keys -> Buckets]
ASSUME LengthAssumption == strlen \in [Values -> Nat]
ASSUME LinesAssumption == MaxLines \in Nat
ASSUME NoneAssumption == None \notin Sections \cup Values \cup Maps

VARIABLES
    pc,
    current_section,    \* None: has_section is 0, or the name is empty
    sections,           \* a section: [name, map]; a map: bucket -> its pairs
    heap,               \* what free() was called on: nothing wrong, the array of
                        \* sections that is still in use, or a place within it
    read                \* history: the lines read

vars == <<pc, current_section, sections, heap, read>>

\* What a line is depends on its first characters and on "]" and "=".
BlankLine == <<"blank">>                    \* or a comment
SectionLine(s) == <<"section", s>>          \* [s] and anything after
PairLine(k, v) == <<"pair", k, v>>          \* k=v, or k alone, whose value is ""
BadLine == <<"bad">>                        \* one that begins with "="

Lines ==
    {BlankLine, BadLine} \cup {SectionLine(s) : s \in Sections \cup {None}}
    \cup {PairLine(k, v) : k \in Keys, v \in Values}

SectionRecords == [name : Sections \cup {None}, map : Maps \cup {None}]

TypeOK ==
    /\ pc \in {"reading", "opened", "failed", "aborted"}
    /\ current_section \in Sections \cup {None}
    /\ sections \in Seq(SectionRecords)
    /\ heap \in {"ok", "dangling", "invalid"}
    /\ read \in Seq(Lines) /\ Len(read) <= MaxLines

Init ==
    /\ pc = "reading" /\ current_section = None
    /\ sections = <<>> /\ heap = "ok" /\ read = <<>>

-----------------------------------------------------------------------------
(* strmap.c and get_section *)

\* Mutant of sm_new: the map has one bucket more than the keys are spread over.
sm_new_extra == [b \in Buckets \cup {b + 1 : b \in Buckets} |-> <<>>]

sm_new == [b \in Buckets |-> <<>>]

\* The first place at which something was found, or 0.
First(places) == IF places = {} THEN 0 ELSE CHOOSE i \in places : \A j \in places : i <= j

\* The place of the pair with this key in the chain of its bucket, or 0.
get_pair(map, key) ==
    First({i \in DOMAIN map[bucket_of[key]] : map[bucket_of[key]][i].key = key})

sm_get(map, key) ==
    LET i == get_pair(map, key)
    IN  IF i = 0 THEN None ELSE map[bucket_of[key]][i].value

\* Mutant of grows: lengths are compared the wrong way round.
grows_swapped(pair, value) == strlen[value] < strlen[pair.value]

\* The value of a pair is moved to a larger place when the new value is longer
\* than the one it replaces, not when it is longer than the place.
grows(pair, value) == strlen[pair.value] < strlen[value]

\* Mutant of replaced: the space is set and the value is not copied.
replaced_space(pair, value) == [pair EXCEPT !.space = strlen[value]]

replaced(pair, value) ==
    [pair EXCEPT !.value = value, !.space = IF grows(pair, value) THEN strlen[value] ELSE @]

\* sm_put, with every allocation granted.
sm_put(map, key, value) ==
    LET b == bucket_of[key]
        i == get_pair(map, key)
    IN  IF i # 0
        THEN [map EXCEPT ![b][i] = replaced(@, value)]
        ELSE [map EXCEPT ![b] = Append(@, [key |-> key, value |-> value, space |-> strlen[value]])]

\* Replacing a value by one that is not longer needs no memory.
sm_put_allocates(map, key, value) ==
    LET i == get_pair(map, key)
    IN  i # 0 => grows(map[bucket_of[key]][i], value)

\* Mutant of get_section: only the section added last is looked at.
get_last_section(name) ==
    IF sections # <<>> /\ sections[Len(sections)].name = name THEN Len(sections) ELSE 0

\* The place of the section with this name, or 0.
get_section(name) == First({i \in DOMAIN sections : sections[i].name = name})

-----------------------------------------------------------------------------
(* settings_open, parse_str and settings_set *)

Read(line) ==
    /\ pc = "reading" /\ Len(read) < MaxLines
    /\ read' = Append(read, line)

Skip ==
    /\ Read(BlankLine)
    /\ UNCHANGED <<pc, current_section, sections, heap>>

\* Mutant of EnterSection: [] leaves the section as it was.
EnterSectionKept(s) ==
    /\ Read(SectionLine(s))
    /\ current_section' = IF s = None THEN current_section ELSE s
    /\ UNCHANGED <<pc, sections, heap>>

\* [] leaves no section: settings_set takes no empty name.
EnterSection(s) ==
    /\ Read(SectionLine(s))
    /\ current_section' = s
    /\ UNCHANGED <<pc, sections, heap>>

\* Mutant of Fail: settings_open goes on to the next line.
FailNot == pc' = "reading"

\* settings_open returns NULL.
Fail == pc' = "failed"

SyntaxError ==
    /\ \/ Read(BadLine)
       \/ current_section = None /\ \E k \in Keys, v \in Values : Read(PairLine(k, v))
    /\ Fail
    /\ UNCHANGED <<current_section, sections, heap>>

\* settings_set in a section that exists.
SetInSection(k, v) ==
    LET i == get_section(current_section)
    IN  /\ current_section # None /\ i # 0
        /\ Read(PairLine(k, v))
        /\ sections' = [sections EXCEPT ![i].map = sm_put(@, k, v)]
        /\ UNCHANGED <<pc, current_section, heap>>

SetFails(k, v) ==
    LET i == get_section(current_section)
    IN  /\ current_section # None /\ i # 0
        /\ sm_put_allocates(sections[i].map, k, v)
        /\ Read(PairLine(k, v))
        /\ Fail
        /\ UNCHANGED <<current_section, sections, heap>>

NewSection(map) == Append(sections, [name |-> current_section, map |-> map])

\* settings_set in a section that has to be created.
SetInNewSection(k, v) ==
    /\ current_section # None /\ get_section(current_section) = 0
    /\ Read(PairLine(k, v))
    /\ sections' = NewSection(sm_put(sm_new, k, v))
    /\ UNCHANGED <<pc, current_section, heap>>

\* The array cannot be made larger; or it can, and the pair has no place.
SetInNewSectionFails(k, v) ==
    /\ current_section # None /\ get_section(current_section) = 0
    /\ Read(PairLine(k, v))
    /\ sections' \in {sections, NewSection(sm_new)}
    /\ Fail
    /\ UNCHANGED <<current_section, heap>>

\* The map, or the name, has no place: the section is counted, and free(s) is
\* called on its place in the array. If it is the first it is the array that is
\* freed; otherwise free has undefined behaviour and may abort the program.
CreateSectionFails(k, v) ==
    /\ current_section # None /\ get_section(current_section) = 0
    /\ Read(PairLine(k, v))
    /\ sections' = Append(sections, [name |-> None, map |-> None])
    /\ IF sections = <<>>
       THEN heap' = "dangling" /\ Fail
       ELSE heap' = "invalid" /\ (Fail \/ pc' = "aborted")
    /\ UNCHANGED current_section

EndOfFile ==
    /\ pc = "reading" /\ pc' = "opened"
    /\ UNCHANGED <<current_section, sections, heap, read>>

-----------------------------------------------------------------------------
SettingsSet(k, v) ==
    \/ SetInSection(k, v) \/ SetFails(k, v)
    \/ SetInNewSection(k, v) \/ SetInNewSectionFails(k, v) \/ CreateSectionFails(k, v)

Next ==
    \/ Skip \/ SyntaxError \/ EndOfFile
    \/ \E s \in Sections \cup {None} : EnterSection(s)
    \/ \E k \in Keys, v \in Values : SettingsSet(k, v)

Spec == Init /\ [][Next]_vars

-----------------------------------------------------------------------------
(* Properties *)

settings_get(s, k) ==
    LET i == get_section(s)
    IN  IF i = 0 THEN None ELSE sm_get(sections[i].map, k)

\* The sections and their hash maps are a dictionary: one key is set at a time,
\* whatever bucket or section it shares, and by an allocation that fails none.
contents == [s \in Sections |-> [k \in Keys |-> settings_get(s, k)]]

Dict == INSTANCE Dictionary WITH dict <- contents

ImplementsDictionary == Dict!Spec

\* The section that the i-th line of the file belongs to.
Within(i, s) ==
    \E h \in 1..i-1 : /\ read[h] = SectionLine(s)
                      /\ \A j \in h+1..i-1 : read[j][1] # "section"

Assigns(i, s, k) == read[i][1] = "pair" /\ read[i][2] = k /\ Within(i, s)

\* What can be got is what was read: the last assignment to a key, in any of
\* the parts of its section, and no line was wrong.
GetsWhatWasRead ==
    /\ \A i \in DOMAIN read : read[i] # BadLine
    /\ \A s \in Sections, k \in Keys :
         \/ settings_get(s, k) = None /\ \A i \in DOMAIN read : ~Assigns(i, s, k)
         \/ \E i \in DOMAIN read :
              /\ Assigns(i, s, k) /\ settings_get(s, k) = read[i][3]
              /\ \A j \in i+1..Len(read) : ~Assigns(j, s, k)

\* Settings that were opened are what the file says, whole and without a wrong
\* line (settings_open 149-157, settings_set, sm_put).
OpenedIsRead == pc = "opened" => GetsWhatWasRead

\* strcpy stays within what was allocated for a value, although what is compared
\* is the length of the value before and not that of its place.
ValuesFit ==
    \A i \in DOMAIN sections : sections[i].map # None =>
        \A b \in Buckets : \A j \in DOMAIN sections[i].map[b] :
            strlen[sections[i].map[b][j].value] <= sections[i].map[b][j].space

\* Freed memory and half made sections are not used again: the program gets no
\* settings.
NoUseAfterFree ==
    /\ heap # "ok" => pc \in {"failed", "aborted"}
    /\ \A i \in DOMAIN sections : sections[i].map = None => pc \in {"failed", "aborted"}

-----------------------------------------------------------------------------
(* Their strengthening to an inductive invariant *)

\* The section that parse_str keeps is the one that the lines have led to.
CurrentOK ==
    pc = "reading" => \A s \in Sections : Within(Len(read) + 1, s) <=> current_section = s

\* A section with a name has a map.
SectionsOK == \A i \in DOMAIN sections : sections[i].name # None => sections[i].map \in Maps

\* In a hash map a key has one place, in its own bucket.
Tidy(map) ==
    \A b \in Buckets : \A i, j \in DOMAIN map[b] :
        bucket_of[map[b][i].key] = b /\ (map[b][i].key = map[b][j].key => i = j)

\* There are no two sections of a name; one without has no map either.
TidyOK ==
    /\ \A i \in DOMAIN sections :
         IF sections[i].name = None THEN sections[i].map = None
         ELSE \A j \in DOMAIN sections : sections[j].name = sections[i].name => i = j
    /\ \A i \in DOMAIN sections : sections[i].map # None => Tidy(sections[i].map)

\* Until it fails, settings_open has stored what it has read.
IInv ==
    /\ TypeOK /\ CurrentOK /\ SectionsOK /\ TidyOK /\ ValuesFit /\ NoUseAfterFree
    /\ pc \in {"reading", "opened"} => GetsWhatWasRead
=============================================================================
