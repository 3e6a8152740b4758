------------------------- MODULE Deployment_proofs -------------------------
(***************************************************************************)
(* Theorems about Deployment, for any number of programs that may run at   *)
(* a time, ring of files, date paths and set of lapses.                    *)
(***************************************************************************)
EXTENDS Deployment, SequenceTheorems, FiniteSetTheorems, TLAPS

-----------------------------------------------------------------------------
(* The inductive invariant *)

Active == {p \in Running : ~programs[p].signal}

\* What a program has at hand while it makes directories, writes and publishes.
WorkAt(p) ==
    /\ programs[p].pc = "mkdir" => programs[p].path \in PathsTo(hptime2timestr[programs[p].write])
    /\ programs[p].pc \in {"mkdir", "write", "publish"} =>
         programs[p].write \in Names /\ programs[p].ring[1] = programs[p].write

WorkOK == \A p \in Programs : WorkAt(p)

\* The program that nobody has told to stop is the one that the pid file names,
\* while no script is at work, or the one that a script is about to write there.
SupervisedOK ==
    lapses \cap Unsupervised = {} =>
        /\ \A p \in Active :
             \/ p = pid_file /\ \A s \in Shells : shell[s] = "idle"
             \/ \E s \in Shells : shell[s] = "started" /\ p = PID[s]
        /\ \A s, u \in Shells : shell[s] = "started" /\ shell[u] = "started" => s = u

\* A directory lies in one that exists, and a published file too.
DirectoriesOK ==
    /\ \A d \in directories : Len(d) > 1 => Front(d) \in directories
    /\ \A n \in Published : hptime2timestr[n] \in directories

\* No two programs run unless one is slow to stop.
SoleOK ==
    lapses \cap (Unsupervised \cup {"slow"}) = {} => \A p, q \in Running : p = q

\* What the next program will load names every file.
StateOK ==
    \/ state_file = NoFile /\ Published = {}
    \/ state_file \in Rings /\ Published \subseteq NamesIn(state_file)

\* So does the ring of a program that has loaded it; while a file makes place
\* for the next it is the slot of a file that is gone.
RingOK(p) ==
    IF programs[p].pc = "load" THEN StateOK
    ELSE /\ Published \subseteq NamesIn(programs[p].ring)
         /\ programs[p].pc \in {"prune", "name"} => programs[p].ring[1] \notin Published

TrackedOK ==
    lapses \cap Disowning = {} =>
        /\ \A p \in Running : RingOK(p)
        /\ Running = {} => StateOK

\* The file being written has a directory to go to, or will have one.
WritingAt(p) ==
    /\ programs[p].pc = "mkdir" => Front(programs[p].path) \in directories \cup {<<>>}
    /\ programs[p].pc \in {"write", "publish"} => hptime2timestr[programs[p].write] \in directories
    /\ programs[p].pc = "publish" => tmpfile = programs[p].write

OwnFiles == \A n \in Published : mswrite_dir[n] = n

PublishingOK ==
    lapses \cap Unsupervised = {} => (\A p \in Active : WritingAt(p)) /\ OwnFiles

IInv ==
    /\ TypeOK /\ WorkOK /\ SupervisedOK /\ DirectoriesOK
    /\ SoleOK /\ TrackedOK /\ PublishingOK

-----------------------------------------------------------------------------
(* Rings and paths *)

LEMMA RingProperties ==
    ASSUME NEW r \in Rings
    PROVE  /\ r \in Seq(Names \cup {0}) /\ Len(r) = file_index_modulo /\ r # <<>>
           /\ DOMAIN r = 1..file_index_modulo /\ 1 \in DOMAIN r
           /\ r[1] \in Names \cup {0}
           /\ NamesIn(r) \subseteq Names
<1>1. file_index_modulo \in Nat /\ file_index_modulo >= 1
  BY SizeAssumption
<1>2. r \in [1..file_index_modulo -> Names \cup {0}]
  BY DEF Rings
<1>3. r \in Seq(Names \cup {0})
  BY <1>1, <1>2, SeqDef
<1>4. Len(r) = file_index_modulo
  BY <1>1, <1>2, <1>3
<1>5. \A i \in 1..file_index_modulo : r[i] \in Names \cup {0}
  BY <1>2
<1> QED BY <1>1, <1>2, <1>3, <1>4, <1>5 DEF NamesIn

LEMMA SequenceIsRing ==
    ASSUME NEW r \in Seq(Names \cup {0}), Len(r) = file_index_modulo
    PROVE  r \in Rings
BY LenProperties DEF Rings

\* Moving on by a slot keeps the ring, and its names.
LEMMA AdvancedRing ==
    ASSUME NEW r \in Rings
    PROVE  /\ Append(Tail(r), Head(r)) \in Rings
           /\ NamesIn(Append(Tail(r), Head(r))) = NamesIn(r)
<1> DEFINE S == Names \cup {0}
<1> DEFINE n == file_index_modulo
<1> DEFINE t == Tail(r)
<1> DEFINE a == Append(t, Head(r))
<1>1. n \in Nat /\ n >= 1
  BY SizeAssumption
<1>2. r \in Seq(S) /\ Len(r) = n /\ r # <<>>
  BY RingProperties
<1>3. /\ Head(r) = r[1] /\ r[1] \in S
      /\ t \in Seq(S) /\ Len(t) = n - 1
      /\ \A i \in 1..n-1 : t[i] = r[i+1]
  BY <1>1, <1>2, HeadTailProperties
<1>4. /\ a \in Seq(S) /\ Len(a) = n
      /\ \A i \in 1..n-1 : a[i] = r[i+1]
      /\ a[n] = r[1]
  BY <1>1, <1>3, AppendProperties
<1> HIDE DEF a, t
<1>5. a \in Rings
  BY <1>4, SequenceIsRing
<1>6. DOMAIN a = 1..n /\ DOMAIN r = 1..n
  BY <1>2, <1>4, LenProperties
<1>7. \A i \in 1..n : \E j \in 1..n : a[i] = r[j]
  <2> TAKE i \in 1..n
  <2>1. CASE i = n
    BY <1>1, <1>4, <2>1
  <2>2. CASE i # n
    <3>1. i \in 1..n-1 /\ i+1 \in 1..n
      BY <1>1, <2>2
    <3> QED BY <1>4, <3>1
  <2> QED BY <2>1, <2>2
<1>8. \A j \in 1..n : \E i \in 1..n : a[i] = r[j]
  <2> TAKE j \in 1..n
  <2>1. CASE j = 1
    BY <1>1, <1>4, <2>1
  <2>2. CASE j # 1
    <3>1. j-1 \in 1..n-1 /\ j-1 \in 1..n /\ (j-1)+1 = j
      BY <1>1, <2>2
    <3> QED BY <1>4, <3>1
  <2> QED BY <2>1, <2>2
<1>9. {a[i] : i \in 1..n} = {r[i] : i \in 1..n}
  <2>1. {a[i] : i \in 1..n} \subseteq {r[i] : i \in 1..n}
    BY <1>7
  <2>2. {r[i] : i \in 1..n} \subseteq {a[i] : i \in 1..n}
    BY <1>8
  <2> QED BY <2>1, <2>2
<1>10. NamesIn(a) = NamesIn(r)
  <2>1. NamesIn(a) = {a[i] : i \in 1..n} \ {0}
    BY <1>6 DEF NamesIn
  <2>2. NamesIn(r) = {r[i] : i \in 1..n} \ {0}
    BY <1>6 DEF NamesIn
  <2> QED BY <1>9, <2>1, <2>2
<1> QED BY <1>5, <1>10 DEF a, t

\* A new name in the first slot.
LEMMA RenamedRing ==
    ASSUME NEW r \in Rings, NEW n \in Names
    PROVE  /\ [r EXCEPT ![1] = n] \in Rings
           /\ [r EXCEPT ![1] = n][1] = n
           /\ NamesIn(r) \ {r[1]} \subseteq NamesIn([r EXCEPT ![1] = n])
<1>1. r \in [1..file_index_modulo -> Names \cup {0}] /\ 1 \in 1..file_index_modulo
  BY SizeAssumption DEF Rings
<1> QED BY <1>1 DEF Rings, NamesIn

LEMMA PathProperties ==
    ASSUME NEW n \in Names, NEW path \in PathsTo(hptime2timestr[n])
    PROVE  /\ path \in Seq(Nat) /\ path \in Paths
           /\ Len(path) \in 1..Len(hptime2timestr[n])
           /\ path = SubSeq(hptime2timestr[n], 1, Len(path))
<1> DEFINE h == hptime2timestr[n]
<1>1. h \in Seq(Nat) /\ Len(h) \in Nat
  BY PathAssumption
<1>2. PICK k \in 1..Len(h) : path = SubSeq(h, 1, k)
  BY DEF PathsTo
<1>3. path \in Seq(Nat) /\ Len(path) = k
  BY <1>1, <1>2, SubSeqProperties, ElementOfSeq
<1> QED BY <1>1, <1>2, <1>3 DEF Paths

\* The directories on the way to a file, from the year inwards.
LEMMA PathsOnTheWay ==
    ASSUME NEW n \in Names
    PROVE  LET h == hptime2timestr[n]
           IN  /\ <<h[1]>> \in PathsTo(h) /\ Front(<<h[1]>>) = <<>>
               /\ h \in PathsTo(h)
               /\ \A path \in PathsTo(h) : path # h =>
                    LET next == SubSeq(h, 1, Len(path) + 1)
                    IN  next \in PathsTo(h) /\ Front(next) = path
<1> DEFINE h == hptime2timestr[n]
<1>1. h \in Seq(Nat) /\ Len(h) \in Nat /\ Len(h) >= 1
  BY PathAssumption, EmptySeq
<1>2. <<h[1]>> \in PathsTo(h) /\ Front(<<h[1]>>) = <<>>
  <2>1. h[1] \in Nat
    BY <1>1, ElementOfSeq
  <2>2. SubSeq(h, 1, 1) \in Seq(Nat) /\ Len(SubSeq(h, 1, 1)) = 1 /\ SubSeq(h, 1, 1)[1] = h[1]
    BY <2>1, SubSeqProperties
  <2>3. SubSeq(h, 1, 1) = <<h[1]>>
    <3>1. <<h[1]>> \in Seq(Nat) /\ Len(<<h[1]>>) = 1 /\ <<h[1]>>[1] = h[1]
      BY <2>1
    <3>2. \A i \in 1..Len(SubSeq(h, 1, 1)) : SubSeq(h, 1, 1)[i] = <<h[1]>>[i]
      BY <2>2, <3>1
    <3> QED BY <2>2, <3>1, <3>2, SeqEqual, Zenon
  <2>4. Len(<<h[1]>>) = 1 /\ SubSeq(<<h[1]>>, 1, 0) = <<>>
    BY SubSeqEmpty
  <2> QED BY <1>1, <2>3, <2>4 DEF PathsTo, Front
<1>3. h \in PathsTo(h)
  BY <1>1, SubSeqFull DEF PathsTo
<1>4. ASSUME NEW path \in PathsTo(h), path # h
      PROVE  LET next == SubSeq(h, 1, Len(path) + 1)
             IN  next \in PathsTo(h) /\ Front(next) = path
  <2> DEFINE next == SubSeq(h, 1, Len(path) + 1)
  <2>1. Len(path) \in 1..Len(h) /\ path = SubSeq(h, 1, Len(path))
    BY PathProperties
  <2>2. Len(path) # Len(h)
    BY <1>1, <1>4, <2>1, SubSeqFull
  <2>3. Len(path) + 1 \in 1..Len(h)
    BY <1>1, <2>1, <2>2
  <2>4. Len(next) = Len(path) + 1
    BY <1>1, <2>3, SubSeqProperties, ElementOfSeq
  <2>5. Front(next) = SubSeq(h, 1, Len(path))
    <3>1. Front(next) = SubSeq(SubSeq(h, 1, Len(path) + 1), 1, Len(path))
      BY <1>1, <2>1, <2>4 DEF Front
    <3>2. SubSeq(SubSeq(h, 1, Len(path) + 1), 1, Len(path)) = SubSeq(h, 1 + 1 - 1, 1 + Len(path) - 1)
      BY <1>1, <2>1, <2>3, SubSeqOfSubSeq
    <3> QED BY <1>1, <2>1, <3>1, <3>2
  <2> QED BY <2>1, <2>3, <2>5 DEF PathsTo
<1> QED BY <1>2, <1>3, <1>4

LEMMA FrontProperties ==
    ASSUME NEW d \in Paths, Len(d) > 1
    PROVE  Front(d) \in Paths /\ Front(d) # d /\ Front(d) # <<>> /\ IsPrefix(Front(d), d)
<1>1. PICK n \in Names : d \in PathsTo(hptime2timestr[n])
  BY DEF Paths
<1> DEFINE h == hptime2timestr[n]
<1> DEFINE k == Len(d) - 1
<1>2. h \in Seq(Nat) /\ Len(h) \in Nat
  BY PathAssumption
<1>3. d \in Seq(Nat) /\ Len(d) \in 1..Len(h) /\ d = SubSeq(h, 1, Len(d))
  BY <1>1, PathProperties
<1>4. k \in 1..Len(h) /\ k \in 1..Len(d) /\ k < Len(d)
  BY <1>2, <1>3
<1>5. Front(d) = SubSeq(h, 1, k)
  <2>1. Front(d) = SubSeq(SubSeq(h, 1, Len(d)), 1, k)
    BY <1>3 DEF Front
  <2>2. SubSeq(SubSeq(h, 1, Len(d)), 1, k) = SubSeq(h, 1 + 1 - 1, 1 + k - 1)
    BY <1>2, <1>3, <1>4, SubSeqOfSubSeq
  <2> QED BY <1>2, <1>4, <2>1, <2>2
<1>6. Front(d) \in Paths
  <2>1. Front(d) \in PathsTo(h)
    BY <1>4, <1>5 DEF PathsTo
  <2> QED BY <2>1 DEF Paths
<1>7. Front(d) \in Seq(Nat) /\ Len(Front(d)) = k
  BY <1>2, <1>4, <1>5, SubSeqProperties, ElementOfSeq
<1>8. SubSeq(Front(d), 1, k) = Front(d)
  BY <1>7, SubSeqFull
<1>9. Front(d) = SubSeq(d, 1, k)
  BY DEF Front
<1>10. IsPrefix(Front(d), d)
  <2>1. Len(Front(d)) <= Len(d)
    BY <1>3, <1>4, <1>7
  <2>2. SubSeq(Front(d), 1, Len(Front(d))) = SubSeq(d, 1, Len(Front(d)))
    BY <1>7, <1>8, <1>9
  <2> QED BY <2>1, <2>2 DEF IsPrefix
<1>11. Front(d) # d
  BY <1>3, <1>4, <1>7
<1>12. Front(d) # <<>>
  <2>1. Len(Front(d)) # 0
    BY <1>4, <1>7
  <2> QED BY <1>7, <2>1, EmptySeq
<1> QED BY <1>6, <1>10, <1>11, <1>12

-----------------------------------------------------------------------------
(* Who runs *)

\* Of the programs that nobody has told to stop there is one, at most.
LEMMA OneActive ==
    ASSUME SupervisedOK, lapses \cap Unsupervised = {},
           NEW p \in Active, NEW q \in Active
    PROVE  p = q
BY DEF SupervisedOK

LEMMA ProcessFields ==
    ASSUME TypeOK, NEW p \in Programs
    PROVE  /\ programs[p] \in Process
           /\ programs[p].pc \in {"none", "load", "saving"} \cup Writing
           /\ programs[p].signal \in BOOLEAN
           /\ programs[p].ring \in Rings
           /\ programs[p].write \in Names \cup {0}
           /\ programs[p].remove \in Names \cup {0}
           /\ programs[p].path \in Paths \cup {<<>>}
<1>1. programs[p] \in Process
  BY DEF TypeOK
<1> QED BY <1>1 DEF Process

\* A step of one program that neither starts, ends nor is told to stop.
LEMMA StepPreserves ==
    ASSUME IInv, NEW p \in Programs, p \in Active,
           programs'[p].pc # "none", programs'[p].signal = programs[p].signal,
           \A q \in Programs : q # p => programs'[q] = programs[q],
           UNCHANGED <<shell_vars, lapses>>,
           TypeOK', WorkAt(p)', DirectoriesOK',
           lapses \cap Disowning = {} /\ RingOK(p) => RingOK(p)',
           lapses \cap Unsupervised = {} /\ WritingAt(p) /\ OwnFiles => WritingAt(p)' /\ OwnFiles'
    PROVE  IInv'
<1> USE DEF shell_vars
<1>1. Running' = Running /\ Active' = Active /\ p \in Running
  BY DEF Running, Active
<1>2. WorkOK'
  BY DEF IInv, WorkOK, WorkAt
<1>3. SupervisedOK'
  BY <1>1 DEF IInv, SupervisedOK
<1>4. SoleOK'
  BY <1>1 DEF IInv, SoleOK
<1>5. TrackedOK'
  <2> SUFFICES ASSUME lapses \cap Disowning = {} PROVE \A q \in Running : RingOK(q)'
    BY <1>1 DEF TrackedOK
  <2>1. \A q \in Running : q = p
    BY <1>1 DEF IInv, SoleOK, Disowning
  <2>2. RingOK(p)
    BY <1>1 DEF IInv, TrackedOK
  <2> QED BY <2>1, <2>2
<1>6. PublishingOK'
  <2> SUFFICES ASSUME lapses \cap Unsupervised = {} PROVE (\A q \in Active : WritingAt(q)') /\ OwnFiles'
    BY <1>1 DEF PublishingOK
  <2>1. \A q \in Active : q = p
    BY OneActive DEF IInv
  <2>2. WritingAt(p) /\ OwnFiles
    BY DEF IInv, PublishingOK
  <2> QED BY <2>1, <2>2
<1> QED BY <1>2, <1>3, <1>4, <1>5, <1>6 DEF IInv

-----------------------------------------------------------------------------
(* The steps of a program *)

LEMMA ActiveAt ==
    ASSUME NEW p \in Programs, NEW pc, At(p, pc), pc # "none"
    PROVE  p \in Active /\ programs[p].pc = pc
BY DEF At, Active, Running

LEMMA LoadStatePreserves ==
    ASSUME IInv, NEW p \in Programs, LoadState(p)
    PROVE  IInv'
<1> USE DEF LoadState
<1>1. p \in Active /\ programs[p].pc = "load"
  BY ActiveAt
<1>2. /\ TypeOK /\ programs \in [Programs -> Process] /\ programs[p] \in Process
      /\ EmptyRing \in Rings /\ Loaded \in Rings
  BY ProcessFields DEF IInv, TypeOK, EmptyRing, Rings, Loaded
<1>3. /\ programs'[p] = [programs[p] EXCEPT !.pc = "collect", !.ring = Loaded]
      /\ \A q \in Programs : q # p => programs'[q] = programs[q]
  BY <1>2
<1>4. /\ programs'[p].pc = "collect" /\ programs'[p].signal = programs[p].signal
      /\ programs'[p].ring = Loaded
      /\ programs'[p] \in Process
  BY <1>2, <1>3 DEF Process, Writing
<1>5. TypeOK'
  BY <1>2, <1>4 DEF TypeOK, upload_vars, shell_vars
<1>6. WorkAt(p)' /\ DirectoriesOK'
  BY <1>4 DEF IInv, WorkAt, DirectoriesOK, Published
<1>7. RingOK(p) => RingOK(p)'
  BY <1>1, <1>4, NoFileAssumption DEF RingOK, StateOK, Loaded, Published
<1>8. OwnFiles => WritingAt(p)' /\ OwnFiles'
  BY <1>4 DEF WritingAt, OwnFiles, Published
<1> QED BY <1>1, <1>3, <1>4, <1>5, <1>6, <1>7, <1>8, StepPreserves

LEMMA EvictOldPreserves ==
    ASSUME IInv, NEW p \in Programs, EvictOld(p)
    PROVE  IInv'
<1> DEFINE old == programs[p].ring[1]
<1> USE DEF EvictOld
<1>1. p \in Active /\ programs[p].pc = "collect"
  BY ActiveAt
<1>2. /\ TypeOK /\ programs \in [Programs -> Process] /\ programs[p] \in Process
      /\ programs[p].ring \in Rings /\ old \in Names \cup {0}
  BY ProcessFields, RingProperties DEF IInv, TypeOK
<1>3. /\ \A q \in Programs : q # p => programs'[q] = programs[q]
      /\ programs'[p].signal = programs[p].signal
      /\ programs'[p].ring = programs[p].ring /\ programs'[p].pc \in {"prune", "name"}
  BY <1>2 DEF Process
<1>4. /\ programs'[p] \in Process /\ programs' \in [Programs -> Process]
      /\ mswrite_dir' \in [Names -> Names \cup {NoFile}]
  <2>1. CASE old = 0
    BY <1>2, <2>1 DEF TypeOK, Process, Writing
  <2>2. CASE old # 0
    <3>1. hptime2timestr[old] \in Paths
      BY <1>2, <2>2, PathsOnTheWay, PathProperties
    <3>2. programs'[p] = [programs[p] EXCEPT !.pc = "prune", !.remove = old,
                                             !.path = hptime2timestr[old]]
      BY <1>2, <2>2
    <3>3. programs'[p] \in Process
      BY <1>2, <2>2, <3>1, <3>2 DEF Process, Writing
    <3>4. programs' \in [Programs -> Process]
      BY <1>2, <2>2, <3>3
    <3> QED BY <1>2, <2>2, <3>3, <3>4 DEF TypeOK, remove
  <2> QED BY <2>1, <2>2
<1>5. TypeOK'
  BY <1>2, <1>4 DEF TypeOK, upload_vars, shell_vars
<1>6. /\ Published' \subseteq Published /\ old \notin Published'
      /\ \A n \in Published' : mswrite_dir'[n] = mswrite_dir[n]
  <2>1. CASE old = 0
    <3>1. mswrite_dir' = mswrite_dir
      BY <2>1
    <3>2. 0 \notin Names
      BY NameAssumption DEF Names
    <3> QED BY <2>1, <3>1, <3>2 DEF Published
  <2>2. CASE old # 0
    <3>1. mswrite_dir' = [mswrite_dir EXCEPT ![old] = NoFile] /\ old \in Names
      BY <1>2, <2>2 DEF remove
    <3>2. \A n \in Names : mswrite_dir'[n] = IF n = old THEN NoFile ELSE mswrite_dir[n]
      BY <1>2, <3>1 DEF TypeOK
    <3> QED BY <3>1, <3>2 DEF Published
  <2> QED BY <2>1, <2>2
<1>7. WorkAt(p)'
  BY <1>3 DEF WorkAt
<1>8. DirectoriesOK'
  BY <1>6 DEF IInv, DirectoriesOK
<1>9. RingOK(p) => RingOK(p)'
  BY <1>1, <1>3, <1>6 DEF RingOK
<1>10. OwnFiles => WritingAt(p)' /\ OwnFiles'
  BY <1>3, <1>6 DEF WritingAt, OwnFiles
<1>11. programs'[p].pc # "none"
  BY <1>3
<1> QED BY <1>1, <1>3, <1>5, <1>7, <1>8, <1>9, <1>10, <1>11, StepPreserves

\* Removing an empty directory keeps the others, and the files, in theirs.
LEMMA RemovedDirectory ==
    ASSUME IInv, NEW path, rmdir_succeeds(path), directories' = directories \ {path},
           UNCHANGED mswrite_dir
    PROVE  DirectoriesOK'
<1>1. directories \subseteq Paths /\ path \in directories /\ Published' = Published
  BY DEF IInv, TypeOK, rmdir_succeeds, Published
<1>2. ASSUME NEW d \in directories', Len(d) > 1 PROVE Front(d) \in directories'
  <2>1. d \in directories /\ d # path /\ Front(d) \in directories
    BY <1>2 DEF IInv, DirectoriesOK
  <2>2. IsPrefix(Front(d), d)
    BY <1>1, <1>2, <2>1, FrontProperties
  <2>3. Front(d) # path
    BY <2>1, <2>2 DEF rmdir_succeeds
  <2> QED BY <2>1, <2>3
<1>3. ASSUME NEW n \in Published' PROVE hptime2timestr[n] \in directories'
  BY <1>1, <1>3 DEF IInv, DirectoriesOK, rmdir_succeeds
<1> QED BY <1>2, <1>3 DEF DirectoriesOK

LEMMA PrunePreserves ==
    ASSUME IInv, NEW p \in Programs, Prune(p)
    PROVE  IInv'
<1> DEFINE path == programs[p].path
<1> USE DEF Prune, Pruned
<1>1. p \in Active /\ programs[p].pc = "prune"
  BY ActiveAt
<1>2. /\ TypeOK /\ programs \in [Programs -> Process] /\ programs[p] \in Process
      /\ path \in Paths \cup {<<>>}
  BY ProcessFields DEF IInv, TypeOK
<1>3. /\ \A q \in Programs : q # p => programs'[q] = programs[q]
      /\ programs'[p].signal = programs[p].signal
      /\ programs'[p].ring = programs[p].ring /\ programs'[p].pc \in {"prune", "name"}
  BY <1>1, <1>2 DEF Process
<1>4. programs' \in [Programs -> Process]
  <2>1. CASE rmdir_succeeds(path) /\ Len(path) # 1
    <3>1. path \in Paths
      BY <1>2, <2>1 DEF TypeOK, rmdir_succeeds
    <3>2. PICK n \in Names : path \in PathsTo(hptime2timestr[n])
      BY <3>1 DEF Paths
    <3>3. Len(path) \in 1..Len(hptime2timestr[n]) /\ Len(hptime2timestr[n]) \in Nat
      BY <3>2, PathProperties, PathAssumption
    <3>4. Len(path) > 1
      <4> DEFINE k == Len(path)
      <4>1. k \in 1..Len(hptime2timestr[n]) /\ Len(hptime2timestr[n]) \in Nat /\ k # 1
        BY <2>1, <3>3
      <4> HIDE DEF k
      <4>2. k > 1
        BY <4>1
      <4> QED BY <4>2 DEF k
    <3>5. Front(path) \in Paths
      BY <3>1, <3>4, FrontProperties
    <3>6. [programs[p] EXCEPT !.path = Front(path)] \in Process
      BY <1>2, <3>5 DEF Process
    <3> QED BY <1>2, <2>1, <3>6
  <2>2. CASE ~(rmdir_succeeds(path) /\ Len(path) # 1)
    <3>1. [programs[p] EXCEPT !.pc = "name", !.path = <<>>] \in Process
      BY <1>2 DEF Process, Writing
    <3> QED BY <1>2, <2>2, <3>1
  <2> QED BY <2>1, <2>2
<1>5. TypeOK'
  BY <1>2, <1>4 DEF TypeOK, upload_vars, shell_vars
<1>6. DirectoriesOK'
  <2>1. CASE rmdir_succeeds(path)
    BY <2>1, RemovedDirectory
  <2>2. CASE ~rmdir_succeeds(path)
    BY <2>2 DEF IInv, DirectoriesOK, Published
  <2> QED BY <2>1, <2>2
<1>7. WorkAt(p)'
  BY <1>3 DEF WorkAt
<1>8. RingOK(p) => RingOK(p)'
  BY <1>1, <1>3 DEF RingOK, Published
<1>9. OwnFiles => WritingAt(p)' /\ OwnFiles'
  BY <1>3 DEF WritingAt, OwnFiles, Published
<1>10. programs'[p].pc # "none"
  BY <1>3
<1> QED BY <1>1, <1>3, <1>5, <1>6, <1>7, <1>8, <1>9, <1>10, StepPreserves

\* The first step of a file: its name takes the slot of one that is gone.
LEMMA NameFilePreserves ==
    ASSUME IInv, NEW p \in Programs, NameFile(p)
    PROVE  IInv'
<1> DEFINE n == clock + 1
<1> DEFINE h == hptime2timestr[n]
<1> DEFINE r == programs[p].ring
<1> USE DEF NameFile
<1>1. p \in Active /\ programs[p].pc = "name"
  BY ActiveAt
<1>2. /\ TypeOK /\ programs \in [Programs -> Process] /\ programs[p] \in Process
      /\ r \in Rings
  BY ProcessFields DEF IInv, TypeOK
<1>3. n \in Names
  BY <1>2, NameAssumption DEF TypeOK, Names
<1>4. /\ [r EXCEPT ![1] = n] \in Rings /\ [r EXCEPT ![1] = n][1] = n
      /\ NamesIn(r) \ {r[1]} \subseteq NamesIn([r EXCEPT ![1] = n])
  BY <1>2, <1>3, RenamedRing
<1>5. /\ <<h[1]>> \in PathsTo(h) /\ <<h[1]>> \in Paths /\ Front(<<h[1]>>) = <<>>
  BY <1>3, PathsOnTheWay, PathProperties
<1>6. /\ \A q \in Programs : q # p => programs'[q] = programs[q]
      /\ programs'[p].signal = programs[p].signal
      /\ programs'[p].ring = [r EXCEPT ![1] = n]
      /\ programs'[p].write = n
      /\ programs'[p].remove = programs[p].remove
      /\ programs'[p].pc = (IF h \in directories THEN "write" ELSE "mkdir")
      /\ programs'[p].path = (IF h \in directories THEN <<>> ELSE <<h[1]>>)
      /\ programs'[p] = [programs[p] EXCEPT !.ring[1] = n, !.write = n,
                              !.pc = IF h \in directories THEN "write" ELSE "mkdir",
                              !.path = IF h \in directories THEN <<>> ELSE <<h[1]>>]
  BY <1>2 DEF Process
<1>7. programs' \in [Programs -> Process]
  <2> DEFINE new == [programs[p] EXCEPT !.ring[1] = n, !.write = n,
                              !.pc = IF h \in directories THEN "write" ELSE "mkdir",
                              !.path = IF h \in directories THEN <<>> ELSE <<h[1]>>]
  <2>1. new \in Process
    BY <1>2, <1>3, <1>4, <1>5 DEF Process, Writing
  <2>2. programs'[p] = new
    BY <1>6
  <2> QED BY <1>2, <2>1, <2>2
<1>8. /\ clock' \in Names
      /\ UNCHANGED <<mswrite_dir, directories, tmpfile, state_file, upload_vars, shell_vars, lapses>>
  BY <1>3
<1> HIDE DEF NameFile
<1>9. TypeOK'
  BY <1>2, <1>7, <1>8 DEF TypeOK, upload_vars, shell_vars
<1>10. WorkAt(p)'
  BY <1>3, <1>4, <1>5, <1>6 DEF WorkAt
<1>11. DirectoriesOK' /\ Published' = Published
  BY <1>8 DEF IInv, DirectoriesOK, Published
<1>12. RingOK(p) => RingOK(p)'
  BY <1>1, <1>4, <1>6, <1>11 DEF RingOK
<1>13. OwnFiles => WritingAt(p)' /\ OwnFiles'
  BY <1>5, <1>6, <1>8 DEF WritingAt, OwnFiles, Published
<1>14. programs'[p].pc # "none"
  BY <1>6
<1> HIDE DEF n, h, r
<1>15. /\ \A q \in Programs : q # p => programs'[q] = programs[q]
       /\ programs'[p].signal = programs[p].signal
  BY <1>6
<1> QED BY <1>1, <1>8, <1>9, <1>10, <1>11, <1>12, <1>13, <1>14, <1>15, StepPreserves

LEMMA MakeDirectoryPreserves ==
    ASSUME IInv, NEW p \in Programs, MakeDirectory(p)
    PROVE  IInv'
<1> DEFINE path == programs[p].path
<1> DEFINE n == programs[p].write
<1> DEFINE last == hptime2timestr[n]
<1> DEFINE next == SubSeq(last, 1, Len(path) + 1)
<1> USE DEF MakeDirectory
<1>1. p \in Active /\ programs[p].pc = "mkdir"
  BY ActiveAt
<1>2. /\ TypeOK /\ programs \in [Programs -> Process] /\ programs[p] \in Process
  BY ProcessFields DEF IInv, TypeOK
<1>3. /\ n \in Names /\ programs[p].ring[1] = n
      /\ path \in PathsTo(last) /\ path \in Paths
  BY <1>1, PathProperties DEF IInv, WorkOK, WorkAt
<1>4. path # last => next \in PathsTo(last) /\ next \in Paths /\ Front(next) = path
  BY <1>3, PathsOnTheWay, PathProperties
<1>5. /\ \A q \in Programs : q # p => programs'[q] = programs[q]
      /\ programs'[p].signal = programs[p].signal
      /\ programs'[p].ring = programs[p].ring /\ programs'[p].write = n
      /\ programs'[p].remove = programs[p].remove
      /\ path = last => programs'[p].pc = "write" /\ programs'[p].path = <<>>
      /\ path # last => programs'[p].pc = "mkdir" /\ programs'[p].path = next
  BY <1>1, <1>2 DEF Process
<1>6. programs' \in [Programs -> Process]
  <2>1. CASE path = last
    <3>1. [programs[p] EXCEPT !.pc = "write", !.path = <<>>] \in Process
      BY <1>2 DEF Process, Writing
    <3> QED BY <1>2, <2>1, <3>1
  <2>2. CASE path # last
    <3>1. [programs[p] EXCEPT !.path = next] \in Process
      BY <1>2, <1>4, <2>2 DEF Process
    <3> QED BY <1>2, <2>2, <3>1
  <2> QED BY <2>1, <2>2
<1>7. /\ directories \subseteq directories' /\ directories' \subseteq directories \cup {path}
      /\ Front(path) \in directories \cup {<<>>} => path \in directories'
      /\ path \in directories' => path \in directories \/ Front(path) \in directories \cup {<<>>}
  BY DEF mkdir
<1>8. TypeOK'
  BY <1>2, <1>3, <1>6, <1>7 DEF TypeOK, upload_vars, shell_vars
<1>9. WorkAt(p)'
  BY <1>3, <1>4, <1>5 DEF WorkAt
<1>10. Published' = Published
  BY DEF Published
<1>11. DirectoriesOK'
  <2>1. ASSUME NEW d \in directories', Len(d) > 1 PROVE Front(d) \in directories'
    <3>1. CASE d \in directories
      BY <1>7, <2>1, <3>1 DEF IInv, DirectoriesOK
    <3>2. CASE d \notin directories
      <4>1. d = path /\ Front(path) \in directories \cup {<<>>}
        BY <1>7, <2>1, <3>2
      <4>2. Front(path) # <<>>
        BY <1>3, <2>1, <4>1, FrontProperties
      <4> QED BY <1>7, <4>1, <4>2
    <3> QED BY <3>1, <3>2
  <2> QED BY <1>7, <1>10, <2>1 DEF IInv, DirectoriesOK
<1>12. RingOK(p) => RingOK(p)'
  BY <1>1, <1>5, <1>10 DEF RingOK
<1>13. WritingAt(p) /\ OwnFiles => WritingAt(p)' /\ OwnFiles'
  <2> SUFFICES ASSUME WritingAt(p), OwnFiles PROVE WritingAt(p)' /\ OwnFiles'
    OBVIOUS
  <2>1. path \in directories'
    BY <1>1, <1>7 DEF WritingAt
  <2>2. WritingAt(p)'
    BY <1>4, <1>5, <2>1 DEF WritingAt
  <2> QED BY <1>10, <2>2 DEF OwnFiles
<1>14. programs'[p].pc # "none"
  BY <1>5
<1> QED BY <1>1, <1>5, <1>8, <1>9, <1>11, <1>12, <1>13, <1>14, StepPreserves

LEMMA WriteRecordPreserves ==
    ASSUME IInv, NEW p \in Programs, WriteRecord(p)
    PROVE  IInv'
<1> USE DEF WriteRecord
<1>1. p \in Active /\ programs[p].pc = "write"
  BY ActiveAt
<1>2. /\ TypeOK /\ programs \in [Programs -> Process] /\ programs[p] \in Process
      /\ programs[p].write \in Names /\ programs[p].ring[1] = programs[p].write
  BY <1>1, ProcessFields DEF IInv, TypeOK, WorkOK, WorkAt
<1>3. /\ \A q \in Programs : q # p => programs'[q] = programs[q]
      /\ programs'[p] = [programs[p] EXCEPT !.pc = "publish"]
      /\ programs'[p].pc = "publish"
      /\ programs'[p].signal = programs[p].signal
      /\ programs'[p].ring = programs[p].ring /\ programs'[p].write = programs[p].write
  BY <1>2 DEF Process
<1>4. programs'[p] \in Process
  BY <1>2, <1>3 DEF Process, Writing
<1>5. TypeOK'
  BY <1>2, <1>4 DEF TypeOK, upload_vars, shell_vars
<1>6. WorkAt(p)' /\ DirectoriesOK' /\ Published' = Published
  BY <1>2, <1>3 DEF IInv, WorkAt, DirectoriesOK, Published
<1>7. RingOK(p) => RingOK(p)'
  BY <1>1, <1>3, <1>6 DEF RingOK
<1>8. WritingAt(p) /\ OwnFiles => WritingAt(p)' /\ OwnFiles'
  BY <1>1, <1>3, <1>6 DEF WritingAt, OwnFiles
<1> QED BY <1>1, <1>3, <1>5, <1>6, <1>7, <1>8, StepPreserves

LEMMA MoveFilePreserves ==
    ASSUME IInv, NEW p \in Programs, MoveFile(p)
    PROVE  IInv'
<1> DEFINE n == programs[p].write
<1> USE DEF MoveFile
<1>1. p \in Active /\ programs[p].pc = "publish"
  BY ActiveAt
<1>2. /\ TypeOK /\ programs \in [Programs -> Process] /\ programs[p] \in Process
      /\ n \in Names /\ programs[p].ring[1] = n /\ programs[p].remove \in Names \cup {0}
      /\ programs[p].ring \in Rings
  BY <1>1, ProcessFields DEF IInv, TypeOK, WorkOK, WorkAt
<1>3. /\ \A q \in Programs : q # p => programs'[q] = programs[q]
      /\ programs'[p] = [programs[p] EXCEPT !.pc = "advance", !.write = 0, !.remove = 0]
      /\ programs'[p].pc = "advance"
      /\ programs'[p].signal = programs[p].signal
      /\ programs'[p].ring = programs[p].ring
  BY <1>2 DEF Process
<1>4. programs'[p] \in Process
  BY <1>2, <1>3 DEF Process, Writing
<1>5. /\ mswrite_dir' \in [Names -> Names \cup {NoFile}]
      /\ tmpfile' \in Names \cup {NoFile}
      /\ Published' \subseteq Published \cup {n}
      /\ Published' \ Published # {} => hptime2timestr[n] \in directories
      /\ \A m \in Published' : m # n => mswrite_dir'[m] = mswrite_dir[m]
      /\ n \in Published' => \/ mswrite_dir'[n] = mswrite_dir[n] /\ n \in Published
                             \/ mswrite_dir'[n] = tmpfile
  <2>1. CASE rename_succeeds(tmpfile, n)
    <3>1. /\ tmpfile \in Names /\ hptime2timestr[n] \in directories
          /\ mswrite_dir' = [mswrite_dir EXCEPT ![n] = tmpfile] /\ tmpfile' = NoFile
      BY <1>2, <2>1 DEF TypeOK, rename_succeeds
    <3>2. \A m \in Names : mswrite_dir'[m] = IF m = n THEN tmpfile ELSE mswrite_dir[m]
      BY <1>2, <3>1 DEF TypeOK
    <3>3. mswrite_dir' \in [Names -> Names \cup {NoFile}]
      BY <1>2, <3>1 DEF TypeOK
    <3> QED BY <1>2, <3>1, <3>2, <3>3 DEF Published
  <2>2. CASE ~rename_succeeds(tmpfile, n)
    BY <1>2, <2>2 DEF TypeOK, Published
  <2> QED BY <2>1, <2>2
<1>6. scripts' \subseteq Scripts
  BY <1>2 DEF TypeOK, run_mswrite_script, Scripts
<1>7. TypeOK'
  BY <1>2, <1>4, <1>5, <1>6 DEF TypeOK, shell_vars
<1>8. WorkAt(p)'
  BY <1>3 DEF WorkAt
<1>9. DirectoriesOK'
  BY <1>5 DEF IInv, DirectoriesOK
<1>10. RingOK(p) => RingOK(p)'
  <2>1. n \in NamesIn(programs[p].ring)
    <3>1. DOMAIN programs[p].ring = 1..file_index_modulo /\ 1 \in DOMAIN programs[p].ring
      BY <1>2, RingProperties
    <3>2. n # 0
      BY <1>2, NameAssumption DEF Names
    <3> QED BY <1>2, <3>1, <3>2 DEF NamesIn
  <2> QED BY <1>1, <1>3, <1>5, <2>1 DEF RingOK
<1>11. WritingAt(p) /\ OwnFiles => WritingAt(p)' /\ OwnFiles'
  BY <1>1, <1>3, <1>5 DEF WritingAt, OwnFiles
<1> QED BY <1>1, <1>3, <1>7, <1>8, <1>9, <1>10, <1>11, StepPreserves

LEMMA AdvancePreserves ==
    ASSUME IInv, NEW p \in Programs, Advance(p)
    PROVE  IInv'
<1> DEFINE r == programs[p].ring
<1> USE DEF Advance
<1>1. p \in Active /\ programs[p].pc = "advance"
  BY ActiveAt
<1>2. /\ TypeOK /\ programs \in [Programs -> Process] /\ programs[p] \in Process
      /\ r \in Rings
  BY ProcessFields DEF IInv, TypeOK
<1>3. /\ Append(Tail(r), Head(r)) \in Rings
      /\ NamesIn(Append(Tail(r), Head(r))) = NamesIn(r)
  BY <1>2, AdvancedRing
<1>4. /\ \A q \in Programs : q # p => programs'[q] = programs[q]
      /\ programs'[p] = [programs[p] EXCEPT !.pc = "collect", !.ring = Append(Tail(r), Head(r))]
  BY <1>2
<1>5. /\ programs'[p].pc = "collect" /\ programs'[p].signal = programs[p].signal
      /\ programs'[p].ring = Append(Tail(r), Head(r))
      /\ programs'[p] \in Process
  BY <1>2, <1>3, <1>4 DEF Process, Writing
<1>6. TypeOK'
  BY <1>2, <1>5 DEF TypeOK, upload_vars, shell_vars
<1>7. WorkAt(p)' /\ DirectoriesOK' /\ Published' = Published
  BY <1>5 DEF IInv, WorkAt, DirectoriesOK, Published
<1>8. RingOK(p) => RingOK(p)'
  BY <1>1, <1>3, <1>5, <1>7 DEF RingOK
<1>9. OwnFiles => WritingAt(p)' /\ OwnFiles'
  BY <1>5, <1>7 DEF WritingAt, OwnFiles
<1> QED BY <1>1, <1>4, <1>5, <1>6, <1>7, <1>8, <1>9, StepPreserves

-----------------------------------------------------------------------------
(* The end of a program *)

\* What no step that only adds a lapse can disturb.
LEMMA LapsesStay ==
    ASSUME NEW events, Happen(events)
    PROVE  lapses \subseteq lapses' /\ events \subseteq lapses' /\ (TypeOK => lapses' \subseteq Events)
BY DEF Happen, TypeOK

LEMMA NotRunningIsProcess == NotRunning \in Process
<1>1. EmptyRing \in Rings
  BY DEF EmptyRing, Rings
<1> QED BY <1>1 DEF NotRunning, Process

LEMMA OpenStateFilePreserves ==
    ASSUME IInv, NEW p \in Programs, OpenStateFile(p)
    PROVE  IInv'
<1> DEFINE new == [NotRunning EXCEPT !.pc = "saving", !.signal = TRUE, !.ring = programs[p].ring]
<1> USE DEF OpenStateFile
<1>1. /\ TypeOK /\ programs \in [Programs -> Process] /\ programs[p] \in Process
      /\ programs[p].ring \in Rings
  BY ProcessFields DEF IInv, TypeOK
<1>2. /\ \A q \in Programs : q # p => programs'[q] = programs[q]
      /\ programs'[p] = new /\ programs' = [programs EXCEPT ![p] = new]
  BY <1>1
<1>3. /\ new \in Process /\ new.pc = "saving" /\ new.signal = TRUE /\ new.ring = programs[p].ring
  BY <1>1, NotRunningIsProcess DEF Process, NotRunning
<1>4. /\ lapses \subseteq lapses' /\ lapses' \subseteq Events
      /\ programs[p].pc = "load" => "early" \in lapses'
  <2>1. PICK events : Happen(events) /\ (programs[p].pc = "load" => "early" \in events)
    OBVIOUS
  <2> QED BY <1>1, <2>1, LapsesStay
<1> HIDE DEF new
<1>5. /\ state_file' = <<>> /\ programs[p].signal /\ programs[p].pc \notin {"none", "saving"}
      /\ UNCHANGED <<mswrite_dir, directories, tmpfile, clock, upload_vars, shell_vars>>
  OBVIOUS
<1> HIDE DEF OpenStateFile
<1>6. TypeOK'
  BY <1>1, <1>2, <1>3, <1>4, <1>5 DEF TypeOK, upload_vars, shell_vars
<1>7. /\ Running' = Running /\ Active' = Active /\ p \in Running /\ p \notin Active
      /\ Published' = Published
  BY <1>2, <1>3, <1>5 DEF Running, Active, Published
<1>8. WorkOK'
  BY <1>2, <1>3, <1>5 DEF IInv, WorkOK, WorkAt
<1>9. SupervisedOK' /\ DirectoriesOK' /\ SoleOK'
  BY <1>4, <1>5, <1>7 DEF IInv, SupervisedOK, DirectoriesOK, SoleOK, shell_vars
<1>10. TrackedOK'
  <2> SUFFICES ASSUME lapses' \cap Disowning = {} PROVE \A q \in Running : RingOK(q)'
    BY <1>7 DEF TrackedOK
  <2>1. \A q \in Running : q = p
    BY <1>4, <1>7 DEF IInv, SoleOK, Disowning
  <2>2. RingOK(p) /\ programs[p].pc # "load"
    BY <1>4, <1>7 DEF IInv, TrackedOK, Disowning
  <2> QED BY <1>2, <1>3, <1>7, <2>1, <2>2 DEF RingOK
<1>11. PublishingOK'
  <2> SUFFICES ASSUME lapses' \cap Unsupervised = {} PROVE (\A q \in Active : WritingAt(q)') /\ OwnFiles'
    BY <1>7 DEF PublishingOK
  <2>1. (\A q \in Active : WritingAt(q)) /\ OwnFiles
    BY <1>4 DEF IInv, PublishingOK
  <2>2. \A q \in Active : q \in Programs /\ programs'[q] = programs[q]
    BY <1>2, <1>7 DEF Active, Running
  <2> QED BY <1>5, <1>7, <2>1, <2>2 DEF WritingAt, OwnFiles
<1> QED BY <1>6, <1>8, <1>9, <1>10, <1>11 DEF IInv

\* A program that ends leaves the others as they are.
LEMMA EndedProgram ==
    ASSUME IInv, NEW p \in Programs, programs' = [programs EXCEPT ![p] = NotRunning],
           UNCHANGED <<mswrite_dir, directories, tmpfile, clock, upload_vars, shell_vars>>,
           state_file' \in Rings \cup {<<>>, NoFile},
           lapses \subseteq lapses', lapses' \subseteq Events
    PROVE  /\ Running' = Running \ {p} /\ Published' = Published
           /\ TypeOK' /\ WorkOK' /\ SupervisedOK' /\ DirectoriesOK' /\ SoleOK' /\ PublishingOK'
<1>1. TypeOK /\ programs \in [Programs -> Process] /\ NotRunning.pc = "none"
  BY DEF IInv, TypeOK, NotRunning
<1>2. /\ \A q \in Programs : q # p => programs'[q] = programs[q]
      /\ programs'[p].pc = "none" /\ programs'[p] \in Process
      /\ programs' \in [Programs -> Process]
  BY <1>1, NotRunningIsProcess
<1>3. TypeOK'
  BY <1>1, <1>2 DEF TypeOK, upload_vars, shell_vars
<1>4. Running' = Running \ {p} /\ Active' \subseteq Active /\ p \notin Active' /\ Published' = Published
  BY <1>2 DEF Running, Active, Published
<1>5. WorkOK'
  BY <1>2 DEF IInv, WorkOK, WorkAt
<1>6. SupervisedOK' /\ DirectoriesOK' /\ SoleOK'
  BY <1>4 DEF IInv, SupervisedOK, DirectoriesOK, SoleOK, shell_vars
<1>7. PublishingOK'
  <2> SUFFICES ASSUME lapses' \cap Unsupervised = {} PROVE (\A q \in Active' : WritingAt(q)') /\ OwnFiles'
    BY DEF PublishingOK
  <2>1. (\A q \in Active : WritingAt(q)) /\ OwnFiles
    BY DEF IInv, PublishingOK
  <2>2. \A q \in Active' : q \in Active /\ programs'[q] = programs[q]
    BY <1>2, <1>4 DEF Active, Running
  <2> QED BY <1>4, <2>1, <2>2 DEF WritingAt, OwnFiles
<1> QED BY <1>3, <1>4, <1>5, <1>6, <1>7

LEMMA SaveStatePreserves ==
    ASSUME IInv, NEW p \in Programs, SaveState(p)
    PROVE  IInv'
<1> USE DEF SaveState
<1>1. programs[p].ring \in Rings /\ p \in Running /\ programs[p].pc = "saving" /\ lapses \subseteq Events
  BY ProcessFields DEF IInv, TypeOK, Running
<1>2. /\ Running' = Running \ {p} /\ Published' = Published
      /\ TypeOK' /\ WorkOK' /\ SupervisedOK' /\ DirectoriesOK' /\ SoleOK' /\ PublishingOK'
  BY <1>1, EndedProgram
<1>3. TrackedOK'
  <2> SUFFICES ASSUME lapses \cap Disowning = {} PROVE Running' = {} /\ StateOK'
    BY DEF TrackedOK
  <2>1. \A q \in Running : q = p
    BY <1>1 DEF IInv, SoleOK, Disowning
  <2>2. RingOK(p)
    BY <1>1 DEF IInv, TrackedOK
  <2> QED BY <1>1, <1>2, <2>1, <2>2 DEF RingOK, StateOK
<1> QED BY <1>2, <1>3 DEF IInv

LEMMA CrashPreserves ==
    ASSUME IInv, NEW p \in Programs, Crash(p)
    PROVE  IInv'
<1> USE DEF Crash
<1>1. TypeOK /\ state_file \in Rings \cup {<<>>, NoFile}
  BY DEF IInv, TypeOK
<1>2. lapses \subseteq lapses' /\ lapses' \subseteq Events /\ "crash" \in lapses'
  BY <1>1, LapsesStay
<1>3. TypeOK' /\ WorkOK' /\ SupervisedOK' /\ DirectoriesOK' /\ SoleOK' /\ PublishingOK'
  BY <1>1, <1>2, EndedProgram
<1>4. TrackedOK'
  BY <1>2 DEF TrackedOK, Disowning
<1> QED BY <1>3, <1>4 DEF IInv

-----------------------------------------------------------------------------
(* The start and stop scripts *)

LEMMA StopProgramPreserves ==
    ASSUME IInv, NEW s \in Shells, NEW stage \in {"stop", "restart"}, StopProgram(s, stage)
    PROVE  IInv'
<1> USE DEF StopProgram
<1>0. /\ pid_file # NoProgram => Kill
      /\ pid_file = NoProgram => programs' = programs
      /\ \E t \in Stages \ {"started"} : shell' = [shell EXCEPT ![s] = t]
      /\ UNCHANGED <<mswrite_dir, directories, tmpfile, state_file, clock, upload_vars>>
      /\ UNCHANGED <<pid_file, PID, lapses>> /\ shell[s] = "idle"
  BY DEF Removed, Stages
<1> HIDE DEF StopProgram
<1>1. /\ TypeOK /\ programs \in [Programs -> Process] /\ Running \subseteq Programs
      /\ NoProgram \notin Running
  BY NoProgramAssumption DEF IInv, TypeOK, Running
<1>2. \A q \in Programs :
        /\ programs'[q] = IF q = pid_file /\ pid_file \in Running
                          THEN [programs[q] EXCEPT !.signal = TRUE] ELSE programs[q]
  <2>1. CASE pid_file \in Running
    BY <1>0, <1>1, <2>1 DEF Kill
  <2>2. CASE pid_file \notin Running
    BY <1>0, <1>1, <2>2 DEF Kill
  <2> QED BY <2>1, <2>2
<1>3. \A q \in Programs :
        /\ programs'[q].pc = programs[q].pc /\ programs'[q].ring = programs[q].ring
        /\ programs'[q].write = programs[q].write /\ programs'[q].remove = programs[q].remove
        /\ programs'[q].path = programs[q].path
        /\ programs'[q].signal = (programs[q].signal \/ (q = pid_file /\ pid_file \in Running))
        /\ programs'[q] \in Process
  <2> TAKE q \in Programs
  <2>1. programs[q] \in Process
    BY <1>1
  <2>2. CASE q = pid_file /\ pid_file \in Running
    BY <1>2, <2>1, <2>2 DEF Process
  <2>3. CASE ~(q = pid_file /\ pid_file \in Running)
    BY <1>2, <2>1, <2>3 DEF Process
  <2> QED BY <2>2, <2>3
<1>4. programs' \in [Programs -> Process]
  <2>1. CASE pid_file \in Running
    <3>1. programs' = [programs EXCEPT ![pid_file].signal = TRUE]
      BY <1>0, <1>1, <2>1 DEF Kill
    <3>2. [programs[pid_file] EXCEPT !.signal = TRUE] \in Process
      BY <1>1, <2>1 DEF Process
    <3> QED BY <1>1, <2>1, <3>1, <3>2
  <2>2. CASE pid_file \notin Running
    BY <1>0, <1>1, <2>2 DEF Kill
  <2> QED BY <2>1, <2>2
<1>5. TypeOK'
  BY <1>0, <1>1, <1>4 DEF TypeOK, upload_vars
<1>6. /\ Running' = Running /\ Published' = Published
      /\ Active' = {q \in Active : ~(q = pid_file /\ pid_file \in Running)}
  BY <1>0, <1>3 DEF Running, Active, Published
<1>7. WorkOK' /\ DirectoriesOK' /\ SoleOK'
  BY <1>0, <1>3, <1>6 DEF IInv, WorkOK, WorkAt, DirectoriesOK, SoleOK
<1>8. SupervisedOK'
  <2> SUFFICES ASSUME lapses \cap Unsupervised = {} PROVE SupervisedOK'
    BY <1>0 DEF SupervisedOK
  <2>1. \A u \in Shells : u # s => shell'[u] = shell[u]
    BY <1>0, <1>1 DEF TypeOK
  <2>2. shell'[s] # "started"
    BY <1>0, <1>1 DEF TypeOK
  <2>3. ASSUME NEW q \in Active'
        PROVE  \E u \in Shells : shell'[u] = "started" /\ q = PID'[u]
    <3>1. q \in Active /\ q # pid_file
      BY <1>6, <2>3 DEF Active
    <3>2. PICK u \in Shells : shell[u] = "started" /\ q = PID[u]
      BY <3>1 DEF IInv, SupervisedOK
    <3> QED BY <1>0, <2>1, <3>2
  <2> QED BY <1>0, <2>1, <2>2, <2>3 DEF IInv, SupervisedOK
<1>9. TrackedOK'
  <2>1. \A q \in Running : RingOK(q) => RingOK(q)'
    BY <1>0, <1>1, <1>3, <1>6 DEF RingOK, StateOK
  <2> QED BY <1>0, <1>6, <2>1 DEF IInv, TrackedOK, StateOK
<1>10. PublishingOK'
  <2>1. \A q \in Active' : q \in Active /\ q \in Programs
    BY <1>6 DEF Active, Running
  <2>2. \A q \in Active' : WritingAt(q) => WritingAt(q)'
    BY <1>0, <1>3, <2>1 DEF WritingAt
  <2> QED BY <1>0, <1>6, <2>1, <2>2 DEF IInv, PublishingOK, OwnFiles
<1> QED BY <1>5, <1>7, <1>8, <1>9, <1>10 DEF IInv

LEMMA LaunchPreserves ==
    ASSUME IInv, NEW s \in Shells, Launch(s)
    PROVE  IInv'
<1> USE DEF Launch
<1>1. PICK p \in Programs \ Running : programs' = [programs EXCEPT ![p].pc = "load"] /\ PID' = [PID EXCEPT ![s] = p]
  OBVIOUS
<1>2. TypeOK /\ programs \in [Programs -> Process] /\ programs[p] \in Process
  BY <1>1 DEF IInv, TypeOK
<1>3. /\ \A q \in Programs : q # p => programs'[q] = programs[q]
      /\ programs'[p].pc = "load" /\ programs'[p] \in Process
      /\ programs' \in [Programs -> Process]
  BY <1>1, <1>2 DEF Process
<1>4. /\ lapses \subseteq lapses' /\ lapses' \subseteq Events
      /\ (\E q \in Running : programs[q].signal) => "slow" \in lapses'
      /\ (\E u \in Shells \ {s} : shell[u] # "idle") => "overlapped" \in lapses'
  <2>1. PICK events : /\ Happen(events)
                      /\ (\E q \in Running : programs[q].signal) => "slow" \in events
                      /\ (\E u \in Shells \ {s} : shell[u] # "idle") => "overlapped" \in events
    BY DEF BesideAnother
  <2> QED BY <1>2, <2>1, LapsesStay
<1>5. /\ shell[s] = "restarting" /\ shell' = [shell EXCEPT ![s] = "started"]
      /\ UNCHANGED <<mswrite_dir, directories, tmpfile, state_file, clock, upload_vars, pid_file>>
  OBVIOUS
<1> HIDE DEF Launch
<1>6. TypeOK'
  BY <1>1, <1>2, <1>3, <1>4, <1>5 DEF TypeOK, upload_vars, Stages
<1>7. /\ Running' = Running \cup {p} /\ Active' \subseteq Active \cup {p}
      /\ Published' = Published
  BY <1>1, <1>3, <1>5 DEF Running, Active, Published
<1>8. lapses' \cap Unsupervised = {} =>
        Active = {} /\ \A u \in Shells \ {s} : shell[u] = "idle"
  BY <1>4, <1>5 DEF IInv, SupervisedOK, Unsupervised
<1>9. lapses' \cap (Unsupervised \cup {"slow"}) = {} => Running = {}
  BY <1>4, <1>8 DEF Active
<1>10. WorkOK' /\ DirectoriesOK'
  BY <1>3, <1>5, <1>7 DEF IInv, WorkOK, WorkAt, DirectoriesOK
<1>11. SupervisedOK'
  <2> SUFFICES ASSUME lapses' \cap Unsupervised = {} PROVE SupervisedOK'
    BY DEF SupervisedOK
  <2>1. /\ shell'[s] = "started" /\ PID'[s] = p
        /\ \A u \in Shells \ {s} : shell'[u] = "idle"
    BY <1>1, <1>2, <1>5, <1>8 DEF TypeOK
  <2>2. \A q \in Active' : q = p
    BY <1>7, <1>8
  <2> QED BY <2>1, <2>2 DEF SupervisedOK
<1>14. SoleOK'
  BY <1>7, <1>9 DEF SoleOK
<1>12. TrackedOK'
  <2> SUFFICES ASSUME lapses' \cap Disowning = {} PROVE RingOK(p)' /\ Running' = {p}
    BY DEF TrackedOK
  <2>1. Running = {}
    BY <1>9 DEF Disowning
  <2>2. StateOK
    BY <1>4, <2>1 DEF IInv, TrackedOK
  <2> QED BY <1>3, <1>5, <1>7, <2>1, <2>2 DEF RingOK, StateOK
<1>13. PublishingOK'
  <2>1. WritingAt(p)'
    BY <1>3 DEF WritingAt
  <2>2. OwnFiles => OwnFiles'
    BY <1>5, <1>7 DEF OwnFiles
  <2> QED BY <1>4, <1>7, <1>8, <2>1, <2>2 DEF IInv, PublishingOK
<1> QED BY <1>6, <1>10, <1>11, <1>12, <1>13, <1>14 DEF IInv

\* Steps that leave the programs and their files as they are.
LEMMA Undisturbed ==
    ASSUME IInv, UNCHANGED program_vars, lapses \subseteq lapses', TypeOK', SupervisedOK'
    PROVE  IInv'
<1> USE DEF program_vars
<1>1. Running' = Running /\ Active' = Active /\ Published' = Published
  BY DEF Running, Active, Published
<1>2. WorkOK' /\ DirectoriesOK' /\ SoleOK'
  BY <1>1 DEF IInv, WorkOK, WorkAt, DirectoriesOK, SoleOK
<1>3. TrackedOK'
  BY <1>1 DEF IInv, TrackedOK, RingOK, StateOK
<1>4. PublishingOK'
  BY <1>1 DEF IInv, PublishingOK, WritingAt, OwnFiles
<1> QED BY <1>2, <1>3, <1>4 DEF IInv

LEMMA RemovePidPreserves ==
    ASSUME IInv, NEW s \in Shells, RemovePid(s)
    PROVE  IInv'
<1> USE DEF RemovePid
<1>1. TypeOK' /\ Active' = Active
  BY DEF IInv, TypeOK, Stages, Removed, Active, Running, program_vars, upload_vars
<1>2. SupervisedOK'
  <2>1. /\ \A u \in Shells : u # s => shell'[u] = shell[u]
        /\ shell[s] \notin {"idle", "started"} /\ shell'[s] # "started"
        /\ PID' = PID /\ lapses' = lapses
    BY DEF IInv, TypeOK, Removed
  <2> QED BY <1>1, <2>1 DEF IInv, SupervisedOK
<1> QED BY <1>1, <1>2, Undisturbed

\* What a script writes, with no other at work, is the program it has started.
LEMMA WritePidPreserves ==
    ASSUME IInv, NEW s \in Shells, WritePid(s)
    PROVE  IInv'
<1> USE DEF WritePid
<1>1. /\ lapses \subseteq lapses' /\ lapses' \subseteq Events
      /\ (\E u \in Shells \ {s} : shell[u] # "idle") => "overlapped" \in lapses'
  BY LapsesStay DEF IInv, BesideAnother, Happen
<1>2. TypeOK' /\ Active' = Active
  BY <1>1 DEF IInv, TypeOK, Stages, Active, Running, program_vars, upload_vars
<1>3. SupervisedOK'
  <2> SUFFICES ASSUME lapses' \cap Unsupervised = {} PROVE SupervisedOK'
    BY DEF SupervisedOK
  <2>1. shell' = [shell EXCEPT ![s] = "idle"] /\ shell[s] = "started" /\ pid_file' = PID[s]
    OBVIOUS
  <2>2. \A u \in Shells \ {s} : shell[u] = "idle"
    BY <1>1 DEF Unsupervised
  <2>3. \A u \in Shells : shell'[u] = "idle"
    BY <2>1, <2>2 DEF IInv, TypeOK
  <2>4. \A q \in Active : q = PID[s]
    BY <1>1, <2>1, <2>2 DEF IInv, SupervisedOK
  <2> QED BY <1>2, <2>1, <2>3, <2>4 DEF SupervisedOK
<1> QED BY <1>1, <1>2, <1>3, Undisturbed

LEMMA InterruptedPreserves ==
    ASSUME IInv, NEW s \in Shells, Interrupted(s)
    PROVE  IInv'
<1> USE DEF Interrupted
<1>1. /\ lapses \subseteq lapses' /\ lapses' \subseteq Events
      /\ shell[s] = "started" => "interrupted" \in lapses'
  BY LapsesStay DEF IInv, Happen
<1>2. TypeOK' /\ Active' = Active
  BY <1>1 DEF IInv, TypeOK, Stages, Active, Running, program_vars, upload_vars
<1>3. SupervisedOK'
  <2> SUFFICES ASSUME lapses' \cap Unsupervised = {} PROVE SupervisedOK'
    BY DEF SupervisedOK
  <2>1. /\ \A u \in Shells : u # s => shell'[u] = shell[u] /\ PID'[u] = PID[u]
        /\ shell[s] \notin {"idle", "started"} /\ shell'[s] = "idle"
    BY <1>1 DEF IInv, TypeOK, Unsupervised
  <2>2. lapses \cap Unsupervised = {}
    BY <1>1
  <2> QED BY <1>2, <2>1, <2>2 DEF IInv, SupervisedOK
<1> QED BY <1>1, <1>2, <1>3, Undisturbed

-----------------------------------------------------------------------------
(* The background scripts *)

LEMMA UploadPreserves ==
    ASSUME IInv, NEW t \in scripts, UploadStep(t) \/ UploadFails(t)
    PROVE  IInv'
<1>1. TypeOK /\ t \in Scripts /\ scripts \subseteq Scripts /\ server \subseteq Names
  BY DEF IInv, TypeOK
<1>2. UNCHANGED <<program_vars, shell_vars, mswrite_script>>
  BY DEF UploadStep, UploadFails
<1>3. lapses \subseteq lapses' /\ lapses' \subseteq Events
  <2>1. lapses' = lapses \/ \E events : Happen(events)
    BY DEF UploadStep, UploadFails
  <2> QED BY <1>1, <2>1, LapsesStay DEF TypeOK
<1>4. scripts' \subseteq Scripts /\ server' \subseteq Names
  <2>1. t.write \in Names /\ \A s \in {"sending", "deleting"} : [t EXCEPT !.stage = s] \in Scripts
    BY <1>1 DEF Scripts
  <2>2. scripts' = scripts \ {t} \/ \E s \in {"sending", "deleting"} :
                                       scripts' = (scripts \ {t}) \cup {[t EXCEPT !.stage = s]}
    BY DEF UploadStep, UploadFails, OpenLocal, LocalFileGone, Store, Delete, ConnectionFails,
           Ends, Continues
  <2>3. server' = server \/ server' = server \cup {t.write} \/ server' = server \ {t.remove}
    BY DEF UploadStep, UploadFails, OpenLocal, LocalFileGone, Store, Delete, ConnectionFails
  <2> QED BY <1>1, <2>1, <2>2, <2>3
<1>5. TypeOK'
  BY <1>1, <1>2, <1>3, <1>4 DEF TypeOK, program_vars, shell_vars
<1>6. SupervisedOK'
  BY <1>2, <1>3 DEF IInv, SupervisedOK, Active, Running, program_vars, shell_vars
<1> QED BY <1>2, <1>3, <1>5, <1>6, Undisturbed

-----------------------------------------------------------------------------
(* The theorems *)

LEMMA Initially == Init => IInv
<1> SUFFICES ASSUME Init PROVE IInv
  OBVIOUS
<1> USE DEF Init, DirectoryInit, UploadsInit
<1>1. NotRunning \in Process /\ NotRunning.pc = "none"
  BY NotRunningIsProcess DEF NotRunning
<1>2. TypeOK
  BY <1>1 DEF TypeOK, Stages
<1>3. Running = {} /\ Active = {} /\ Published = {}
  BY <1>1 DEF Running, Active, Published
<1>4. WorkOK
  BY <1>1 DEF WorkOK, WorkAt
<1> QED BY <1>2, <1>3, <1>4
     DEF IInv, SupervisedOK, DirectoriesOK, SoleOK, TrackedOK, StateOK, PublishingOK, OwnFiles

LEMMA Inductive == IInv /\ [Next]_vars => IInv'
<1> SUFFICES ASSUME IInv, [Next]_vars PROVE IInv'
  OBVIOUS
<1>1. ASSUME NEW p \in Programs, Step(p) PROVE IInv'
  BY <1>1, LoadStatePreserves, EvictOldPreserves, PrunePreserves, NameFilePreserves,
     MakeDirectoryPreserves, WriteRecordPreserves, MoveFilePreserves, AdvancePreserves,
     OpenStateFilePreserves, SaveStatePreserves DEF Step
<1>2. ASSUME NEW p \in Programs, Crash(p) PROVE IInv'
  BY <1>2, CrashPreserves
<1>3. ASSUME NEW s \in Shells, Shell(s) PROVE IInv'
  BY <1>3, StopProgramPreserves, RemovePidPreserves, LaunchPreserves, WritePidPreserves,
     InterruptedPreserves DEF Shell
<1>4. ASSUME NEW t \in scripts, UploadStep(t) \/ UploadFails(t) PROVE IInv'
  BY <1>4, UploadPreserves
<1>5. CASE UNCHANGED vars
  <2> USE <1>5 DEF vars, program_vars, shell_vars, upload_vars
  <2>1. TypeOK'
    BY DEF IInv, TypeOK
  <2>2. SupervisedOK'
    BY DEF IInv, SupervisedOK, Active, Running
  <2> QED BY <2>1, <2>2, Undisturbed
<1> QED BY <1>1, <1>2, <1>3, <1>4, <1>5 DEF Next

LEMMA Invariance == Spec => []IInv
BY Initially, Inductive, PTL DEF Spec

\* Type correctness: among it, that a path followed to make or to remove
\* directories is always one on the way to a file, however it is shortened and
\* lengthened (make_mseed_filepath).
THEOREM TypeCorrect == Spec => []TypeOK
<1>1. IInv => TypeOK
  BY DEF IInv
<1> QED BY <1>1, Invariance, PTL

\* At most one program writes while no start script loses its program: a script
\* that has stopped the program that the pid file names leaves no other unstopped,
\* for any number of scripts at a time, of which none is at work when another
\* starts a program or writes its pid, and any number of programs that are slow
\* to stop (start_logger_writer.sh, stop_logger_writer.sh).
THEOREM OneWriterHolds == Spec => []OneWriter
<1>1. ASSUME IInv PROVE OneWriter
  <2> SUFFICES ASSUME lapses \cap Unsupervised = {} PROVE Cardinality(Writers) <= 1
    BY DEF OneWriter
  <2>1. Writers \subseteq Active
    BY DEF Writers, Active, Running, Writing
  <2>2. \A p, q \in Writers : p = q
    BY <1>1, <2>1, OneActive DEF IInv
  <2>3. CASE Writers = {}
    BY <2>3, FS_EmptySet
  <2>4. CASE Writers # {}
    <3>1. PICK p : Writers = {p}
      BY <2>2, <2>4
    <3>2. Cardinality({p}) = 1
      BY FS_Singleton
    <3> QED BY <3>1, <3>2
  <2> QED BY <2>3, <2>4
<1> QED BY <1>1, Invariance, PTL

\* Every file on disk is in the ring of the program that runs or in the state
\* that the next will load, whenever the program is stopped and started again,
\* for a ring of any size (main, term_handler).
THEOREM FilesTrackedHolds == Spec => []FilesTracked
<1>1. ASSUME IInv PROVE FilesTracked
  <2> SUFFICES ASSUME lapses \cap Disowning = {} PROVE Published \subseteq KnownNames
    BY DEF FilesTracked
  <2> DEFINE holders == {p \in Programs : programs[p].pc \notin {"none", "load"}}
  <2>1. (\A p \in Running : RingOK(p)) /\ (Running = {} => StateOK)
    BY <1>1 DEF IInv, TrackedOK
  <2>2. CASE holders # {}
    <3>1. PICK p \in holders : TRUE
      BY <2>2
    <3>2. Published \subseteq NamesIn(programs[p].ring)
      BY <2>1, <3>1 DEF RingOK, Running
    <3>3. KnownNames = UNION {NamesIn(programs[q].ring) : q \in holders}
      BY <2>2 DEF KnownNames
    <3> QED BY <3>1, <3>2, <3>3
  <2>3. CASE holders = {}
    <3>1. StateOK
      <4>1. CASE Running = {}
        BY <2>1, <4>1
      <4>2. CASE Running # {}
        <5>1. PICK p \in Running : programs[p].pc = "load"
          BY <2>3, <4>2 DEF Running
        <5> QED BY <2>1, <5>1 DEF RingOK
      <4> QED BY <4>1, <4>2
    <3>2. state_file \in Rings => state_file # NoFile
      BY RingProperties, NoFileAssumption
    <3>3. KnownNames = IF state_file = NoFile THEN {} ELSE NamesIn(state_file)
      BY <2>3 DEF KnownNames
    <3> QED BY <3>1, <3>2, <3>3 DEF StateOK
  <2> QED BY <2>2, <2>3
<1> QED BY <1>1, Invariance, PTL

\* The temporary file that is moved to a name is the one written for it, its
\* directory is there, and each name on disk holds its own file, for any date
\* paths (make_mseed_filepath, collect_and_write).
THEOREM PublishesItsOwnHolds == Spec => []PublishesItsOwn
<1>1. ASSUME IInv PROVE PublishesItsOwn
  <2> SUFFICES ASSUME lapses \cap Unsupervised = {}
               PROVE  /\ \A p \in Writers : programs[p].pc = "publish" =>
                           tmpfile = programs[p].write /\ rename_succeeds(tmpfile, programs[p].write)
                      /\ OwnFiles
    BY DEF PublishesItsOwn, OwnFiles
  <2>1. (\A p \in Active : WritingAt(p)) /\ OwnFiles
    BY <1>1 DEF IInv, PublishingOK
  <2>2. ASSUME NEW p \in Writers, programs[p].pc = "publish"
        PROVE  tmpfile = programs[p].write /\ rename_succeeds(tmpfile, programs[p].write)
    <3>1. p \in Active /\ p \in Programs
      BY DEF Writers, Active, Running, Writing
    <3>2. tmpfile = programs[p].write /\ hptime2timestr[programs[p].write] \in directories
      BY <2>1, <2>2, <3>1 DEF WritingAt
    <3>3. programs[p].write \in Names
      BY <1>1, <2>2, <3>1 DEF IInv, WorkOK, WorkAt
    <3> QED BY <3>2, <3>3, NoFileAssumption DEF rename_succeeds
  <2> QED BY <2>1, <2>2
<1> QED BY <1>1, Invariance, PTL

-----------------------------------------------------------------------------
(* The copies on the server *)

\* Only a program that is making place for a file has a removed one in hand.
Idle == {"none", "load", "collect", "advance", "saving"}

IdleOK == \A p \in Programs : programs[p].pc \in Idle => programs[p].remove = 0

SilentOK == ~mswrite_script => scripts = {} /\ server = {}

Removes(n) ==
    \/ \E t \in scripts : t.remove = n
    \/ \E p \in Programs : programs[p].remove = n

OnItsWay(n) == \E t \in scripts : t.stage = "sending" /\ t.write = n

\* A copy that is on its way counts as one: no script has deleted it before it came.
CopiesOK ==
    lapses \cap Unreliable = {} =>
        \A n \in Names \ Published : n \in server \/ OnItsWay(n) => Removes(n)

CInv == IdleOK /\ SilentOK /\ CopiesOK

\* Steps that take nothing from anybody's hand.
LEMMA CopiesStay ==
    ASSUME CInv, UNCHANGED upload_vars, Published \subseteq Published', lapses \subseteq lapses',
           \A p \in Programs :
             /\ programs'[p].remove = programs[p].remove
             /\ programs'[p].pc \in Idle => programs[p].pc \in Idle
    PROVE  CInv'
<1> USE DEF upload_vars
<1>1. IdleOK' /\ SilentOK'
  BY DEF CInv, IdleOK, SilentOK
<1>2. CopiesOK'
  <2>1. \A n : (OnItsWay(n)' <=> OnItsWay(n)) /\ (Removes(n) => Removes(n)')
    BY DEF OnItsWay, Removes
  <2> QED BY <2>1 DEF CInv, CopiesOK
<1> QED BY <1>1, <1>2 DEF CInv

\* An end is a lapse if it takes a removed file from the program's hand.
LEMMA EndedCopies ==
    ASSUME TypeOK, CInv, NEW p \in Programs, NEW new, programs' = [programs EXCEPT ![p] = new],
           new.remove = 0, UNCHANGED upload_vars, Published' = Published, lapses \subseteq lapses',
           mswrite_script /\ programs[p].remove # 0 => "unreported" \in lapses'
    PROVE  CInv'
<1> USE DEF upload_vars
<1>1. /\ \A q \in Programs : q # p => programs'[q] = programs[q]
      /\ programs'[p].remove = 0
  BY DEF TypeOK
<1>2. IdleOK' /\ SilentOK'
  BY <1>1 DEF CInv, IdleOK, SilentOK
<1>3. CopiesOK'
  <2> SUFFICES ASSUME lapses' \cap Unreliable = {}, NEW n \in Names \ Published,
                      n \in server \/ OnItsWay(n)
               PROVE  Removes(n)'
    BY DEF CopiesOK, OnItsWay
  <2>1. mswrite_script
    BY DEF CInv, SilentOK, OnItsWay
  <2>2. programs[p].remove = 0 /\ n # 0
    BY <2>1, NameAssumption DEF Unreliable, Names
  <2>3. Removes(n)
    BY DEF CInv, CopiesOK
  <2> QED BY <1>1, <2>2, <2>3 DEF Removes
<1> QED BY <1>2, <1>3 DEF CInv

LEMMA EvictOldCopies ==
    ASSUME TypeOK, CInv, NEW p \in Programs, EvictOld(p)
    PROVE  CInv'
<1> DEFINE old == programs[p].ring[1]
<1> USE DEF EvictOld, upload_vars
<1>1. /\ programs \in [Programs -> Process] /\ programs[p] \in Process
      /\ programs[p].ring \in Rings /\ old \in Names \cup {0} /\ programs[p].pc = "collect"
      /\ programs[p].remove = 0
  BY ProcessFields, RingProperties DEF TypeOK, At, CInv, IdleOK, Idle
<1>2. CASE old = 0
  <2>1. /\ \A q \in Programs : programs'[q].remove = programs[q].remove
        /\ \A q \in Programs : programs'[q].pc \in Idle => programs[q].pc \in Idle
    BY <1>1, <1>2 DEF Process, Idle
  <2> QED BY <1>2, <2>1, CopiesStay DEF Published
<1>3. CASE old # 0
  <2>1. /\ \A q \in Programs : q # p => programs'[q] = programs[q]
        /\ programs'[p].remove = old /\ programs'[p].pc = "prune"
    BY <1>1, <1>3 DEF Process
  <2>2. \A n \in Published : n # old => n \in Published'
    BY <1>3 DEF TypeOK, Published, remove
  <2>3. IdleOK' /\ SilentOK'
    BY <2>1 DEF CInv, IdleOK, SilentOK, Idle
  <2>4. CopiesOK'
    <3> SUFFICES ASSUME lapses \cap Unreliable = {}, NEW n \in Names \ Published',
                        n \in server \/ OnItsWay(n)
                 PROVE  Removes(n)'
      BY DEF CopiesOK, OnItsWay
    <3>1. CASE n = old
      BY <2>1, <3>1 DEF Removes
    <3>2. CASE n # old
      <4>1. Removes(n) /\ n # 0
        BY <2>2, <3>2, NameAssumption DEF CInv, CopiesOK, Names
      <4> QED BY <1>1, <2>1, <4>1 DEF Removes
    <3> QED BY <3>1, <3>2
  <2> QED BY <2>3, <2>4 DEF CInv
<1> QED BY <1>2, <1>3

LEMMA MoveFileCopies ==
    ASSUME TypeOK, CInv, NEW p \in Programs, MoveFile(p)
    PROVE  CInv'
<1> USE DEF MoveFile
<1> DEFINE new == [write |-> programs[p].write, remove |-> programs[p].remove, stage |-> "start"]
<1>1. /\ \A q \in Programs : q # p => programs'[q] = programs[q]
      /\ programs'[p].remove = 0
  BY ProcessFields DEF TypeOK, Process
<1>2. Published \subseteq Published'
  <2>1. CASE rename_succeeds(tmpfile, programs[p].write)
    <3>1. tmpfile # NoFile /\ mswrite_dir' = [mswrite_dir EXCEPT ![programs[p].write] = tmpfile]
      BY <2>1 DEF rename_succeeds
    <3>2. \A n \in Names : mswrite_dir[n] # NoFile => mswrite_dir'[n] # NoFile
      BY <3>1 DEF TypeOK
    <3> QED BY <3>2 DEF Published
  <2>2. CASE ~rename_succeeds(tmpfile, programs[p].write)
    BY <2>2 DEF Published
  <2> QED BY <2>1, <2>2
<1>3. /\ scripts' = IF mswrite_script THEN scripts \cup {new} ELSE scripts
      /\ UNCHANGED <<mswrite_script, server, lapses>>
  BY DEF run_mswrite_script
<1>4. new.remove = programs[p].remove /\ new.stage = "start"
  OBVIOUS
<1> HIDE DEF new, MoveFile
<1>5. IdleOK' /\ SilentOK'
  BY <1>1, <1>3 DEF CInv, IdleOK, SilentOK
<1>6. CopiesOK'
  <2> SUFFICES ASSUME lapses \cap Unreliable = {}, NEW n \in Names \ Published',
                      n \in server \/ OnItsWay(n)'
               PROVE  Removes(n)'
    BY <1>3 DEF CopiesOK
  <2>1. n \in server \/ OnItsWay(n)
    BY <1>3, <1>4 DEF OnItsWay
  <2>2. mswrite_script
    BY <2>1 DEF CInv, SilentOK, OnItsWay
  <2>3. Removes(n)
    BY <1>2, <2>1 DEF CInv, CopiesOK
  <2>4. CASE \E t \in scripts : t.remove = n
    BY <1>3, <2>4 DEF Removes
  <2>5. ASSUME NEW q \in Programs, programs[q].remove = n PROVE Removes(n)'
    <3>1. CASE q = p
      BY <1>3, <1>4, <2>2, <2>5, <3>1 DEF Removes
    <3>2. CASE q # p
      BY <1>1, <2>5, <3>2 DEF Removes
    <3> QED BY <3>1, <3>2
  <2> QED BY <2>3, <2>4, <2>5 DEF Removes
<1> QED BY <1>5, <1>6 DEF CInv

\* What has been removed, a script that ends deletes, unless it was overtaken.
LEMMA UploadCopies ==
    ASSUME TypeOK, CInv, NEW t \in scripts, UploadStep(t) \/ UploadFails(t)
    PROVE  CInv'
<1>1. UNCHANGED <<programs, mswrite_dir, mswrite_script>> /\ mswrite_script
  BY DEF UploadStep, UploadFails, program_vars, CInv, SilentOK
<1>2. IdleOK' /\ SilentOK' /\ Published' = Published
  BY <1>1 DEF CInv, IdleOK, SilentOK, Published
<1>3. CopiesOK'
  <2> SUFFICES ASSUME lapses' \cap Unreliable = {}, NEW n \in Names \ Published,
                      n \in server' \/ OnItsWay(n)'
               PROVE  Removes(n)'
    BY <1>2 DEF CopiesOK
  <2>1. lapses \cap Unreliable = {}
    BY DEF UploadStep, UploadFails, Happen
  <2>2. n \in server \/ OnItsWay(n) => Removes(n)
    BY <2>1 DEF CInv, CopiesOK
  <2>3. ASSUME NEW s, Continues(t, s) PROVE Removes(n) => Removes(n)'
    <3>1. [t EXCEPT !.stage = s].remove = t.remove
      BY DEF TypeOK, Scripts
    <3> QED BY <1>1, <2>3, <3>1 DEF Continues, Removes
  <2>4. CASE OpenLocal(t)
    <3>1. t.write \in Published /\ Continues(t, "sending") /\ server' = server
      BY <2>4 DEF OpenLocal, Published, TypeOK, Scripts
    <3>2. \A u \in scripts' : u \in scripts \/ u.write = t.write
      BY <3>1 DEF Continues, TypeOK, Scripts
    <3>3. n \in server \/ OnItsWay(n)
      BY <3>1, <3>2 DEF OnItsWay
    <3> QED BY <2>2, <2>3, <3>1, <3>3
  <2>5. CASE LocalFileGone(t) /\ Happen({"late"})
    BY <2>5 DEF Happen, Unreliable
  <2>6. CASE Store(t)
    <3>1. t.stage = "sending" /\ server' = server \cup {t.write} /\ Continues(t, "deleting")
      BY <2>6 DEF Store
    <3>2. \A u \in scripts' : u \in scripts \/ u.stage = "deleting"
      BY <3>1 DEF Continues, TypeOK, Scripts
    <3>3. n \in server \/ OnItsWay(n)
      BY <3>1, <3>2 DEF OnItsWay
    <3> QED BY <2>2, <2>3, <3>1, <3>3
  <2>7. CASE Delete(t) /\ Happen(IF Overtakes(t) THEN {"overtaken"} ELSE {})
    <3>1. /\ t.stage = "deleting" /\ server' = server \ {t.remove} /\ scripts' = scripts \ {t}
          /\ ~Overtakes(t)
      BY <2>7 DEF Delete, Ends, Happen, Unreliable
    <3>2. n # t.remove /\ (n \in server \/ OnItsWay(n))
      BY <3>1 DEF OnItsWay, Overtakes
    <3> QED BY <1>1, <2>2, <3>1, <3>2 DEF Removes
  <2>8. CASE UploadFails(t)
    BY <2>8 DEF UploadFails, Happen, Unreliable
  <2> QED BY <2>4, <2>5, <2>6, <2>7, <2>8 DEF UploadStep
<1> QED BY <1>2, <1>3 DEF CInv

LEMMA CopiesInductive == TypeOK /\ CInv /\ [Next]_vars => CInv'
<1> SUFFICES ASSUME TypeOK, CInv, [Next]_vars PROVE CInv'
  OBVIOUS
<1>1. programs \in [Programs -> Process] /\ \A p \in Programs : programs[p] \in Process
  BY DEF TypeOK
<1>2. NotRunning.pc = "none" /\ NotRunning.remove = 0
  BY DEF NotRunning
<1>3. ASSUME NEW p \in Programs,
             \/ LoadState(p) \/ Prune(p) \/ NameFile(p) \/ MakeDirectory(p)
             \/ WriteRecord(p) \/ Advance(p)
      PROVE  CInv'
  <2>1. UNCHANGED <<mswrite_dir, upload_vars, lapses>> /\ Published' = Published
    BY <1>3 DEF LoadState, Prune, NameFile, MakeDirectory, WriteRecord, Advance, Published
  <2>2. \A q \in Programs : q # p => programs'[q] = programs[q]
    BY <1>1, <1>3 DEF LoadState, Prune, Pruned, NameFile, MakeDirectory, WriteRecord, Advance
  <2>3. /\ programs'[p].remove = programs[p].remove
        /\ programs'[p].pc \in Idle => programs[p].pc \in Idle
    <3>1. CASE LoadState(p)
      BY <1>1, <3>1 DEF LoadState, At, Process, Idle
    <3>2. CASE Prune(p)
      BY <1>1, <3>2 DEF Prune, Pruned, At, Process, Idle
    <3>3. CASE NameFile(p)
      BY <1>1, <3>3 DEF NameFile, At, Process, Idle
    <3>4. CASE MakeDirectory(p)
      BY <1>1, <3>4 DEF MakeDirectory, At, Process, Idle
    <3>5. CASE WriteRecord(p)
      BY <1>1, <3>5 DEF WriteRecord, At, Process, Idle
    <3>6. CASE Advance(p)
      BY <1>1, <3>6 DEF Advance, At, Process, Idle
    <3> QED BY <1>3, <3>1, <3>2, <3>3, <3>4, <3>5, <3>6
  <2> QED BY <2>1, <2>2, <2>3, CopiesStay
<1>4. ASSUME NEW p \in Programs, OpenStateFile(p) PROVE CInv'
  <2> DEFINE new == [NotRunning EXCEPT !.pc = "saving", !.signal = TRUE, !.ring = programs[p].ring]
  <2>1. programs' = [programs EXCEPT ![p] = new] /\ new.remove = 0
    BY <1>2, <1>4 DEF OpenStateFile, NotRunning
  <2>2. /\ lapses \subseteq lapses' /\ LeftBehind(p) \subseteq lapses'
        /\ UNCHANGED <<mswrite_dir, upload_vars>>
    BY <1>4 DEF OpenStateFile, Happen
  <2> HIDE DEF new
  <2> QED BY <2>1, <2>2, EndedCopies DEF LeftBehind, Unreported, Published
<1>5. ASSUME NEW p \in Programs, SaveState(p) PROVE CInv'
  <2>1. programs[p].remove = 0
    BY <1>5 DEF SaveState, CInv, IdleOK, Idle
  <2> QED BY <1>2, <1>5, <2>1, EndedCopies DEF SaveState, Published
<1>6. ASSUME NEW p \in Programs, Crash(p) PROVE CInv'
  <2>1. lapses \subseteq lapses' /\ LeftBehind(p) \subseteq lapses'
    BY <1>6 DEF Crash, Happen
  <2> QED BY <1>2, <1>6, <2>1, EndedCopies DEF Crash, LeftBehind, Unreported, Published
<1>7. ASSUME NEW s \in Shells, NEW stage, StopProgram(s, stage) PROVE CInv'
  <2>1. UNCHANGED <<upload_vars, lapses>> /\ Published' = Published
    BY <1>7 DEF StopProgram, Published
  <2>2. \A q \in Programs : programs'[q].remove = programs[q].remove /\ programs'[q].pc = programs[q].pc
    <3>1. CASE pid_file \in Running
      BY <1>1, <1>7, <3>1 DEF StopProgram, Kill, Process
    <3>2. CASE pid_file \notin Running
      BY <1>1, <1>7, <3>2 DEF StopProgram, Kill
    <3> QED BY <3>1, <3>2
  <2> QED BY <2>1, <2>2, CopiesStay
<1>8. ASSUME NEW s \in Shells, Launch(s) PROVE CInv'
  <2>1. PICK p \in Programs \ Running : programs' = [programs EXCEPT ![p].pc = "load"]
    BY <1>8 DEF Launch
  <2>2. \A q \in Programs :
          /\ programs'[q].remove = programs[q].remove
          /\ programs'[q].pc \in Idle => programs[q].pc \in Idle
    BY <1>1, <2>1 DEF Process, Running, Idle
  <2>3. UNCHANGED upload_vars /\ Published' = Published /\ lapses \subseteq lapses'
    BY <1>8 DEF Launch, Published, Happen
  <2> QED BY <2>2, <2>3, CopiesStay
<1>9. ASSUME (\E s \in Shells : RemovePid(s) \/ WritePid(s) \/ Interrupted(s)) \/ UNCHANGED vars
      PROVE  CInv'
  <2>1. UNCHANGED <<upload_vars, programs>> /\ Published' = Published /\ lapses \subseteq lapses'
    BY <1>9 DEF RemovePid, WritePid, Interrupted, vars, program_vars, Published, Happen
  <2> QED BY <2>1, CopiesStay
<1> QED BY <1>3, <1>4, <1>5, <1>6, <1>7, <1>8, <1>9, EvictOldCopies, MoveFileCopies, UploadCopies
     DEF Next, Step, Shell

\* A copy whose file has left the disk is in the hand of the program or of a
\* script that will delete it, unless an upload failed, began too late or was
\* overtaken, for any number of scripts in the background (run_mswrite_script,
\* miniseed_written.bash).
THEOREM CopiesTrackedHolds == Spec => []CopiesTracked
<1>1. Init => CInv
  BY DEF Init, UploadsInit, CInv, IdleOK, SilentOK, CopiesOK, NotRunning, OnItsWay
<1>2. TypeOK /\ CInv => CopiesTracked
  BY DEF TypeOK, CInv, CopiesOK, CopiesTracked, Removes
<1> QED BY <1>1, <1>2, CopiesInductive, TypeCorrect, PTL DEF Spec

-----------------------------------------------------------------------------
(* The date directories *)

\* The directories on the way to a directory, as prefixes of it.
LEMMA PrefixProperties ==
    ASSUME NEW n \in Names, NEW path \in PathsTo(hptime2timestr[n])
    PROVE  /\ PathsTo(path) \subseteq PathsTo(hptime2timestr[n]) /\ path \in PathsTo(path)
           /\ Len(path) = 1 => PathsTo(path) = {path}
           /\ Len(path) > 1 => /\ Front(path) \in PathsTo(hptime2timestr[n])
                               /\ PathsTo(path) \subseteq PathsTo(Front(path)) \cup {path}
           /\ \A q \in Paths : IsPrefix(q, path) => q \in PathsTo(path)
           /\ \A d \in PathsTo(path) : IsPrefix(path, d) => d = path
<1> DEFINE h == hptime2timestr[n]
<1> DEFINE m == Len(path)
<1> DEFINE l == Len(h)
<1>1. h \in Seq(Nat) /\ Len(h) \in Nat
  BY PathAssumption
<1>2. path \in Seq(Nat) /\ m \in 1..Len(h) /\ path = SubSeq(h, 1, m) /\ m \in Nat
  BY <1>1, PathProperties
<1>0. /\ m \in 1..m
      /\ \A k \in 1..m : k \in 1..l /\ k \in Nat /\ (m <= k => k = m)
      /\ m > 1 => m - 1 \in 1..m /\ \A k \in 1..m : k # m => k \in 1..(m-1)
  <2>1. l \in Nat /\ m \in 1..l
    BY <1>1, <1>2
  <2> HIDE DEF m, l
  <2> QED BY <2>1
<1>3. \A k \in 1..m : k \in 1..Len(h) /\ SubSeq(path, 1, k) = SubSeq(h, 1, k)
  <2> TAKE k \in 1..m
  <2>1. k \in 1..Len(h) /\ k \in Nat
    BY <1>0
  <2>2. SubSeq(SubSeq(h, 1, m), 1, k) = SubSeq(h, 1 + 1 - 1, 1 + k - 1)
    BY <1>1, <1>2, <2>1, SubSeqOfSubSeq
  <2> QED BY <1>2, <2>1, <2>2
<1>4. \A k \in 1..m : Len(SubSeq(h, 1, k)) = k
  BY <1>1, <1>2, <1>3, SubSeqProperties, ElementOfSeq
<1>5. PathsTo(path) \subseteq PathsTo(h)
  BY <1>3 DEF PathsTo
<1>6. path \in PathsTo(path)
  BY <1>0, <1>2, SubSeqFull DEF PathsTo
<1>7. m = 1 => PathsTo(path) = {path}
  BY <1>2, SubSeqFull DEF PathsTo
<1>8. ASSUME m > 1
      PROVE  Front(path) \in PathsTo(h) /\ PathsTo(path) \subseteq PathsTo(Front(path)) \cup {path}
  <2> DEFINE f == Front(path)
  <2>1. m - 1 \in 1..m /\ f = SubSeq(path, 1, m - 1) /\ f = SubSeq(h, 1, m - 1)
    BY <1>0, <1>3, <1>8 DEF Front
  <2>2. f \in PathsTo(h) /\ Len(f) = m - 1
    BY <1>3, <1>4, <2>1 DEF PathsTo
  <2>3. ASSUME NEW k \in 1..m PROVE SubSeq(path, 1, k) \in PathsTo(f) \cup {path}
    <3>1. CASE k = m
      BY <1>2, <3>1, SubSeqFull
    <3>2. CASE k # m
      <4>1. k \in 1..(m-1) /\ k \in Nat /\ m - 1 \in 1..Len(h)
        BY <1>0, <1>8, <2>1, <3>2
      <4>2. SubSeq(SubSeq(h, 1, m - 1), 1, k) = SubSeq(h, 1 + 1 - 1, 1 + k - 1)
        BY <1>1, <4>1, SubSeqOfSubSeq
      <4>3. SubSeq(f, 1, k) = SubSeq(path, 1, k)
        BY <1>3, <2>1, <2>3, <4>1, <4>2
      <4> QED BY <2>2, <4>1, <4>3 DEF PathsTo
    <3> QED BY <3>1, <3>2
  <2> QED BY <2>2, <2>3 DEF PathsTo
<1>9. ASSUME NEW q \in Paths, IsPrefix(q, path) PROVE q \in PathsTo(path)
  <2>1. PICK i \in Names : q \in PathsTo(hptime2timestr[i])
    BY DEF Paths
  <2>2. q \in Seq(Nat) /\ Len(q) \in 1..Len(hptime2timestr[i]) /\ Len(hptime2timestr[i]) \in Nat
    BY <2>1, PathProperties, PathAssumption
  <2>3. Len(q) <= m /\ SubSeq(q, 1, Len(q)) = SubSeq(path, 1, Len(q))
    BY <1>9 DEF IsPrefix
  <2>4. q = SubSeq(path, 1, Len(q))
    BY <2>2, <2>3, SubSeqFull
  <2>5. Len(q) \in 1..m
    BY <1>2, <2>2, <2>3
  <2> QED BY <2>4, <2>5 DEF PathsTo
<1>10. ASSUME NEW d \in PathsTo(path), IsPrefix(path, d) PROVE d = path
  <2>1. PICK k \in 1..m : d = SubSeq(path, 1, k)
    BY DEF PathsTo
  <2>2. Len(d) = k /\ m <= Len(d)
    BY <1>3, <1>4, <1>10, <2>1 DEF IsPrefix
  <2>3. k = m
    BY <1>0, <2>2
  <2> QED BY <1>2, <2>1, <2>3, SubSeqFull
<1> QED BY <1>5, <1>6, <1>7, <1>8, <1>9, <1>10

Rest(ring) == {ring[i] : i \in 2..file_index_modulo}

\* The directories on the way to the names whose own directory exists.
TrackedBy(names) ==
    UNION {PathsTo(hptime2timestr[n]) : n \in {i \in names \cap Names : hptime2timestr[i] \in directories}}

StateDirs ==
    IF state_file \in Rings THEN directories \subseteq TrackedBy(NamesIn(state_file)) ELSE directories = {}

\* While directories are removed or made some are on the way to the file that
\* is removed or named, and no other name need know of them.
DirsAt(p) ==
    LET me == programs[p]
    IN  /\ me.pc = "load" => StateDirs
        /\ me.pc \in {"collect", "write", "publish", "advance", "saving"} =>
             directories \subseteq TrackedBy(NamesIn(me.ring))
        /\ me.pc = "prune" =>
             /\ me.remove = me.ring[1] /\ me.remove \in Names
             /\ me.path \in PathsTo(hptime2timestr[me.remove])
             /\ \A d \in directories :
                  d \in TrackedBy(Rest(me.ring)) \/ (me.path \in directories /\ d \in PathsTo(me.path))
        /\ me.pc = "name" => directories \subseteq TrackedBy(Rest(me.ring))
        /\ me.pc = "mkdir" =>
             \A d \in directories :
                d \in TrackedBy(NamesIn(me.ring))
                  \/ (Len(me.path) > 1 /\ d \in PathsTo(hptime2timestr[me.write]))

DirLapses == Disowning \cup {"halfpath"}

DInv ==
    lapses \cap DirLapses = {} =>
        (\A p \in Running : DirsAt(p)) /\ (Running = {} => StateDirs)

LEMMA RestOfRing ==
    ASSUME NEW r \in Rings
    PROVE  NamesIn(r) = ({r[1]} \cup Rest(r)) \ {0} /\ 0 \notin Names
<1>1. DOMAIN r = 1..file_index_modulo /\ 1 \in DOMAIN r /\ file_index_modulo \in Nat
  BY RingProperties, SizeAssumption
<1>2. 1..file_index_modulo = {1} \cup 2..file_index_modulo
  BY <1>1
<1> QED BY <1>1, <1>2, NameAssumption DEF NamesIn, Rest, Names

\* More names, and no fewer directories, track more.
LEMMA TrackedMore ==
    ASSUME NEW N, NEW M, N \cap Names \subseteq M, directories \subseteq directories'
    PROVE  TrackedBy(N) \subseteq TrackedBy(M)'
BY DEF TrackedBy

LEMMA DirsStep ==
    ASSUME IInv, DInv, NEW p \in Running, Running' = Running, lapses \subseteq lapses',
           lapses' \cap DirLapses = {} /\ DirsAt(p) /\ RingOK(p) => DirsAt(p)'
    PROVE  DInv'
<1> SUFFICES ASSUME lapses' \cap DirLapses = {} PROVE \A q \in Running : DirsAt(q)'
  BY DEF DInv
<1>1. lapses \cap DirLapses = {} /\ lapses \cap Disowning = {}
  BY DEF DirLapses
<1>2. \A q \in Running : q = p
  BY <1>1 DEF IInv, SoleOK, Disowning
<1>3. DirsAt(p) /\ RingOK(p)
  BY <1>1 DEF DInv, IInv, TrackedOK
<1> QED BY <1>2, <1>3

LEMMA LoadStateDirs ==
    ASSUME IInv, DInv, NEW p \in Programs, LoadState(p)
    PROVE  DInv'
<1> USE DEF LoadState
<1>1. p \in Running /\ programs[p].pc = "load" /\ programs \in [Programs -> Process]
  BY DEF At, Running, IInv, TypeOK
<1>2. /\ \A q \in Programs : q # p => programs'[q] = programs[q]
      /\ programs'[p].pc = "collect" /\ programs'[p].ring = Loaded
  BY <1>1 DEF Process
<1>3. Running' = Running
  BY <1>1, <1>2 DEF Running
<1>4. DirsAt(p) => DirsAt(p)'
  <2> SUFFICES ASSUME StateDirs PROVE directories \subseteq TrackedBy(NamesIn(Loaded))
    BY <1>1, <1>2 DEF DirsAt, TrackedBy
  <2> QED BY DEF StateDirs, Loaded
<1> QED BY <1>1, <1>3, <1>4, DirsStep

LEMMA EvictOldDirs ==
    ASSUME IInv, DInv, NEW p \in Programs, EvictOld(p)
    PROVE  DInv'
<1> DEFINE r == programs[p].ring
<1> DEFINE old == r[1]
<1> USE DEF EvictOld
<1>1. /\ p \in Running /\ programs[p].pc = "collect" /\ programs \in [Programs -> Process]
      /\ r \in Rings /\ old \in Names \cup {0}
  BY ProcessFields, RingProperties DEF At, Running, IInv, TypeOK
<1>2. /\ \A q \in Programs : q # p => programs'[q] = programs[q]
      /\ programs'[p].ring = r
      /\ old = 0 => programs'[p].pc = "name"
      /\ old # 0 => /\ programs'[p].pc = "prune" /\ programs'[p].remove = old
                    /\ programs'[p].path = hptime2timestr[old]
  BY <1>1 DEF Process
<1>3. Running' = Running /\ UNCHANGED <<directories, lapses>>
  BY <1>1, <1>2 DEF Running
<1> HIDE DEF EvictOld
<1>4. ASSUME DirsAt(p) PROVE DirsAt(p)'
  <2>1. directories \subseteq TrackedBy(NamesIn(r))
    BY <1>1, <1>4 DEF DirsAt
  <2>2. NamesIn(r) = ({old} \cup Rest(r)) \ {0} /\ 0 \notin Names
    BY <1>1, RestOfRing
  <2>3. \A d \in TrackedBy(NamesIn(r)) :
           d \in TrackedBy(Rest(r)) \/ (old \in Names /\ hptime2timestr[old] \in directories
                                                      /\ d \in PathsTo(hptime2timestr[old]))
    BY <2>2 DEF TrackedBy
  <2>4. TrackedBy(Rest(r))' = TrackedBy(Rest(r))
    BY <1>2, <1>3 DEF TrackedBy, Rest
  <2>5. CASE old = 0
    <3>1. directories \subseteq TrackedBy(Rest(r))
      BY <2>1, <2>2, <2>3, <2>5
    <3> QED BY <1>2, <1>3, <2>5, <3>1 DEF DirsAt, TrackedBy
  <2>6. CASE old # 0
    <3>1. old \in Names /\ hptime2timestr[old] \in PathsTo(hptime2timestr[old])
      BY <1>1, <2>6, PathsOnTheWay
    <3> QED BY <1>2, <1>3, <2>1, <2>3, <2>6, <3>1 DEF DirsAt, TrackedBy
  <2> QED BY <2>5, <2>6
<1> QED BY <1>1, <1>3, <1>4, DirsStep

LEMMA PruneDirs ==
    ASSUME IInv, DInv, NEW p \in Programs, Prune(p)
    PROVE  DInv'
<1> DEFINE r == programs[p].ring
<1> DEFINE path == programs[p].path
<1> DEFINE old == programs[p].remove
<1> USE DEF Prune, Pruned
<1>1. p \in Running /\ programs[p].pc = "prune" /\ programs \in [Programs -> Process] /\ r \in Rings
  BY ProcessFields DEF At, Running, IInv, TypeOK
<1>2. /\ \A q \in Programs : q # p => programs'[q] = programs[q]
      /\ programs'[p].ring = r /\ programs'[p].remove = old
      /\ rmdir_succeeds(path) => directories' = directories \ {path}
      /\ rmdir_succeeds(path) /\ Len(path) # 1 =>
           programs'[p].pc = "prune" /\ programs'[p].path = Front(path)
      /\ ~rmdir_succeeds(path) => directories' = directories
      /\ ~(rmdir_succeeds(path) /\ Len(path) # 1) => programs'[p].pc = "name"
  BY <1>1 DEF Process
<1>3. Running' = Running /\ UNCHANGED <<mswrite_dir, lapses>>
  BY <1>1, <1>2 DEF Running
<1> HIDE DEF Prune, Pruned
<1>4. ASSUME DirsAt(p), RingOK(p) PROVE DirsAt(p)'
  <2>1. /\ old = r[1] /\ old \in Names /\ path \in PathsTo(hptime2timestr[old])
        /\ \A d \in directories :
             d \in TrackedBy(Rest(r)) \/ (path \in directories /\ d \in PathsTo(path))
    BY <1>1, <1>4 DEF DirsAt
  <2>2. NamesIn(r) = ({old} \cup Rest(r)) \ {0}
    BY <1>1, <2>1, RestOfRing
  <2>3. Published \subseteq Rest(r)
    BY <1>1, <1>4, <2>1, <2>2 DEF RingOK
  <2>4. CASE rmdir_succeeds(path)
    <3>1. path \in directories /\ directories' = directories \ {path}
      BY <1>2, <2>4 DEF rmdir_succeeds
    <3>2. ASSUME NEW d \in directories'
          PROVE  d \in TrackedBy(Rest(r))' \/ d \in PathsTo(path) \ {path}
      <4>1. CASE d \in PathsTo(path)
        BY <3>1, <3>2, <4>1
      <4>2. CASE d \notin PathsTo(path)
        <5>1. PICK n \in Rest(r) \cap Names :
                hptime2timestr[n] \in directories /\ d \in PathsTo(hptime2timestr[n])
          BY <2>1, <3>1, <3>2, <4>2 DEF TrackedBy
        <5>2. hptime2timestr[n] # path
          BY <4>2, <5>1
        <5>3. hptime2timestr[n] \in directories'
          BY <3>1, <5>1, <5>2
        <5> QED BY <1>2, <5>1, <5>3 DEF TrackedBy, Rest
      <4> QED BY <4>1, <4>2
    <3>3. CASE Len(path) = 1
      <4>1. \A d \in directories' : d \in TrackedBy(Rest(r))'
        BY <2>1, <3>2, <3>3, PrefixProperties
      <4> QED BY <1>2, <2>4, <3>3, <4>1 DEF DirsAt, TrackedBy, Rest
    <3>4. CASE Len(path) # 1
      <4>1. Len(path) > 1
        <5>1. Len(path) \in 1..Len(hptime2timestr[old]) /\ Len(hptime2timestr[old]) \in Nat
          BY <2>1, PathProperties, PathAssumption
        <5> DEFINE k == Len(path)
        <5>2. k \in 1..Len(hptime2timestr[old]) /\ k # 1 /\ Len(hptime2timestr[old]) \in Nat
          BY <3>4, <5>1
        <5> HIDE DEF k
        <5>3. k > 1
          BY <5>2
        <5> QED BY <5>3 DEF k
      <4>2. /\ Front(path) \in PathsTo(hptime2timestr[old])
            /\ PathsTo(path) \subseteq PathsTo(Front(path)) \cup {path}
        BY <2>1, <4>1, PrefixProperties
      <4>3. Front(path) \in directories'
        <5>1. path \in Paths
          BY <2>1, PathProperties
        <5> QED BY <3>1, <4>1, <5>1, FrontProperties DEF IInv, DirectoriesOK
      <4>4. \A d \in directories' :
              d \in TrackedBy(Rest(r))' \/ d \in PathsTo(Front(path))
        BY <3>2, <4>2
      <4> QED BY <1>2, <2>1, <2>4, <3>4, <4>2, <4>3, <4>4 DEF DirsAt, TrackedBy, Rest
    <3> QED BY <3>3, <3>4
  <2>5. CASE ~rmdir_succeeds(path)
    <3>1. directories' = directories /\ programs'[p].pc = "name"
      BY <1>2, <2>5
    <3>2. ASSUME path \in directories PROVE PathsTo(path) \subseteq TrackedBy(Rest(r))
      <4>1. ASSUME NEW n \in Published, hptime2timestr[n] = path PROVE PathsTo(path) \subseteq TrackedBy(Rest(r))
        BY <2>3, <3>2, <4>1 DEF TrackedBy, Published
      <4>2. ASSUME NEW d \in directories, d # path, IsPrefix(path, d)
            PROVE  PathsTo(path) \subseteq TrackedBy(Rest(r))
        <5>1. d \notin PathsTo(path)
          BY <2>1, <4>2, PrefixProperties
        <5>2. PICK n \in Rest(r) \cap Names :
                hptime2timestr[n] \in directories /\ d \in PathsTo(hptime2timestr[n])
          BY <2>1, <4>2, <5>1 DEF TrackedBy
        <5>3. path \in Paths
          BY <2>1, PathProperties
        <5>4. path \in PathsTo(d) /\ PathsTo(d) \subseteq PathsTo(hptime2timestr[n])
          BY <4>2, <5>2, <5>3, PrefixProperties
        <5>5. PathsTo(path) \subseteq PathsTo(hptime2timestr[n])
          BY <5>2, <5>4, PrefixProperties
        <5> QED BY <5>2, <5>5 DEF TrackedBy
      <4> QED BY <2>5, <3>2, <4>1, <4>2 DEF rmdir_succeeds
    <3>3. directories \subseteq TrackedBy(Rest(r))
      BY <2>1, <3>2
    <3> QED BY <1>2, <3>1, <3>3 DEF DirsAt, TrackedBy, Rest
  <2> QED BY <2>4, <2>5
<1> QED BY <1>1, <1>3, <1>4, DirsStep

LEMMA NameFileDirs ==
    ASSUME IInv, DInv, NEW p \in Programs, NameFile(p)
    PROVE  DInv'
<1> DEFINE n == clock + 1
<1> DEFINE h == hptime2timestr[n]
<1> DEFINE r == programs[p].ring
<1> USE DEF NameFile
<1>1. /\ p \in Running /\ programs[p].pc = "name" /\ programs \in [Programs -> Process]
      /\ r \in Rings /\ n \in Names
  BY ProcessFields, NameAssumption DEF At, Running, IInv, TypeOK, Names
<1>2. /\ \A q \in Programs : q # p => programs'[q] = programs[q]
      /\ programs'[p].ring = [r EXCEPT ![1] = n]
      /\ programs'[p].pc = (IF h \in directories THEN "write" ELSE "mkdir")
  BY <1>1 DEF Process
<1>3. Running' = Running /\ UNCHANGED <<directories, lapses>>
  BY <1>1, <1>2 DEF Running
<1> HIDE DEF NameFile
<1>4. ASSUME DirsAt(p) PROVE DirsAt(p)'
  <2>1. directories \subseteq TrackedBy(Rest(r))
    BY <1>1, <1>4 DEF DirsAt
  <2>2. Rest(r) \cap Names \subseteq NamesIn([r EXCEPT ![1] = n])
    <3>1. r \in [1..file_index_modulo -> Names \cup {0}] /\ file_index_modulo \in Nat
      BY <1>1, SizeAssumption DEF Rings
    <3>2. [r EXCEPT ![1] = n] \in Rings
      BY <1>1, RenamedRing
    <3>3. Rest(r) = Rest([r EXCEPT ![1] = n])
      BY <3>1 DEF Rest
    <3> QED BY <3>2, <3>3, RestOfRing
  <2>3. TrackedBy(Rest(r)) \subseteq TrackedBy(NamesIn([r EXCEPT ![1] = n]))
    BY <2>2 DEF TrackedBy
  <2>4. directories' \subseteq TrackedBy(NamesIn(programs[p].ring))'
    BY <1>2, <1>3, <2>1, <2>3 DEF TrackedBy
  <2> QED BY <1>2, <2>4 DEF DirsAt
<1> QED BY <1>1, <1>3, <1>4, DirsStep

LEMMA MakeDirectoryDirs ==
    ASSUME IInv, IInv', DInv, NEW p \in Programs, MakeDirectory(p)
    PROVE  DInv'
<1> DEFINE r == programs[p].ring
<1> DEFINE n == programs[p].write
<1> DEFINE h == hptime2timestr[n]
<1> DEFINE path == programs[p].path
<1> DEFINE next == SubSeq(h, 1, Len(path) + 1)
<1> USE DEF MakeDirectory
<1>1. /\ p \in Active /\ p \in Running /\ programs[p].pc = "mkdir"
      /\ programs \in [Programs -> Process] /\ r \in Rings
  BY ProcessFields DEF At, Active, Running, IInv, TypeOK
<1>2. n \in Names /\ r[1] = n /\ path \in PathsTo(h)
  BY <1>1 DEF IInv, WorkOK, WorkAt
<1>3. /\ \A q \in Programs : q # p => programs'[q] = programs[q]
      /\ programs'[p].ring = r /\ programs'[p].write = n
      /\ programs'[p].signal = programs[p].signal
      /\ path = h => programs'[p].pc = "write"
      /\ path # h => programs'[p].pc = "mkdir" /\ programs'[p].path = next
  BY <1>1 DEF Process
<1>4. Running' = Running /\ Active' = Active /\ lapses' = lapses
  BY <1>1, <1>3 DEF Running, Active
<1>5. directories \subseteq directories' /\ directories' \subseteq directories \cup {path}
  BY DEF mkdir
<1> HIDE DEF MakeDirectory
<1>6. ASSUME DirsAt(p), lapses' \cap DirLapses = {} PROVE DirsAt(p)'
  <2>1. \A d \in directories : d \in TrackedBy(NamesIn(r)) \/ d \in PathsTo(h)
    BY <1>1, <1>6 DEF DirsAt
  <2>2. TrackedBy(NamesIn(r)) \subseteq TrackedBy(NamesIn(programs[p].ring))'
    BY <1>3, <1>5 DEF TrackedBy
  <2>3. \A d \in directories' : d \in TrackedBy(NamesIn(programs[p].ring))' \/ d \in PathsTo(h)
    BY <1>2, <1>5, <2>1, <2>2
  <2>4. CASE path # h
    <3>1. Len(next) > 1
      <4>1. /\ Len(path) \in 1..Len(h) /\ Len(h) \in Nat /\ h \in Seq(Nat)
            /\ path = SubSeq(h, 1, Len(path))
        <5>1. h \in Seq(Nat) /\ Len(h) \in Nat
          BY <1>2, PathAssumption
        <5>2. Len(path) \in 1..Len(h) /\ path = SubSeq(h, 1, Len(path))
          BY <1>2, PathProperties
        <5> QED BY <5>1, <5>2
      <4>2. Len(path) # Len(h)
        BY <2>4, <4>1, SubSeqFull
      <4>3. Len(path) + 1 \in 1..Len(h)
        <5> DEFINE k == Len(path)
        <5> DEFINE l == Len(h)
        <5>1. k \in 1..l /\ l \in Nat /\ k # l
          BY <4>1, <4>2
        <5> HIDE DEF k, l
        <5>2. k + 1 \in 1..l
          BY <5>1
        <5> QED BY <5>2 DEF k, l
      <4>4. Len(next) = Len(path) + 1
        BY <4>1, <4>3, SubSeqProperties, ElementOfSeq
      <4> QED BY <4>1, <4>4
    <3> QED BY <1>3, <2>3, <2>4, <3>1 DEF DirsAt
  <2>5. CASE path = h
    <3>1. h \in directories'
      <4>1. lapses' \cap Unsupervised = {}
        BY <1>6 DEF DirLapses, Disowning
      <4>2. WritingAt(p)'
        BY <1>1, <1>4, <4>1 DEF IInv, PublishingOK
      <4> QED BY <1>3, <2>5, <4>2 DEF WritingAt
    <3>2. n \in NamesIn(r) \cap Names
      BY <1>1, <1>2, RestOfRing
    <3>3. PathsTo(h) \subseteq TrackedBy(NamesIn(programs[p].ring))'
      BY <1>3, <3>1, <3>2 DEF TrackedBy
    <3> QED BY <1>3, <2>3, <2>5, <3>3 DEF DirsAt
  <2> QED BY <2>4, <2>5
<1> QED BY <1>1, <1>4, <1>6, DirsStep

\* Steps of a program whose directories are complete.
LEMMA WritingDirs ==
    ASSUME IInv, DInv, NEW p \in Programs, WriteRecord(p) \/ MoveFile(p) \/ Advance(p)
    PROVE  DInv'
<1>1. /\ p \in Running /\ programs[p].pc \in {"write", "publish", "advance"}
      /\ programs \in [Programs -> Process] /\ programs[p] \in Process /\ programs[p].ring \in Rings
  BY ProcessFields DEF WriteRecord, MoveFile, Advance, At, Running, IInv, TypeOK
<1>2. UNCHANGED <<directories, lapses>>
  BY DEF WriteRecord, MoveFile, Advance
<1>3. /\ \A q \in Programs : q # p => programs'[q] = programs[q]
      /\ programs'[p].pc \in {"publish", "advance", "collect"}
      /\ NamesIn(programs'[p].ring) = NamesIn(programs[p].ring)
  <2>1. CASE WriteRecord(p)
    BY <1>1, <2>1 DEF WriteRecord, Process
  <2>2. CASE MoveFile(p)
    BY <1>1, <2>2 DEF MoveFile, Process
  <2>3. CASE Advance(p)
    <3>1. /\ programs'[p].ring = Append(Tail(programs[p].ring), Head(programs[p].ring))
          /\ programs'[p].pc = "collect"
          /\ \A q \in Programs : q # p => programs'[q] = programs[q]
      BY <1>1, <2>3 DEF Advance, Process
    <3> QED BY <1>1, <3>1, AdvancedRing
  <2> QED BY <2>1, <2>2, <2>3
<1>4. Running' = Running
  BY <1>1, <1>3 DEF Running
<1>5. DirsAt(p) => DirsAt(p)'
  BY <1>1, <1>2, <1>3 DEF DirsAt, TrackedBy
<1> QED BY <1>1, <1>2, <1>4, <1>5, DirsStep

\* A program that is not half way along a path saves a ring that tracks all.
LEMMA OpenStateFileDirs ==
    ASSUME IInv, DInv, NEW p \in Programs, OpenStateFile(p)
    PROVE  DInv'
<1> DEFINE new == [NotRunning EXCEPT !.pc = "saving", !.signal = TRUE, !.ring = programs[p].ring]
<1> DEFINE r == programs[p].ring
<1>1. /\ TypeOK /\ programs \in [Programs -> Process] /\ programs[p] \in Process /\ r \in Rings
      /\ programs[p].pc \notin {"none", "saving"} /\ p \in Running
      /\ UNCHANGED <<mswrite_dir, directories>>
  BY ProcessFields DEF IInv, TypeOK, OpenStateFile, Running
<1>2. /\ \A q \in Programs : q # p => programs'[q] = programs[q]
      /\ programs'[p].pc = "saving" /\ programs'[p].ring = r
  <2>1. programs' = [programs EXCEPT ![p] = new]
    BY DEF OpenStateFile
  <2>2. new.pc = "saving" /\ new.ring = r
    BY DEF NotRunning
  <2> HIDE DEF new
  <2> QED BY <1>1, <2>1, <2>2
<1>3. /\ lapses \subseteq lapses'
      /\ HalfPath(p) => "halfpath" \in lapses'
      /\ programs[p].pc = "load" => "early" \in lapses'
  BY DEF OpenStateFile, Happen, LeftBehind
<1>4. Running' = Running
  BY <1>1, <1>2 DEF Running
<1>5. ASSUME lapses' \cap DirLapses = {}, DirsAt(p) PROVE DirsAt(p)'
  <2>1. ~HalfPath(p) /\ programs[p].pc # "load"
    BY <1>3, <1>5 DEF DirLapses, Disowning
  <2>2. NamesIn(r) = ({r[1]} \cup Rest(r)) \ {0} /\ 0 \notin Names
    BY <1>1, RestOfRing
  <2>3. TrackedBy(Rest(r)) \subseteq TrackedBy(NamesIn(r))
    BY <2>2 DEF TrackedBy
  <2>4. directories \subseteq TrackedBy(NamesIn(r))
    <3>1. CASE programs[p].pc = "prune"
      <4>1. programs[p].path = hptime2timestr[programs[p].remove]
        BY <2>1, <3>1 DEF HalfPath
      <4>2. programs[p].remove \in NamesIn(r) \cap Names
        BY <1>5, <2>2, <3>1 DEF DirsAt
      <4>3. hptime2timestr[programs[p].remove] \in directories =>
              PathsTo(programs[p].path) \subseteq TrackedBy(NamesIn(r))
        BY <4>1, <4>2 DEF TrackedBy
      <4> QED BY <1>5, <2>3, <3>1, <4>1, <4>3 DEF DirsAt
    <3>2. CASE programs[p].pc = "name"
      BY <1>5, <2>3, <3>2 DEF DirsAt
    <3>3. CASE programs[p].pc = "mkdir"
      BY <1>5, <2>1, <3>3 DEF DirsAt, HalfPath
    <3>4. CASE programs[p].pc \in {"collect", "write", "publish", "advance"}
      BY <1>5, <3>4 DEF DirsAt
    <3>5. programs[p].pc \in {"none", "load", "saving"} \cup Writing
      BY <1>1, ProcessFields
    <3> QED BY <1>1, <2>1, <3>1, <3>2, <3>3, <3>4, <3>5 DEF Writing
  <2> QED BY <1>1, <1>2, <2>4 DEF DirsAt, TrackedBy
<1> QED BY <1>1, <1>3, <1>4, <1>5, DirsStep

LEMMA SaveStateDirs ==
    ASSUME IInv, DInv, NEW p \in Programs, SaveState(p)
    PROVE  DInv'
<1> SUFFICES ASSUME lapses' \cap DirLapses = {}
             PROVE  Running' = {} /\ StateDirs'
  BY DEF DInv
<1> USE DEF SaveState
<1>1. /\ programs[p].ring \in Rings /\ p \in Running /\ programs[p].pc = "saving"
      /\ lapses \cap Disowning = {} /\ lapses \cap DirLapses = {}
      /\ programs \in [Programs -> Process]
  BY ProcessFields DEF IInv, TypeOK, Running, DirLapses
<1>2. \A q \in Running : q = p
  BY <1>1 DEF IInv, SoleOK, Disowning
<1>3. Running' = {}
  BY <1>1, <1>2 DEF Running, NotRunning
<1>4. directories \subseteq TrackedBy(NamesIn(programs[p].ring))
  BY <1>1 DEF DInv, DirsAt
<1> QED BY <1>1, <1>3, <1>4 DEF StateDirs, TrackedBy

LEMMA LaunchDirs ==
    ASSUME IInv, DInv, NEW s \in Shells, Launch(s)
    PROVE  DInv'
<1> USE DEF Launch
<1>1. PICK p \in Programs \ Running : programs' = [programs EXCEPT ![p].pc = "load"]
  OBVIOUS
<1>2. /\ programs \in [Programs -> Process] /\ programs[p] \in Process
      /\ shell[s] = "restarting" /\ UNCHANGED <<directories, state_file>>
  BY <1>1 DEF IInv, TypeOK
<1>3. /\ \A q \in Programs : q # p => programs'[q] = programs[q]
      /\ programs'[p].pc = "load"
  BY <1>1, <1>2 DEF Process
<1>4. /\ lapses \subseteq lapses'
      /\ (\E q \in Running : programs[q].signal) => "slow" \in lapses'
      /\ (\E u \in Shells \ {s} : shell[u] # "idle") => "overlapped" \in lapses'
  BY DEF Happen, BesideAnother
<1> SUFFICES ASSUME lapses' \cap DirLapses = {}
             PROVE  Running' = {p} /\ DirsAt(p)'
  BY DEF DInv
<1>5. lapses \cap DirLapses = {} /\ lapses \cap Unsupervised = {}
  BY <1>4 DEF DirLapses, Disowning
<1>6. Active = {}
  BY <1>2, <1>4, <1>5 DEF IInv, SupervisedOK, DirLapses, Disowning, Unsupervised
<1>7. Running = {}
  BY <1>4, <1>6 DEF Active, DirLapses, Disowning
<1>8. Running' = {p}
  BY <1>1, <1>3, <1>7 DEF Running
<1>9. StateDirs
  BY <1>5, <1>7 DEF DInv
<1> QED BY <1>2, <1>3, <1>8, <1>9 DEF DirsAt, StateDirs, TrackedBy

\* Steps that neither move a program on nor touch a directory.
LEMMA DirsStay ==
    ASSUME IInv, DInv, UNCHANGED <<directories, state_file>>, lapses \subseteq lapses',
           \A p \in Programs :
             /\ programs'[p].pc = programs[p].pc /\ programs'[p].ring = programs[p].ring
             /\ programs'[p].write = programs[p].write /\ programs'[p].remove = programs[p].remove
             /\ programs'[p].path = programs[p].path
    PROVE  DInv'
<1>1. Running' = Running
  BY DEF Running
<1>2. \A p \in Running : p \in Programs
  BY DEF Running
<1>3. StateDirs' <=> StateDirs
  BY DEF StateDirs, TrackedBy
<1>4. \A p \in Running : DirsAt(p) => DirsAt(p)'
  BY <1>2, <1>3 DEF DirsAt, TrackedBy
<1> QED BY <1>1, <1>3, <1>4 DEF DInv

LEMMA DirsInductive == IInv /\ IInv' /\ DInv /\ [Next]_vars => DInv'
<1> SUFFICES ASSUME IInv, IInv', DInv, [Next]_vars PROVE DInv'
  OBVIOUS
<1>1. programs \in [Programs -> Process] /\ \A p \in Programs : programs[p] \in Process
  BY DEF IInv, TypeOK
<1>2. ASSUME NEW p \in Programs, Step(p) PROVE DInv'
  BY <1>2, LoadStateDirs, EvictOldDirs, PruneDirs, NameFileDirs, MakeDirectoryDirs, WritingDirs,
     OpenStateFileDirs, SaveStateDirs DEF Step
<1>3. ASSUME NEW p \in Programs, Crash(p) PROVE DInv'
  <2>1. "crash" \in lapses'
    BY <1>3 DEF Crash, Happen
  <2> QED BY <2>1 DEF DInv, DirLapses, Disowning
<1>4. ASSUME NEW s \in Shells, NEW stage, StopProgram(s, stage) PROVE DInv'
  <2>1. UNCHANGED <<directories, state_file, lapses>>
    BY <1>4 DEF StopProgram
  <2>2. \A q \in Programs :
             /\ programs'[q].pc = programs[q].pc /\ programs'[q].ring = programs[q].ring
             /\ programs'[q].write = programs[q].write /\ programs'[q].remove = programs[q].remove
             /\ programs'[q].path = programs[q].path
    <3>1. CASE pid_file \in Running
      BY <1>1, <1>4, <3>1 DEF StopProgram, Kill, Process
    <3>2. CASE pid_file \notin Running
      BY <1>1, <1>4, <3>2 DEF StopProgram, Kill
    <3> QED BY <3>1, <3>2
  <2> QED BY <2>1, <2>2, DirsStay
<1>5. ASSUME (\E s \in Shells : RemovePid(s) \/ WritePid(s) \/ Interrupted(s)) \/ UNCHANGED vars
      PROVE  DInv'
  <2>1. UNCHANGED program_vars /\ lapses \subseteq lapses'
    BY <1>5 DEF RemovePid, WritePid, Interrupted, vars, Happen
  <2> QED BY <2>1, DirsStay DEF program_vars
<1>6. ASSUME NEW t \in scripts, UploadStep(t) \/ UploadFails(t) PROVE DInv'
  <2>1. UNCHANGED program_vars /\ lapses \subseteq lapses'
    BY <1>6 DEF UploadStep, UploadFails, Happen
  <2> QED BY <2>1, DirsStay DEF program_vars
<1> QED BY <1>2, <1>3, <1>4, <1>5, <1>6, LaunchDirs DEF Next, Shell

\* Every date directory is on the way to a file that the program knows, so that
\* none is left for good when its last file goes, for date paths of any depth
\* (make_mseed_filepath).
THEOREM DirectoriesTrackedHolds == Spec => []DirectoriesTracked
<1>1. Init => DInv
  <2> SUFFICES ASSUME Init PROVE Running = {} /\ StateDirs
    BY DEF DInv
  <2>1. NoFile \notin Rings
    BY RingProperties, NoFileAssumption
  <2> QED BY <2>1 DEF Init, DirectoryInit, Running, NotRunning, StateDirs
<1>2. ASSUME IInv, DInv PROVE DirectoriesTracked
  <2> SUFFICES ASSUME lapses \cap DirLapses = {}
               PROVE  directories \subseteq UNION {PathsTo(hptime2timestr[n]) : n \in KnownNames}
    BY DEF DirectoriesTracked, DirLapses
  <2> DEFINE holders == {p \in Programs : programs[p].pc \notin {"none", "load"}}
  <2>1. (\A p \in Running : DirsAt(p)) /\ (Running = {} => StateDirs)
    BY <1>2 DEF DInv
  <2>2. \A N : TrackedBy(N) \subseteq UNION {PathsTo(hptime2timestr[n]) : n \in N}
    BY DEF TrackedBy
  <2>3. CASE holders # {}
    <3>1. PICK p \in holders : TRUE
      BY <2>3
    <3>2. p \in Running /\ p \in Programs /\ programs[p].ring \in Rings /\ DirsAt(p)
      BY <1>2, <2>1, <3>1, ProcessFields DEF Running, IInv
    <3> DEFINE r == programs[p].ring
    <3>3. NamesIn(r) = ({r[1]} \cup Rest(r)) \ {0} /\ 0 \notin Names /\ NamesIn(r) \subseteq KnownNames
      BY <2>3, <3>1, <3>2, RestOfRing DEF KnownNames
    <3>4. TrackedBy(Rest(r)) \subseteq TrackedBy(NamesIn(r))
      BY <3>3 DEF TrackedBy
    <3>5. ASSUME NEW d \in directories
          PROVE  d \in TrackedBy(NamesIn(r)) \/ \E n \in NamesIn(r) : d \in PathsTo(hptime2timestr[n])
      <4>1. CASE programs[p].pc = "prune"
        <5> DEFINE m == programs[p].remove
        <5>0. /\ m = r[1] /\ m \in Names
              /\ programs[p].path \in PathsTo(hptime2timestr[m])
          BY <3>2, <4>1 DEF DirsAt
        <5>1. m \in NamesIn(r) /\ PathsTo(programs[p].path) \subseteq PathsTo(hptime2timestr[m])
          <6>1. PathsTo(programs[p].path) \subseteq PathsTo(hptime2timestr[m])
            <7>1. \A i \in Names : \A q \in PathsTo(hptime2timestr[i]) :
                    PathsTo(q) \subseteq PathsTo(hptime2timestr[i])
              BY PrefixProperties
            <7> QED BY <5>0, <7>1, Zenon
          <6> QED BY <3>3, <5>0, <6>1
        <5>2. d \in TrackedBy(Rest(r)) \/ d \in PathsTo(programs[p].path)
          BY <3>2, <4>1 DEF DirsAt
        <5> QED BY <3>4, <5>1, <5>2
      <4>2. CASE programs[p].pc = "mkdir"
        <5>1. programs[p].write \in NamesIn(r)
          BY <1>2, <3>2, <3>3, <4>2 DEF IInv, WorkOK, WorkAt
        <5>2. d \in TrackedBy(NamesIn(r)) \/ d \in PathsTo(hptime2timestr[programs[p].write])
          BY <3>2, <4>2 DEF DirsAt
        <5> QED BY <5>1, <5>2
      <4>3. CASE programs[p].pc = "name"
        BY <3>2, <3>4, <4>3 DEF DirsAt
      <4>4. CASE programs[p].pc \in {"collect", "write", "publish", "advance", "saving"}
        BY <3>2, <4>4 DEF DirsAt
      <4> QED BY <1>2, <3>1, <3>2, <4>1, <4>2, <4>3, <4>4, ProcessFields DEF IInv, Writing
    <3> QED BY <2>2, <3>3, <3>5
  <2>4. CASE holders = {}
    <3>1. StateDirs
      <4>1. CASE Running = {}
        BY <2>1, <4>1
      <4>2. CASE Running # {}
        <5>1. PICK p \in Running : programs[p].pc = "load"
          BY <2>4, <4>2 DEF Running
        <5> QED BY <2>1, <5>1 DEF DirsAt
      <4> QED BY <4>1, <4>2
    <3>2. state_file \in Rings => state_file # NoFile
      BY RingProperties, NoFileAssumption
    <3>3. KnownNames = IF state_file = NoFile THEN {} ELSE NamesIn(state_file)
      BY <2>4 DEF KnownNames
    <3> QED BY <2>2, <3>1, <3>2, <3>3 DEF StateDirs
  <2> QED BY <2>3, <2>4
<1> QED BY <1>1, <1>2, DirsInductive, Invariance, PTL DEF Spec
=============================================================================
