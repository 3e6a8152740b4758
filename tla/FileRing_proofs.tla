-------------------------- MODULE FileRing_proofs --------------------------
(***************************************************************************)
(* Theorems about FileRing, for every ring size, number of records in a    *)
(* file, bound on the times and set of disturbances.                       *)
(***************************************************************************)
EXTENDS FileRing, FiniteSetTheorems, TLAPS

-----------------------------------------------------------------------------
(* The ring *)

\* Going round the ring once: adding two slot numbers modulo the ring size.
LEMMA Wrap ==
    ASSUME NEW n \in Nat \ {0}, NEW i \in 0..n-1, NEW j \in 0..n-1
    PROVE  (i + j) % n = IF i + j < n THEN i + j ELSE i + j - n
<1>1. CASE i + j < n
  BY <1>1, Z3
<1>2. CASE i + j >= n
  <2>1. (i + j) \in Nat /\ i + j - n \in 0..n-1
    BY <1>2
  <2>2. i + j = n * 1 + (i + j - n)
    OBVIOUS
  <2> QED BY <1>2, <2>1, <2>2, Z3
<1> QED BY <1>1, <1>2

\* Printing the ring from slot index onwards visits every slot once.
LEMMA Round ==
    ASSUME NEW n \in Nat \ {0}, NEW index \in 0..n-1
    PROVE  /\ \A j \in 1..n : (index + j - 1) % n \in 0..n-1
           /\ \A j, k \in 1..n : (index + j - 1) % n = (index + k - 1) % n => j = k
           /\ \A i \in 0..n-1 : \E j \in 1..n : (index + j - 1) % n = i
<1>1. ASSUME NEW j \in 1..n
      PROVE  (index + j - 1) % n = IF index + j - 1 < n THEN index + j - 1 ELSE index + j - 1 - n
  <2>1. j - 1 \in 0..n-1 /\ index + (j - 1) = index + j - 1
    OBVIOUS
  <2> QED BY <2>1, Wrap
<1>2. ASSUME NEW i \in 0..n-1
      PROVE  \E j \in 1..n : (index + j - 1) % n = i
  <2>1. CASE i >= index
    <3>1. i - index + 1 \in 1..n /\ index + (i - index + 1) - 1 = i
      BY <2>1
    <3>2. (index + (i - index + 1) - 1) % n = i
      BY <3>1, <1>1
    <3> QED BY <3>1, <3>2
  <2>2. CASE i < index
    <3>1. i + n - index + 1 \in 1..n /\ index + (i + n - index + 1) - 1 = i + n
      BY <2>2
    <3>2. (index + (i + n - index + 1) - 1) % n = i
      BY <3>1, <1>1
    <3> QED BY <3>1, <3>2
  <2> QED BY <2>1, <2>2
<1>3. \A j \in 1..n : (index + j - 1) % n \in 0..n-1
  BY <1>1
<1>4. \A j, k \in 1..n : (index + j - 1) % n = (index + k - 1) % n => j = k
  BY <1>1
<1> QED BY <1>2, <1>3, <1>4

\* What term_handler saves is the ring, in another order.
LEMMA Saved ==
    ASSUME NEW n \in Nat \ {0}, NEW index \in 0..n-1, NEW list \in [0..n-1 -> Nat]
    PROVE  /\ SavedTimes(n, index, list) \in Seq(Nat)
           /\ Len(SavedTimes(n, index, list)) = n
           /\ Names(SavedTimes(n, index, list)) = Names(list)
<1> DEFINE times == SavedTimes(n, index, list)
<1>1. times \in [1..n -> Nat]
  <2>1. \A j \in 1..n : (index + j - 1) % n \in 0..n-1
    BY Round
  <2> QED BY <2>1 DEF SavedTimes
<1>2. times \in Seq(Nat) /\ Len(times) = n /\ DOMAIN times = 1..n
  BY <1>1
<1>3. \A j \in 1..n : times[j] \in {list[i] : i \in 0..n-1}
  <2>1. \A j \in 1..n : (index + j - 1) % n \in 0..n-1
    BY Round
  <2> QED BY <2>1 DEF SavedTimes
<1>4. \A i \in 0..n-1 : \E j \in 1..n : times[j] = list[i]
  <2>1. \A i \in 0..n-1 : \E j \in 1..n : (index + j - 1) % n = i
    BY Round
  <2> QED BY <2>1 DEF SavedTimes
<1>5. Names(times) = Names(list)
  BY <1>2, <1>3, <1>4 DEF Names
<1> QED BY <1>2, <1>5

\* Reading times back gives a ring, which names them all if it has room.
LEMMA Restored ==
    ASSUME NEW n \in Nat \ {0}, NEW index \in Nat, NEW times \in Seq(Nat)
    PROVE  /\ RestoredList(n, index, times) \in [0..n-1 -> Nat]
           /\ index < n /\ Len(times) <= n =>
                /\ \A j \in 1..Len(times) :
                     RestoredList(n, index, times)[(index + j - 1) % n] = times[j]
                /\ Names(times) \subseteq Names(RestoredList(n, index, times))
<1> DEFINE list == RestoredList(n, index, times)
           writers(i) == {j \in 1..Len(times) :
                            j > Len(times) - n /\ (index + j - 1) % n = i}
           last(i) == CHOOSE j \in writers(i) : TRUE
<1>1. list = [i \in 0..n-1 |-> IF writers(i) = {} THEN 0 ELSE times[last(i)]]
  BY DEF RestoredList
<1>2. ASSUME NEW i \in 0..n-1, writers(i) # {}
      PROVE  last(i) \in writers(i)
  BY <1>2
<1>3. list \in [0..n-1 -> Nat]
  <2>1. ASSUME NEW i \in 0..n-1, writers(i) # {}
        PROVE  times[last(i)] \in Nat
    <3> HIDE DEF last
    <3>1. last(i) \in 1..Len(times)
      BY <1>2, <2>1
    <3> QED BY <3>1
  <2> HIDE DEF writers, last
  <2> QED BY <1>1, <2>1
<1>4. ASSUME index < n, Len(times) <= n, NEW j \in 1..Len(times)
      PROVE  list[(index + j - 1) % n] = times[j]
  <2> DEFINE i == (index + j - 1) % n
  <2>0. index \in 0..n-1 /\ 1..Len(times) \subseteq 1..n
    BY <1>4
  <2>1. i \in 0..n-1 /\ \A k \in 1..Len(times) : (index + k - 1) % n = i => k = j
    BY <2>0, <1>4, Round
  <2>2. writers(i) = {j}
    <3>1. Len(times) \in Nat /\ j > Len(times) - n
      BY <1>4
    <3> QED BY <3>1, <2>1
  <2>3. last(i) = j
    BY <1>2, <2>1, <2>2
  <2> QED BY <1>1, <2>1, <2>2, <2>3
<1>5. ASSUME index < n, Len(times) <= n
      PROVE  Names(times) \subseteq Names(list)
  <2>1. \A j \in 1..Len(times) : (index + j - 1) % n \in DOMAIN list
    BY <1>3, <1>5, Round
  <2>2. \A j \in 1..Len(times) : list[(index + j - 1) % n] = times[j]
    BY <1>4, <1>5
  <2> HIDE DEF list, writers, last
  <2>3. SUFFICES ASSUME NEW j \in 1..Len(times), times[j] # 0
                 PROVE  times[j] \in Names(list)
    BY DEF Names
  <2> QED BY <2>1, <2>2, <2>3 DEF Names
<1> QED BY <1>3, <1>4, <1>5

\* Saving a ring and reading it back gives the ring.
LEMMA SavedThenRestored ==
    ASSUME NEW n \in Nat \ {0}, NEW index \in 0..n-1, NEW list \in [0..n-1 -> Nat]
    PROVE  RestoredList(n, index, SavedTimes(n, index, list)) = list
<1> DEFINE times == SavedTimes(n, index, list)
<1>1. times \in Seq(Nat) /\ Len(times) = n
  BY Saved
<1>4. \A j \in 1..n : times[j] = list[(index + j - 1) % n]
  BY DEF SavedTimes
<1> HIDE DEF times
<1>2. index \in Nat /\ index < n /\ Len(times) <= n
  BY <1>1
<1>3. /\ RestoredList(n, index, times) \in [0..n-1 -> Nat]
      /\ \A j \in 1..n : RestoredList(n, index, times)[(index + j - 1) % n] = times[j]
  BY <1>1, <1>2, Restored
<1>5. \A i \in 0..n-1 : RestoredList(n, index, times)[i] = list[i]
  <2>1. \A i \in 0..n-1 : \E j \in 1..n : (index + j - 1) % n = i
    BY Round
  <2>2. SUFFICES ASSUME NEW i \in 0..n-1
                 PROVE  RestoredList(n, index, times)[i] = list[i]
    OBVIOUS
  <2>3. PICK j \in 1..n : (index + j - 1) % n = i
    BY <2>1
  <2>4. RestoredList(n, index, times)[(index + j - 1) % n] = list[(index + j - 1) % n]
    BY <1>3, <1>4
  <2> QED BY <2>3, <2>4
<1> QED BY <1>3, <1>5 DEF times

\* A remainder is a slot number.
LEMMA ModType == ASSUME NEW n \in Nat \ {0}, NEW i \in Nat PROVE i % n \in 0..n-1
BY Z3

\* A cleared ring is a ring.
LEMMA EmptyListType == \A n \in Nat : EmptyList(n) \in [0..n-1 -> Nat]
BY DEF EmptyList

\* The first times of a sequence are a sequence of some of its times.
LEMMA PrefixType ==
    ASSUME NEW times \in Seq(Nat), NEW k \in 0..Len(times)
    PROVE  /\ Prefix(times, k) \in Seq(Nat) /\ Len(Prefix(times, k)) = k
           /\ Names(Prefix(times, k)) \subseteq Names(times)
<1>1. Len(times) \in Nat /\ \A j \in 1..Len(times) : times[j] \in Nat
  OBVIOUS
<1>2. k \in Nat /\ 1..k \subseteq 1..Len(times)
  BY <1>1
<1>3. Prefix(times, k) \in Seq(Nat) /\ Len(Prefix(times, k)) = k
  BY <1>1, <1>2 DEF Prefix
<1>4. Names(Prefix(times, k)) \subseteq Names(times)
  <2>1. DOMAIN Prefix(times, k) = 1..k /\ DOMAIN times = 1..Len(times)
    BY DEF Prefix
  <2>2. \A j \in 1..k : Prefix(times, k)[j] = times[j]
    BY DEF Prefix
  <2> QED BY <1>2, <2>1, <2>2 DEF Names
<1> QED BY <1>3, <1>4

\* A program that is stopped before it has a ring saves no time.
LEMMA SavedType ==
    ASSUME NEW n \in Nat, NEW index \in Nat, index < n \/ n = 0,
           NEW list \in [0..n-1 -> Nat]
    PROVE  SavedTimes(n, index, list) \in Seq(Nat) /\ Len(SavedTimes(n, index, list)) = n
<1>1. CASE n = 0
  <2>1. SavedTimes(n, index, list) = <<>>
    BY <1>1 DEF SavedTimes
  <2>2. <<>> \in Seq(Nat) /\ Len(<<>>) = 0
    OBVIOUS
  <2> QED BY <1>1, <2>1, <2>2
<1>2. CASE n # 0
  BY <1>2, Saved
<1> QED BY <1>1, <1>2

-----------------------------------------------------------------------------
(* The type invariant *)

\* Reading the state file leaves a ring of the right size.
LEMMA LoadedType ==
    ASSUME TypeOK, RingOK, LoadState \/ FinishLoading
    PROVE  /\ file_index_modulo \in Sizes
           /\ filetime_list' \in [0..file_index_modulo-1 -> Nat]
           /\ file_index' \in Nat /\ file_index' < file_index_modulo
<1>1. /\ file_index_modulo \in Sizes /\ file_index_modulo \in Nat \ {0}
      /\ file_index < file_index_modulo
      /\ filetime_list \in [0..file_index_modulo-1 -> Nat]
  BY SizesAssumption DEF LoadState, FinishLoading, RingOK, TypeOK
<1>2. CASE ~Loadable
  BY <1>1, <1>2 DEF LoadState, FinishLoading, TypeOK
<1>3. CASE Loadable
  <2>1. /\ state_file.index \in Nat /\ state_file.times \in Seq(Nat)
        /\ state_file.index < file_index_modulo
    BY <1>3 DEF Loadable, TypeOK
  <2>2. CASE LoadState
    <3>1. PICK k \in 0..Len(state_file.times) :
            filetime_list' = RestoredList(file_index_modulo, state_file.index, Prefix(state_file.times, k))
      BY <1>3, <2>2 DEF LoadState
    <3>2. filetime_list' \in [0..file_index_modulo-1 -> Nat]
      BY <1>1, <2>1, <3>1, PrefixType, Restored
    <3> QED BY <1>1, <1>3, <2>1, <2>2, <3>2 DEF LoadState
  <2>3. CASE FinishLoading
    <3>1. filetime_list' \in [0..file_index_modulo-1 -> Nat]
      BY <1>1, <1>3, <2>1, <2>3, Restored DEF FinishLoading
    <3>2. pc = "loading" /\ file_index' = file_index
      BY <2>3 DEF FinishLoading
    <3> QED BY <1>1, <3>1, <3>2 DEF TypeOK
  <2> QED BY <2>2, <2>3
<1> QED BY <1>2, <1>3

\* No step of the program or disturbance breaks a type.
LEMMA TypeStep == TypeOK /\ RingOK /\ NameOK /\ [Next]_vars => TypeOK'
<1> SUFFICES ASSUME TypeOK, RingOK, NameOK, [Next]_vars PROVE TypeOK'
  OBVIOUS
<1> USE SizesAssumption, TimeAssumption, EventsAssumption DEF TypeOK, StartingUp, Collecting, memory, disk, history, Happens, Files, Disturbances
<1>1. CASE Start
  <2>1. filetime_list' \in [0..0-1 -> Nat]
    BY <1>1, EmptyListType DEF Start
  <2> QED BY <1>1, <2>1 DEF Start
<1>2. CASE SizeRing
  BY <1>2 DEF SizeRing
<1>3. CASE AllocateList
  <2>1. file_index_modulo \in Sizes /\ filetime_list' \in [0..file_index_modulo-1 -> Nat]
    BY <1>3, EmptyListType DEF AllocateList, RingOK
  <2> QED BY <1>3, <2>1 DEF AllocateList
<1>4. CASE LoadState
  BY <1>4, LoadedType DEF LoadState
<1>5. CASE FinishLoading
  BY <1>5, LoadedType DEF FinishLoading
<1>6. CASE Connect
  BY <1>6 DEF Connect
<1>7. CASE CollectRecord
  <2>1. starttime' \in Nat /\ clock' \in Nat
    BY <1>7 DEF CollectRecord, Times
  <2>2. pc' \in {"evict", "write"}
    BY <1>7 DEF CollectRecord
  <2> QED BY <1>7, <2>1, <2>2 DEF CollectRecord
<1>8. CASE ReadError
  BY <1>8 DEF ReadError
<1>9. CASE EvictOld
  BY <1>9 DEF EvictOld
<1>10. CASE EvictFails
  BY <1>10 DEF EvictFails
<1>11. CASE AssignSlot
  BY <1>11 DEF AssignSlot
<1>12. CASE WriteRecord
  BY SMTT(20), <1>12 DEF WriteRecord, CountRecord, Opened
<1>13. CASE WriteFails
  <2>1. tmpfile' \in Seq(Nat) \cup {NoFile}
    <3>1. Opened \in Seq(Nat)
      BY DEF Opened
    <3> QED BY <1>13, <3>1 DEF WriteFails
  <2> QED BY SMTT(20), <1>13, <2>1 DEF WriteFails, CountRecord
<1>14. CASE MoveFile
  <2>1. tmpfile \in Seq(Nat) /\ msfilepath_write \in Nat \ {0}
    BY <1>14 DEF MoveFile, NameOK, Names
  <2>2. Files' = Files \cup {msfilepath_write} /\ mswrite_dir' \in [Files' -> Seq(Nat)]
    BY <1>14, <2>1 DEF MoveFile
  <2> QED BY <1>14, <2>1, <2>2 DEF MoveFile
<1>15. CASE MoveFails
  BY <1>15 DEF MoveFails
<1>16. CASE Advance
  <2>1. file_index_modulo \in Nat \ {0}
    BY <1>16 DEF Advance, RingOK
  <2>2. file_index' \in Nat
    BY <1>16, <2>1, ModType DEF Advance
  <2> QED BY <1>16, <2>2 DEF Advance
<1>17. CASE TermSignal
  BY SMTT(20), <1>17 DEF TermSignal, OpenStateFile, Truncated
<1>18. CASE NestedSignal
  BY <1>18 DEF NestedSignal, OpenStateFile, Truncated
<1>19. CASE TermSignalCrash
  BY <1>19 DEF TermSignalCrash, OpenStateFile, Truncated
<1>20. CASE TermSignalNoFile
  BY <1>20 DEF TermSignalNoFile
<1>21. CASE FlushPart
  <2>1. CurrentTimes \in Seq(Nat) /\ Len(CurrentTimes) = file_index_modulo
    BY <1>21, SavedType DEF FlushPart, RingOK, CurrentTimes
  <2>2. \A k \in 0..Len(CurrentTimes) : Prefix(CurrentTimes, k) \in Seq(Nat)
    BY <2>1, PrefixType
  <2> QED BY SMTT(20), <1>21, <2>2 DEF FlushPart
<1>22. CASE SaveState
  <2>1. CurrentTimes \in Seq(Nat) /\ Len(CurrentTimes) = file_index_modulo
    BY <1>22, SavedType DEF SaveState, RingOK, CurrentTimes
  <2> QED BY <1>22, <2>1 DEF SaveState
<1>23. CASE SaveFails
  BY <1>23 DEF SaveFails
<1>24. CASE Kill
  BY <1>24 DEF Kill
<1>25. CASE Reconfigure
  BY <1>25 DEF Reconfigure
<1>26. CASE MoveCrashes
  BY <1>26 DEF MoveCrashes
<1>27. CASE UNCHANGED vars
  BY <1>27 DEF vars
<1> QED
  BY <1>1, <1>2, <1>3, <1>4, <1>5, <1>6, <1>7, <1>8, <1>9, <1>10, <1>11, <1>12, <1>13, <1>14, <1>15, <1>16, <1>17, <1>18, <1>19, <1>20, <1>21, <1>22, <1>23, <1>24, <1>25, <1>26, <1>27 DEF Next, StartUp, Collect, Stop


-----------------------------------------------------------------------------
(* The ring and the temporary file *)

\* The ring keeps the size and the index stays in it.
LEMMA RingStep == TypeOK /\ RingOK /\ [Next]_vars => RingOK'
<1> SUFFICES ASSUME TypeOK, RingOK, [Next]_vars PROVE RingOK'
  OBVIOUS
<1> USE SizesAssumption DEF RingOK, StartingUp, Collecting, memory, disk, history, Happens
<1>1. CASE Start
  <2>1. filetime_list' \in [0..0-1 -> Nat]
    BY <1>1, EmptyListType DEF Start
  <2> QED BY <1>1, <2>1 DEF Start
<1>2. CASE SizeRing
  BY <1>2 DEF SizeRing
<1>3. CASE AllocateList
  <2>1. file_index_modulo \in Nat \ {0}
    BY <1>3 DEF AllocateList, TypeOK
  <2>2. filetime_list' \in [0..file_index_modulo-1 -> Nat]
    BY <1>3, <2>1, EmptyListType DEF AllocateList
  <2> QED BY <1>3, <2>1, <2>2 DEF AllocateList
<1>4. CASE LoadState
  <2>1. /\ filetime_list' \in [0..file_index_modulo-1 -> Nat]
        /\ file_index' < file_index_modulo
    BY <1>4, LoadedType
  <2> QED BY <1>4, <2>1 DEF LoadState
<1>5. CASE FinishLoading
  <2>1. filetime_list' \in [0..file_index_modulo-1 -> Nat]
    BY <1>5, LoadedType
  <2> QED BY <1>5, <2>1 DEF FinishLoading
<1>6. CASE Connect
  BY <1>6 DEF Connect
<1>7. CASE CollectRecord
  BY <1>7 DEF CollectRecord
<1>8. CASE ReadError
  BY <1>8 DEF ReadError
<1>9. CASE EvictOld
  BY <1>9 DEF EvictOld
<1>10. CASE EvictFails
  BY <1>10 DEF EvictFails
<1>11. CASE AssignSlot
  <2>1. filetime_list' \in [0..file_index_modulo-1 -> Nat]
    BY <1>11 DEF AssignSlot, TypeOK
  <2> QED BY <1>11, <2>1 DEF AssignSlot
<1>12. CASE WriteRecord
  BY <1>12 DEF WriteRecord, CountRecord, Opened
<1>13. CASE WriteFails
  BY <1>13 DEF WriteFails, CountRecord, Opened
<1>14. CASE MoveFile
  BY <1>14 DEF MoveFile
<1>15. CASE MoveFails
  BY <1>15 DEF MoveFails
<1>16. CASE Advance
  <2>1. file_index_modulo \in Nat \ {0} /\ file_index \in Nat
    BY <1>16 DEF Advance, TypeOK
  <2>2. (file_index + 1) % file_index_modulo \in 0..file_index_modulo-1
    BY <2>1, ModType
  <2> QED BY <1>16, <2>1, <2>2 DEF Advance
<1>17. CASE TermSignal
  BY <1>17 DEF TermSignal, OpenStateFile, Truncated
<1>18. CASE NestedSignal
  BY <1>18 DEF NestedSignal, OpenStateFile, Truncated
<1>19. CASE TermSignalCrash
  BY <1>19 DEF TermSignalCrash, OpenStateFile, Truncated
<1>20. CASE TermSignalNoFile
  BY <1>20 DEF TermSignalNoFile
<1>21. CASE FlushPart
  BY <1>21 DEF FlushPart
<1>22. CASE SaveState
  BY <1>22 DEF SaveState
<1>23. CASE SaveFails
  BY <1>23 DEF SaveFails
<1>24. CASE Kill
  BY <1>24 DEF Kill
<1>25. CASE Reconfigure
  BY <1>25 DEF Reconfigure
<1>26. CASE MoveCrashes
  BY <1>26 DEF MoveCrashes
<1>27. CASE UNCHANGED vars
  BY <1>27 DEF vars
<1> QED
  BY <1>1, <1>2, <1>3, <1>4, <1>5, <1>6, <1>7, <1>8, <1>9, <1>10, <1>11, <1>12, <1>13, <1>14, <1>15, <1>16, <1>17, <1>18, <1>19, <1>20, <1>21, <1>22, <1>23, <1>24, <1>25, <1>26, <1>27 DEF Next, StartUp, Collect, Stop

\* The records of a file are counted from none to num_records_in_file.
LEMMA CountStep == TypeOK /\ CountOK /\ [Next]_vars => CountOK'
<1> SUFFICES ASSUME TypeOK, CountOK, [Next]_vars PROVE CountOK'
  OBVIOUS
<1> USE RecordsAssumption DEF CountOK, StartingUp, Collecting, memory, disk, history, Happens
<1>1. CASE Start
  BY <1>1 DEF Start
<1>2. CASE SizeRing
  BY <1>2 DEF SizeRing
<1>3. CASE AllocateList
  BY <1>3 DEF AllocateList
<1>4. CASE LoadState
  BY <1>4 DEF LoadState
<1>5. CASE FinishLoading
  BY <1>5 DEF FinishLoading
<1>6. CASE Connect
  BY <1>6 DEF Connect
<1>7. CASE CollectRecord
  BY <1>7 DEF CollectRecord
<1>8. CASE ReadError
  BY <1>8 DEF ReadError
<1>9. CASE EvictOld
  BY <1>9 DEF EvictOld
<1>10. CASE EvictFails
  BY <1>10 DEF EvictFails
<1>11. CASE AssignSlot
  BY <1>11 DEF AssignSlot
<1>12. CASE WriteRecord
  <2>1. /\ num_records_written \in Nat /\ num_records_written < num_records_in_file
        /\ num_records_written' = num_records_written + 1
        /\ pc' = IF num_records_written' >= num_records_in_file THEN "move" ELSE "advance"
    BY <1>12 DEF WriteRecord, CountRecord, TypeOK
  <2> QED BY <2>1
<1>13. CASE WriteFails
  <2>1. /\ num_records_written \in Nat /\ num_records_written < num_records_in_file
        /\ num_records_written' = num_records_written + 1
        /\ pc' = IF num_records_written' >= num_records_in_file THEN "move" ELSE "advance"
    BY <1>13 DEF WriteFails, CountRecord, TypeOK
  <2> QED BY <2>1
<1>14. CASE MoveFile
  BY <1>14 DEF MoveFile
<1>15. CASE MoveFails
  BY <1>15 DEF MoveFails
<1>16. CASE Advance
  BY <1>16 DEF Advance
<1>17. CASE TermSignal
  BY <1>17 DEF TermSignal, OpenStateFile, Truncated
<1>18. CASE NestedSignal
  BY <1>18 DEF NestedSignal, OpenStateFile, Truncated
<1>19. CASE TermSignalCrash
  BY <1>19 DEF TermSignalCrash, OpenStateFile, Truncated
<1>20. CASE TermSignalNoFile
  BY <1>20 DEF TermSignalNoFile
<1>21. CASE FlushPart
  BY <1>21 DEF FlushPart
<1>22. CASE SaveState
  BY <1>22 DEF SaveState
<1>23. CASE SaveFails
  BY <1>23 DEF SaveFails
<1>24. CASE Kill
  BY <1>24 DEF Kill
<1>25. CASE Reconfigure
  BY <1>25 DEF Reconfigure
<1>26. CASE MoveCrashes
  BY <1>26 DEF MoveCrashes
<1>27. CASE UNCHANGED vars
  BY <1>27 DEF vars
<1> QED
  BY <1>1, <1>2, <1>3, <1>4, <1>5, <1>6, <1>7, <1>8, <1>9, <1>10, <1>11, <1>12, <1>13, <1>14, <1>15, <1>16, <1>17, <1>18, <1>19, <1>20, <1>21, <1>22, <1>23, <1>24, <1>25, <1>26, <1>27 DEF Next, StartUp, Collect, Stop

\* The file being written stays named in the ring: its slot is not reused
\* before it is published.
LEMMA NameStep == TypeOK /\ RingOK /\ CountOK /\ NameOK /\ [Next]_vars => NameOK'
<1> SUFFICES ASSUME TypeOK, RingOK, CountOK, NameOK, [Next]_vars PROVE NameOK'
  OBVIOUS
<1> USE RecordsAssumption DEF NameOK, Unfinished, Names, StartingUp, Collecting, memory, disk, history, Happens
<1>1. CASE Start
  BY <1>1 DEF Start
<1>2. CASE SizeRing
  BY <1>2 DEF SizeRing
<1>3. CASE AllocateList
  BY <1>3 DEF AllocateList
<1>4. CASE LoadState
  BY <1>4 DEF LoadState
<1>5. CASE FinishLoading
  BY <1>5 DEF FinishLoading
<1>6. CASE Connect
  BY <1>6 DEF Connect
<1>7. CASE CollectRecord
  <2>1. starttime' > 0
    BY <1>7, TimeAssumption DEF CollectRecord, Times, TypeOK
  <2>2. pc' \in {"evict", "write"} /\ (pc' = "write" => Unfinished)
    BY <1>7 DEF CollectRecord, TypeOK
  <2> QED BY <1>7, <2>1, <2>2 DEF CollectRecord
<1>8. CASE ReadError
  BY <1>8 DEF ReadError
<1>9. CASE EvictOld
  BY <1>9 DEF EvictOld
<1>10. CASE EvictFails
  BY <1>10 DEF EvictFails
<1>11. CASE AssignSlot
  <2>0. file_index \in 0..file_index_modulo-1 /\ filetime_list \in [0..file_index_modulo-1 -> Nat]
    BY <1>11, SizesAssumption DEF AssignSlot, RingOK, TypeOK
  <2>1. file_index \in DOMAIN filetime_list /\ starttime # 0
    <3>1. starttime > 0
      BY <1>11 DEF AssignSlot
    <3> QED BY <2>0, <3>1
  <2>2. filetime_list'[file_index] = starttime /\ DOMAIN filetime_list' = DOMAIN filetime_list
    BY <1>11, <2>1 DEF AssignSlot
  <2> QED BY <1>11, <2>1, <2>2 DEF AssignSlot, TypeOK
<1>12. CASE WriteRecord
  BY <1>12 DEF WriteRecord, CountRecord, Opened
<1>13. CASE WriteFails
  BY <1>13 DEF WriteFails, CountRecord, Opened
<1>14. CASE MoveFile
  BY <1>14 DEF MoveFile
<1>15. CASE MoveFails
  BY <1>15 DEF MoveFails
<1>16. CASE Advance
  BY <1>16 DEF Advance
<1>17. CASE TermSignal
  BY <1>17 DEF TermSignal, OpenStateFile, Truncated
<1>18. CASE NestedSignal
  BY <1>18 DEF NestedSignal, OpenStateFile, Truncated
<1>19. CASE TermSignalCrash
  BY <1>19 DEF TermSignalCrash, OpenStateFile, Truncated
<1>20. CASE TermSignalNoFile
  BY <1>20 DEF TermSignalNoFile
<1>21. CASE FlushPart
  BY <1>21 DEF FlushPart
<1>22. CASE SaveState
  BY <1>22 DEF SaveState
<1>23. CASE SaveFails
  BY <1>23 DEF SaveFails
<1>24. CASE Kill
  BY <1>24 DEF Kill
<1>25. CASE Reconfigure
  BY <1>25 DEF Reconfigure
<1>26. CASE MoveCrashes
  BY <1>26 DEF MoveCrashes
<1>27. CASE UNCHANGED vars
  BY <1>27 DEF vars
<1> QED
  BY <1>1, <1>2, <1>3, <1>4, <1>5, <1>6, <1>7, <1>8, <1>9, <1>10, <1>11, <1>12, <1>13, <1>14, <1>15, <1>16, <1>17, <1>18, <1>19, <1>20, <1>21, <1>22, <1>23, <1>24, <1>25, <1>26, <1>27 DEF Next, StartUp, Collect, Stop


-----------------------------------------------------------------------------
(* The files and the state file *)

\* The state file never holds more times than the ring it will be read into.
LEMMA StateStep == TypeOK /\ RingOK /\ StateOK /\ [Next]_vars => StateOK'
<1> SUFFICES ASSUME TypeOK, RingOK, StateOK, [Next]_vars PROVE StateOK'
  OBVIOUS
<1> USE DEF RingOK, StateOK, NothingLost, LossEvents, StartingUp, Collecting, memory, disk, history, Happens
<1>1. CASE Start
  BY <1>1 DEF Start
<1>2. CASE SizeRing
  BY <1>2 DEF SizeRing
<1>3. CASE AllocateList
  BY <1>3 DEF AllocateList
<1>4. CASE LoadState
  BY <1>4 DEF LoadState
<1>5. CASE FinishLoading
  BY <1>5 DEF FinishLoading
<1>6. CASE Connect
  BY <1>6 DEF Connect
<1>7. CASE CollectRecord
  BY <1>7 DEF CollectRecord
<1>8. CASE ReadError
  BY <1>8 DEF ReadError
<1>9. CASE EvictOld
  BY <1>9 DEF EvictOld
<1>10. CASE EvictFails
  BY <1>10 DEF EvictFails
<1>11. CASE AssignSlot
  BY <1>11 DEF AssignSlot
<1>12. CASE WriteRecord
  BY <1>12 DEF WriteRecord, CountRecord, Opened
<1>13. CASE WriteFails
  BY <1>13 DEF WriteFails, CountRecord, Opened
<1>14. CASE MoveFile
  BY <1>14 DEF MoveFile
<1>15. CASE MoveFails
  BY <1>15 DEF MoveFails
<1>16. CASE Advance
  BY <1>16 DEF Advance
<1>17. CASE TermSignal
  <2>1. Len(<<>>) = 0
    OBVIOUS
  <2> QED BY <1>17, <2>1, SizesAssumption DEF TermSignal, OpenStateFile, Truncated, TypeOK
<1>18. CASE NestedSignal
  <2>1. Len(<<>>) = 0
    OBVIOUS
  <2> QED BY <1>18, <2>1, SizesAssumption DEF NestedSignal, OpenStateFile, Truncated, TypeOK
<1>19. CASE TermSignalCrash
  <2>1. Len(<<>>) = 0
    OBVIOUS
  <2> QED BY <1>19, <2>1, SizesAssumption DEF TermSignalCrash, OpenStateFile, Truncated, TypeOK
<1>20. CASE TermSignalNoFile
  BY <1>20 DEF TermSignalNoFile
<1>21. CASE FlushPart
  <2>1. CurrentTimes \in Seq(Nat) /\ Len(CurrentTimes) = file_index_modulo
    <3>1. file_index_modulo \in Nat /\ file_index \in Nat
      BY SizesAssumption DEF TypeOK
    <3>2. /\ filetime_list \in [0..file_index_modulo-1 -> Nat]
          /\ file_index < file_index_modulo \/ file_index_modulo = 0
      BY <1>21 DEF FlushPart, RingOK
    <3> QED BY <3>1, <3>2, SavedType DEF CurrentTimes
  <2>2. PICK k \in 0..Len(CurrentTimes) :
          state_file' = [index |-> file_index, times |-> Prefix(CurrentTimes, k)]
    BY <1>21 DEF FlushPart
  <2>3. Len(Prefix(CurrentTimes, k)) = k
    BY <2>1, PrefixType
  <2> QED BY <1>21, <2>1, <2>2, <2>3, SizesAssumption DEF FlushPart, TypeOK
<1>22. CASE SaveState
  <2>1. Len(CurrentTimes) = file_index_modulo
    <3>1. file_index_modulo \in Nat /\ file_index \in Nat
      BY SizesAssumption DEF TypeOK
    <3>2. /\ filetime_list \in [0..file_index_modulo-1 -> Nat]
          /\ file_index < file_index_modulo \/ file_index_modulo = 0
      BY <1>22 DEF SaveState, RingOK
    <3> QED BY <3>1, <3>2, SavedType DEF CurrentTimes
  <2> QED BY <1>22, <2>1 DEF SaveState, TypeOK
<1>23. CASE SaveFails
  BY <1>23 DEF SaveFails
<1>24. CASE Kill
  BY <1>24 DEF Kill
<1>25. CASE Reconfigure
  <2>1. ring_size \in Nat /\ ring_size' \in Nat
    BY <1>25, SizesAssumption DEF Reconfigure, TypeOK
  <2>2. state_file # NoFile => Len(state_file.times) \in Nat /\ state_file.index \in Nat
    BY DEF TypeOK
  <2>3. state_file' = state_file /\ (NothingLost' => NothingLost /\ ring_size' > ring_size)
    BY <1>25 DEF Reconfigure
  <2> HIDE DEF NothingLost
  <2> QED BY <2>1, <2>2, <2>3
<1>26. CASE MoveCrashes
  BY <1>26 DEF MoveCrashes
<1>27. CASE UNCHANGED vars
  BY <1>27 DEF vars
<1> QED
  BY <1>1, <1>2, <1>3, <1>4, <1>5, <1>6, <1>7, <1>8, <1>9, <1>10, <1>11, <1>12, <1>13, <1>14, <1>15, <1>16, <1>17, <1>18, <1>19, <1>20, <1>21, <1>22, <1>23, <1>24, <1>25, <1>26, <1>27 DEF Next, StartUp, Collect, Stop

\* A slot is given to a new file only when its old file is gone.
LEMMA SlotStep == TypeOK /\ SlotOK /\ [Next]_vars => SlotOK'
<1> SUFFICES ASSUME TypeOK, SlotOK, [Next]_vars PROVE SlotOK'
  OBVIOUS
<1> USE DEF SlotOK, Files, NothingLost, LossEvents, StartingUp, Collecting, memory, disk, history, Happens
<1>1. CASE Start
  BY <1>1 DEF Start
<1>2. CASE SizeRing
  BY <1>2 DEF SizeRing
<1>3. CASE AllocateList
  BY <1>3 DEF AllocateList
<1>4. CASE LoadState
  BY <1>4 DEF LoadState
<1>5. CASE FinishLoading
  BY <1>5 DEF FinishLoading
<1>6. CASE Connect
  BY <1>6 DEF Connect
<1>7. CASE CollectRecord
  BY <1>7 DEF CollectRecord
<1>8. CASE ReadError
  BY <1>8 DEF ReadError
<1>9. CASE EvictOld
  BY <1>9 DEF EvictOld
<1>10. CASE EvictFails
  BY <1>10 DEF EvictFails
<1>11. CASE AssignSlot
  BY <1>11 DEF AssignSlot
<1>12. CASE WriteRecord
  BY <1>12 DEF WriteRecord, CountRecord, Opened
<1>13. CASE WriteFails
  BY <1>13 DEF WriteFails, CountRecord, Opened
<1>14. CASE MoveFile
  BY <1>14 DEF MoveFile
<1>15. CASE MoveFails
  BY <1>15 DEF MoveFails
<1>16. CASE Advance
  BY <1>16 DEF Advance
<1>17. CASE TermSignal
  BY <1>17 DEF TermSignal, OpenStateFile, Truncated
<1>18. CASE NestedSignal
  BY <1>18 DEF NestedSignal, OpenStateFile, Truncated
<1>19. CASE TermSignalCrash
  BY <1>19 DEF TermSignalCrash, OpenStateFile, Truncated
<1>20. CASE TermSignalNoFile
  BY <1>20 DEF TermSignalNoFile
<1>21. CASE FlushPart
  BY <1>21 DEF FlushPart
<1>22. CASE SaveState
  BY <1>22 DEF SaveState
<1>23. CASE SaveFails
  BY <1>23 DEF SaveFails
<1>24. CASE Kill
  BY <1>24 DEF Kill
<1>25. CASE Reconfigure
  BY <1>25 DEF Reconfigure
<1>26. CASE MoveCrashes
  BY <1>26 DEF MoveCrashes
<1>27. CASE UNCHANGED vars
  BY <1>27 DEF vars
<1> QED
  BY <1>1, <1>2, <1>3, <1>4, <1>5, <1>6, <1>7, <1>8, <1>9, <1>10, <1>11, <1>12, <1>13, <1>14, <1>15, <1>16, <1>17, <1>18, <1>19, <1>20, <1>21, <1>22, <1>23, <1>24, <1>25, <1>26, <1>27 DEF Next, StartUp, Collect, Stop

\* What a stopped program left in the state file stays its ring.
LEMMA SavedStep == TypeOK /\ RingOK /\ SavedOK /\ [Next]_vars => SavedOK'
<1> SUFFICES ASSUME TypeOK, RingOK, SavedOK, [Next]_vars PROVE SavedOK'
  OBVIOUS
<1> USE DEF SavedOK, CurrentTimes, StartingUp, Collecting, memory, disk, history, Happens
<1>1. CASE Start
  BY <1>1 DEF Start
<1>2. CASE SizeRing
  BY <1>2 DEF SizeRing
<1>3. CASE AllocateList
  BY <1>3 DEF AllocateList
<1>4. CASE LoadState
  BY <1>4 DEF LoadState
<1>5. CASE FinishLoading
  BY <1>5 DEF FinishLoading
<1>6. CASE Connect
  BY <1>6 DEF Connect
<1>7. CASE CollectRecord
  BY <1>7 DEF CollectRecord
<1>8. CASE ReadError
  BY <1>8 DEF ReadError
<1>9. CASE EvictOld
  BY <1>9 DEF EvictOld
<1>10. CASE EvictFails
  BY <1>10 DEF EvictFails
<1>11. CASE AssignSlot
  BY <1>11 DEF AssignSlot
<1>12. CASE WriteRecord
  BY <1>12 DEF WriteRecord, CountRecord, Opened
<1>13. CASE WriteFails
  BY <1>13 DEF WriteFails, CountRecord, Opened
<1>14. CASE MoveFile
  BY <1>14 DEF MoveFile
<1>15. CASE MoveFails
  BY <1>15 DEF MoveFails
<1>16. CASE Advance
  BY <1>16 DEF Advance
<1>17. CASE TermSignal
  BY <1>17 DEF TermSignal, OpenStateFile, Truncated
<1>18. CASE NestedSignal
  BY <1>18 DEF NestedSignal, OpenStateFile, Truncated
<1>19. CASE TermSignalCrash
  BY <1>19 DEF TermSignalCrash, OpenStateFile, Truncated
<1>20. CASE TermSignalNoFile
  BY <1>20 DEF TermSignalNoFile
<1>21. CASE FlushPart
  BY <1>21 DEF FlushPart
<1>22. CASE SaveState
  <2> QED BY <1>22, SizesAssumption DEF SaveState, RingOK, TypeOK, CurrentTimes
<1>23. CASE SaveFails
  BY <1>23 DEF SaveFails
<1>24. CASE Kill
  BY <1>24 DEF Kill
<1>25. CASE Reconfigure
  BY <1>25 DEF Reconfigure
<1>26. CASE MoveCrashes
  BY <1>26 DEF MoveCrashes
<1>27. CASE UNCHANGED vars
  BY <1>27 DEF vars
<1> QED
  BY <1>1, <1>2, <1>3, <1>4, <1>5, <1>6, <1>7, <1>8, <1>9, <1>10, <1>11, <1>12, <1>13, <1>14, <1>15, <1>16, <1>17, <1>18, <1>19, <1>20, <1>21, <1>22, <1>23, <1>24, <1>25, <1>26, <1>27 DEF Next, StartUp, Collect, Stop

\* No step makes the ring, or the state file, forget a published file.
LEMMA TrackedStep == TypeOK /\ RingOK /\ NameOK /\ StateOK /\ SlotOK /\ TrackedFiles /\ [Next]_vars => TrackedFiles'
<1> SUFFICES ASSUME TypeOK, RingOK, NameOK, StateOK, SlotOK, TrackedFiles, [Next]_vars PROVE TrackedFiles'
  OBVIOUS
<1> USE DEF TrackedFiles, KnownNames, Files, NothingLost, LossEvents, StartingUp, Collecting, memory, disk, history, Happens
<1>1. CASE Start
  BY <1>1 DEF Start
<1>2. CASE SizeRing
  BY <1>2 DEF SizeRing
<1>3. CASE AllocateList
  BY <1>3 DEF AllocateList
<1>4. CASE LoadState
  BY <1>4 DEF LoadState
<1>5. CASE FinishLoading
  <2> SUFFICES ASSUME NothingLost PROVE Files' \subseteq Names(filetime_list')
    BY <1>5 DEF FinishLoading
  <2>1. CASE state_file = NoFile
    BY <1>5, <2>1 DEF FinishLoading
  <2>2. CASE state_file # NoFile
    <3>1. /\ state_file.times \in Seq(Nat) /\ state_file.index \in Nat
          /\ file_index_modulo \in Nat \ {0}
          /\ state_file.index < file_index_modulo
          /\ Len(state_file.times) <= file_index_modulo
      BY <1>5, <2>2, SizesAssumption DEF FinishLoading, TypeOK, RingOK, StateOK
    <3>2. filetime_list' = RestoredList(file_index_modulo, state_file.index, state_file.times)
      BY <1>5, <2>2, <3>1 DEF FinishLoading, Loadable
    <3>3. Names(state_file.times) \subseteq Names(filetime_list')
      BY <3>1, <3>2, Restored
    <3> QED BY <1>5, <2>2, <3>3 DEF FinishLoading
  <2> QED BY <2>1, <2>2
<1>6. CASE Connect
  BY <1>6 DEF Connect
<1>7. CASE CollectRecord
  BY <1>7 DEF CollectRecord
<1>8. CASE ReadError
  BY <1>8 DEF ReadError
<1>9. CASE EvictOld
  <2>1. Files' \subseteq Files
    BY <1>9 DEF EvictOld
  <2> QED BY <1>9, <2>1 DEF EvictOld
<1>10. CASE EvictFails
  BY <1>10 DEF EvictFails
<1>11. CASE AssignSlot
  <2> SUFFICES ASSUME NothingLost PROVE Files' \subseteq Names(filetime_list')
    BY <1>11 DEF AssignSlot
  <2>1. Files \subseteq Names(filetime_list) /\ filetime_list[file_index] \notin Files
    BY <1>11 DEF AssignSlot, SlotOK
  <2>2. filetime_list' = [filetime_list EXCEPT ![file_index] = starttime]
    BY <1>11 DEF AssignSlot
  <2>3. Files' = Files
    BY <1>11 DEF AssignSlot
  <2> QED BY <2>1, <2>2, <2>3 DEF Names
<1>12. CASE WriteRecord
  BY <1>12 DEF WriteRecord, CountRecord, Opened
<1>13. CASE WriteFails
  BY <1>13 DEF WriteFails, CountRecord, Opened
<1>14. CASE MoveFile
  <2>1. msfilepath_write \in Names(filetime_list)
    BY <1>14 DEF MoveFile, NameOK
  <2>2. Files' = Files \cup {msfilepath_write}
    BY <1>14 DEF MoveFile
  <2> QED BY <1>14, <2>1, <2>2 DEF MoveFile
<1>15. CASE MoveFails
  BY <1>15 DEF MoveFails
<1>16. CASE Advance
  BY <1>16 DEF Advance
<1>17. CASE TermSignal
  BY <1>17 DEF TermSignal, OpenStateFile, Truncated
<1>18. CASE NestedSignal
  BY <1>18 DEF NestedSignal, OpenStateFile, Truncated
<1>19. CASE TermSignalCrash
  BY <1>19 DEF TermSignalCrash, OpenStateFile, Truncated
<1>20. CASE TermSignalNoFile
  BY <1>20 DEF TermSignalNoFile
<1>21. CASE FlushPart
  BY <1>21 DEF FlushPart
<1>22. CASE SaveState
  <2> SUFFICES ASSUME NothingLost PROVE Files' \subseteq KnownNames'
    BY <1>22 DEF SaveState
  <2>1. /\ file_index_modulo \in Nat \ {0} /\ file_index \in 0..file_index_modulo-1
        /\ filetime_list \in [0..file_index_modulo-1 -> Nat]
    BY <1>22, SizesAssumption DEF SaveState, TypeOK, RingOK
  <2>2. Names(CurrentTimes) = Names(filetime_list) /\ CurrentTimes \in Seq(Nat)
    BY <2>1, Saved DEF CurrentTimes
  <2>3. state_file' = [index |-> file_index, times |-> CurrentTimes] /\ state_file' # NoFile
    BY <1>22, <2>1, <2>2, NoFileAssumption DEF SaveState
  <2>4. KnownNames' = Names(CurrentTimes)
    BY <1>22, <2>3 DEF SaveState
  <2> QED BY <1>22, <2>2, <2>4 DEF SaveState
<1>23. CASE SaveFails
  BY <1>23 DEF SaveFails
<1>24. CASE Kill
  BY <1>24 DEF Kill
<1>25. CASE Reconfigure
  BY <1>25 DEF Reconfigure
<1>26. CASE MoveCrashes
  BY <1>26 DEF MoveCrashes
<1>27. CASE UNCHANGED vars
  BY <1>27 DEF vars
<1> QED
  BY <1>1, <1>2, <1>3, <1>4, <1>5, <1>6, <1>7, <1>8, <1>9, <1>10, <1>11, <1>12, <1>13, <1>14, <1>15, <1>16, <1>17, <1>18, <1>19, <1>20, <1>21, <1>22, <1>23, <1>24, <1>25, <1>26, <1>27 DEF Next, StartUp, Collect, Stop

\* The temporary file holds consecutive records of one file only, whatever an
\* earlier connection left in it.
LEMMA TmpStep == TypeOK /\ CountOK /\ TmpOK /\ [Next]_vars => TmpOK'
<1> SUFFICES ASSUME TypeOK, CountOK, TmpOK, [Next]_vars PROVE TmpOK'
  OBVIOUS
<1> USE RecordsAssumption DEF TmpOK, Unfinished, CountOK, StartingUp, Collecting, memory, disk, history, Happens
<1>1. CASE Start
  BY <1>1 DEF Start
<1>2. CASE SizeRing
  BY <1>2 DEF SizeRing
<1>3. CASE AllocateList
  BY <1>3 DEF AllocateList
<1>4. CASE LoadState
  BY <1>4 DEF LoadState
<1>5. CASE FinishLoading
  BY <1>5 DEF FinishLoading
<1>6. CASE Connect
  BY <1>6 DEF Connect
<1>7. CASE CollectRecord
  <2>1. CASE num_records_written = 0
    BY <1>7, <2>1 DEF CollectRecord
  <2>2. CASE num_records_written > 0
    <3>1. Unfinished /\ pc = "collect" /\ pc' = "write"
      BY <1>7, <2>2 DEF CollectRecord
    <3>2. ~ClockSteps => starttime' = clock' /\ clock' = clock + 1
      BY <1>7 DEF CollectRecord
    <3>3. UNCHANGED <<num_records_written, msfilepath_write, tmpfile, seen>>
      BY <1>7 DEF CollectRecord
    <3> QED BY <2>2, <3>1, <3>2, <3>3 DEF TypeOK
  <2> QED BY <2>1, <2>2 DEF TypeOK
<1>8. CASE ReadError
  BY <1>8 DEF ReadError
<1>9. CASE EvictOld
  BY <1>9 DEF EvictOld
<1>10. CASE EvictFails
  BY <1>10 DEF EvictFails
<1>11. CASE AssignSlot
  BY <1>11 DEF AssignSlot
<1>12. CASE WriteRecord
  <2>0. /\ pc = "write" /\ pc' \in {"move", "advance"}
        /\ num_records_written \in Nat /\ num_records_written' = num_records_written + 1
        /\ tmpfile' = Append(Opened, starttime)
        /\ UNCHANGED <<msfilepath_write, starttime, clock, seen>>
    BY <1>12 DEF WriteRecord, CountRecord, TypeOK
  <2> SUFFICES ASSUME "writefail" \notin seen
               PROVE  /\ tmpfile' # NoFile
                      /\ Len(tmpfile') = num_records_written'
                      /\ tmpfile'[1] = msfilepath_write
                      /\ ~ClockSteps =>
                           /\ \A j \in 1..num_records_written' : tmpfile'[j] = msfilepath_write + j - 1
                           /\ clock = msfilepath_write + num_records_written' - 1
    BY <2>0
  <2>1. Opened \in Seq(Nat) /\ starttime \in Nat /\ msfilepath_write \in Nat /\ clock \in Nat
    BY DEF Opened, TypeOK
  <2>2. tmpfile' \in Seq(Nat) /\ tmpfile' # NoFile
    <3>1. tmpfile' \in Seq(Nat)
      BY <2>0, <2>1
    <3> QED BY <3>1, NoFileAssumption
  <2>3. CASE num_records_written = 0
    <3>1. Opened = <<>> /\ msfilepath_write = starttime
      BY <2>0, <2>3 DEF Opened
    <3>2. tmpfile' = <<starttime>>
      BY <2>0, <2>1, <3>1
    <3> QED BY <2>0, <2>1, <2>2, <2>3, <3>1, <3>2
  <2>4. CASE num_records_written > 0
    <3>1. Opened = tmpfile /\ Len(Opened) = num_records_written /\ Opened[1] = msfilepath_write
      BY <2>0, <2>4 DEF Opened
    <3>2. /\ Len(tmpfile') = num_records_written + 1
          /\ tmpfile'[num_records_written + 1] = starttime
          /\ \A j \in 1..num_records_written : tmpfile'[j] = Opened[j]
      BY <2>0, <2>1, <3>1
    <3>3. ASSUME ~ClockSteps
          PROVE  /\ starttime = clock /\ clock = msfilepath_write + num_records_written
                 /\ \A j \in 1..num_records_written : Opened[j] = msfilepath_write + j - 1
      BY <2>0, <2>4, <3>1, <3>3
    <3> HIDE DEF Opened, TmpOK
    <3>4. tmpfile'[1] = msfilepath_write
      BY <2>0, <2>4, <3>1, <3>2
    <3>5. ASSUME ~ClockSteps, NEW j \in 1..num_records_written'
          PROVE  tmpfile'[j] = msfilepath_write + j - 1
      BY SMTT(20), <2>0, <2>1, <3>2, <3>3, <3>5
    <3> QED BY <2>0, <2>1, <2>2, <3>2, <3>3, <3>4, <3>5
  <2> QED BY <2>0, <2>3, <2>4
<1>13. CASE WriteFails
  BY <1>13 DEF WriteFails, CountRecord, Opened
<1>14. CASE MoveFile
  BY <1>14 DEF MoveFile
<1>15. CASE MoveFails
  BY <1>15 DEF MoveFails
<1>16. CASE Advance
  BY <1>16 DEF Advance
<1>17. CASE TermSignal
  BY <1>17 DEF TermSignal, OpenStateFile, Truncated
<1>18. CASE NestedSignal
  BY <1>18 DEF NestedSignal, OpenStateFile, Truncated
<1>19. CASE TermSignalCrash
  BY <1>19 DEF TermSignalCrash, OpenStateFile, Truncated
<1>20. CASE TermSignalNoFile
  BY <1>20 DEF TermSignalNoFile
<1>21. CASE FlushPart
  BY <1>21 DEF FlushPart
<1>22. CASE SaveState
  BY <1>22 DEF SaveState
<1>23. CASE SaveFails
  BY <1>23 DEF SaveFails
<1>24. CASE Kill
  BY <1>24 DEF Kill
<1>25. CASE Reconfigure
  BY <1>25 DEF Reconfigure
<1>26. CASE MoveCrashes
  BY <1>26 DEF MoveCrashes
<1>27. CASE UNCHANGED vars
  BY <1>27 DEF vars
<1> QED
  BY <1>1, <1>2, <1>3, <1>4, <1>5, <1>6, <1>7, <1>8, <1>9, <1>10, <1>11, <1>12, <1>13, <1>14, <1>15, <1>16, <1>17, <1>18, <1>19, <1>20, <1>21, <1>22, <1>23, <1>24, <1>25, <1>26, <1>27 DEF Next, StartUp, Collect, Stop

\* A file is complete when it is published.
LEMMA IntactStep == TypeOK /\ CountOK /\ TmpOK /\ IntactFiles /\ [Next]_vars => IntactFiles'
<1> SUFFICES ASSUME TypeOK, CountOK, TmpOK, IntactFiles, [Next]_vars PROVE IntactFiles'
  OBVIOUS
<1> USE DEF IntactFiles, Files, StartingUp, Collecting, memory, disk, history, Happens
<1>1. CASE Start
  BY <1>1 DEF Start
<1>2. CASE SizeRing
  BY <1>2 DEF SizeRing
<1>3. CASE AllocateList
  BY <1>3 DEF AllocateList
<1>4. CASE LoadState
  BY <1>4 DEF LoadState
<1>5. CASE FinishLoading
  BY <1>5 DEF FinishLoading
<1>6. CASE Connect
  BY <1>6 DEF Connect
<1>7. CASE CollectRecord
  BY <1>7 DEF CollectRecord
<1>8. CASE ReadError
  BY <1>8 DEF ReadError
<1>9. CASE EvictOld
  <2>1. Files' \subseteq Files /\ \A f \in Files' : mswrite_dir'[f] = mswrite_dir[f]
    BY <1>9 DEF EvictOld
  <2> QED BY <1>9, <2>1 DEF EvictOld
<1>10. CASE EvictFails
  BY <1>10 DEF EvictFails
<1>11. CASE AssignSlot
  BY <1>11 DEF AssignSlot
<1>12. CASE WriteRecord
  BY <1>12 DEF WriteRecord, CountRecord, Opened
<1>13. CASE WriteFails
  BY <1>13 DEF WriteFails, CountRecord, Opened
<1>14. CASE MoveFile
  <2>1. /\ Files' = Files \cup {msfilepath_write}
        /\ \A f \in Files' : mswrite_dir'[f] = IF f = msfilepath_write THEN tmpfile ELSE mswrite_dir[f]
        /\ seen' = seen
    BY <1>14 DEF MoveFile
  <2>2. pc = "move" /\ num_records_written = num_records_in_file /\ num_records_written > 0 /\ tmpfile # NoFile
    BY <1>14, RecordsAssumption DEF MoveFile, CountOK
  <2>3. tmpfile \in Seq(Nat)
    BY <2>2 DEF TypeOK
  <2> SUFFICES ASSUME "writefail" \notin seen, NEW f \in Files'
               PROVE  /\ Len(mswrite_dir'[f]) = num_records_in_file
                      /\ mswrite_dir'[f][1] = f
                      /\ ~ClockSteps => \A j \in DOMAIN mswrite_dir'[f] : mswrite_dir'[f][j] = f + j - 1
    BY <2>1
  <2>4. CASE f = msfilepath_write
    BY <2>1, <2>2, <2>3, <2>4 DEF TmpOK, Unfinished
  <2>5. CASE f # msfilepath_write
    BY <2>1, <2>5
  <2> QED BY <2>4, <2>5
<1>15. CASE MoveFails
  BY <1>15 DEF MoveFails
<1>16. CASE Advance
  BY <1>16 DEF Advance
<1>17. CASE TermSignal
  BY <1>17 DEF TermSignal, OpenStateFile, Truncated
<1>18. CASE NestedSignal
  BY <1>18 DEF NestedSignal, OpenStateFile, Truncated
<1>19. CASE TermSignalCrash
  BY <1>19 DEF TermSignalCrash, OpenStateFile, Truncated
<1>20. CASE TermSignalNoFile
  BY <1>20 DEF TermSignalNoFile
<1>21. CASE FlushPart
  BY <1>21 DEF FlushPart
<1>22. CASE SaveState
  BY <1>22 DEF SaveState
<1>23. CASE SaveFails
  BY <1>23 DEF SaveFails
<1>24. CASE Kill
  BY <1>24 DEF Kill
<1>25. CASE Reconfigure
  BY <1>25 DEF Reconfigure
<1>26. CASE MoveCrashes
  BY <1>26 DEF MoveCrashes
<1>27. CASE UNCHANGED vars
  BY <1>27 DEF vars
<1> QED
  BY <1>1, <1>2, <1>3, <1>4, <1>5, <1>6, <1>7, <1>8, <1>9, <1>10, <1>11, <1>12, <1>13, <1>14, <1>15, <1>16, <1>17, <1>18, <1>19, <1>20, <1>21, <1>22, <1>23, <1>24, <1>25, <1>26, <1>27 DEF Next, StartUp, Collect, Stop


-----------------------------------------------------------------------------
(* The theorems *)

\* The program as first installed satisfies the inductive invariant.
THEOREM InitInv == Init => IInv
<1> SUFFICES ASSUME Init PROVE IInv
  OBVIOUS
<1>1. EmptyList(0) \in [0..0-1 -> Nat]
  BY EmptyListType
<1>2. TypeOK
  BY <1>1, SizesAssumption DEF Init, TypeOK, Files
<1>3. RingOK /\ CountOK /\ NameOK /\ TmpOK /\ StateOK /\ SlotOK /\ SavedOK
  BY DEF Init, RingOK, CountOK, NameOK, TmpOK, StateOK, SlotOK, SavedOK, Unfinished, Collecting
<1>4. TrackedFiles /\ IntactFiles
  BY DEF Init, TrackedFiles, IntactFiles, Files
<1> QED BY <1>2, <1>3, <1>4 DEF IInv

\* Every step of the program and every disturbance preserves it.
THEOREM Inductive == IInv /\ [Next]_vars => IInv'
BY TypeStep, RingStep, CountStep, NameStep, TmpStep, StateStep, SlotStep, SavedStep,
   TrackedStep, IntactStep DEF IInv

\* It therefore holds of every reachable state.
THEOREM Invariance == Spec => []IInv
BY InitInv, Inductive, PTL DEF Spec

\* Every variable keeps its type.
THEOREM TypeCorrect == Spec => []TypeOK
<1>1. IInv => TypeOK
  BY DEF IInv
<1> QED BY <1>1, Invariance, PTL

\* No published file is ever forgotten by the ring, unless one of the events
\* that lose the ring has happened.
THEOREM TrackedFilesHold == Spec => []TrackedFiles
<1>1. IInv => TrackedFiles
  BY DEF IInv
<1> QED BY <1>1, Invariance, PTL

\* Every published file is complete and holds consecutive records.
THEOREM IntactFilesHold == Spec => []IntactFiles
<1>1. IInv => IntactFiles
  BY DEF IInv
<1> QED BY <1>1, Invariance, PTL

\* A stopped program's state file gives back its ring and its index.
THEOREM RestartTransparentHolds == Spec => []RestartTransparent
<1>1. IInv => RestartTransparent
  <2> SUFFICES ASSUME IInv, pc = "down", state_file # NoFile,
                      seen \cap {"early", "kill", "savefail"} = {}
               PROVE  /\ state_file.index = file_index
                      /\ RestoredList(file_index_modulo, file_index, state_file.times) = filetime_list
    BY DEF RestartTransparent
  <2>1. /\ file_index_modulo \in Nat \ {0} /\ file_index \in 0..file_index_modulo-1
        /\ filetime_list \in [0..file_index_modulo-1 -> Nat]
        /\ state_file = [index |-> file_index, times |-> CurrentTimes]
    BY SizesAssumption DEF IInv, SavedOK, TypeOK
  <2>2. RestoredList(file_index_modulo, file_index, CurrentTimes) = filetime_list
    BY <2>1, SavedThenRestored DEF CurrentTimes
  <2> QED BY <2>1, <2>2
<1> QED BY <1>1, Invariance, PTL

\* The slots 0..n-1, or the positions 1..n, are n.
LEMMA Intervals ==
    ASSUME NEW n \in Nat
    PROVE  /\ IsFiniteSet(1..n) /\ Cardinality(1..n) = n
           /\ IsFiniteSet(0..n-1) /\ Cardinality(0..n-1) = n
<1>1. IsFiniteSet(1..n) /\ Cardinality(1..n) = IF 1 > n THEN 0 ELSE n - 1 + 1
  BY FS_Interval
<1>2. 0 \in Int /\ n - 1 \in Int
  OBVIOUS
<1>3. IsFiniteSet(0..n-1) /\ Cardinality(0..n-1) = IF 0 > n - 1 THEN 0 ELSE n - 1 - 0 + 1
  BY <1>2, FS_Interval
<1> QED BY <1>1, <1>3

\* A ring or a sequence of n times names at most n files.
LEMMA FewNames ==
    ASSUME NEW S, IsFiniteSet(S), NEW list \in [S -> Nat]
    PROVE  IsFiniteSet(Names(list)) /\ Cardinality(Names(list)) <= Cardinality(S)
<1> DEFINE All == {list[i] : i \in S}
<1>1. list \in Surjection(S, All)
  BY DEF Surjection
<1>2. IsFiniteSet(All) /\ Cardinality(All) <= Cardinality(S)
  BY <1>1, FS_Surjection
<1>3. Names(list) \subseteq All
  BY DEF Names
<1>4. IsFiniteSet(Names(list)) /\ Cardinality(Names(list)) <= Cardinality(All)
  BY <1>2, <1>3, FS_Subset
<1>5. Cardinality(S) \in Nat /\ Cardinality(All) \in Nat /\ Cardinality(Names(list)) \in Nat
  BY <1>2, <1>4, FS_CardinalityType
<1> QED BY <1>2, <1>4, <1>5

\* The number of published files never exceeds the size of the ring.
THEOREM BoundedBufferHolds == Spec => []BoundedBuffer
<1>1. IInv => BoundedBuffer
  <2> SUFFICES ASSUME IInv, NothingLost PROVE Cardinality(Files) <= ring_size
    BY DEF BoundedBuffer
  <2>1. Files \subseteq KnownNames /\ ring_size \in Nat
    BY SizesAssumption DEF IInv, TrackedFiles, TypeOK
  <2>2. IsFiniteSet(KnownNames) /\ Cardinality(KnownNames) <= ring_size
    <3>1. CASE pc \in StartingUp \cup {"down"} /\ state_file = NoFile
      BY <2>1, <3>1, FS_EmptySet DEF KnownNames
    <3>2. CASE pc \in StartingUp \cup {"down"} /\ state_file # NoFile
      <4>1. /\ state_file.times \in [1..Len(state_file.times) -> Nat]
            /\ Len(state_file.times) \in Nat /\ Len(state_file.times) <= ring_size
        BY <3>2 DEF IInv, TypeOK, StateOK
      <4>2. IsFiniteSet(1..Len(state_file.times))
            /\ Cardinality(1..Len(state_file.times)) = Len(state_file.times)
        BY <4>1, Intervals
      <4>3. IsFiniteSet(Names(state_file.times))
            /\ Cardinality(Names(state_file.times)) <= Len(state_file.times)
        BY <4>1, <4>2, FewNames
      <4>4. Cardinality(Names(state_file.times)) \in Nat
        BY <4>3, FS_CardinalityType
      <4> QED BY <2>1, <3>2, <4>1, <4>3, <4>4 DEF KnownNames
    <3>3. CASE pc \notin StartingUp \cup {"down"}
      <4>1. filetime_list \in [0..ring_size-1 -> Nat] /\ ring_size \in Nat \ {0}
        BY <3>3, SizesAssumption
           DEF IInv, TypeOK, RingOK, StartingUp, NothingLost, LossEvents
      <4>2. IsFiniteSet(0..ring_size-1) /\ Cardinality(0..ring_size-1) = ring_size
        BY <4>1, Intervals
      <4>3. IsFiniteSet(Names(filetime_list)) /\ Cardinality(Names(filetime_list)) <= ring_size
        BY <4>1, <4>2, FewNames
      <4> QED BY <3>3, <4>3 DEF KnownNames
    <3> QED BY <3>1, <3>2, <3>3
  <2>3. Cardinality(Files) <= Cardinality(KnownNames) /\ Cardinality(Files) \in Nat
        /\ Cardinality(KnownNames) \in Nat
    BY <2>1, <2>2, FS_Subset, FS_CardinalityType
  <2> QED BY <2>1, <2>2, <2>3
<1> QED BY <1>1, Invariance, PTL
=============================================================================
