# A TLA+ model of mini_logger_writer

`mini_logger_writer` (directory `src/mini_logger_writer`) reads samples from a USB
seismometer interface, packs them into miniseed records and keeps the last hours of them
as files in a directory, from which a ringserver and upload scripts take them. It is meant
to run unattended for years: to find its device again after it has been unplugged, to be
stopped and restarted, and to keep the number of files it leaves on the disk within what
its settings say. The modules here model that program, TLC checks them on small instances,
and TLAPS proves the most important invariants for all of them.

Line numbers refer to `mini_logger_writer.c` (*mlw*), `minisepdevice.c` (*dev*),
`settings/settings.c` and `settings/strmap.c`.

## The system

| component | state | operations | interacts with |
|---|---|---|---|
| **file ring and state file** (mlw 426-447, 339-357, 632-940) | `filetime_list`, `file_index`, `file_index_modulo`; the temporary file, the published files, `mini_logger_writer.state` | load at start, evict a slot's file, write a record, publish a file (`rename`), advance, save on a signal | gets samples from the line reader; calls libmseed; starts the scripts |
| **device connection** (dev 69-128, 200-247, 343-592; mlw 450-516) | `fd_port`, `termios_orig`; the descriptors of the process, the attributes of the ports | search the ports, test one, set rate and gain, collect, disconnect, search again | the operating system; `term_handler` disconnects too |
| **line reader and rate test** (dev 249-334, 420-491) | the line being read, the time asleep, the mean of the sample intervals | `read_next_value`, called by `find_device` and `collect_and_write` | the terminal's input queue, filled by the device |
| **start time and rate estimator** (mlw 811-870) | `dt_est`, `record_window_est`, `prev_start_hptime_est` | one step per record | start times name the files |
| **settings and string map** (`settings/`) | an array of sections, each a hash map of chained pairs | `settings_open`, `settings_set`, `settings_get`, `sm_put`, `sm_get` | read once by `init_properties` |
| **arguments and properties** (mlw 134-331) | global variables | `parameter_proc`, `init_properties` | sizes the ring, decides the control of the connection |
| **file names** (mlw 532-580, 632-733) | none; creates and removes date directories | start time to path | the ring |
| **start and stop scripts** (`start_logger_writer.sh`, `stop_logger_writer.sh`) | the pid file, log files | start, stop, restart | signals to the program |
| **upload scripts** (`miniseed_written.bash`) | copies on a server | upload, delete | started in the background by mlw 590-624 |
| **ringserver, SeisGram2K, libmseed** | external | | configuration, headers and use only |
| **init_usb_FRAG.c** | none | dead code | no makefile compiles it |

Everything runs in one thread, but signal handlers interrupt it anywhere, the device and
the tty driver run on their own, ports come and go, scripts run in the background, and the
ring survives the process in a file.

### What is hard, and what would make it correct

* **Ring.** Files are forgotten, and so never removed, if the ring and the directory
  disagree: after any of the calls that can fail, a signal between any two statements, a
  state file cut short, a restart with another size. Correct: every file is named in the
  ring or in the state file, there are never more than the ring holds, a published file is
  whole and its records consecutive, a stopped program hands over exactly its ring, data
  leaves the disk again, and the oldest first.
* **Connection.** The same descriptor variable and the same saved attributes serve every
  port in turn, on a dozen paths. Correct: one descriptor at most, attributes restored,
  data read from a seismometer only, collection resumed when the device is back and can be heard.
* **Line reader.** The port is opened in the middle of a line; reads time out in one; the
  port may vanish in one; `read` may return -1. Correct: what is recorded is what was sent,
  line by line; at most one value is made up; the call returns.
* **Settings.** Sections and keys in any order and repeated, colliding keys, values that
  grow and shrink, allocations that fail. Correct: it is a dictionary, what is opened is
  the whole file, nothing is written beyond its memory or used after it was freed.
* **Properties.** Values are texts; what is no number, missing or repeated must not become a
  wrong number, and four of them size the ring by a division. Correct: every property is what
  the file says or its default, and the ring holds as many whole files as fill the hours.
* **Times.** A line has no time of its own but that of its reading, which polls, waits for
  the writing of the record before, and finds old lines in the queue. Correct: a seismometer is
  told from another device, a record starts when its first sample was taken, and the records
  of a connection follow one another without a gap or overlap that can be seen, unless the clock is
  set by half a minute or more.
* **Deployment.** Scripts, which have no lock, signal a process they know by a pid file, wait a
  second and start the next; date directories are made and removed by name; uploads run in the background at any
  speed. Correct: one program writes; every file, directory and copy is known to somebody
  who will remove it.

`PROJECT.json` lists the hazards one by one, at the line where each bites, with the
properties that cover it or the reason why none does.

## The modules

### FileRing — the rolling buffer

`FileRing.tla` models `main`'s start up, the writing half of `collect_and_write`,
`make_mseed_filepath`'s removal and `term_handler`. A file is named by the start time of
its first record and a record *is* its start time: the numbers 1, 2, ...; 0 is an unused
slot, as in the code. `pc` says which statement is next, so that a signal or a crash can come
between any two steps that change something:

| `pc` | code | actions |
|---|---|---|
| `down` | not running | `Start`, `Reconfigure` |
| `start`, `sized` | mlw 386-424 | `SizeRing`, `AllocateList` |
| `load`, `loading` | mlw 434-447 | `LoadState`, `FinishLoading` |
| `connect` | mlw 450-465 | `Connect` |
| `collect` | mlw 798-870 | `CollectRecord`, `ReadError` |
| `evict`, `assign` | mlw 872-897 | `EvictOld`, `EvictFails`, `AssignSlot` |
| `write` | mlw 898-911 | `WriteRecord`, `WriteFails` |
| `move`, `advance` | mlw 911-936 | `MoveFile`, `MoveFails`, `MoveCrashes`, `Advance` |
| `saving` | mlw 339-357 | `FlushPart`, `SaveState`, `SaveFails`, `NestedSignal` |

`TermSignal`, `TermSignalCrash`, `TermSignalNoFile` and `Kill` interrupt. What is allowed to go
wrong is the constant `Events`; what has gone wrong is recorded in `seen`, so that a
property can say exactly which disturbances it survives. An interrupted program's memory
is kept in the model until the next `Start` for the sake of `RestartTransparent` only; no action
reads it. A data step is one action where nothing the model can interrupt lies between (a
record's samples; the printing of the ring to a stdio buffer, of which any prefix may have
reached the disk).

`RollingBuffer.tla` is what the directory promises its readers: a first-in first-out queue
of a certain capacity. `FileRingFIFO.tla` gives the refinement mapping (the files in the order of their start times)
and the capacity, which is **not** the configured size: the index moves once per record and
is used once per file, so of `M` slots only `M / gcd(M, R)` are used.

| run | question | instance | result |
|---|---|---|---|
| `FileRing_faults` | does the ring survive what can go wrong? | rings of 2 and 3, 2 records a file, 6 records, all 10 kinds of disturbance, any 2 kinds together as often as they like | `TypeOK`, `IInv`, `TrackedFiles`, `BoundedBuffer`, `IntactFiles`, `RestartTransparent` hold |
| `FileRing_fifo` | is it a FIFO? | rings of 1, 2, 3, 4, 6, 2 records a file, 18 records: each is filled and turned over | `ImplementsRollingBuffer` holds |
| `FileRing_turnover` | does data leave the disk, also when the clock is stepped and names repeat? | rings of 2 and 3, any of 3 start times for each record | `TurnsOver`, `StartedIsPublished` hold |
| `FileRing_retention` | is a file removed only when the buffer is full (`mini_logger_writer.prop:37`)? | ring of 4, 2 records a file | violated: half of the slots are never used |
| `FileRing_orphans` | are no more files kept than the buffer holds? | ring of 2, signals at any time | violated: a signal during start up saves an empty ring |

*Bounds.* A ring of 2 has a slot before and after the index; one of 3 is not a multiple of
the records per file, so that every slot is used. Six records turn the small ring
over and wrap the index. One kind of disturbance may happen any number of times; two kinds
together cover every pair (a crash after a shrink, a nested signal after a failed rename,
...). The invariants need no pair of kinds at all beyond that: they are proved.

*Fairness.* `FairSpec` assumes that the program is scheduled (start up, collection, the end
of a save) and that the device sends (`CollectRecord` is part of `Collect`); nothing of
disturbances. Liveness is checked with `Events = {}`, since a program that is killed again and
again makes no progress.

### Session — the connection

`Session.tla` models `find_device`, `find_device_and_connect`, `disconnect`,
`set_interface_attribs`, `reset_interface_attribs`, `set_seo064_sample_rate_and_gain` and the
loop of `main`, over the open descriptors of the process and the terminal attributes of the
ports (their own, *raw* as the program sets them, or all *zero*, as a `termios_orig` that was
never written). `TermSignal` ends the program at any point, `Unplug` and `Plug` move ports at any
point, an open descriptor of an unplugged port leads to `Gone`. The outcome of a test is
`ProbeSucceeds` or `ProbeFails`; the first is possible on a seismometer only, the second always.

`scan_for_ports` does not look at the result of `opendir`: without a free descriptor it calls `readdir`
with a null pointer, and the program ends (`ScanCrashes`).

`lapses` records two things after which the promises are off: a search that went on after
failed settings without closing the port (mlw 460), and a signal after the port was opened
and before its attributes were saved.

| run | question | instance | result |
|---|---|---|---|
| `Session` | are descriptors and attributes kept in order, and is the device found again? | two ports, the second a seismometer, three descriptors, all settings, `-v` and not | `TypeOK`, `IInv`, `NoLeak`, `AttributesRestored`, `CollectsFromSeismometer`, `ReconnectsWithoutSettings` hold |
| `Session_silent` | does it re-connect as `README:99` says? | without `-v` | violated with `do_settings_sep064=1`: the `-v` count is passed for the timeout, every failure leaks a descriptor, and without one `scan_for_ports` crashes |
| `Session_attribs` | does `allow_set_interface_attribs=0` leave ports alone? | `-v` | violated: `disconnect` writes the zeroed attributes, which only unplugging the device undoes |

*Bounds.* Two ports show what the first does to the second; three descriptors run out within
a search or two if one is leaked, so that a leak is not only seen but has its consequence.

*Fairness.* A running program is scheduled (weak), and a seismometer that is tested, or sent its
settings, again and again passes at last (strong): a test reads 20 lines at the device's own
rate, and nothing but chance delays them for ever. That is assumed only of a port where the device can be
heard (`Audible`): with `allow_set_interface_attribs=0` a disconnection leaves zeroed attributes (speed
B0), and nothing sets them again. Nobody has to start the program, after a crash either. `Reconnects`
promises data whenever the device is plugged in, the program runs and the next search can hear the device
(`Usable`), unless it is unplugged or the program stopped again. Of a port that the program itself has zeroed
it promises nothing: that is the case in which `README:91-92` and the message at mlw 497 advise to
unplug and reconnect, which does give the port its attributes back (`Unplug`).

### LineReader — characters to values

`LineReader.tla` models `read_next_value` character by character with its two callers. A
character is its position in what the device sends (`Stream`, over and over), so a value shows
where it came from. The input queue holds `MaxBuffer` characters; the port is opened at any
point with any backlog; a sleep with nothing to read adds to the time of the *call*; the
port may be unplugged, after which `select` reports it readable and `read` returns 0 or -1: the
first loop compares the result with 1, the second takes -1 for a character (`CopyChar`).

| run | question | instance | result |
|---|---|---|---|
| `LineReader` | is what is recorded what was sent? | lines of 1, 2 and 3 digits with one or two end characters, a queue of 5, a line buffer of 4, 2 test values, timeouts of 2 and 3 sleeps | `TypeOK`, `RecordedWhole`, `NothingSkipped`, `OneInvented`, `Returns` hold |

*Bounds.* The queue holds more than any line and less than two of the longer ones: reads find
it empty, with part of a line and with more than a line. Two test values are the fewest that
test "the first is consumed by the test". The line buffer is one longer than the longest
line, as 32 is longer than any sample; a line of made up characters fills it. A value that
straddles lost characters (`lost`) is exempt: the code has no means to notice. `MaxLost` bounds
those in one connection; none is needed by the other properties.

*Fairness.* The program is scheduled. The device may fall silent: then the timeout ends the
call. `StreamAssumption` asks for a digit and an end of line in what it sends.

### Settings — the properties file

`Settings.tla` models `settings_open`, `parse_str`, `settings_set`, `settings_get`, `sm_new`,
`sm_put`, `sm_get` over an arbitrary file: a line is blank, a section, an assignment or wrong.
Any allocation may fail, and the settings are then given up. A value has an identity and a
length, and a pair the space allocated for its value, because `sm_put` compares the new value with the
length of the old one and not with that space. A map has `count` buckets, and a key is in the one its
hash says (`bucket_of`). `Dictionary.tla` is the promise.

### Startup — properties and the size of the ring

`Startup.tla` extends `Settings` with `init_properties`, the getters of texts, ints and doubles with their
conversions, and the sizing of the ring in `main`: the program as far as `FileRing`'s `SizeRing`. `Known` is
the table of the 17 properties. A value is a sequence of digits, signs, points and words, so that the digit test
(`is_number`), `atoi` and `atof` can be told apart; a double is counted in tenths. Each getter has its buffer
(`STANDARD_STRLEN` for texts, `MAX_VALUECHARS` for numbers), and `sm_get` copies nothing that does not fit: such a
value counts as not set. `atoi` of what is no int is undefined in C and is the constant `Overflow`. `FileMissing`
and `GivenUp` are the two failures that `main` goes on after, with every property zero. Dividing by zero,
converting a result that is no int, and a product of two ints that overflows are undefined, and `FilesIn` gives the values that
processors make of them.

`settings_save` and `sm_enum`, which the program does not call, are there too: they write what `settings_open`
must read back. `enum_map` leaves out, without a word, every pair whose key or value has 256 characters or more,
although `settings_open` takes it (`Saveable`); `SavedReadsBack` says that those, and no others, are lost.

What a text *begins with* (`BeginsWithInteger`, `BeginsWithTenths`) is stated independently of the code that
reads it: place by place, by what is left of the number after its last figures. `PropertiesAsFiled` says it of every
property and any text, against the last assignment in the lines of the file: a value that is empty or a lone sign is 0, one
with a remark is the default. It leaves open only ints of ten digits or more. `RingSized` speaks of positive
properties whose products are ints. It is exact in tenths of an hour, where the code multiplies and divides doubles and
truncates: where the quotient is a whole number, or next to one, the ring of the code may be a slot smaller or larger.

| run | question | instance | result |
|---|---|---|---|
| `Settings` | is what is opened what the file says, and are the properties? | all files of up to 4 lines, 2 sections, 3 keys of which 2 share a bucket and one is too long to be saved, 6 values: none, a number, one too long for its buffer, a number with a remark that does not fit a text, one with sign and point, a word | `TypeOK`, `IInv`, `OpenedIsRead`, `ValuesFit`, `NoUseAfterFree`, `ImplementsDictionary`, `PropertiesAsFiled`, `RingSized`, `SavedReadsBack` hold |

*Bounds.* Four lines open a section twice around another one, or set a key long, short and long
again. A missing file, and any allocation failing, are among the behaviours. The buffers are of 5 (numbers), 9 (texts)
and 26 characters (saved keys) in place of 256 and the like, so that values fit one and not the other. The 14 other
properties are read as unset, and proved as any. A file ends, so the run does
not check for deadlock. The run is 190,000 states. Nothing of these bounds is in the theorems.

### Timing — the rate test and the estimator

`Timing.tla` models the times of samples in whole microseconds: `read_next_value`'s polling (10 ms between two
looks at the port, `Lateness`), the accumulation of intervals in `find_device` (`TestValue`) and the start
times of `collect_and_write` (`Sample`, `LastSample`) with the low pass filter of the record length. The device
sends line *k* at *k* periods; the program may be kept from reading (`Delays`), lines wait when the
port is opened (`Backlogs`), the queue may lose a line, the clock may be set. `disturbed` records that the time
of a line that *counts* was not its own: only then are the promises about rates and start
times off. `shaken` adds up, for the connection, by how much delays, lost lines and steps of the clock have moved the times.

| run | question | instance | result |
|---|---|---|---|
| `Timing` | are seismometers told apart, and samples timed? | the real test of 20 values and its 5%, the three rates of the seismometer and four others, records of 6 samples, 3 of them, delays of 30, 120 and 400 ms, steps of -40 s and +3.7 s | `TypeOK`, `RateTold`, `OnTime`, `SeamsTight` hold |

*Bounds.* A delay of 120 ms is caught up within half a record of six samples at 20 per second, one of
400 ms is not; a backlog of 10 lines is what the first half of the test consumes, 11 is one more.
Three records are the first, which only sets the time, and two that are filtered. `MaxAccidents` is two in the test and two after
it. A step of 40 s is enough to move a seam by more than half a sample, one of 3.7 s is not. `Epoch` is 100 s, which is more
than two such steps back. The run is 9.2 million states. The rates and records end, so there is no deadlock check, and no fairness: all
its properties are safety.

`RateTold` has a limit that the run shows: at 80 samples per second nine intervals are 113 ms, and
the 10 ms of polling are more than 5% of that, so the test may go either way (`Tellable`). `OnTime` speaks of
a device that sends at the nominal rate, `SeamsTight` of one within 5% of it: a device that is much faster
outruns the filter, which starts from the nominal length of a record.

The code joins records by a filter: a new start time moves the estimate by 1/1200 of its error (`Decay`, the samples of
a minute). So `SeamsTight` does not say that there is never a gap. It says how large one can be: 1/1200 of all accidents of the connection
so far, of the device's own rate and of the polling (`SeamBound`). Accidents of up to half a minute together stay below half a
sample at 20 per second, and nobody sees them in the data. A larger step of the clock, as of a computer without a
clock that gets the time when the program is already running, makes a gap or an overlap, and the code has nothing against it.

How much polling makes the filter err (`Drift`) grows with the number of records at first (`EarlyDrift`), but
not for ever (`LateDrift`). No bound that is proportional to the present error would do: the filter corrects the length of a record by the error of
the start time and the start time by the length, which is an oscillator of a period of some tens of records, and
polling that comes and goes with that period excites it. `LateDrift` holds for any number of records; at the
program's rate of 20 per second it is 1.4 s, which is safe and not sharp. `Epoch` is the clock when the port is opened:
the code takes a time of 0 or less for none, so the clock must not be that near to 1970 (`EpochAssumption`).

### DataDirectory, Uploads, Deployment — the program as it is run

`DataDirectory.tla` is the directory of files in date directories, with the calls on it: `remove`, `rmdir`, `mkdir`,
`rename`. `Uploads.tla` adds the copies on the server and the background scripts, each of which uploads one
file and then deletes the copy of the one that was removed for it. `Deployment.tla` composes both with the program, the
two scripts and the signals between them. There may be two programs at a time, since the start
script waits a second and not for the end of the last one.

`Shells` are the scripts that run at the same time, each where `shell` says: `StopProgram` reads the pid file and signals,
`RemovePid` removes it, whatever it names by then, `Launch` starts the program after the sleep, `WritePid` writes its pid. Nothing
keeps two of them apart. Two start scripts that overlap both start a program, and the pid file names the one
that wrote last: two writers, one of which nobody can stop. So what a start script does to its program, `Launch` and `WritePid`, is the lapse
`overlapped` when it happens beside another script. Other overlaps, two stops, or a stop that begins and ends
while a start script still stops the program before, are not lapses and are checked and proved with the rest.

The program is `FileRing`'s, abstracted: one record to a file, a fixed ring, no failing calls but
those on directories, and the ring as the sequence of names *from the current slot onwards*, which is
what the state file holds. In exchange the steps within `make_mseed_filepath` are separate (`EvictOld`,
`Prune` directory by directory, `NameFile`, `MakeDirectory`), and a signal or crash comes between any
two of them.

| lapse | what happens | properties that except it |
|---|---|---|
| `interrupted` | a start script ends before it has written the pid: nobody can stop that program | all but the copies |
| `overlapped` | a start script starts its program, or writes its pid, while another script is at work: there may be two programs, or one that nobody can stop | the same |
| `slow` | a program takes longer than the second; the next loads a state file it has not written yet | `FilesTracked`, `DirectoriesTracked` |
| `early`, `crash` | it ends before it has loaded its state, or without saving it | as for `slow` |
| `halfpath` | it is stopped while it makes or removes directories: an empty one stays | `DirectoriesTracked` |
| `unreported` | it is stopped between removing a file and starting the script that would delete the copy | `CopiesTracked`, `CopiesGone` |
| `failed`, `late`, `overtaken` | an upload fails, its file has gone before it starts, or it ends after the deletion of its copy | as for `unreported` |

Each can happen in the run and the properties say exactly which they survive. `OneWriter` survives a
slow program: it is signalled, and a signalled program only saves. That is no protection of its files: the next
program loads the state that the slow one has not saved, so `FilesTracked` excepts it. `PublishesItsOwn`
survives everything but `interrupted` and `overlapped`.

| run | question | instance | result |
|---|---|---|---|
| `Deployment` | do restarts and uploads lose anything? | two processes, two scripts, a ring of 2, 4 files, date paths of two levels in which two files share a minute, with and without uploads | `TypeOK`, `OneWriter`, `FilesTracked`, `DirectoriesTracked`, `PublishesItsOwn`, `CopiesTracked`, `CopiesGone` hold |

*Bounds.* Four files turn a ring of two over twice. Two levels show a directory that empties and one
around it that does not. `FewLapses` follows a behaviour while some property speaks of it: with
uploads to the first lapse, without them to the second, and a slow program up to two files. The second script runs up
to the first lapse and up to two files: files that are already named and one that follows. Two scripts make every pair of
their steps. The states
in which the lapse has just happened are checked. `CopiesGone` is followed for the first file. The run is
740,000 states. The invariants need none of these bounds: they are proved.

*Fairness.* Each program and the background scripts are scheduled. Nobody need start or stop anything.

## What is proved

`FileRing_proofs.tla` proves for every set of ring sizes, number of records per file, bound
on times and set of disturbances:

    Invariance               Spec => []IInv
    TypeCorrect              Spec => []TypeOK
    TrackedFilesHold         Spec => []TrackedFiles
    BoundedBufferHolds       Spec => []BoundedBuffer
    IntactFilesHold          Spec => []IntactFiles
    RestartTransparentHolds  Spec => []RestartTransparent

The assumptions are the `ASSUME`s of `FileRing`: sizes and record counts are positive, `NoFile`
is no file, `Events` are known kinds. `TrackedFiles` is not inductive. That no file is forgotten when
a slot is reassigned needs that its file has been removed (`SlotOK`), when a file is published
that its name is still in the ring (`NameOK`), and at a restart that the state file fits
the ring it is read into (`StateOK`) and holds all of it (`SavedOK`), whence `RingOK` says which
size the ring has at each step of the start up. `IntactFiles` needs that the temporary file
holds exactly the records counted (`TmpOK`, `CountOK`), also after a lost connection. `IInv` is
the conjunction; under the lemma `Inductive` each part has a lemma of its own, with one step
per action. The state file
prints the ring from the current slot onwards and the restart puts it back from that slot onwards, modulo
the size: the lemmas `Wrap`, `Round`, `Saved` and `Restored` show that this is a bijection of
slots and that restoring what was saved gives the same ring, and `BoundedBuffer` follows from
`TrackedFiles` by counting: the names in a ring are no more than its slots.

`FileRingFIFO_proofs.tla` proves that an undisturbed ring is a queue, for every set of sizes, number of
records per file and bound on times:

    Refinement               ASSUME Events = {}, ClockSteps = FALSE
                             PROVE  Spec => ImplementsRollingBuffer

The number `b` of files published so far decides the state (`Fifo(b)`): the files on disk are
consecutive, and the ring names the last of them, each in the slot `(j * R) % M` of the `j`-th file, and nothing else
(`RingHolds`). Two files use the same slot only if their numbers differ by a multiple of the smallest `p` with
`(p * R) % M = 0` (`SameSlot`), and the slots used are as many (`UsedSlotsPeriod`). So the slot of the next file is
free as long as there are fewer, and afterwards it is the one of the oldest (`SlotOfNext`): `EvictOld` is
`EvictOldest` or a stutter, `MoveFile` is `Publish`, and everything else is a stutter.

`Session_proofs.tla` proves for every list of ports, set of seismometers, number of
descriptors and verbosity:

    Invariance               Spec => []IInv
    TypeCorrect              Spec => []TypeOK
    NoLeakHolds              Spec => []NoLeak
    AttributesRestoredHold   Spec => []AttributesRestored
    CollectsHold             Spec => []CollectsFromSeismometer

`NoLeak` needs that nothing is open between two ports (`ClosedOK`), `AttributesRestored` that
`termios_orig` holds the attributes of the very port the descriptor leads to once they have been set
(`SavedOK`), that before that every port has its own (`OwnOK`), and that the descriptor leads to the
port being tried (`PortOK`).

`Settings_proofs.tla` proves for all sections, keys and values, every spread of keys over
buckets, files of any length and memory that may run out anywhere:

    Invariance               Spec => []IInv
    TypeCorrect              Spec => []TypeOK
    OpenedIsReadHolds        Spec => []OpenedIsRead
    ValuesFitHolds           Spec => []ValuesFit
    NoUseAfterFreeHolds      Spec => []NoUseAfterFree
    Refinement               Spec => ImplementsDictionary

The assumptions: a key has one bucket, a value one length, `None` is neither a section, a value
nor a map. The lemmas about `sm_put` and `sm_get` (`Put`, `New`) say that a key got is the one put
and that no other key changes, those about the array of sections the same of a section. With
them each step is one of two kinds (`Steps`): it sets one key of the section entered last
(`Sets`), or nothing (`Keeps`); the refinement needs no more. `OpenedIsRead` speaks of the end only. Its
inductive form is that until something fails what can be got is what was read so far
(`GetsWhatWasRead`), which needs that `current_section` is the section of the next line
(`CurrentOK`) and that every named section has a map (`SectionsOK`).

No operator of `Settings` is defined by recursion over a file: `GetsWhatWasRead` quantifies over its lines, which
is why it can be proved step by step.

`LineReader_proofs.tla` proves for every stream of lines, queue, line buffer, test and timeout:

    Invariance               Spec => []IInv
    StreamInvariance         Spec => []StreamOK
    TypeCorrect              Spec => []TypeOK
    OneInventedHolds         Spec => []OneInvented
    RecordedWholeHolds       Spec => []RecordedWhole
    NothingSkippedHolds      Spec => []NothingSkipped

from the assumptions that the lines of the device are shorter than `line_data` and that at least two values are
tested, the first of which is the rest of the line in which the port was opened. A character is its
place in what is sent over and over, so the proofs are about arithmetic modulo the length of
the stream (lemmas about `After`). The strengthening says where the program is in the stream: the queue
holds the characters sent last (`QueueOK`), the line being read is a chain of digits that ends at the character read
last (`LineOK`), between two lines only ends of line have been read (`GapOK`), and what was recorded last is whole
and follows what was recorded before (`LastOK`). All of it holds until the queue has overflowed once. `OneInvented`
needs what an unplugged port has left (`HungOK`).

`Startup_proofs.tla` extends them to the whole start of the program:

    ReadsSettings            StartupSpec => Spec
    StartupInvariance        StartupSpec => [](IInv /\ SizedOK)
    PropertiesAsFiledHolds   StartupSpec => []PropertiesAsFiled
    RingSizedHolds           StartupSpec => []RingSized
    SavedReadsBackHolds      StartupSpec => []SavedReadsBack

for the same files, values that are sequences of digits, signs, points and words, buffers of any size and any number of
buckets. `ReadsSettings` is why the theorems about `Settings` hold here. `GetsWhatWasRead` says that what is
got is what the *last* line says (`FoundIsLast`). That a text is read as the number it begins with (`IntegerRead`,
`TenthsRead`) is shown for texts of any length: the value of a row of digits is a recursive function over its places, and
`NumberStands` shows by induction that its last figures are those of the row and what is left is the value of
the rest; `NineDigits` that less than ten digits make an int. `AsFiled` follows for each of the three types
(`IntegerAsFiled`, `DoubleAsFiled`, `TextAsFiled`), and so for every property of the table. `SizedOK` carries
the properties to the ring's size, and `Quotient` is the division of `main`. `SavedReadsBack` is the longest: what a bucket saves is
its pairs without those that are too long (`Written`), what `sm_enum` and
`settings_save` write is put together by the community module's `FlattenSeq`, so the lines that
were written are traced back to the section and bucket they are from, and forth again, by an induction on the number of sections written (`Block`,
`NextBlock`, `Blocks`, `Enumerated`). The order of the lines is not that of the file that was
read, and the pairs of a section may have come from several parts of it; that it does not matter needs that a
key is in one place of a map and a name in one section (`TidyOK`, part of `IInv` and so
also checked by the run).

`Timing_proofs.tla` proves

    Invariance               Spec => []IInv
    TypeCorrect              Spec => []TypeOK
    RateToldHolds            Spec => []RateTold
    EstimatorInvariance      Spec => []EInv
    OnTimeHolds              Spec => []OnTime
    UndisturbedSeams         ASSUME Slow
                             PROVE  Spec => [][Undisturbed /\ ~disturbed' => ...]_vars

for every number of test values, polling interval, rate and backlog, provided the clock is farther from 1970 than
two samples from each other, than the estimate from it, and than it is set back (`EpochAssumption`). The sum of the intervals telescopes to the time from the middle value to the last
(`SumOK`): the error is that of two readings, whatever happened in between, and both are on time once
half of the test is over (`InTimeOK`). The lemmas `Accepts` and `Rejects` compare it with the tolerance.

`OnTime` is proved for connections of any length, records of any number of samples and any filter of at least a minute's samples
(`Decay` is 60 or more; the program takes the samples of a minute). Until the first record, nothing is
estimated (`IdleOK`); in a record every line of the second half is read in time unless `disturbed` (`LinesOK`,
`ClockOK`); what is estimated from them is off by the polling at most (`CurrentOK`). The filter is where the induction is (`FilterOK`): with the
error `e` of the start time and `w` of the length of a record, `Decay * w * w + e * e` is an energy that the two hand to and
fro. A record takes more from it than polling can add as soon as it is near `EnergyBound` (`FilterStep`), so it stays below,
and `LateDrift` follows from it. `EInv` is the
conjunction. `UndisturbedSeams` is `SeamsTight` for connections that nothing but polling disturbs: a
record starts within half a sample of the end of the one before. `Slow` compares that energy with half a
sample and holds with room to spare for the program's numbers (at 20 samples per second 3 s are compared with 60 s).

`Deployment_proofs.tla` proves for any number of programs at a time, any ring, date paths of any depth shared in
any way and any set of lapses:

    Invariance               Spec => []IInv
    TypeCorrect              Spec => []TypeOK
    OneWriterHolds           Spec => []OneWriter
    FilesTrackedHolds        Spec => []FilesTracked
    PublishesItsOwnHolds     Spec => []PublishesItsOwn
    CopiesTrackedHolds       Spec => []CopiesTracked
    DirectoriesTrackedHolds  Spec => []DirectoriesTracked

`OneWriter` follows from `SupervisedOK`: as long as no start was interrupted or overlapped, a program that has not been signalled is the one
the pid file names, and then no script is at work, or the one that a start script has just launched, of which there is one at
most. `FilesTracked` needs that there is one program unless one is slow
(`SoleOK`), and that ring and state file name every file at each of the steps (`TrackedOK`): in between
the slot of a file that is gone names it still. `PublishesItsOwn` needs that directories are made from the outermost
inwards and removed inwards out (`DirectoriesOK`, `PublishingOK`). `CopiesTracked` needs that a copy that is still on its
way counts as one (`CopiesOK`). `DirectoriesTracked` is the hardest: while directories are removed or made, some belong to
no file, and `DirsAt` says for each step which ones those are: those on the way to the file just removed, or to the
one just named.

Only model-checked: everything temporal (`TurnsOver`,
`StartedIsPublished`, `ReconnectsWithoutSettings`, `Returns`, `CopiesGone`), which is beyond the prover; and
`SeamsTight` in full, of which `UndisturbedSeams` proves the case without accidents. That a few accidents of any size move a seam
by no more than 1/1200 of their sum is a bound on the response of the filter to shocks, which the run checks for the accidents of its
instance (`Delays`, `Steps`, `MaxAccidents`).
Every other property that a run checks is stated by a theorem.

## What the checks found

Four statements of the documentation that the code does not keep, each a run that TLC
finds violated: `FileRing_retention`, `FileRing_orphans`, `Session_silent`, `Session_attribs`.
`PROJECT.json` quotes the lines.

## What is not modelled

* Sample values and their packing (libmseed, external): a record is written or fails. How many
  miniseed records libmseed makes of a buffer is its own affair.
* Doubles: the estimator is kept in whole microseconds, the properties in tenths.
* The calendar: names are one to one with start times, and the date path of a name is a
  constant. libmseed's and libc's arithmetic is external.
* The second signal between `free` and `exit` in `term_handler` (memory errors at process exit).
* SIGKILL and crashes of other kinds in `Session`: they would leave a port with the attributes it has. (`FileRing` and
  `Deployment` have them.)
* Lines of the properties file longer than the buffer of `fgets`, and read errors taken for its end.
* The command line (`parameter_proc`): it sets the name of the properties file and the count of `-v`,
  any of which `Session` starts with.
* Logging, usage and version texts, and those functions of the settings library that the
  program does not call: tuples, the getters of other types, deletion.
* The rest of the scripts: `start_all.sh` and `stop_all.sh` call others in turn; the download at the end of
  `miniseed_written.bash` is for testing; `miniseed_removed.bash` and `upload2dropbox.bash` address a folder that nothing fills.
* ringserver, SeisGram2K, the USB fragment: external or dead code.

## Plan

Done, in this order: `FileRing` with `RollingBuffer`, `Session`, `LineReader`, `Settings` with
`Dictionary`, `DataDirectory` with `Uploads` and `Deployment`, `Startup`, `Timing`; proofs for each of them.
What is left:

1. `Deployment` with several records to a file, as a refinement of `FileRing` with one process.
2. A proof of `SeamsTight` with accidents, from the energy of `OnTime`.
