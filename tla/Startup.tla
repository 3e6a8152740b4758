------------------------------- MODULE Startup -------------------------------
(***************************************************************************)
(* The start of the program: init_properties opens the properties file,    *)
(* module Settings reads it, every property becomes the value of its key   *)
(* or a default, and main sizes the ring of files by them. A file that is  *)
(* missing, or that the settings library gives up, leaves every property   *)
(* zero, and main goes on.                                                 *)
(*                                                                         *)
(* A value is a sequence of digits, signs, points and words. A double is   *)
(* counted in tenths.                                                      *)
(***************************************************************************)
EXTENDS Settings

Ext == INSTANCE SequencesExt

CONSTANTS
    keylen,             \* lengths of keys
    MAX_KEYCHARS, MAX_VALUECHARS, STANDARD_STRLEN,
    Overflow            \* what atoi makes of a number that is no int, which C leaves undefined

VARIABLES
    stage,
    properties,             \* the global variables that init_properties sets
    num_samples_in_record,
    file_index_modulo

startup_vars == <<stage, properties, num_samples_in_record, file_index_modulo>>

ASSUME TextAssumption == Values \subseteq Seq(STRING)

\* The program looks for its properties in two of the sections there may be.
ASSUME SectionsAssumption == {"Logging", "Station"} \subseteq Sections

ASSUME BufferAssumption ==
    /\ keylen \in [Keys -> Nat]
    /\ MAX_KEYCHARS \in Nat /\ MAX_VALUECHARS \in Nat /\ STANDARD_STRLEN \in Nat
    /\ Overflow \in Int

-----------------------------------------------------------------------------
(* get_converted_value, atoi and atof *)

Figures == <<"0", "1", "2", "3", "4", "5", "6", "7", "8", "9">>

Digits == [d \in {Figures[i] : i \in 1..10} |-> (CHOOSE i \in 1..10 : Figures[i] = d) - 1]

\* Mutant of is_number: the test made for digits is left out.
is_number_any(text, others) == TRUE

\* "check is number": every character is one of a number, in whatever order.
is_number(text, others) == \A i \in DOMAIN text : text[i] \in DOMAIN Digits \cup {"-"} \cup others

\* The digits at the beginning of a text.
LeadingDigits(text) ==
    LET end == First({i \in DOMAIN text : text[i] \notin DOMAIN Digits})
    IN  IF end = 0 THEN text ELSE SubSeq(text, 1, end - 1)

Number(digits) ==
    LET value[n \in 0..Len(digits)] == IF n = 0 THEN 0 ELSE 10 * value[n - 1] + Digits[digits[n]]
    IN  value[Len(digits)]

Sign(text) == IF text # <<>> /\ text[1] = "-" THEN -1 ELSE 1

Unsigned(text) == IF Sign(text) = -1 THEN Tail(text) ELSE text

INT_MAX     == 2147483647
INT_INVALID == -INT_MAX - 1     \* INT_MIN

\* What follows the digits is ignored, and no digits are 0.
atoi(text) ==
    LET number == Sign(text) * Number(LeadingDigits(Unsigned(text)))
    IN  IF number \in INT_INVALID..INT_MAX THEN number ELSE Overflow

\* In tenths: one digit after a point counts.
atof(text) ==
    LET unsigned == Unsigned(text)
        whole    == LeadingDigits(unsigned)
        point    == Len(whole) + 1
        tenth    == IF point < Len(unsigned) /\ unsigned[point] = "."
                          /\ unsigned[point + 1] \in DOMAIN Digits
                    THEN Digits[unsigned[point + 1]] ELSE 0
    IN  Sign(text) * (10 * Number(whole) + tenth)

\* The files of an instance set the keys in Keys only.
Found(section, key) == IF key \in Keys THEN settings_get(section, key) ELSE None

\* settings_get into a buffer, which a value that does not fit is not copied to.
Got(section, key, n_out_buf) ==
    LET value == Found(section, key)
    IN  IF value # None /\ strlen[value] >= n_out_buf THEN None ELSE value

\* The text that is converted, or None.
Convertible(section, key, others) ==
    LET value == Got(section, key, MAX_VALUECHARS)
    IN  IF value # None /\ is_number(value, others) THEN value ELSE None

settings_get_int(section, key) ==
    LET text == Convertible(section, key, {}) IN IF text = None THEN INT_INVALID ELSE atoi(text)

settings_get_helper(section, key, default) ==
    LET value == Got(section, key, STANDARD_STRLEN) IN IF value = None THEN default ELSE value

settings_get_int_helper(section, key, default) ==
    LET number == settings_get_int(section, key)
    IN  IF number = INT_INVALID THEN default ELSE number

\* No text is as low as DBL_INVALID.
settings_get_double_helper(section, key, default) ==
    LET text == Convertible(section, key, {"."}) IN IF text = None THEN default ELSE atof(text)

-----------------------------------------------------------------------------
(* init_properties and main *)

Property(type, section, key, default) ==
    [type |-> type, section |-> section, key |-> key, default |-> default]

\* The properties, by the names of their variables.
Known ==
    [port_path_hint      |-> Property("text", "Logging", "port_path_hint", <<"/dev/ttyACM0">>),
     allow_set_interface_attribs
                         |-> Property("int", "Logging", "allow_set_interface_attribs", 0),
     mswrite_dir         |-> Property("text", "Logging", "mswrite_dir", <<"./data_current">>),
     num_records_in_file |-> Property("int", "Logging", "mswrite_nrec_in_file", 10),
     writing_enabled     |-> Property("int", "Logging", "writing_enabled", 1),
     mswrite_buffer_size |-> Property("double", "Logging", "mswrite_buffer_size", 60),
     mswrite_header_sample_rate
                         |-> Property("double", "Logging", "mswrite_header_sample_rate", -10),
     mswrite_data_encoding_type
                         |-> Property("text", "Logging", "mswrite_data_encoding_type", <<"DE_INT32">>),
     mswrite_script      |-> Property("text", "Logging", "mswrite_script", <<"NONE">>),
     msremove_script     |-> Property("text", "Logging", "msremove_script", <<"NONE">>),
     station_network     |-> Property("text", "Station", "station_network", <<"UK">>),
     station_name        |-> Property("text", "Station", "station_name", <<"TEST">>),
     channel_prefix      |-> Property("text", "Station", "channel_prefix", <<"BH">>),
     component           |-> Property("text", "Station", "component", <<"Z">>),
     nominal_sample_rate |-> Property("int", "Station", "nominal_sample_rate", 20),
     nominal_gain        |-> Property("int", "Station", "nominal_gain", 1),
     do_settings_sep064  |-> Property("int", "Station", "do_settings_sep064", 0)]

Value(p) ==
    CASE p.type = "text"   -> settings_get_helper(p.section, p.key, p.default)
      [] p.type = "int"    -> settings_get_int_helper(p.section, p.key, p.default)
      [] p.type = "double" -> settings_get_double_helper(p.section, p.key, p.default)

init_properties == [name \in DOMAIN Known |-> Value(Known[name])]

\* What the loader and main leave in them before.
Unset ==
    [name \in DOMAIN Known |->
        IF name = "port_path_hint" THEN <<"/dev/usbdev1.1">>
        ELSE IF Known[name].type = "text" THEN <<>> ELSE 0]

\* A property that is no known encoding leaves num_samples_in_record at -1.
NumSamples(encoding) ==
    IF encoding = <<"DE_INT16">> THEN 456 \div 2
    ELSE IF encoding \in {<<"DE_INT32">>, <<"DE_STEIM1">>, <<"DE_STEIM2">>} THEN 456 \div 4
    ELSE -1

Abs(n) == IF n < 0 THEN -n ELSE n

\* Conversion to int truncates towards zero.
Truncate(a, b) ==
    LET quotient == Abs(a) \div Abs(b)
    IN  IF (a < 0) <=> (b < 0) THEN quotient ELSE -quotient

\* The values of file_index_modulo: the product of two ints may overflow, and
\* converting an infinity, a NaN or what is no int to int gives one of these, by
\* the processor.
FilesIn(samples, file) ==
    IF file \notin INT_INVALID..INT_MAX THEN INT_INVALID..INT_MAX
    ELSE IF file = 0 \/ Truncate(samples, file) \notin INT_INVALID..INT_MAX
    THEN {INT_INVALID, 0, INT_MAX}
    ELSE {Truncate(samples, file)}

\* Mutant of RingSize: the number of records in a file is forgotten.
RingSize_records(p, nsamp) ==
    FilesIn(p.mswrite_buffer_size * 360 * p.nominal_sample_rate, nsamp)

RingSize(p, nsamp) ==
    FilesIn(p.mswrite_buffer_size * 360 * p.nominal_sample_rate, nsamp * p.num_records_in_file)

StartupInit ==
    /\ Init
    /\ stage = "open" /\ properties = Unset
    /\ num_samples_in_record = -1 /\ file_index_modulo = 0

OpenFile ==
    /\ stage = "open" /\ stage' = "settings"
    /\ UNCHANGED <<vars, properties, num_samples_in_record, file_index_modulo>>

\* "Cannot open application properties file": init_properties returns 0.
FileMissing ==
    /\ stage = "open" /\ stage' = "size"
    /\ UNCHANGED <<vars, properties, num_samples_in_record, file_index_modulo>>

ReadSettings ==
    /\ stage = "settings" /\ Next
    /\ UNCHANGED startup_vars

\* settings_open has returned NULL and init_properties -1, which main ignores.
GivenUp ==
    /\ stage = "settings" /\ pc = "failed" /\ stage' = "size"
    /\ UNCHANGED <<vars, properties, num_samples_in_record, file_index_modulo>>

InitProperties ==
    /\ stage = "settings" /\ pc = "opened" /\ stage' = "size"
    /\ properties' = init_properties
    /\ UNCHANGED <<vars, num_samples_in_record, file_index_modulo>>

SizeRing ==
    /\ stage = "size" /\ stage' = "sized"
    /\ num_samples_in_record' = NumSamples(properties.mswrite_data_encoding_type)
    /\ file_index_modulo' \in RingSize(properties, num_samples_in_record')
    /\ UNCHANGED <<vars, properties>>

StartupNext ==
    \/ OpenFile \/ FileMissing \/ ReadSettings \/ GivenUp \/ InitProperties \/ SizeRing

StartupSpec == StartupInit /\ [][StartupNext]_<<vars, startup_vars>>

-----------------------------------------------------------------------------
(* settings_save *)

Saveable(key, value) == keylen[key] < MAX_KEYCHARS /\ strlen[value] < MAX_VALUECHARS

\* enum_map for every pair of a bucket: a line, or nothing.
SavedPairs(bucket) ==
    Ext!FlattenSeq([j \in DOMAIN bucket |->
        IF Saveable(bucket[j].key, bucket[j].value)
        THEN <<PairLine(bucket[j].key, bucket[j].value)>> ELSE <<>>])

\* Mutant of sm_enum: the last pair of each bucket is not visited.
sm_enum_but_last(map) ==
    Ext!FlattenSeq([i \in 1..count |->
        SavedPairs(SubSeq(map[i - 1], 1, Len(map[i - 1]) - 1))])

\* Bucket by bucket, and the pairs of each in order.
sm_enum(map) == Ext!FlattenSeq([i \in 1..count |-> SavedPairs(map[i - 1])])

settings_save ==
    Ext!FlattenSeq([i \in DOMAIN sections |->
        <<SectionLine(sections[i].name)>> \o sm_enum(sections[i].map) \o <<BlankLine>>])

-----------------------------------------------------------------------------
(* Properties *)

\* The value of a key for a reader of the lines: that of the last assignment in
\* one of the parts of the section, or None.
Assignments(lines, section, key) ==
    {i \in DOMAIN lines :
        /\ lines[i][1] = "pair" /\ lines[i][2] = key
        /\ \E h \in 1..i-1 : /\ lines[h] = SectionLine(section)
                             /\ \A j \in h+1..i-1 : lines[j][1] # "section"}

LastAssigned(lines, section, key) ==
    LET places == Assignments(lines, section, key)
    IN  IF places = {} THEN None ELSE lines[CHOOSE i \in places : \A j \in places : j <= i][3]

Configured == stage \in {"size", "sized"} /\ pc = "opened"

Figure(n) == Figures[(n % 10) + 1]

\* The place after the minus, if there is one.
Start(text) == IF text # <<>> /\ text[1] = "-" THEN 2 ELSE 1

\* n stands in text from place a to b, and no digit follows: its last figure is
\* that of n, the others those of n \div 10, with or without zeros before them.
Stands(n, text, a, b) ==
    LET left[j \in 0..b-a+1] == IF j = 0 THEN n ELSE left[j - 1] \div 10
    IN  /\ left[b - a + 1] = 0
        /\ \A j \in 0..b-a : text[b - j] = Figure(left[j])
        /\ b < Len(text) => text[b + 1] \notin DOMAIN Digits

SameSign(n, text) == n = 0 \/ (n < 0 <=> Start(text) = 2)

\* The whole number at the beginning of a text, 0 if there is none.
BeginsWithInteger(text, n) ==
    /\ SameSign(n, text)
    /\ \E b \in Start(text)-1..Len(text) : Stands(Abs(n), text, Start(text), b)

\* The figure after the point, if there is one in place i.
Tenth(text, i) ==
    IF i < Len(text) /\ text[i] = "." /\ text[i + 1] \in DOMAIN Digits THEN text[i + 1] ELSE "0"

BeginsWithTenths(text, n) ==
    /\ SameSign(n, text)
    /\ \E b \in Start(text)-1..Len(text) :
          /\ Stands(Abs(n) \div 10, text, Start(text), b)
          /\ Tenth(text, b + 1) = Figure(Abs(n))

FitsIn(value, n_out_buf) == value # None /\ strlen[value] < n_out_buf

ConsistsOf(value, characters) ==
    FitsIn(value, MAX_VALUECHARS) /\ \A i \in DOMAIN value : value[i] \in characters

\* A text is taken as it is; a number is what the text begins with, and 0 if that
\* is no digit. What is not set, does not fit its buffer or has any other
\* character, that of a comment too, is the default and never read in part. (An
\* int of ten digits may be too large, so no more than nine are spoken of.)
AsFiled(property, value, got) ==
    CASE property.type = "text" ->
            got = IF FitsIn(value, STANDARD_STRLEN) THEN value ELSE property.default
      [] property.type = "int" ->
            IF ConsistsOf(value, DOMAIN Digits \cup {"-"})
            THEN Len(value) < 10 => BeginsWithInteger(value, got)
            ELSE got = property.default
      [] property.type = "double" ->
            IF ConsistsOf(value, DOMAIN Digits \cup {"-", "."})
            THEN BeginsWithTenths(value, got)
            ELSE got = property.default

\* Each of the 17 properties is that of the file: through its sections and hash
\* maps, the buffers, the digit test, atoi and atof, and the defaults
\* (settings_open, sm_get, get_converted_value, init_properties). An empty value
\* and a lone sign are numbers to the program, and 0.
PropertiesAsFiled ==
    Configured =>
        \A name \in DOMAIN Known :
            AsFiled(Known[name], LastAssigned(read, Known[name].section, Known[name].key),
                    properties[name])

\* From positive properties of a known encoding comes the ring that module
\* FileRing assumes, with a slot at least if the buffer is as long as a file: as
\* many whole files as fill the hours (main 386-424), if their numbers are ints.
RingSized ==
    LET samples == properties.mswrite_buffer_size * 360 * properties.nominal_sample_rate
        file    == num_samples_in_record * properties.num_records_in_file
    IN  /\ stage = "sized" /\ num_samples_in_record # -1
        /\ properties.num_records_in_file > 0
        /\ properties.mswrite_buffer_size > 0
        /\ properties.nominal_sample_rate > 0
        /\ file <= INT_MAX /\ samples \div file <= INT_MAX
        =>  /\ file > 0 /\ file_index_modulo * file <= samples
            /\ (file_index_modulo + 1) * file > samples
            /\ samples >= file => file_index_modulo > 0

\* What settings_save would write is read back as the same settings, but for the
\* pairs that enum_map leaves out without a word: those with a key or a value of
\* 256 characters or more, which settings_open takes. (The program saves none.)
SavedReadsBack ==
    pc = "opened" =>
        LET saved == settings_save
        IN  \A s \in Sections, k \in Keys :
                LET value == settings_get(s, k)
                IN  LastAssigned(saved, s, k) =
                        IF value # None /\ Saveable(k, value) THEN value ELSE None
=============================================================================
