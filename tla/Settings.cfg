\* All files of up to four lines with two sections, three keys, two of which
\* share a bucket, and values of different lengths and kinds, in buffers that
\* some of them do not fit.
CONSTANTS
    Sections = {"Logging", "Station"}
    Keys = {"mswrite_nrec_in_file", "mswrite_buffer_size", "mswrite_data_encoding_type"}
    Values <- Texts
    count = 2
    bucket_of <- TwoBuckets
    strlen <- Lengths
    keylen <- KeyLengths
    MAX_KEYCHARS = 26
    MAX_VALUECHARS = 5
    STANDARD_STRLEN = 9
    Overflow = 0
    MaxLines = 4
    None = None
SPECIFICATION StartupSpec
INVARIANTS
    TypeOK
    IInv
    OpenedIsRead
    ValuesFit
    NoUseAfterFree
    
    RingSized
    SavedReadsBack
PROPERTIES
    ImplementsDictionary
CHECK_DEADLOCK FALSE
