CONSTANTS
    MaxName = 4
    hptime2timestr <- DatePaths
    NoFile = NoFile
    NoProgram = NoProgram
    Programs = {p1, p2}
    Shells = {s1, s2}
    MaxSlowName = 2
    Others = {s2}
    MaxOthersName = 2
    file_index_modulo = 2
    Events <- AllLapses
    MaxLapses = 1
    Watched = {1}
SPECIFICATION FairSpec
CONSTRAINT FewLapses
INVARIANTS
    TypeOK
    OneWriter
    FilesTracked
    DirectoriesTracked
    PublishesItsOwn
    CopiesTracked
PROPERTIES
    CopiesGone
