SPECIFICATION FairReaders
CONSTANTS
    dm = dm
    group = group
    Convs = {dm, group}
    Direct = {dm}
    Limit = 3
    DigestLines = 2
    MaxTx = 4
    MaxOpen = 2
    MaxFaults = 1
    MaxBriefs = 1
    ClientIds = {c1}
    PageSize = 1
    MaxLog = 3
    MaxMishaps = 1
INVARIANTS
    ReadersTypeOK
    QuietMeansRead
    ShownOnce
PROPERTIES
    AckOnlySeen
    BriefKept
    EveryMessageRead
CONSTRAINT ShortScreen
