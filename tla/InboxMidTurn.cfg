SPECIFICATION Spec
CONSTANTS
    dm = dm
    group = group
    Convs = {dm, group}
    Direct = {dm}
    Limit = 2
    DigestLines = 2
    MaxTx = 3
    MaxOpen = 1
    MaxFaults = 0
    MaxBriefs = 0
PROPERTY MidTurnStaysUnread
