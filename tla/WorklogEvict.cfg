SPECIFICATION Spec
CONSTANTS
    a1 = a1
    a2 = a2
    c1 = c1
    c2 = c2
    c3 = c3
    Agents = {a1, a2}
    Procs = {c1, c2}
    Owner <- Pair
    Nothing = Nothing
    MaxRedis = 0
    MaxCrashes = 1
    Gaps = "between calls"
PROPERTY EvictsOnlyStale
CHECK_DEADLOCK FALSE
