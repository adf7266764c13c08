SPECIFICATION FairSpec
CONSTANTS
    a1 = a1
    a2 = a2
    c1 = c1
    c2 = c2
    c3 = c3
    Agents = {a1, a2}
    Procs = {c1, c2, c3}
    Owner <- TwoOfOne
    Nothing = Nothing
    MaxRedis = 2
    MaxCrashes = 1
    Gaps = "always"
INVARIANTS
    TypeOK
    OneWinner
PROPERTY
    NeverBlocked
CHECK_DEADLOCK FALSE
