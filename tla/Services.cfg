SPECIFICATION Services
CONSTANTS
    a1 = a1
    a2 = a2
    c1 = c1
    c2 = c2
    c3 = c3
    Agents = {a1, a2}
    Procs = {c1, c2, c3}
    Owner <- TwoOfOne
    Nothing = Nothing
    MaxRedis = 2
    MaxCrashes = 1
    Gaps = "always"
    b1 = b1
    b2 = b2
    b3 = b3
    Order <- RoomOrder
    Muted = {b3}
    MidTurn = {b2}
    NoProposal = NoProposal
    NoRow = NoRow
    Deliveries = 2
    Passes = 2
    MaxMishaps = 1
    Instances = {i1, i2}
    Updates = {u1, u2}
    MaxDocFaults = 1
INVARIANTS
    ServicesTypeOK
    OneWinner
    VerdictHonest
    OneAdvancePerRound
    OnlyTheGap
PROPERTIES
    NeverBlocked
    NobodyLeftOut
    CommittedStays
CHECK_DEADLOCK FALSE
