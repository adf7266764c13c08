SPECIFICATION FairRooms
CONSTANTS
    a1 = a1
    a2 = a2
    p1 = p1
    p2 = p2
    Agents = {a1, a2}
    Procs = {p1, p2}
    Owner <- TwoOfOne
    Human = Human
    Bodies = {x}
    Notice = Notice
    Flags <- NoContinue
    HeldLimit = 1
    MaxPosts = 2
    RunIdKnown = FALSE
    MaxLen = 3
    MaxTurns = 1
    MaxLooks = 0
    MaxRedis = 1
    MaxTx = 1
    MaxLapses = 0
    MaxMoves = 0
    MaxGaps = 0
    Parts = {"room"}
    a3 = a3
    a4 = a4
    p3 = p3
    y = y
    z = z
INVARIANTS TypeOK SeenHonest OverrideInformed
PROPERTIES
    CommandsEnd
    HoldsConverge
CHECK_DEADLOCK FALSE
