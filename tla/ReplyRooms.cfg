SPECIFICATION Rooms
CONSTANTS
    a1 = a1
    a2 = a2
    p1 = p1
    p2 = p2
    Agents = {a1, a2}
    Procs = {p1, p2}
    Owner <- OnePerAgent
    Human = Human
    Bodies = {x}
    Notice = Notice
    Flags <- Plain
    HeldLimit = 1
    MaxPosts = 2
    RunIdKnown = FALSE
    MaxLen = 3
    MaxTurns = 1
    MaxLooks = 0
    MaxRedis = 0
    MaxTx = 0
    MaxLapses = 1
    MaxMoves = 1
    MaxGaps = 1
    Parts = {"room", "turns"}
    a3 = a3
    a4 = a4
    p3 = p3
    y = y
    z = z
INVARIANTS
    CommitOrder
    NoVerbatimDup
    DeliveredOnce
    NoMonologue
CHECK_DEADLOCK FALSE
SYMMETRY RoomsSymmetric
CONSTRAINT TwoFaults
