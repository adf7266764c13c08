SPECIFICATION Spec
CONSTANTS
    a1 = a1
    a2 = a2
    p1 = p1
    p2 = p2
    Agents = {a1, a2}
    Procs = {p1, p2}
    Owner <- OnePerAgent
    Human = Human
    Bodies = {x}
    Notice = Notice
    Flags <- Plain
    HeldLimit = 8
    MaxPosts = 2
    RunIdKnown = FALSE
    MaxLen = 2
    MaxTurns = 1
    MaxLooks = 0
    MaxRedis = 0
    MaxTx = 0
    MaxLapses = 0
    MaxMoves = 0
    MaxGaps = 0
INVARIANT
    RepliesSerialise
CHECK_DEADLOCK FALSE
