SPECIFICATION FairSpec
CONSTANTS
    Tickers = {r1, r2}
    r1 = r1
    r2 = r2
    Starts = {0}
    Rules <- AllRules
    Catchup = 1
    Lead = 1
    Horizon = 5
    MaxFaults = 1
    MaxEdits = 1
INVARIANTS
    TypeOK
    OncePerOccurrence
    HistoryHonest
PROPERTIES
    NoSilentSkip
    SeriesMovesOn
CHECK_DEADLOCK FALSE
