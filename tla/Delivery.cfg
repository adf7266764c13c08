SPECIFICATION DeliverySpec
CONSTANTS
    Workers = {w1}
    Rows = {1, 2}
    BatchSize = 1
    MaxAttempts = 2
    Nobody = Nobody
    Gone = Gone
    MaxOverruns = 1
    MaxDbErrors = 1
    MaxCrashes = 1
    Mails = {m1, m2}
    MaxBatch = 2
    BackoffSteps = 2
    Ticks = 2
    MaxMailFaults = 2
    Voters = {v1, v2}
    Author = v1
    Options = {yes}
    Mode = "single"
    MaxEvents = 2
    MaxPollFaults = 1
    Briefs = {k1}
    Retriers = {r1, r2}
    NoJob = NoJob
    MaxAttempt = 2
    MaxWakeFaults = 1
    Servers = {n1}
    Streams = {s1, s2, s3}
    MaxPending = 1
    MaxWakes = 2
    MaxBusFaults = 1
INVARIANTS
    DeliveryTypeOK
    RetryBudget
    NoGapUntilClosed
PROPERTIES
    EveryEventSettles
    SentStays
    MailSettles
    ClosedIsFinal
    AuthorHearsOfClose
    AgentIsWoken
CHECK_DEADLOCK FALSE
