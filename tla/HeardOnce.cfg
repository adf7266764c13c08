SPECIFICATION RetrySpec
CONSTANTS
    Briefs = {k1}
    Replicas = {r1, r2}
    NoJob = NoJob
    MaxAttempt = 2
    MaxWakeFaults = 0
INVARIANT HeardOnce
CHECK_DEADLOCK FALSE
