SPECIFICATION Spec
CONSTANTS
    Workers = {w1, w2}
    Rows = {1, 2}
    BatchSize = 2
    MaxAttempts = 2
    Nobody = Nobody
    Gone = Gone
    MaxOverruns = 1
    MaxDbErrors = 1
    MaxCrashes = 1
SYMMETRY Replicas
INVARIANTS
    AttemptBudget
    OnePublisherPerLease
PROPERTY
    ImplementsDelivery
CONSTRAINT CrashAlone
