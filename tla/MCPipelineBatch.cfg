SPECIFICATION PSpec
CONSTANTS
    Keys = {k1, k2}
    NoKey = NoKey
    Consumers = {c1}
    Nobody = Nobody
    MaxJobs = 3
    MaxAttempts = 1
    MaxFaults = 0
    LeaseCoversWork = TRUE
INVARIANTS
    CompleteIsSettled
