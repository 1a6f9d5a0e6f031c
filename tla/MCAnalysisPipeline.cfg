SPECIFICATION PFairSpec
CONSTANTS
    Keys = {k1, k2}
    NoKey = NoKey
    Consumers = {c1, c2}
    Nobody = Nobody
    MaxJobs = 2
    MaxAttempts = 1
    MaxFaults = 1
    LeaseCoversWork = TRUE
INVARIANTS
    PTypeOK
    MarkedIsComplete
    SucceededIsAnalyzed
    BatchIsQueued
PROPERTIES
    NoRewrite
    HashSettles
