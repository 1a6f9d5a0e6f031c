SPECIFICATION FairSpec
CONSTANTS
    Keys = {k1, k2}
    NoKey = NoKey
    Consumers = {c1}
    Nobody = Nobody
    MaxJobs = 3
    MaxAttempts = 2
    MaxFaults = 0
    LeaseCoversWork = TRUE
PROPERTIES
    EveryJobFinishes
