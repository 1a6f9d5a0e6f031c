SPECIFICATION FairSpec
CONSTANTS
    Keys = {k1, k2}
    NoKey = NoKey
    Consumers = {c1, c2}
    Nobody = Nobody
    MaxJobs = 3
    MaxAttempts = 2
    MaxFaults = 1
    LeaseCoversWork = TRUE
INVARIANTS
    TypeOK
    OneWorkerPerKey
    BudgetIsKept
PROPERTIES
    FinishedStaysFinished
    FinishesUnlessWedged
    ImplementsPool
