SPECIFICATION FairSpec
CONSTANTS
    Urls = {a, b}
    NoUrl = NoUrl
    Clients = {c1}
    Tasks = {t1, t2, t3}
    NoTask = NoTask
    Permits = 2
    MaxRetries = 1
    MaxJobs = 2
    MaxFaults = 1
INVARIANTS
    TypeOK
    PermitsConserved
    SuccessIsUploaded
    LeaseIsEnough
PROPERTIES
    ClientIsAnswered
