SPECIFICATION FairSpec
CONSTANTS
    Urls = {a}
    NoUrl = NoUrl
    Clients = {c1}
    Tasks = {t1, t2}
    NoTask = NoTask
    Permits = 2
    MaxRetries = 0
    MaxJobs = 1
    MaxFaults = 0
PROPERTIES
    SucceededIsTerminal
