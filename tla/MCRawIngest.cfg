SPECIFICATION FairSpec
CONSTANTS
    NoHash = NoHash
    Uploads = {u1, u2, d1}
    Drives = {d1}
    NoFile = NoFile
    NumChunks = 2
    MaxFaults = 1
    WritesLand = TRUE
INVARIANTS
    TypeOK
    AtRestIsWhole
    AnswerIsTrue
    DeadForAReason

    
CHECK_DEADLOCK FALSE
