SPECIFICATION FairSpec
CONSTANTS
    NoHash = NoHash
    Uploads = {u1}
    Drives = {}
    NoFile = NoFile
    NumChunks = 2
    MaxFaults = 0
    WritesLand = FALSE
INVARIANTS
    AnalysisIsOfWhole
CHECK_DEADLOCK FALSE
