SPECIFICATION FairSpec
CONSTANTS
    a = a
    b = b
    Tracks <- MCTracks
    Playlists <- MCPlaylists
    Short = {}
    MaxExports = 1
    MaxFaults = 0
    RowsPerPage = 2
    Nothing = Nothing
INVARIANTS
    ReexportOverwritesPdb
CHECK_DEADLOCK FALSE
