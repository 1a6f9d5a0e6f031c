SPECIFICATION FairSpec
CONSTANTS
    a = a
    b = b
    Tracks <- MCTracks
    Playlists <- MCMixed
    Short = {a}
    MaxExports = 1
    MaxFaults = 1
    RowsPerPage = 2
    Nothing = Nothing
INVARIANTS
    TypeOK
    MountedFilesAreWhole
    AudioIsRight
    DifferencesAreKnown
PROPERTIES
    ExportSettles
CHECK_DEADLOCK FALSE
