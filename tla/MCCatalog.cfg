SPECIFICATION Spec
CONSTANTS
    Users = {u1, u2}
    Clients = {c1, c2}
    Names = {n1}
    Hashes = {h1, h2}
    Titles = {t1, t2}
    None = None
    PageLimit = 1
    MaxPlaylists = 2
    MaxFlows = 3
INVARIANTS
    TypeOK
    AddsSurvive
    DuplicatesOverlap
    ExportShowsMembers
    DownloadIsWhole
SYMMETRY Symmetry
CHECK_DEADLOCK FALSE
