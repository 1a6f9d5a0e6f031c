SPECIFICATION Spec
CONSTANTS
    PAGE_SIZE = 4096
    HEAP_START = 40
    ROW_GROUP_SIZE = 36
    ROWS_PER_GROUP = 16
    Inputs <- MCInputs
INVARIANTS
    TypeOK
    PagesAreSound
    ChainsAreDisjoint
    EveryRowIsRead
    OnlyKnownComplaints
    ReferencesResolve
    FormatsAgree
    AnlzTiles
CHECK_DEADLOCK FALSE
