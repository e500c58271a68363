SPECIFICATION Spec
CONSTANTS
    Rows = 3
    Columns = 3
    MaxDeadpixelsCount = 4
    Edited <- MCEdited
    Files <- MCFiles
    FactoryMemory <- MCFactoryMemory
INVARIANTS
    TableIsChecked
    CacheIsCamera
    RecomputedIsBest
CHECK_DEADLOCK FALSE
