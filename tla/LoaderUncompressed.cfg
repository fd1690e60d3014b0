CONSTANTS
    Files <- MCFiles
    Cells = 3
    StubLength = 2
SPECIFICATION Spec
INVARIANTS
    UncompressedIsLoaded
CHECK_DEADLOCK FALSE
