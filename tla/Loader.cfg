CONSTANTS
    Files <- MCFiles
    Cells = 3
    StubLength = 2
SPECIFICATION Spec
INVARIANTS
    TypeOK
    LoadedImageIsExact
    NoHalfRelocatedProgram
PROPERTIES
    ReachesTables
CHECK_DEADLOCK FALSE
