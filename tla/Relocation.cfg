CONSTANTS
    Sites <- MCSites
    Images <- MCImages
    Symbols <- MCSymbols
    Addends <- MCAddends
    MaxPatches = 2
SPECIFICATION PatchSpec
INVARIANTS
    WordsOK
    ReachesSymbol
PROPERTIES
    InstructionsSurvive
CHECK_DEADLOCK FALSE
