CONSTANTS
    Nids <- MCNids
    Entries <- MCEntries
    Programs <- MCPrograms
    HleModules <- MCHleModules
SPECIFICATION Spec
INVARIANTS
    TypeOK
    StubsAreKnown
    CallsReachTheirFunction
CHECK_DEADLOCK FALSE
