CONSTANTS
    Nids <- MCNids
    Entries <- MCEntries
    Programs <- MCPrograms
    HleModules <- MCHleModules
    Pages = 24
    HeapBase = 6
    FirstUid = 1
    InitialMaps <- MCInitialMaps
    StackSizes <- MCStackSizes
    HeapSizes <- MCHeapSizes
    MaxUid = 2
    MaxSteps = 2
    MaxMaps = 6
    AllocMemBlock = "alloc"
    GetThreadId = "thread"
    GetTLSAddr = "tls"
SPECIFICATION Spec
INVARIANTS
    GuestRunsResolved
    AnswersFitTheStub
PROPERTIES
    EntryThreadRuns
    MainEnds
CHECK_DEADLOCK FALSE
