CONSTANTS
    Pages = 24
    HeapBase = 6
    FirstUid = 1
    InitialMaps <- MCInitialMaps
    StackSizes <- MCStackSizes
    HeapSizes <- MCHeapSizes
    MaxUid = 4
    MaxSteps = 2
    MaxMaps = 8
SPECIFICATION Spec
INVARIANTS
    TypeOK
    ListMatchesObjects
    FetchFindsReady
    SvcSeesItsThread
    NoWorkLost
    BlocksArePrivate
    AnswersAreItsOwn
PROPERTY RunsTheYoungest
CHECK_DEADLOCK FALSE
