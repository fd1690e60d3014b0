CONSTANTS
    Pages = 16
    HeapBase = 6
    Layouts <- MCLayouts
    Requests <- SmallRequests
    MaxMaps = 6
SPECIFICATION Spec
INVARIANTS
    TypeOK
    SoundList
    NoOverlap
    HostAndGuestAgree
    BlocksGuarded
CHECK_DEADLOCK FALSE
