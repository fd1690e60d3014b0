CONSTANTS
    Pages = 16
    HeapBase = 6
    Layouts <- MCLayouts
    Requests <- AnyRequests
    MaxMaps = 4
SPECIFICATION Spec
INVARIANT GapIsAvailable
CHECK_DEADLOCK FALSE
