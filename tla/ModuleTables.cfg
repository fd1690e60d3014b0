CONSTANTS
    Nids = {"n1", "n2"}
    Entries = {"s1", "s2", "s3"}
    Unmapped = Unmapped
    Executables <- MCExecutables
SPECIFICATION Spec
INVARIANTS
    TypeOK
    AcceptsGoodTables
    ListedWhenImported
PROPERTIES
    ImplementsDispatch
    LoadEnds
CHECK_DEADLOCK FALSE
