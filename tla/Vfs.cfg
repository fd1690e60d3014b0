CONSTANTS
    Inputs <- MCInputs
    MountNames = {"ux0", "ur0"}
    MaxNodes = 4
SPECIFICATION Spec
INVARIANTS
    TypeOK
    ParentsAgree
    FoundWhereCreated
PROPERTIES
    ImplementsTree
CHECK_DEADLOCK FALSE
