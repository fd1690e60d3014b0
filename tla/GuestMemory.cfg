CONSTANTS
    Pages = 16
    HeapBase = 6
    PageBytes = 4
    ByteValues = 16
    WordBytes = 2
    FramebufferBytes = 3
    Image <- MCImage
    Addresses <- MCAddresses
    Lengths <- MCLengths
    Characters = {25}
    BlockSizes = {3, 4}
    MaxMaps = 6
    MaxCalls = 3
SPECIFICATION Spec
INVARIANTS
    TypeOK
    RangeCheckHolds
PROPERTIES
    ImplementsFlat
CHECK_DEADLOCK FALSE
