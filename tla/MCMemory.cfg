CONSTANTS
    ADDRESS_SPACE <- MCAddressSpace
    ENTRIES <- MCEntries
    PD_COUNT <- MCPdCount
    FINE_BLOCKS <- MCFineBlocks
    USER_TABLE_PAGES <- MCUserTablePages
    MIN_FREE_ADDR <- MCMinFree
    Maps <- MCMaps
    ReservedSets <- MCReservedSets
    HEAP_FRAMES <- MCHeapFrames
    Counts <- MCCounts
    MAX_HELD <- MCMaxHeld
    Images <- MCImages
    USER_STACK_PAGES <- MCUserStackPages
SPECIFICATION Spec
INVARIANTS
    SelfCheckPasses
    FreeCountIsExact
    HeldFramesAreUsed
    OnlyOwnFrames
    ScanIsFirstFit
    IdentityMap
    FramesAreMapped
    UserSeesOnlyItself
