CONSTANTS
    ADDRESS_SPACE <- MCAddressSpace
    PAGE_SIZE <- MCPageSize
    MAX_SEGMENTS <- MCMaxSegments
    MAX_PAGES <- MCMaxPages
    STACK_PAGES <- MCStackPages
    MAX_REPAIRS <- MCMaxRepairs
    MAX_STRAYS <- MCMaxStrays
    Disks <- MCDisks
    FreeSets <- MCFreeSets
SPECIFICATION Spec
INVARIANTS
    OnlyOwnPagesWritten
    ImagesStayLoaded
    HandoffIsConsistent
    GoodImagesLoad
