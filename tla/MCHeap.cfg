CONSTANTS
    ARENA <- SmallArena
    Sizes <- MCSizes
    Aligns <- MCAligns
    MAX_ALIGN <- MCMaxAlign
    Clears = {TRUE}
    FREE_INSIDE = FALSE
SPECIFICATION Spec
INVARIANTS
    BlocksTileTheArena
    ListIsSortedAndMerged
    StatsAccountForTheArena
    RefusedMeansNoRoom
PROPERTY BadFreesAreRefused
