CONSTANTS
    ARENA <- SmallArena
    Sizes <- MCSizes
    Aligns <- MCAligns
    MAX_ALIGN <- MCMaxAlign
    Clears = {TRUE}
    FREE_INSIDE = TRUE
SPECIFICATION Spec
PROPERTY BadFreesAreRefused
