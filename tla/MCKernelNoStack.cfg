CONSTANTS
    MAX_THREADS <- MCMaxThreads
    COUNTER_MOD <- MCCounterMod
    NUM_STACKS <- ScarceStacks
    PREEMPTION_ENABLED = TRUE
    TICK_IN_CREATE = FALSE
SPECIFICATION Spec
INVARIANT NoGhostThreads
