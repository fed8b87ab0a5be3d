CONSTANTS
    MAX_THREADS <- MCMaxThreads
    COUNTER_MOD <- MCCounterMod
    NUM_STACKS <- EnoughStacks
    PREEMPTION_ENABLED = TRUE
    TICK_IN_CREATE = TRUE
SPECIFICATION Spec
INVARIANT CpuFollowsScheduler
