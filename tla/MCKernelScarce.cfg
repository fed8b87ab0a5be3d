CONSTANTS
    MAX_THREADS <- MCMaxThreads
    COUNTER_MOD <- MCCounterMod
    NUM_STACKS <- FewStacks
    PREEMPTION_ENABLED = TRUE
    TICK_IN_CREATE = FALSE
SPECIFICATION Spec
INVARIANT StacksAreAccountedFor
