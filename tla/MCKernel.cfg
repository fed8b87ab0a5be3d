CONSTANTS
    MAX_THREADS <- MCMaxThreads
    COUNTER_MOD <- MCCounterMod
    NUM_STACKS <- EnoughStacks
    PREEMPTION_ENABLED = TRUE
    TICK_IN_CREATE = FALSE
SPECIFICATION FairSpec
INVARIANTS
    CpuFollowsScheduler
    ReadyThreadsAreResumable
    StacksAreAccountedFor
    Rsp0BelongsToUser
PROPERTIES
    ExitedThreadsAreReclaimed
    CreatedThreadsRun
