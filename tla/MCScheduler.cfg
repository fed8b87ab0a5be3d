CONSTANTS
    MAX_THREADS <- MCMaxThreads
    COUNTER_MOD <- MCCounterMod
SPECIFICATION FairSpec
INVARIANTS
    QueueIsReadySet
    OnlyCurrentRuns
    IdleStaysAvailable
PROPERTIES
    NeverReapCurrent
    ImplementsRoundRobin
    ReadyThreadsRun
