CONSTANTS
    MAX_THREADS = 7
    COUNTER_MOD = 1
    Thread <- ThreadId
    Boot = 0
    COUNTER = COUNTER
    ROUND_ROBIN_LOCK = ROUND_ROBIN_LOCK
    FrameLock = FRAME_ALLOCATOR
    Lock = {COUNTER, ROUND_ROBIN_LOCK, FRAME_ALLOCATOR}
    NoLock = NoLock
    LOCK_WORKERS = 2
    LOCK_INCREMENTS = 1
    ROUND_ROBIN_WORKERS = 1
    ROUND_ROBIN_ROUNDS = 1
    PREEMPTION_TICK_BUDGET = 2
    WANTED_TICKS = 3
    FREE_FRAMES = 40
    IST_PAGES = 2
    THREAD_STACK_PAGES = 4
    USER_STACK_PAGES = 1
SPECIFICATION Spec
INVARIANT
    FramesReturn
