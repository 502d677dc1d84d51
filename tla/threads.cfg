CONSTANTS
    Addr = {a1, a2}
    MaxTimers = 2
    Delays = {0}
    Intervals = {1}
    MaxTime = 2
    Threads = {t1}
    MaxCalls = 3
    w1 = w1
    w2 = w2
    Workers <- MCWorkers
    Producers = {p1, p2}
    MaxTasks = 2
    maxSize = 1
    MaxLines = 4
    kLargeBuffer = 2
    MaxBuffers = 2
    rollSize_ = 2
    checkEveryN_ = 2
    flushInterval_ = 0
    kRollPerSeconds_ = 2
    MaxSeconds = 3
SPECIFICATION Spec
INVARIANTS
    NoLostWakeup TimerInv
    PoolInv NoMissedWakeup
    LogFileInv
PROPERTIES
    LoopServes PoolServes LinesReachDisk
CHECK_DEADLOCK FALSE
