SPECIFICATION FairSpec
CONSTANTS
    t1 = t1
    t2 = t2
    q1 = q1
    None = None
    Threads = {t1, t2}
    Queues = {q1}
    Delays = {0, 1}
    WriteGuard = "R"
    MaxJobs = 2
    MaxTick = 2
    MaxRounds = 0
INVARIANTS JobDataHasOneHome DeliveredInOrder
PROPERTY EveryTimerFires
CHECK_DEADLOCK FALSE
