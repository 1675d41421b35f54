SPECIFICATION FairSpec
CONSTANTS
    t1 = t1
    t2 = t2
    t3 = t3
    Threads = {t1, t2, t3}
    ThreadId <- LaunchedIds
    Nestings <- NestingsWithWRW
    Mod16 = 10
INVARIANTS TypeOK MutualExclusion FlagMatchesScopes UnlockNeverBlamesCaller
PROPERTIES ImplementsRWLock LoneWaiterAcquires
CHECK_DEADLOCK FALSE
