SPECIFICATION FairSpec
CONSTANTS
    t1 = t1
    t2 = t2
    qa = qa
    qb = qb
    a1 = a1
    a2 = a2
    b1 = b1
    None = None
    Threads = {t1, t2}
    Queues = {qa, qb}
    Jobs = {a1, a2, b1}
    Owner <- OwnerAB
    Spawns <- SpawnsOne
    WriteGuard = "W"
    Slice = 1
    MaxTick = 3
    MaxClears = 1
INVARIANTS TypeOK OneRunner CountMatchesJobs
PROPERTIES ImplementsExecutor EveryJobRuns
