SPECIFICATION Spec
CONSTANTS
    t1 = t1
    t2 = t2
    qa = qa
    qb = qb
    a1 = a1
    a2 = a2
    b1 = b1
    None = None
    Threads = {t1, t2}
    Queues = {qa, qb}
    Jobs = {a1, a2, b1}
    Owner <- OwnerAB
    Spawns <- SpawnsNone
    WriteGuard = "R"
    Slice = 1
    MaxTick = 2
    MaxClears = 0
INVARIANT NoDataRace
CHECK_DEADLOCK FALSE
