SPECIFICATION Spec
CONSTANTS
    t1 = t1
    t2 = t2
    c1 = c1
    c2 = c2
    c3 = c3
    None = None
    Threads = {t1, t2}
    Chunks = {c1, c2, c3}
    ChunkSize = 3
    Sizes = {1, 2, 4}
    WriteGuard = "R"
    Debug = TRUE
    MaxOpens = 4
INVARIANTS TypeOK DisjointRegions ChunkHasOneHome
SYMMETRY Symmetry
CHECK_DEADLOCK FALSE
