SPECIFICATION Spec
CONSTANTS
    t1 = t1
    t2 = t2
    s1 = s1
    s2 = s2
    None = None
    Threads = {t1, t2}
    Sessions = {s1, s2}
    WriteGuard = "R"
    Careful = TRUE
    Builds = {TRUE}
    Outcomes = {"pending"}
    MaxSends = 0
    MaxPackets = 2
    MaxLoad = 2
    BufferSize = 1
    BufferCount = 2
INVARIANT ReleaseFindsSession
CHECK_DEADLOCK FALSE
