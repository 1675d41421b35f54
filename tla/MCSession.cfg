SPECIFICATION Spec
CONSTANTS
    t1 = t1
    t2 = t2
    s1 = s1
    s2 = s2
    None = None
    Threads = {t1, t2}
    Sessions = {s1, s2}
    WriteGuard = "R"
    Careful = FALSE
    Builds = {TRUE, FALSE}
    Outcomes = {"done", "pending", "refused"}
    MaxSends = 2
    MaxPackets = 2
    MaxLoad = 2
    BufferSize = 1
    BufferCount = 2
INVARIANTS TypeOK OneReceiver CountMatchesSessions RecvFits OneSender NoSendLost
CHECK_DEADLOCK FALSE
SYMMETRY Symmetry
