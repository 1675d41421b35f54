SPECIFICATION ProfilerSpec
CONSTANTS
    t1 = t1
    t2 = t2
    t3 = t3
    A = A
    B = B
    C = C
    None = None
    Threads = {t1, t2, t3}
    Names = {A, B, C}
    MaxDepth = 3
INVARIANTS CrashIffCycle ReportIsCycle NoUnseenDeadlock
PROPERTY SearchShrinks
SYMMETRY Symmetry
CHECK_DEADLOCK FALSE
