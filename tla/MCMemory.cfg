SPECIFICATION Spec
CONSTANTS
    t1 = t1
    t2 = t2
    b1 = b1
    b2 = b2
    b3 = b3
    JobData = JobData
    None = None
    Types = {JobData}
    SizeOf <- TypeSizes
    Threads = {t1, t2}
    Blocks = {b1, b2, b3}
    Requests = {1100, 1170, 4000, 4097}
    Steps <- LoopSteps
    Limits <- LoopLimits
    MAX_ALLOC_SIZE = 4096
    HeaderSize = 32
    MaxAllocs = 5
INVARIANTS BlockHasOneHome ReturnsToOrigin CountersSettle HeadersConsistent
SYMMETRY Symmetry
CHECK_DEADLOCK FALSE
