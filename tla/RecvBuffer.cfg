SPECIFICATION Spec
CONSTANTS
    BufferSize = 2
    BufferCount = 3
    MaxBytes = 11
INVARIANTS TypeOK NoWriteOverflow StreamIntact WindowNotStarved
PROPERTY OverlapNeedsBacklog
CHECK_DEADLOCK FALSE
