SPECIFICATION ServerFairSpec
CONSTANTS
    w1 = w1
    w2 = w2
    Main = Main
    None = None
    Workers = {w1, w2}
    Mod16 = 4
    maxSessionCount = 2
    MaxCreated = 3
INVARIANTS LockOwnersDistinct NoThreadForgotten OneAcceptPerEvent
PROPERTY JoinReturns
CHECK_DEADLOCK FALSE
