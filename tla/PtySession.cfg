SPECIFICATION Spec
CONSTANTS
    Caller = {c1, c2}
    Sizes = {0, 1, 2}
    Word = 2
    MaxOut = 2
    MaxReplies = 1
    Free = free
INVARIANTS TypeOK WaitCode SizesAgree
PROPERTIES Promise OutputProcessed KillReturns LockReleased NoLeak ExitAnnounced
CHECK_DEADLOCK FALSE
