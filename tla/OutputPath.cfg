SPECIFICATION Spec
CONSTANTS
    RingMax = 3
    Bytes = {"ESC", "[", "u"}
    MaxLen = 7
    MaxChunk = 4
    MaxFrame = 2
    Window = 2
    NoPattern <- MCNone
    Options <- MCOptions
INVARIANTS TypeOK RingIsNewest RewritingIgnoresChunks ReportsExact
CHECK_DEADLOCK FALSE
