SPECIFICATION FairSpec
CONSTANTS
    Conn = {c1}
    Raw = {r1}
    RingMax = 2
    OutCap = 3
    RawCap = 2
    MaxOut = 3
    NoConn = noconn
INVARIANTS TypeOK StreamExact RawExact RawTracked
PROPERTIES OutputFlows DropCompletes ExitCompletes
CHECK_DEADLOCK FALSE
