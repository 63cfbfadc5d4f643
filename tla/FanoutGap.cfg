SPECIFICATION Spec
CONSTANTS
    Conn = {c1}
    Raw = {}
    RingMax = 2
    OutCap = 3
    RawCap = 2
    MaxOut = 3
    NoConn = noconn
INVARIANTS SameBytes
CHECK_DEADLOCK FALSE
