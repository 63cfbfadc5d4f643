SPECIFICATION FairSpec
CONSTANTS
    c1 = c1
    c2 = c2
    Conn = {c1}
    Sess = {s1, s2}
    TheKey = k
    Key <- MCKey
    KeyOf <- MCKeyOf
    Asks <- MCAsksOne
    Closer = closer
    MayClose = TRUE
    NoSess = nosess
    NoConn = noconn
INVARIANTS KilledIsDead
PROPERTIES KillReturns ExitDelivered ConnLeaves CloseReturns
CHECK_DEADLOCK FALSE
