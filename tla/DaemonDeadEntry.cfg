SPECIFICATION Spec
CONSTANTS
    c1 = c1
    c2 = c2
    Conn = {c1, c2}
    Sess = {s1, s2}
    TheKey = k
    Key <- MCKey
    KeyOf <- MCKeyOf
    Asks <- MCAsksTwo
    Closer = closer
    MayClose = FALSE
    NoSess = nosess
    NoConn = noconn
INVARIANTS ExitedLeaves
CHECK_DEADLOCK FALSE
