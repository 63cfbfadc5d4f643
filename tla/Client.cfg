SPECIFICATION Spec
CONSTANTS
    Caller = {c1, c2}
    MaxId = 3
    MaxEvents = 2
    EventCap = 1
INVARIANTS TypeOK ReplyMatches NoReplyStrays
PROPERTIES CallEnds EventsEnd
CHECK_DEADLOCK FALSE
