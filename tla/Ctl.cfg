SPECIFICATION Spec
CONSTANTS
    Sizes <- MCSizes
    Typeable <- MCTypeable
    Starts <- MCStarts
    UpCap = 2
    Environ <- MCEnviron
    AttachLines <- MCAttachLines
    OtherLines <- MCOtherLines
INVARIANTS DetachExact RequestExact
PROPERTIES SizeFollows 
CHECK_DEADLOCK FALSE
