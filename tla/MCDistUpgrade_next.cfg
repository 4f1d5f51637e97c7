SPECIFICATION FairSpec
CONSTANTS
    Dated = 2
    Last = 2
    AtFirst <- Both
    MaxWork = 2
INVARIANTS
    TypeOK
    HoldTraced
    HeldThroughout
    PutBackAtEnd
    OneBehind
PROPERTIES
    Continued
CHECK_DEADLOCK FALSE
