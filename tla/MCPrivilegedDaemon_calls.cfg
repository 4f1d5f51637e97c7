SPECIFICATION FairSpec
CONSTANTS
    Requests = {r1, r2}
    Kinds <- OtherKinds
    MaxTerms = 1
    MaxGone = 1
INVARIANTS
    TypeOK
    ExitUnnoticed
PROPERTIES
    CallsAnswered
    IdleExits
    ImplementsPrivilegedCalls
CHECK_DEADLOCK FALSE
