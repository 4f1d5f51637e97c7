CONSTANTS
    o1 = o1
    o2 = o2
    o3 = o3
    x = x
    y = y
    a = a
    b = b
    c1 = c1
    c2 = c2
    NoOp = NoOp
    Free = Free
    Ids = {x, y}
    Apps = {a, b}
    Callers = {c1, c2}
    Ops = {o1, o2, o3}
    OpId <- mcOpId
    OpApp <- mcOpApp
    Silent = {o1}
    Notifying = {o2}
    Reusing = {o3}
SPECIFICATION FairSpec
CHECK_DEADLOCK FALSE
INVARIANTS
    TypeOK
    Serialised
    LostOnlyToSilent
    StallsOnlyAfterDeath
    UniqueInFlight
PROPERTIES
    ImplementsSerialJobs
    JoinMeansCompleted
    EveryOperationCompletes
    JoinersReturn
