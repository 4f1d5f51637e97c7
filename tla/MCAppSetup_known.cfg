CONSTANTS
    e = e
    n = n
    AppList <- mcOneApp
    Essential = {}
    Interested = {n}
    Forcible = {}
    Declining = {}
    CodeVersion = 1
    UserApps = {}
    Attempts = 2
    MaxPkg = 2
    MaxFailures = 1
    MaxRestarts = 0
SPECIFICATION Spec
CHECK_DEADLOCK FALSE
INVARIANT
    KnownIsProcessed
