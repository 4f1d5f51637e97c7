CONSTANTS
    e = e
    n = n
    AppList <- mcAppList
    Essential = {e}
    Interested = {n}
    Forcible = {n}
    Declining = {}
    CodeVersion = 2
    UserApps = {}
    Attempts = 2
    MaxPkg = 2
    MaxFailures = 1
    MaxRestarts = 1
SPECIFICATION FairSpec
CHECK_DEADLOCK FALSE
INVARIANT
    StartupComplete
PROPERTIES
    StartupConverges
    UpdateHandled
