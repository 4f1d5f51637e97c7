CONSTANTS
    e = e
    n = n
    AppList <- mcOneApp
    Essential = {}
    Interested = {n}
    Forcible = {n}
    Declining <- mcDeclining
    CodeVersion = 1
    UserApps = {n}
    Attempts = 1
    MaxPkg = 2
    MaxFailures = 1
    MaxRestarts = 1
SPECIFICATION Spec
CHECK_DEADLOCK FALSE
INVARIANT
    TypeOK
    KnownUnlessCut
PROPERTY
    RecordMatchesPackages
