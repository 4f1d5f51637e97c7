CONSTANTS
    m = m
    n = n
    s = s
    um = um
    wn = wn
    db = db
    ws = ws
    r1 = r1
    r2 = r2
    t1 = t1
    NoUnit = NoUnit
    NoOne = NoOne
    Apps = {m, n, s}
    Units = {um, wn, db, ws}
    Web = {wn, ws}
    Shared = {db}
    Components <- mcComponents
    Threads = {r1, r2, t1}
    MaxFailures = 1
    Runs = {r1, r2}
    Restores = {r2}
    RunApps <- mcRunApps
    Services <- mcServices
    HookUnit <- mcHookUnit
    MaxTasks = 3
SPECIFICATION FairSpec
INVARIANTS TypeOK NoServiceLost QuietCopy LocksReleased SharedKept
PROPERTIES EventuallyRestored
CHECK_DEADLOCK FALSE
