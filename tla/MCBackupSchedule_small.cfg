CONSTANTS
    r1 = r1
    r2 = r2
    HoursPerDay = 4
    DaysPerWeek = 2
    MonthDays <- smallMonths
    Sunday = 1
    RunAtHour = 1
    Keep <- smallKeep
    Runners = {r1, r2}
    Beginning = 2
    Skips = {1, 5}
    MaxTime = 18
    MaxFailures = 1
    MaxBack = 1
SPECIFICATION Spec
SYMMETRY Symmetry
CHECK_DEADLOCK FALSE
INVARIANTS
    TypeOK
    Spaced
    CatchesUp
PROPERTY
    NewestSurvives
