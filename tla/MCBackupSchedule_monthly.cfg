CONSTANTS
    r1 = r1
    r2 = r2
    HoursPerDay = 24
    DaysPerWeek = 7
    MonthDays <- realMonths
    Sunday = 0
    RunAtHour = 2
    Keep <- defaultKeep
    Runners = {r1}
    Beginning = 734
    Skips = {840}
    MaxTime = 1590
    MaxFailures = 0
    MaxBack = 0
SPECIFICATION Spec
CHECK_DEADLOCK FALSE
INVARIANT
    MonthlyCatchesUp
