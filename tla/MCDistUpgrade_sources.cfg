SPECIFICATION Spec
CONSTANTS
    Dated = 2
    Last = 2
    AtFirst <- Both
    MaxWork = 2
INVARIANT
    SourcesInstalled
CHECK_DEADLOCK FALSE
