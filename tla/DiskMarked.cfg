SPECIFICATION Spec
CONSTANTS
    Snaps = {s1, s2}
    Base = base
    None = none
    MaxSnapshots = 2
    Lags = {}
    Late = TRUE
    Restores = FALSE
    MaxWrites = 1
    MaxStarts = 1
    MaxFaults = 0
CHECK_DEADLOCK FALSE
INVARIANT JobOnlyWhenStopped
