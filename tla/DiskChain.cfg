SPECIFICATION Spec
CONSTANTS
    Snaps = {s1, s2}
    Base = base
    None = none
    MaxSnapshots = 2
    Lags = {"restores"}
    Late = TRUE
    Restores = TRUE
    MaxWrites = 1
    MaxStarts = 1
    MaxFaults = 1
CHECK_DEADLOCK FALSE
CONSTRAINT Followed
SYMMETRY SnapSymmetry
INVARIANT JobsApart
INVARIANT SnapshotIntact
INVARIANT DiskKept
INVARIANT RestoreRight
