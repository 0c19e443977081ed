SPECIFICATION Spec
CONSTANTS
    Volumes = {v1}
    MaxIds = 3
    PerShare = 1
    InitialShares = 1
    MaxShares = 2
    Threshold = 80
    MaxFaults = 1
    MaxAsks = 1
    None = none
CHECK_DEADLOCK FALSE
INVARIANT VolumeHasShare
INVARIANT SharesKnown
VIEW View
CONSTRAINT Bounded
