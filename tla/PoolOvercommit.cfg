SPECIFICATION Spec
CONSTANTS
    v1 = v1
    v2 = v2
    n1 = n1
    Volumes = {v1, v2}
    Snaps = {n1}
    SourceOf <- MCSourceOf
    NumShares = 1
    TotalGB = 2
    Sizes = {1, 2}
    MaxGB = 2
    Strategy = "spread"
    MaxCalls = 2
    MaxFaults = 0
INVARIANT NeverOvercommitted
