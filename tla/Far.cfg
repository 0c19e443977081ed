SPECIFICATION FairSpec
CONSTANT Loses = FALSE
INVARIANTS ReadyIsWhole FarExact StagingSafe ShownIsWhole FailoversAsPlanned
PROPERTIES DoneIsShown FarSettles
CHECK_DEADLOCK FALSE
