SPECIFICATION AllFairSpec
CONSTANTS
  Policies = {"p1"}
  Volumes = {"v1", "v2"}
  ListOrder <- TwoVolumes
  Selects <- Both
  Prefix <- SameName
  ReceiverMode = {"p1"}
  MaxParallel = 1
  MaxRetries = 1
  Machines = {"v1"}
  Chained = {"v1"}
  Breakable = {"p1"}
  Troubles = 1
  s1 = s1
  s2 = s2
  base = base
  None = None
INVARIANTS SyncedIsWhole
PROPERTIES CopiesSettle
CHECK_DEADLOCK FALSE
