SPECIFICATION AllSpec
CONSTANTS
  None = None
  MaxBlocks = 2
  Values = {0, 1}
  MaxMoments = 3
  MaxFaults = 1
  Modes = {"receiver", "direct"}
  Policies = {"b1"}
  Volumes = {"v1"}
  ListOrder <- OneVolume
  Selects <- Picked
  Picks <- Picked
  Prefix <- SameName
  ReceiverMode = {}
  Machines = {"v1"}
  Chained = {}
  Breakable = {}
  MaxParallel = 1
  MaxRetries = 1
  Troubles = 1
  Deletable = {"b1"}
CONSTRAINT Bounded
INVARIANTS NeverMixed ReceiverRewinds FailoverRight ReadersSeen
CHECK_DEADLOCK FALSE
