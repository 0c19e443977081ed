SPECIFICATION AllFairSpec
CONSTANTS
  Tree <- Backup
  Requests <- FileRestores
  Tries = 2
  Again = FALSE
  Heard = TRUE
  Persons = 1
  Troubles = 2
INVARIANTS FilesWhole  CopiesWhole CompleteIsWhole
PROPERTIES PodDataKept RestoringSettles
CHECK_DEADLOCK FALSE
