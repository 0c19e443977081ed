SPECIFICATION AllSpec
CONSTANTS
  Tree <- Backup
  Requests <- FileRestores
  Tries = 2
  Again = FALSE
  Heard = TRUE
  Persons = 1
  Troubles = 2
INVARIANT AllOrNone
CHECK_DEADLOCK FALSE
