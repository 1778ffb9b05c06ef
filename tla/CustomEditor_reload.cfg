CONSTANTS
  Overlap = FALSE
  StaleBackup = FALSE
  MaxTyped = 2
  MaxOthers = 1
  MaxPages = 1
  MaxStarted = 0
  MaxSessions = 2
SPECIFICATION Spec
INVARIANTS
  PageShowsModel
CHECK_DEADLOCK FALSE
