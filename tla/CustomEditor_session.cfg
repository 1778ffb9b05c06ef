CONSTANTS
  Overlap = FALSE
  StaleBackup = FALSE
  MaxTyped = 2
  MaxOthers = 1
  MaxPages = 1
  MaxStarted = 2
  MaxSessions = 2
SPECIFICATION Spec
INVARIANTS
  
  PlaintextOnlyUnlocked

  
  
CHECK_DEADLOCK FALSE
