CONSTANTS
  MaxViews = 2
  MaxTyped = 1
  MaxSaves = 2
  MaxOthers = 1
  MaxClients = 2
SPECIFICATION Spec
INVARIANTS StatusIsTrue PlaintextOfSession
PROPERTIES OverwriteConfirmed EditReachesDisk
CHECK_DEADLOCK FALSE
