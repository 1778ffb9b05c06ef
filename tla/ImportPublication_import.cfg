SPECIFICATION Spec
CONSTANTS
  Procs = {p1, p2}
  NoProc = NoProc
  MaxCandidates = 2
  Attempts = 2
  MaxEdits = 1
  MaxTroubles = 2
  MaxIntrusions = 2
INVARIANTS LossLeavesWholeClaim SuccessIsSettled ClaimsCanBeSettled
PROPERTIES SettledAsImported
SYMMETRY Interchangeable
CHECK_DEADLOCK FALSE
