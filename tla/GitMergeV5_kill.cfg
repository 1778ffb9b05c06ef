SPECIFICATION Spec
CONSTANTS
  Procs = {p1, p2}
  NoProc = NoProc
  NoTx = NoTx
  Kinds = {"inPlace", "detected", "splitOurs", "splitTheirs"}
  MaxRuns = 3
  MaxGits = 1
  MaxEdits = 1
  MaxFaults = 1
  MaxKills = 1
  MaxRecoveries = 3
  MaxForeign = 2
  MaxLosses = 0
INVARIANTS RecoverableAfterKill
PROPERTIES GitChangesKept EditsKept RefusesOnlyDisturbed
SYMMETRY Interchangeable
CHECK_DEADLOCK FALSE
