SPECIFICATION Spec
CONSTANTS
  Procs = {p1}
  NoProc = NoProc
  NoTx = NoTx
  Kinds = {"inPlace"}
  MaxRuns = 3
  MaxGits = 0
  MaxEdits = 0
  MaxFaults = 1
  MaxKills = 0
  MaxRecoveries = 3
  MaxForeign = 2
  MaxLosses = 1
INVARIANT RecoverableAfterPowerLoss
CHECK_DEADLOCK FALSE
