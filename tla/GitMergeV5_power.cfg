SPECIFICATION Spec
CONSTANTS
  Procs = {p1, p2}
  NoProc = NoProc
  NoTx = NoTx
  Kinds = {"inPlace", "detected", "splitOurs", "splitTheirs"}
  MaxRuns = 3
  MaxGits = 1
  MaxEdits = 1
  MaxFaults = 0
  MaxKills = 0
  MaxRecoveries = 3
  MaxForeign = 2
  MaxLosses = 2
INVARIANTS LossLeavesMerge
PROPERTY MergeAcknowledged
CHECK_DEADLOCK FALSE
SYMMETRY Interchangeable
