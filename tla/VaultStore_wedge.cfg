SPECIFICATION Spec
CONSTANTS
  d1 = d1  d2 = d2  dirA = dirA  dirB = dirB
  Procs = {p1, p2}
  Docs = {d1, d2}
  Dirs = {dirA, dirB}
  Parent <- TwoParents
  Local = Local
  Journal = Journal
  NoProc = NoProc
  Absent = Absent
  Seed = {d1}
  MaxOps = 2
  MaxFaults = 0
  MaxKills = 1
  MaxLosses = 1
INVARIANT CommittedRenameFinishes
SYMMETRY Interchangeable
CHECK_DEADLOCK FALSE
