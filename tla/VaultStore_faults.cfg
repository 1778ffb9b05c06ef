SPECIFICATION FairSpec
CONSTANTS
  d1 = d1  d2 = d2  dirA = dirA  dirB = dirB
  Procs = {p1, p2}
  Docs = {d1, d2}
  Dirs = {dirA, dirB}
  Parent <- TwoParents
  Local = Local
  Journal = Journal
  NoProc = NoProc
  Absent = Absent
  Seed = {d1}
  MaxOps = 2
  MaxFaults = 2
  MaxKills = 1
  MaxLosses = 2
INVARIANT JournalRecoverable
PROPERTY ImplementsAtomicVault
PROPERTY SourceOutlivedByDestination
PROPERTY AcknowledgedIsDurable
PROPERTY OperationTerminates
PROPERTY NoLostUpdate
PROPERTY RefusedLeavesNoTrace
CHECK_DEADLOCK FALSE
