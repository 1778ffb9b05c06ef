CONSTANTS
  Sessions = {s1, s2}
  Searchers = {s1}
  Paths = {p, q}
  Bodies = {clean, marked}
  Marked = {marked}
  None = None
  MaxWrites = 3
  Letters <- MCLetters
  SlotIds = {"p1", "p2"}
  Alphabet <- MCAlphabet
  Words = {"a", "s", "ss"}
  Lines = {"a", "smile", "CR", "LF"}
  MaxText = 4
SPECIFICATION Spec
SYMMETRY PathSymmetry
INVARIANTS
  IdentityUnique
  
PROPERTIES
  EditsApplyToShown
  UmbraNeverDowngraded
  UnresolvedStaysFlagged
CHECK_DEADLOCK FALSE
