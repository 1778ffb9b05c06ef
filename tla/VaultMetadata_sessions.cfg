CONSTANTS
  Sessions = {s1, s2}
  MaxSlots = 2
  SlotIds = {a, b, c}
  Tags = {t1, t2}
  MaxCommits = 3
  MaxName = 4
  MaxPath = 3
  MaxDepth = 2
  Chars <- MCChars
  Composites <- MCComposites
  NameChars <- MCNameChars
  MaxChars = 4
  MaxCommitEdits = 3
SPECIFICATION Spec
SYMMETRY Symmetry
INVARIANTS
  CredentialsKept
  AcceptedCopyIsCurrent
  OneUmbraKey
  TagsKept
CHECK_DEADLOCK FALSE
