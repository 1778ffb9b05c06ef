SPECIFICATION FairSpec
CONSTANTS
  Paths = {p1}
  IdleTimeout = 2
  MaxDocuments = 2
  MaxSize = 2
  MaxChunk = 2
  MaxCaps = 4
  MaxHeader = 14
  MaxFrame = 3
INVARIANT NothingOutlivesSession
INVARIANT StreamExact
INVARIANT PlaintextConfined
PROPERTY DeadStaysDead
PROPERTY ConfirmationSpentOnce
PROPERTY IdleSessionEnds
