SPECIFICATION Spec
CONSTANTS
  MaxProjects = 2
  MaxRevision = 4
  Paths = {pa, pb}
  Dirs = {d1, d2}
  NoDir = NoDir
  Keys = {k1, k2}
  Wanted = {"any", "conformance"}
  None = None
  MaxRequests = 3
  MaxMoves = 1
  MaxLosses = 1
SYMMETRY Symmetry
INVARIANTS
  TypeOK
  ClaimsHappened
  ViewIsHosts
  PathsLeadHome
CHECK_DEADLOCK FALSE
