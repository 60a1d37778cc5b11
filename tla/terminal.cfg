SPECIFICATION Spec
CONSTANTS
  Sockets = {s1, s2}
  MaxInputs = 2
  MaxResizes = 1
  MaxInbox = 1
  MaxOutput = 2
  Buffered = 1
  MaxOpens = 1
  Nobody = Nobody
INVARIANTS
  TypeOK
  OutputInOrder
  InputKept
  RevokedSocketsClose
  ExitIsRetained
CHECK_DEADLOCK FALSE
