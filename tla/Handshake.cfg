SPECIFICATION FairSpec
CONSTANTS
  c1 = c1
  c2 = c2
  Clients = {c1, c2}
  Knowing = {}
  None = None
  MaxPeers = 1
  Settings <- Commands
  Keys = {1, 2, 3, 4}
  NetBound <- Single
  Copies = FALSE
INVARIANTS
  TypeOK
  OneRequestIsSafe
  HandshakeInv
PROPERTIES
  GhostsLeave
CHECK_DEADLOCK FALSE
