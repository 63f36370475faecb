SPECIFICATION Spec
CONSTANTS
  c1 = c1
  c2 = c2
  Clients = {c1, c2}
  Knowing = {}
  None = None
  MaxPeers = 1
  Settings <- Commands
  Keys = {1, 2, 3, 4}
  NetBound <- Double
  Copies = FALSE
INVARIANTS
  NoFalseAlarm
CHECK_DEADLOCK FALSE
