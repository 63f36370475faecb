SPECIFICATION Spec
CONSTANTS
  Clients = {c1, c2}
  None = None
  MaxPlayers = 2
  Nicks = {n1, n2}
  BadNick = BadNick
  NumClasses = 1
  TeamOf <- MCTeamOf
  GameKinds = {}
  ConsoleKicks = FALSE
  QueueBound = 2
  ScoreBound = 1
INVARIANTS
  EveryQuitTold
CHECK_DEADLOCK FALSE
