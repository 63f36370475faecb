SPECIFICATION FairSpec
CONSTANTS
  Clients = {c1, c2}
  None = None
  MaxPlayers = 2
  Nicks = {n1}
  BadNick = BadNick
  NumClasses = 1
  TeamOf <- MCTeamOf
  GameKinds = {"RequestClass", "Spawn", "PlayerSync", "VehicleSync"}
  ConsoleKicks = TRUE
  QueueBound = 2
  ScoreBound = 1
INVARIANTS
  SessionInv
PROPERTIES
  MessagesActOnTheirSender
  DepartedFreed
  JoinAnswered
CHECK_DEADLOCK FALSE
