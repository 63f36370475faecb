SPECIFICATION Spec
CONSTANTS
  Clients = {c1, c2, c3}
  None = None
  MaxPlayers = 2
  Nicks = {n1, n2}
  BadNick = BadNick
  NumClasses = 1
  TeamOf <- MCTeamOf
  GameKinds = {"Spawn", "Death"}
  ConsoleKicks = FALSE
  QueueBound = 2
  ScoreBound = 0
SYMMETRY ClientSymmetry
INVARIANTS
  ViewsSound
  ViewsComplete
PROPERTIES
  MessagesActOnTheirSender
  ImplementsRoster
CHECK_DEADLOCK FALSE
