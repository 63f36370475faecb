SPECIFICATION Spec
CONSTANTS
  Clients = {c1, c2, c3}
  None = None
  MaxPlayers = 2
  Nicks = {n1, n2}
  BadNick = BadNick
  NumClasses = 1
  TeamOf <- MCTeamOf
  GameKinds = {"Admin", "KickPlayer", "Chat", "PassengerSync"}
  ConsoleKicks = FALSE
  QueueBound = 2
  ScoreBound = 1
SYMMETRY ClientSymmetry
INVARIANTS
  TypeOK
  NoGhostPlayers
  NoOverwrite
  UniqueNicks
  AdminEarned
  TableInv
  SessionInv
  ViewsSound
PROPERTIES
  ImplementsRoster
CHECK_DEADLOCK FALSE
