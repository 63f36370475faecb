SPECIFICATION Spec
CONSTANTS
  Clients = {c1, c2}
  None = None
  MaxPlayers = 2
  Nicks = {n1, n2}
  BadNick = BadNick
  NumClasses = 1
  TeamOf <- MCTeamOf
  GameKinds = {"Admin", "KickPlayer", "PassengerSync"}
  ConsoleKicks = FALSE
  QueueBound = 2
  ScoreBound = 1
INVARIANTS
  PassengerIsPlayer
CHECK_DEADLOCK FALSE
