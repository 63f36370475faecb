SPECIFICATION FairSpec
CONSTANTS
  A = A
  B = B
  Ends = {A, B}
  Threads = {"main"}
  UpdateThread = "update"
  None = None
  Kinds = {"RELIABLE", "RELIABLE_ORDERED", "RELIABLE_SEQUENCED", "UNRELIABLE_SEQUENCED"}
  Scripts <- Pairs
  FrameSize = 2
  MinWindow = 1
  MaxWindow = 2
  FirstNumber = 65529
  FirstIndex = 255
  NetBound <- Links
  AckBound = 1
INVARIANTS
  TypeOK
  NothingForgotten
  NewestKept
  AtMostOnce
  TimerRuns
PROPERTIES
  ImplementsChannel
  Delivery
CHECK_DEADLOCK FALSE
