SPECIFICATION Spec
CONSTANTS
  A = A
  B = B
  Ends = {A, B}
  Threads = {"main"}
  UpdateThread = "update"
  None = None
  Kinds = {"RELIABLE"}
  Scripts <- Burst
  FrameSize = 2
  MinWindow = 2
  MaxWindow = 2
  FirstNumber = 0
  FirstIndex = 0
  NetBound <- OneByOne
  AckBound = 1
INVARIANTS
  OldestGoesOut
CHECK_DEADLOCK FALSE
