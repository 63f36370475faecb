SPECIFICATION Spec
CONSTANTS
  A = A
  B = B
  Ends = {A, B}
  Threads = {"main"}
  UpdateThread = "update"
  None = None
  Kinds = {"RELIABLE_ORDERED"}
  Scripts <- InOrder
  FrameSize = 2
  MinWindow = 2
  MaxWindow = 2
  FirstNumber = 0
  FirstIndex = 255
  NetBound <- Links
  AckBound = 1
INVARIANTS
  OrderedIsLater
CHECK_DEADLOCK FALSE
