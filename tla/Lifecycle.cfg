SPECIFICATION FairSpec
CONSTANTS
  NumClasses = 3
  MaxMessages = 5
INVARIANTS
  TypeOK
  Agreement
  ClassAgreed
  LifecycleInv
PROPERTIES
  ClassAnswered
  Told
CHECK_DEADLOCK FALSE
