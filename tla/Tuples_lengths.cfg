SPECIFICATION FairSpec
CONSTANTS
  Lengths = {0, 1, 2, 255, 256, 257, 300}
  IndexRange = 256
INVARIANTS
  TypeOK
  DroppedOnce
PROPERTIES
  Returns
CHECK_DEADLOCK FALSE
