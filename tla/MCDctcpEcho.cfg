SPECIFICATION Spec
CONSTANTS
  Segments = 3
  OwnSegments = 0
  Window = 2
  DelAckMaxCount = 2
  InOrder = TRUE
INVARIANTS
  MarksEchoed
CHECK_DEADLOCK FALSE
