SPECIFICATION Spec
CONSTANTS
  Segments = 3
  OwnSegments = 3
  Window = 2
  DelAckMaxCount = 3
  InOrder = FALSE
INVARIANTS
  BufferExact OnlyOneLeftOut OnlyRewindingUntimed EchoOnlyMarks
PROPERTIES
  OncePerWindow
