SPECIFICATION Spec
CONSTANTS
  Types = {"heap"}
  RemovableIn = {"heap"}
  Delays = {0, 1}
  MaxEvents = 7
  MaxPending = 0
  MaxSwitches = 0
CHECK_DEADLOCK FALSE
PROPERTIES
  TimeMonotone
