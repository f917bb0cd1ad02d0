SPECIFICATION Spec
CONSTANTS
  Types = {"list", "heap", "calendar"}
  RemovableIn = {"list", "calendar"}
  Delays = {0, 1, 2}
  MaxEvents = 4
  MaxPending = 1
  MaxSwitches = 1
CHECK_DEADLOCK FALSE
INVARIANTS
  ExpiredExact FlagTracksList
PROPERTIES
  ImplementsEventQueue
