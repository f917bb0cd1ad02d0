SPECIFICATION FairSpec
CONSTANTS
  Delays = {0, 3}
  SpinJiffies = 1
  IdleDelay = 2
  Second = 100
  Start = 1
  MaxEvents = 3
  MaxTime = 5
  MaxRuns = 1
CHECK_DEADLOCK FALSE
INVARIANTS
  NoOversleep NothingInThePast
PROPERTIES
  EveryEventRuns
