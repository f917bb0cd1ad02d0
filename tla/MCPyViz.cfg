SPECIFICATION FairSpec
CONSTANTS
  Periods = {2}
  Timers = {t1, t2, t3}
  None = none
  MaxDepth = 2
  MaxUnshown = 1
INVARIANTS
  NoLostRequest ModelNotAheadOfView PlayingHasTimer PausesExact
PROPERTY QuitCompletes
