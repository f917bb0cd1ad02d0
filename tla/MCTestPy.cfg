SPECIFICATION FairSpec
CONSTANTS
  Workers = {w1, w2}
  NJobs = 4
  Examples = {3}
  Skipped = {2}
  Codes = {0, 139}
  Break = Break
  MayRaise = TRUE
CHECK_DEADLOCK FALSE
INVARIANTS
  ExitSound NoJobLeftBehind StopsAfterInterrupt SpoiltOnlyByGarbledCrash
PROPERTIES
  RunEnds
