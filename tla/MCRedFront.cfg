SPECIFICATION FrontSpec
CONSTANTS
  TxQueues <- MCTwoQueues
  Capacity = 3
  ByteMode = FALSE
  LargestSize = 1
  Ecns <- MCMixed
  Quota = 64
  QuotaMax = 99
  MaxPackets = 4
  MaxRunEvents = 1
  MinTh = 1
  MaxTh = 2
  InstantQueue = TRUE
  IsGentle = FALSE
  IsWait = TRUE
  IsNs1Compat = TRUE
  UseEcn = TRUE
  UseHardDrop = FALSE
  LInterm = 2
  MaxCount = 5
INVARIANTS
  SentCounterExact
PROPERTIES
  ImplementsAqmQueue
