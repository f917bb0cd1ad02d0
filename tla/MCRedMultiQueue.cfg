SPECIFICATION Spec
CONSTANTS
  TxQueues <- MCTwoQueues
  Capacity = 4
  ByteMode = TRUE
  LargestSize = 2
  Ecns <- MCMixed
  Quota = 2
  QuotaMax = 99
  MaxPackets = 3
  MaxRunEvents = 1
  MinTh = 1
  MaxTh = 2
  InstantQueue = FALSE
  IsGentle = TRUE
  IsWait = FALSE
  IsNs1Compat = TRUE
  UseEcn = TRUE
  UseHardDrop = TRUE
  LInterm = 2
  MaxCount = 5
  UseRandomPeek = FALSE
INVARIANTS
  TypeOK StatisticsAgree SentCounterExact
PROPERTIES
  ImplementsAqmQueue
