SPECIFICATION Spec
CONSTANTS
  TxQueues <- MCOneQueue
  Capacity = 4
  ByteMode = FALSE
  LargestSize = 1
  Ecns <- MCCapable
  Quota = 64
  QuotaMax = 99
  MaxPackets = 8
  MaxRunEvents = 1
  MinTh = 0
  MaxTh = 3
  InstantQueue = TRUE
  IsGentle = FALSE
  IsWait = TRUE
  IsNs1Compat = FALSE
  UseEcn = TRUE
  UseHardDrop = FALSE
  LInterm = 2
  MaxCount = 8
  UseRandomPeek = TRUE
INVARIANTS
  NoStall EachMarkCountedOnce EarlySignalsSpaced
PROPERTIES
  ForcedArrivalSignals CapableLostOnlyWhenFull
