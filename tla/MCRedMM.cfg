SPECIFICATION MMSpec
CONSTANTS
  TxQueues <- MCOneQueue
  Capacity = 4
  ByteMode = FALSE
  LargestSize = 1
  Ecns <- MCCapable
  Quota = 64
  QuotaMax = 99
  MaxPackets = 5
  MaxRunEvents = 1
  MinTh = 1
  MaxTh = 2
  InstantQueue = TRUE
  IsGentle = FALSE
  IsWait = TRUE
  IsNs1Compat = FALSE
  UseEcn = TRUE
  UseHardDrop = FALSE
  LInterm = 2
  MaxCount = 5
  FrontTh = 3
INVARIANTS
  NoStall StatisticsAgree
