SPECIFICATION FairSpec
CONSTANTS
  TxQueues <- MCOneQueue
  Capacity = 3
  ByteMode = FALSE
  LargestSize = 2
  Ecns <- MCCapable
  Quota = 64
  QuotaMax = 99
  MaxPackets = 5
  MaxRunEvents = 4
  DevCapacity = 2
  DevByteMode = FALSE
  Mtu = 2
  PppHeader = 1
  HasLimits = TRUE
  MinLimit = 0
  MaxLimit = 4
  Unset = 99
  Leftovers <- MCLeftovers
CHECK_DEADLOCK FALSE
INVARIANTS
  NeverRequeued StopHasWaker WorkConserving DeviceConserves
PROPERTIES
  ImplementsAnyDevice EveryPacketLeaves
