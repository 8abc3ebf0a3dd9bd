SPECIFICATION FairSpec

CONSTANTS
  MaxHeight = 4
  SettlementHeights = {3, 4}
  EventBufferSize = 1
  WireCapacity = 1
  MaxLag = 0
  Retries = 0
  LiveCatchup = TRUE
  InitialStored = {1}
  Faults = {"rpc", "store", "signal", "crash"}
  MaxSessions = 2

INVARIANTS
  LiveAccounting
  CountedOnce
  RestartRecovers

PROPERTIES
  ShutdownCompletes
