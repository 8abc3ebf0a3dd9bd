SPECIFICATION Spec

CONSTANTS
  MaxHeight = 4
  SettlementHeights = {2, 3, 4}
  EventBufferSize = 1
  WireCapacity = 1
  MaxLag = 0
  Retries = 0
  LiveCatchup = FALSE
  InitialStored = {1}
  Faults = {"crash"}
  MaxSessions = 2

INVARIANTS
  GapClosedAfterRestart
