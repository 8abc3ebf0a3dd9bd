SPECIFICATION ReadySpec

CONSTANTS
  MaxHeight = 5
  SettlementHeights = {2, 3, 4, 5}
  EventBufferSize = 2
  WireCapacity = 2
  MaxLag = 0
  OpsEnabled = TRUE
  StoreMayFail = TRUE

INVARIANTS
  ReadyTypeOK
  NoFalseGap
  OrderedEvents
  ReadyAgrees

PROPERTIES
  ReadyHeals
  ServerFailureStops
