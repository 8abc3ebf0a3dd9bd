SPECIFICATION FairSpec

CONSTANTS
  MaxHeight = 4
  SettlementHeights = {2, 3, 4}
  EventBufferSize = 1
  WireCapacity = 1
  MaxLag = 2

INVARIANTS
  GapCoverage
  EmissionAccounting

PROPERTIES
  CancelStops
  Reconnects
  EventuallyEmitted
