SPECIFICATION FairSpec

CONSTANTS
  MaxHeight = 3
  MaxGaps = 2
  Retries = 1
  RequestedFroms = {0, 1, 3}
  LiveCatchup = TRUE

INVARIANTS
  CompleteMeansStored
  StartupClosesGap

PROPERTIES
  RangesEnd
  StartupEnds
