SPECIFICATION Spec

CONSTANTS
  LiveBlocks = {6, 7}
  BackfillBlocks = {3, 4}
  InitialRaw = {3, 5}
  BlocksPerHour = 2
  HoursPerDay = 2
  Services = 1
  Delayed = {3, 5, 6}
  ZoneOffset = 1
  MayFail = TRUE

INVARIANTS
  TypeOK
  LiveSummaries
  RecalculationRepairs
