SPECIFICATION Spec

CONSTANTS
  LiveBlocks = {3}
  BackfillBlocks = {1, 2}
  InitialRaw = {}
  BlocksPerHour = 4
  HoursPerDay = 1
  Services = 1
  Delayed = {}
  ZoneOffset = 0
  MayFail = FALSE

INVARIANTS
  ConcurrentSummaries
