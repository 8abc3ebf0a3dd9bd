SPECIFICATION Spec

CONSTANTS
  MaxNow = 7
  Keep = 1
  HoursPerDay = 3
  ZoneOffset = 0
  Backfills = TRUE

INVARIANTS
  KeepsWindow
  SummariesKept
  SummariesCoverRaw
