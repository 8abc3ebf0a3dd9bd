SPECIFICATION FairSpec

CONSTANTS
  Blocks = {1, 2, 4}
  QuietBlocks = {}
  SlashBlocks = {2}
  BlocksPerHour = 2
  HoursPerDay = 2
  Summaries = {"hour", "day"}
  ChannelSize = 2
  MaxRetries = 1
  MaxConcurrent = 1
  CatchUp = FALSE

INVARIANTS
  TypeOK
  MessageAccounting
  SummariesExact

PROPERTIES
  StopReturns
