SPECIFICATION FairSpec

CONSTANTS
  MaxHeight = 4
  MaxTime = 5
  DayLength = 2

INVARIANTS
  SearchCorrect

PROPERTIES
  SearchEnds
