SPECIFICATION FairSpec

CONSTANTS
  Heights = {1, 2, 3}
  MaxBatches = 4
  EventBufferSize = 2
  StoreMayFail = TRUE

INVARIANTS
  OneHeightPerFlush
  Conservation

PROPERTIES
  RefinesPipeline
  EventuallyHandled
