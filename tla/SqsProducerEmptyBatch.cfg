SPECIFICATION Spec
CONSTANTS
  MaxBatchLength = 2
  MaxBatchSize = 4
  Sizes = {1, 2, 3, 4, 5}
  MaxEntries = 2
INVARIANT ThrowsOnlyWhenInvalid
CHECK_DEADLOCK FALSE
