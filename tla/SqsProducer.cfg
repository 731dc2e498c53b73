SPECIFICATION FairSpec
CONSTANTS
  MaxBatchLength = 2
  MaxBatchSize = 4
  Sizes = {1, 2, 3, 4, 5}
  MaxEntries = 4
INVARIANTS TypeOK BatchesWithinLimits OrderKept ResultIsExact AllOrNothingValid ThrowsExactlyForCause
PROPERTY SentInOrder CallEnds
CHECK_DEADLOCK FALSE
