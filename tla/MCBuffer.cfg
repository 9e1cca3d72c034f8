CONSTANTS
  Lanes <- MCLanes
  Blocks <- MCBlocks
  PageSize = 2
  CacheSize = 2
  MaxBytes = 8
  MaxChunk = 3
  Nil = Nil

SPECIFICATION Spec

INVARIANT TypeOK
INVARIANT BlocksAccounted
PROPERTY FanOutRefinement
PROPERTY AllCommittedDelivered
