SPECIFICATION Spec
CONSTANTS
  MaxData = 12
  MaxChunk = 8
  Streams <- MCBadLength
INVARIANT DecodeErrorContained
