SPECIFICATION Spec
CONSTANTS
  MaxData = 12
  MaxChunk = 8
  Streams <- MCStreams
INVARIANT TypeOK
INVARIANT DecodedAsSent
INVARIANT FramingInSync
PROPERTY AllLogged
