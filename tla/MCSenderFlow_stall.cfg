CONSTANTS
  MaxData = 3
  SockBuf = 1
SPECIFICATION Spec

PROPERTY AllForwarded
