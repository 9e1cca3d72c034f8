CONSTANTS
  Peers <- MCPeers
  NoPeer = NoPeer
  MaxAttempts = 3
  PagesPerWrite = 2
SPECIFICATION Spec
PROPERTY NoInnocentCancel
CHECK_DEADLOCK FALSE
