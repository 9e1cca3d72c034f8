CONSTANTS
  Peers <- MCPeers
  NoPeer = NoPeer
  MaxAttempts = 3
  PagesPerWrite = 2
SPECIFICATION Spec
INVARIANT TypeOK
PROPERTY BlockedHolderReleases
CHECK_DEADLOCK FALSE
