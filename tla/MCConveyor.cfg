CONSTANTS
  Peers <- MCPeers
  PeerOrder <- MCPeerOrder
  Receivers <- MCReceivers
  Senders <- MCSenders
  Loggers <- MCLoggers
  Helpers <- MCHelpers
  Side <- MCSide
  Nil = Nil
SPECIFICATION Spec
CHECK_DEADLOCK FALSE
INVARIANT TypeOK NoUseAfterDrop
PROPERTY DeadFlagsStick
