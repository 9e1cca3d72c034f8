CONSTANTS
  RetryLimit <- MCRetryLimit
SPECIFICATION Spec
CHECK_DEADLOCK FALSE
INVARIANT TypeOK NoStaleRelease ReleasedOrOwned RegistryWhole
PROPERTY AddPeerReturns
