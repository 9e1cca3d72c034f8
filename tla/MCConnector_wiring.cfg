CONSTANTS
  RetryLimit <- MCRetryLimit
SPECIFICATION Spec
CHECK_DEADLOCK FALSE
INVARIANT PeerFullyWired
