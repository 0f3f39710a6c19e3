SPECIFICATION Spec
CONSTANTS
  MaxCalls = 2
  Requests <- MCRequests
  Replies <- MCReplies
  Noise <- MCNoise
  FNIO_TX_LEN_MAX = 3
  MaxFaults = 2
INVARIANTS TypeOK OwnAnswer InStep
CHECK_DEADLOCK FALSE
