SPECIFICATION Spec
CONSTANTS
  MaxCalls = 1
  Requests <- MCCopies
  MAX_RETRIES = 2
  LONG_RETRIES = 3
  Waits <- MCWaits
  PacketMax = 2
  MaxHits = 2
CHECK_DEADLOCK FALSE
INVARIANT CopyCarriedOut
