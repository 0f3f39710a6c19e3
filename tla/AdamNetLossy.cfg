SPECIFICATION FairSpec
CONSTANTS
  MaxCalls = 3
  Requests <- MCCallsAndReset
  MAX_RETRIES = 2
  LONG_RETRIES = 3
  Waits <- MCWaits
  PacketMax = 2
  MaxHits = 2
CHECK_DEADLOCK FALSE
INVARIANTS TypeOK OwnAnswer
PROPERTY CallReturns
