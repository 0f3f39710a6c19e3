SPECIFICATION Spec
CONSTANTS
  MaxCalls = 3
  Requests <- MCCalls
  MAX_RETRIES = 2
  LONG_RETRIES = 3
  Waits <- MCWaits
  PacketMax = 2
  MaxHits = 0
CHECK_DEADLOCK FALSE
PROPERTY ImplementsBusCall
