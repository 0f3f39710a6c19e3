CONSTANTS
  MaxCalls = 2
  MaxEarly = 2
  MaxLost = 1
  ReadyResend = 2
  Platforms <- AllPlatforms
  Replies <- TwoLengths
SPECIFICATION Spec
INVARIANTS InStep Confirmed
PROPERTY CallReturns
CHECK_DEADLOCK FALSE
