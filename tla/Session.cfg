CONSTANTS
  Data <- TwoData
  Creators <- TwoCreators
  Zones <- TwoZones
  MAX_COPY_RETRIES = 2
  Sizes <- TwoSizes
  ChunkMax = 3
  MaxOps = 3
  MaxFaults = 2
  Themes <- AllThemes
SPECIFICATION Spec
INVARIANTS HashOfOwnData CodeOfOwnData KeyAsked TimeInZone CopySizesAgree QueryWhole PostedOnce
PROPERTY OperationReturns
CHECK_DEADLOCK FALSE
