SPECIFICATION FairSpec
CONSTANTS
  MaxCalls = 3
  Devices = {fuji}
  PayloadLens <- MCTwo
  AnswerLens <- MCNoneOrTwo
  DrainMax = 2
  SyncMax = 6
  MaxHits = 2
  Prompt = TRUE
  FalseEnds = FALSE
CHECK_DEADLOCK FALSE
PROPERTIES ImplementsBusCall CallReturns
