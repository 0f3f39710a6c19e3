SPECIFICATION Spec
CONSTANTS
  MaxCalls = 2
  Devices = {fuji, net}
  PayloadLens <- MCPayloadLens
  AnswerLens <- MCAnswerLens
  DrainMax = 4
  SyncMax = 3
  MaxHits = 1
  Prompt = FALSE
  FalseEnds = TRUE
CHECK_DEADLOCK FALSE
INVARIANTS TypeOK OwnReply WholeReply
