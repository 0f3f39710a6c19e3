SPECIFICATION FairSpec
CONSTANTS
  MaxCalls = 4
  SeqMod = 3
  TxMax <- MCTxMax
  ReplyMax <- MCReplyMax
  RxLens <- MCRxLens
  Requests <- MCRequests
  MaxResets = 2
  BudgetOutlasts = FALSE
  CartMisses = TRUE
CHECK_DEADLOCK FALSE
INVARIANTS TypeOK OwnReply CommandWhole ReplyFits
PROPERTY CallReturns
