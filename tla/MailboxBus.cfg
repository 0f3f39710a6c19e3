SPECIFICATION Spec
CONSTANTS
  MaxCalls = 4
  SeqMod = 3
  TxMax <- MCTxMax
  ReplyMax <- MCReplyMax
  RxLens <- MCRxLens
  Requests <- MCRequests
  MaxResets = 0
  BudgetOutlasts = TRUE
  CartMisses = FALSE
CHECK_DEADLOCK FALSE
INVARIANT QuietCallIsAnswered
PROPERTY ImplementsBusCall
