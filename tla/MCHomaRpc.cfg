SPECIFICATION Spec
CONSTANTS
  ReqPkts <- TwoOne
  RespPkts <- TwoOne
  Exact <- NoExact
  Reorder = FALSE
  SendFails = FALSE
  MAX_BUCKET_SIZE = 1
  RESEND_TICK = 2
  NEED_ACK_TICK = 1
  ABORT_RESEND = 1
  ACK_QUEUE = 1
  RX_BATCH_SIZE = 1
  MAX_OUTSTANDING = 1
  Cpus = 2
  MaxNet = 1
  MaxRx = 2
  MaxTx = 1
INVARIANTS HandledOnce  ReapedOnce UnsentQueued
CHECK_DEADLOCK FALSE
