SPECIFICATION Spec
CONSTANTS
  Ports = {"uart", "uart1", "spi", "slave", "i2c"}
  Depth = 2
  TxThd = 1
  RxThd = 1
  MaxSize = 3
  Waits = TRUE
  Flow = TRUE
  LateRestarts = FALSE
  Unanswered = FALSE
  EarlyHandler = FALSE
INVARIANTS TypeOK NothingLost TrueMeansDone
PROPERTY TransfersEnd
