\* One decoder whose input ends: a freed block is used.
SPECIFICATION Spec
CONSTANTS
  Decoders = {d1}
  Outputs = {o1}
  NULL = NULL
  N = 6
  Rsv = 2
  ReqThd = 3
  FullThd = 1
  Frames = {2, 3}
  Pull = 2
  MaxPending = 4
  MaxMissed = 2
  Immediate = {o1}
  InputEnds = TRUE
  Host = NULL
INVARIANTS BlocksIntact
