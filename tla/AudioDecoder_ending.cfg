\* Two outputs that take what there is, and come and go; the input may end.  The
\* program stops when it has used a freed block.
CHECK_DEADLOCK FALSE
SPECIFICATION Spec
CONSTANTS
  Decoders = {d1}
  Outputs = {o1, o2}
  NULL = NULL
  N = 6
  Rsv = 2
  ReqThd = 3
  FullThd = 1
  Frames = {2}
  Pull = 2
  MaxPending = 2
  MaxMissed = 0
  Immediate = {}
  InputEnds = TRUE
  Host = NULL
PROPERTIES NeedyIsAsked
