\* Two decoders and two outputs, one of which wants zeros; nobody's input ends.
SPECIFICATION Spec
CONSTANTS
  Decoders = {d1, d2}
  Outputs = {o1, o2}
  NULL = NULL
  N = 6
  Rsv = 2
  ReqThd = 3
  FullThd = 1
  Frames = {2}
  Pull = 2
  MaxPending = 2
  MaxMissed = 2
  Immediate = {o1}
  InputEnds = FALSE
  Host = NULL
SYMMETRY Symmetry
VIEW AllButRequests
INVARIANTS TypeOK WindowOrdered AllMixed
