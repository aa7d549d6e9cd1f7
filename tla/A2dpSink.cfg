\* The decoder of a2dp_sink alone on its ring, with frames coming in and underruns.
SPECIFICATION SinkSpec
CONSTANTS
  Decoders = {d1}
  Outputs = {o1}
  NULL = NULL
  d1 = d1
  o1 = o1
  N = 6
  Rsv = 2
  ReqThd = 3
  FullThd = 1
  Frames = {3}
  Pull = 2
  MaxPending = 3
  MaxMissed = 0
  Immediate = {o1}
  InputEnds = FALSE
  Host = d1
  ReadyThd = 2
  MaxThd = 3
  MaxReqs = 2
  Speaker = o1
INVARIANTS SinkTypeOK NothingStaleIsPlayed
PROPERTIES StreamResumes StartsWithReserve
