SPECIFICATION Spec
CONSTANTS
  Addrs = {a, b}
  NULL = NULL
  Kinds = {"cvsd", "msbc", "recorder", "voice", "loopback"}
  TaskPreempts = TRUE
  Chunk = 2
  RingChunks = 3
  AlgoFrame = 3
  AdcFrames = 2
  LoopSize = 12
  FrameMax = 2
  MaxEvts = 4
  MaxEarly = 1
  Wrap = 24
INVARIANTS
  TypeOK
  NoFault
  NothingLost
  ReaderInStep
  NothingWaits
PROPERTIES
  KeepsReporting
