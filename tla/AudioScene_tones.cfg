\* Tones end by themselves; the caller races the audio task.
SPECIFICATION FairSpec
CONSTANTS
  Apps = {a1}
  Scenes = {s1, s2}
  NULL = NULL
  TaskPreempts = FALSE
  TonesEnd = TRUE
  AllocMayFail = FALSE
  MainKinds = {"host"}
  MaxEvts = 1
INVARIANTS TokenNeverLost
PROPERTIES CallsReturn
