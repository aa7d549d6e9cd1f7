\* One caller below the audio task in priority; tones are only stopped.
SPECIFICATION Spec
CONSTANTS
  Apps = {a1}
  Scenes = {s1, s2, s3}
  NULL = NULL
  TaskPreempts = TRUE
  TonesEnd = FALSE
  AllocMayFail = FALSE
  MainKinds = {"host", "solo"}
  MaxEvts = 2
SYMMETRY SceneSymmetry
INVARIANTS NoFault NoOrphanScene CoherentWhenSettled
