\* Two callers the audio task does not preempt; malloc may fail.
SPECIFICATION Spec
CONSTANTS
  Apps = {a1, a2}
  Scenes = {s1, s2}
  NULL = NULL
  TaskPreempts = FALSE
  TonesEnd = FALSE
  AllocMayFail = TRUE
  MainKinds = {"host"}
  MaxEvts = 0
SYMMETRY Symmetry
INVARIANTS OneOperationAtATime
PROPERTIES SingleOwner
